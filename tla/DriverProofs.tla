----------------------------- MODULE DriverProofs ----------------------------
(***************************************************************************)
(* The drivers that tasks share: the SPI bus and the hardware timers, for  *)
(* any number of users and any timers.                                     *)
(***************************************************************************)
EXTENDS SpiBus, HwTimer, FiniteSetTheorems, TLAPS

Inside == {"enter", "start", "wait", "leave", "unlock"}
Making == {"dev", "mutex", "create"}
Moving == {"start", "wait"}

BusTypes ==
    /\ bpc \in [Users -> {"idle", "lock", "locking", "release", "null"}
                            \cup Inside \cup Making]
    /\ kind \in [Users -> Transfers \cup {"init", "deinit"}]
    /\ locking \in [Users -> 0 .. made]
    /\ made \in 0 .. MaxInits /\ spi_mutex \in 0 .. made /\ deleted \subseteq 1 .. made
    /\ owner \in [Mutexes -> Users \cup {NoUser}]
    /\ spi_dev \in BOOLEAN /\ finish_sem \in {0, 1}

(* An init is alone, and there is room for its mutex; a transfer moves.    *)
KindInv == \A u \in Users :
    /\ bpc[u] \in Making <=> kind[u] = "init"
    /\ bpc[u] \in Making => made < MaxInits /\ \A v \in Users \ {u} : bpc[v] = "idle"
    /\ bpc[u] \in Moving \cup {"leave"} => kind[u] \in Transfers
    /\ bpc[u] = "unlock" /\ kind[u] = "deinit" => ~ spi_dev
    /\ bpc[u] \in {"release", "null"} => ~ spi_dev
    /\ bpc[u] = "locking" => locking[u] # NULL
    /\ bpc[u] = "idle" => kind[u] = "send"

(* Every mutex but the one in use has been deleted, and who holds that one *)
(* is past it; those not made yet are free.                                *)
OwnerInv ==
    /\ \A m \in 1 .. made : m = spi_mutex \/ m \in deleted
    /\ \A m \in Mutexes : m > made => owner[m] = NoUser
    /\ \A u \in Users : /\ bpc[u] = "null" => spi_mutex \in deleted \cup {NULL}
                        /\ bpc[u] = "create" => spi_mutex = NULL
    /\ spi_mutex # NULL /\ spi_mutex \notin deleted /\ owner[spi_mutex] # NoUser =>
          bpc[owner[spi_mutex]] \in Inside

(* With a device, and after init, only the mutex's holder is past it.      *)
DeviceInv ==
    ~ broken =>
      /\ \A u \in Users : bpc[u] \in Moving => spi_dev
      /\ spi_mutex \in deleted => \E u \in Users : bpc[u] = "null"
      /\ spi_dev /\ (\A u \in Users : kind[u] # "init") =>
            /\ spi_mutex # NULL
            /\ \A u \in Users : /\ bpc[u] \in Inside => owner[spi_mutex] = u
                                /\ bpc[u] = "locking" => locking[u] = spi_mutex

(* While nothing hasty is done, data moves in one direction, for a task    *)
(* that waits, and a post is there only after it.                          *)
DataInv ==
    ~ broken /\ ~ hasty =>
      /\ dma # {} \/ finish_sem = 1 => \E u \in Users : bpc[u] = "wait"
      /\ dma # {} => finish_sem = 0
      /\ dma \subseteq {"tx", "rx"} /\ \A d, e \in dma : d = e
      /\ \A u \in Users : bpc[u] \in Moving => cs = "low"
      /\ \A u \in Users : kind[u] # "duplex"
      /\ ~ spci_flag

SoleMover == \A u, v \in Users : bpc[u] \in Moving /\ bpc[v] \in Moving => u = v

BusInv ==
    /\ BusTypes /\ KindInv /\ OwnerInv /\ DeviceInv /\ DataInv
    /\ SoleMover /\ HalfDuplexUnderSelect

(* While a task is in a call that is no init, no init is under way.        *)
LEMMA NoInitBeside ==
    ASSUME BusInv, NEW u \in Users, bpc[u] \notin Making \cup {"idle"}, NEW v \in Users
    PROVE  kind[v] # "init"
  <1>1. bpc[v] \in Making => u = v
    BY DEF BusInv, KindInv, Making
  <1>2. QED
    BY <1>1 DEF BusInv, KindInv

(* A task whose data moves is alone past the mutex.                        *)
LEMMA MoverAlone ==
    ASSUME BusInv, ~ broken, NEW u \in Users, NEW v \in Users,
           bpc[u] \in Moving, bpc[v] \in Inside
    PROVE  u = v
  <1>1. \A w \in Users : kind[w] # "init"
    BY NoInitBeside DEF Moving, Making
  <1>2. spi_dev
    BY DEF BusInv, DeviceInv
  <1>3. QED
    BY <1>1, <1>2 DEF BusInv, DeviceInv, Moving, Inside

(* A mutex that is taken, or given back, leaves owner what it is.          *)
LEMMA OwnerTyped ==
    ASSUME NEW M, NEW o \in [M -> Users \cup {NoUser}], NEW m, NEW u \in Users \cup {NoUser}
    PROVE  [o EXCEPT ![m] = u] \in [M -> Users \cup {NoUser}]
  OBVIOUS

(* No step takes a value out of its type.                                  *)
LEMMA TypesHold == BusInv /\ [BNext]_bvars => BusTypes'
  <1> SUFFICES ASSUME BusInv, [BNext]_bvars PROVE BusTypes'
    OBVIOUS
  <1> USE SpiAssumption DEF SpiAssumption, flags, BusInv, BusTypes, Transfers, Mutexes, NULL,
        Inside, Making, Moving, KindInv
  <1>1. ASSUME NEW u \in Users, BusCall(u) PROVE BusTypes'
    BY <1>1 DEF AtBus, BusTo, BusCall, lock, wire
  <1>2. ASSUME NEW u \in Users, LockRead(u) PROVE BusTypes'
    BY <1>2 DEF AtBus, BusTo, LockRead, lock, wire
  <1>3. ASSUME NEW u \in Users, LockTaken(u) PROVE BusTypes'
    <2>1. locking[u] \in Mutexes
      BY <1>3 DEF LockTaken, AtBus
    <2>2. CASE locking[u] \in deleted
      BY <1>3, <2>2 DEF LockTaken, wire
    <2>3. CASE locking[u] \notin deleted
      <3>1. owner' = [owner EXCEPT ![locking[u]] = u]
        BY <1>3, <2>3 DEF LockTaken
      <3>2. owner \in [Mutexes -> Users \cup {NoUser}]
        OBVIOUS
      <3>3. bpc' \in [Users -> {"idle", "lock", "locking", "release", "null"}
                                   \cup Inside \cup Making]
        BY <1>3, <2>3 DEF LockTaken, BusTo
      <3>4. QED
        <4>1. owner' \in [Mutexes -> Users \cup {NoUser}]
          <5> HIDE DEF BusInv, BusTypes, KindInv, Mutexes, SpiAssumption
          <5>1. QED
            BY <3>1, <3>2, OwnerTyped
        <4>2. QED
          BY <1>3, <4>1, <3>3 DEF LockTaken, wire
    <2>4. QED
      BY <2>2, <2>3
  <1>4. ASSUME NEW u \in Users, XferEnter(u) PROVE BusTypes'
    BY <1>4 DEF AtBus, BusTo, XferEnter, lock
  <1>5. ASSUME NEW u \in Users, XferStart(u) PROVE BusTypes'
    BY <1>5 DEF AtBus, BusTo, XferStart, Moves, OnePack, lock
  <1>6. ASSUME NEW u \in Users, XferWait(u) PROVE BusTypes'
    BY <1>6 DEF AtBus, BusTo, XferWait, lock
  <1>7. ASSUME NEW u \in Users, XferLeave(u) PROVE BusTypes'
    BY <1>7 DEF AtBus, BusTo, XferLeave, lock
  <1>8. ASSUME NEW u \in Users, BusUnlock(u) PROVE BusTypes'
    <2>1. owner' = owner \/ owner' = [owner EXCEPT ![spi_mutex] = NoUser]
      BY <1>8 DEF BusUnlock
    <2>2. owner \in [Mutexes -> Users \cup {NoUser}]
      OBVIOUS
    <2>3. owner' \in [Mutexes -> Users \cup {NoUser}]
      <3> HIDE DEF BusInv, BusTypes, KindInv, Mutexes, SpiAssumption
      <3>1. QED
        BY <2>1, <2>2, OwnerTyped
    <2>4. locking' \in [Users -> 0 .. made]
      BY <1>8 DEF BusUnlock, BusReturn
    <2>5. kind' \in [Users -> Transfers \cup {"init", "deinit"}]
      BY <1>8, SMTT(30) DEF BusUnlock, BusReturn
    <2>6. QED
      BY <1>8, <2>3, <2>4, <2>5 DEF BusUnlock, BusReturn, BusTo, wire
  <1>9. ASSUME NEW u \in Users, DevDeinit(u) PROVE BusTypes'
    BY <1>9 DEF AtBus, BusTo, DevDeinit, lock
  <1>10. ASSUME NEW u \in Users, MutexRelease(u) PROVE BusTypes'
    BY <1>10 DEF AtBus, BusTo, MutexRelease, wire
  <1>11. ASSUME NEW u \in Users, MutexNull(u) PROVE BusTypes'
    BY <1>11 DEF AtBus, BusTo, MutexNull, BusReturn, wire
  <1>12. ASSUME NEW u \in Users, DevInit(u) PROVE BusTypes'
    BY <1>12 DEF AtBus, BusTo, DevInit, lock
  <1>13. ASSUME NEW u \in Users, MutexKeep(u) PROVE BusTypes'
    BY <1>13 DEF AtBus, BusTo, MutexKeep, BusReturn, lock, wire
  <1>14. ASSUME NEW u \in Users, MutexCheck(u) PROVE BusTypes'
    BY <1>14 DEF AtBus, BusTo, MutexCheck, lock, wire
  <1>15. ASSUME NEW u \in Users, MutexCreate(u) PROVE BusTypes'
    BY <1>15 DEF AtBus, BusTo, MutexCreate, BusReturn, wire
  <1>16. ASSUME NEW d \in AllMoves, FinishIrq(d) PROVE BusTypes'
    BY <1>16 DEF FinishIrq, lock, tasks
  <1>17. ASSUME NEW u \in Users, SetFlag(u) PROVE BusTypes'
    BY <1>17 DEF SetFlag, lock, wire, tasks
  <1>18. CASE UNCHANGED bvars
    BY <1>18 DEF bvars, lock, wire, tasks
  <1> HIDE DEF BusInv, BusTypes
  <1>19. QED
    BY <1>1, <1>2, <1>3, <1>4, <1>5, <1>6, <1>7, <1>8, <1>9, <1>10, <1>11, <1>12,
       <1>13, <1>14, <1>15, <1>16, <1>17, <1>18
       DEF BNext, BusStep

(* No step makes two inits meet, or takes a transfer or a deinit out of    *)
(* its order.                                                              *)
LEMMA KindHolds == BusInv /\ [BNext]_bvars => KindInv'
  <1> SUFFICES ASSUME BusInv, [BNext]_bvars PROVE KindInv'
    OBVIOUS
  <1> USE SpiAssumption DEF SpiAssumption, flags, BusInv, BusTypes, Transfers, Mutexes, NULL,
        Inside, Making, Moving, KindInv
  <1>1. ASSUME NEW u \in Users, BusCall(u) PROVE KindInv'
    BY <1>1 DEF AtBus, BusTo, BusCall, lock, wire
  <1>2. ASSUME NEW u \in Users, LockRead(u) PROVE KindInv'
    BY <1>2 DEF AtBus, BusTo, LockRead, lock, wire
  <1>3. ASSUME NEW u \in Users, LockTaken(u) PROVE KindInv'
    BY <1>3 DEF AtBus, BusTo, LockTaken, wire
  <1>4. ASSUME NEW u \in Users, XferEnter(u) PROVE KindInv'
    BY <1>4 DEF AtBus, BusTo, XferEnter, lock
  <1>5. ASSUME NEW u \in Users, XferStart(u) PROVE KindInv'
    BY <1>5 DEF AtBus, BusTo, XferStart, Moves, OnePack, lock
  <1>6. ASSUME NEW u \in Users, XferWait(u) PROVE KindInv'
    BY <1>6 DEF AtBus, BusTo, XferWait, lock
  <1>7. ASSUME NEW u \in Users, XferLeave(u) PROVE KindInv'
    BY <1>7 DEF AtBus, BusTo, XferLeave, lock
  <1>8. ASSUME NEW u \in Users, BusUnlock(u) PROVE KindInv'
    BY <1>8 DEF AtBus, BusTo, BusUnlock, BusReturn, wire
  <1>9. ASSUME NEW u \in Users, DevDeinit(u) PROVE KindInv'
    BY <1>9 DEF AtBus, BusTo, DevDeinit, lock
  <1>10. ASSUME NEW u \in Users, MutexRelease(u) PROVE KindInv'
    BY <1>10 DEF AtBus, BusTo, MutexRelease, wire
  <1>11. ASSUME NEW u \in Users, MutexNull(u) PROVE KindInv'
    BY <1>11 DEF AtBus, BusTo, MutexNull, BusReturn, wire
  <1>12. ASSUME NEW u \in Users, DevInit(u) PROVE KindInv'
    BY <1>12 DEF AtBus, BusTo, DevInit, lock
  <1>13. ASSUME NEW u \in Users, MutexKeep(u) PROVE KindInv'
    BY <1>13 DEF AtBus, BusTo, MutexKeep, BusReturn, lock, wire
  <1>14. ASSUME NEW u \in Users, MutexCheck(u) PROVE KindInv'
    BY <1>14 DEF AtBus, BusTo, MutexCheck, lock, wire
  <1>15. ASSUME NEW u \in Users, MutexCreate(u) PROVE KindInv'
    BY <1>15 DEF AtBus, BusTo, MutexCreate, BusReturn, wire
  <1>16. ASSUME NEW d \in AllMoves, FinishIrq(d) PROVE KindInv'
    BY <1>16 DEF FinishIrq, lock, tasks
  <1>17. ASSUME NEW u \in Users, SetFlag(u) PROVE KindInv'
    BY <1>17 DEF SetFlag, lock, wire, tasks
  <1>18. CASE UNCHANGED bvars
    BY <1>18 DEF bvars, lock, wire, tasks
  <1> HIDE DEF BusInv, KindInv
  <1>19. QED
    BY <1>1, <1>2, <1>3, <1>4, <1>5, <1>6, <1>7, <1>8, <1>9, <1>10, <1>11, <1>12,
       <1>13, <1>14, <1>15, <1>16, <1>17, <1>18
       DEF BNext, BusStep

(* No step leaves a mutex behind that is not deleted, or one that is held  *)
(* by a task that is not past it.                                          *)
LEMMA OwnerHolds == BusInv /\ [BNext]_bvars => OwnerInv'
  <1> SUFFICES ASSUME BusInv, [BNext]_bvars PROVE OwnerInv'
    OBVIOUS
  <1> USE SpiAssumption DEF SpiAssumption, flags, BusInv, BusTypes, Transfers, Mutexes, NULL,
        Inside, Making, Moving, KindInv, OwnerInv
  <1>1. ASSUME NEW u \in Users, BusCall(u) PROVE OwnerInv'
    BY <1>1 DEF AtBus, BusTo, BusCall, lock, wire
  <1>2. ASSUME NEW u \in Users, LockRead(u) PROVE OwnerInv'
    BY <1>2 DEF AtBus, BusTo, LockRead, lock, wire
  <1>3. ASSUME NEW u \in Users, LockTaken(u) PROVE OwnerInv'
    BY <1>3 DEF AtBus, BusTo, LockTaken, wire
  <1>4. ASSUME NEW u \in Users, XferEnter(u) PROVE OwnerInv'
    BY <1>4 DEF AtBus, BusTo, XferEnter, lock
  <1>5. ASSUME NEW u \in Users, XferStart(u) PROVE OwnerInv'
    BY <1>5 DEF AtBus, BusTo, XferStart, Moves, OnePack, lock
  <1>6. ASSUME NEW u \in Users, XferWait(u) PROVE OwnerInv'
    BY <1>6 DEF AtBus, BusTo, XferWait, lock
  <1>7. ASSUME NEW u \in Users, XferLeave(u) PROVE OwnerInv'
    BY <1>7 DEF AtBus, BusTo, XferLeave, lock
  <1>8. ASSUME NEW u \in Users, BusUnlock(u) PROVE OwnerInv'
    BY <1>8 DEF AtBus, BusTo, BusUnlock, BusReturn, wire
  <1>9. ASSUME NEW u \in Users, DevDeinit(u) PROVE OwnerInv'
    BY <1>9 DEF AtBus, BusTo, DevDeinit, lock
  <1>10. ASSUME NEW u \in Users, MutexRelease(u) PROVE OwnerInv'
    BY <1>10 DEF AtBus, BusTo, MutexRelease, wire
  <1>11. ASSUME NEW u \in Users, MutexNull(u) PROVE OwnerInv'
    BY <1>11 DEF AtBus, BusTo, MutexNull, BusReturn, wire
  <1>12. ASSUME NEW u \in Users, DevInit(u) PROVE OwnerInv'
    BY <1>12 DEF AtBus, BusTo, DevInit, lock
  <1>13. ASSUME NEW u \in Users, MutexKeep(u) PROVE OwnerInv'
    BY <1>13 DEF AtBus, BusTo, MutexKeep, BusReturn, lock, wire
  <1>14. ASSUME NEW u \in Users, MutexCheck(u) PROVE OwnerInv'
    BY <1>14 DEF AtBus, BusTo, MutexCheck, lock, wire
  <1>15. ASSUME NEW u \in Users, MutexCreate(u) PROVE OwnerInv'
    BY <1>15 DEF AtBus, BusTo, MutexCreate, BusReturn, wire
  <1>16. ASSUME NEW d \in AllMoves, FinishIrq(d) PROVE OwnerInv'
    BY <1>16 DEF FinishIrq, lock, tasks
  <1>17. ASSUME NEW u \in Users, SetFlag(u) PROVE OwnerInv'
    BY <1>17 DEF SetFlag, lock, wire, tasks
  <1>18. CASE UNCHANGED bvars
    BY <1>18 DEF bvars, lock, wire, tasks
  <1> HIDE DEF BusInv, OwnerInv
  <1>19. QED
    BY <1>1, <1>2, <1>3, <1>4, <1>5, <1>6, <1>7, <1>8, <1>9, <1>10, <1>11, <1>12,
       <1>13, <1>14, <1>15, <1>16, <1>17, <1>18
       DEF BNext, BusStep

(* No step lets a second task past the mutex while there is a device.      *)
LEMMA DeviceHolds == BusInv /\ [BNext]_bvars => DeviceInv'
  <1> SUFFICES ASSUME BusInv, [BNext]_bvars PROVE DeviceInv'
    OBVIOUS
  <1> USE SpiAssumption DEF SpiAssumption, flags, BusInv, BusTypes, Transfers, Mutexes, NULL,
        Inside, Making, Moving, KindInv, OwnerInv, DeviceInv
  <1>1. ASSUME NEW u \in Users, BusCall(u) PROVE DeviceInv'
    BY <1>1, NoInitBeside DEF AtBus, BusTo, BusCall, lock, wire
  <1>2. ASSUME NEW u \in Users, LockRead(u) PROVE DeviceInv'
    BY <1>2, NoInitBeside DEF AtBus, BusTo, LockRead, lock, wire
  <1>3. ASSUME NEW u \in Users, LockTaken(u) PROVE DeviceInv'
    BY <1>3, NoInitBeside DEF AtBus, BusTo, LockTaken, wire
  <1>4. ASSUME NEW u \in Users, XferEnter(u) PROVE DeviceInv'
    BY <1>4, NoInitBeside DEF AtBus, BusTo, XferEnter, lock
  <1>5. ASSUME NEW u \in Users, XferStart(u) PROVE DeviceInv'
    BY <1>5, NoInitBeside DEF AtBus, BusTo, XferStart, Moves, OnePack, lock
  <1>6. ASSUME NEW u \in Users, XferWait(u) PROVE DeviceInv'
    BY <1>6, NoInitBeside DEF AtBus, BusTo, XferWait, lock
  <1>7. ASSUME NEW u \in Users, XferLeave(u) PROVE DeviceInv'
    BY <1>7, NoInitBeside DEF AtBus, BusTo, XferLeave, lock
  <1>8. ASSUME NEW u \in Users, BusUnlock(u) PROVE DeviceInv'
    <2>1. /\ bpc[u] = "unlock" /\ ~ broken /\ bpc'[u] \in {"idle", "release"}
          /\ \A v \in Users \ {u} : bpc'[v] = bpc[v]
          /\ locking' = [locking EXCEPT ![u] = NULL] \/ locking' = locking
          /\ UNCHANGED <<spi_mutex, deleted, spi_dev>>
      BY <1>8 DEF AtBus, BusTo, BusUnlock, BusReturn, wire
    <2>2. \A v \in Users : kind[v] # "init"
      BY <2>1, NoInitBeside
    <2>3. spi_dev => spi_mutex # NULL /\ owner[spi_mutex] = u
      BY <2>1, <2>2
    <2>4. spi_dev => \A v \in Users \ {u} :
            bpc[v] \notin Inside /\ (bpc[v] = "locking" => locking'[v] = spi_mutex)
      BY <2>1, <2>2, <2>3
    <2>5. \A v \in Users : bpc'[v] \in Moving => spi_dev'
      BY <2>1
    <2>6. ASSUME spi_mutex \in deleted PROVE \E v \in Users : bpc'[v] = "null"
      <3>1. PICK v \in Users : bpc[v] = "null"
        BY <2>1, <2>6
      <3>2. QED
        BY <2>1, <3>1
    <2>7. QED
      BY <2>1, <2>3, <2>4, <2>5, <2>6
  <1>9. ASSUME NEW u \in Users, DevDeinit(u) PROVE DeviceInv'
    BY <1>9, NoInitBeside DEF AtBus, BusTo, DevDeinit, lock
  <1>10. ASSUME NEW u \in Users, MutexRelease(u) PROVE DeviceInv'
    BY <1>10, NoInitBeside DEF AtBus, BusTo, MutexRelease, wire
  <1>11. ASSUME NEW u \in Users, MutexNull(u) PROVE DeviceInv'
    BY <1>11, NoInitBeside DEF AtBus, BusTo, MutexNull, BusReturn, wire
  <1>12. ASSUME NEW u \in Users, DevInit(u) PROVE DeviceInv'
    BY <1>12, NoInitBeside DEF AtBus, BusTo, DevInit, lock
  <1>13. ASSUME NEW u \in Users, MutexKeep(u) PROVE DeviceInv'
    BY <1>13, NoInitBeside DEF AtBus, BusTo, MutexKeep, BusReturn, lock, wire
  <1>14. ASSUME NEW u \in Users, MutexCheck(u) PROVE DeviceInv'
    BY <1>14, NoInitBeside DEF AtBus, BusTo, MutexCheck, lock, wire
  <1>15. ASSUME NEW u \in Users, MutexCreate(u) PROVE DeviceInv'
    BY <1>15, NoInitBeside DEF AtBus, BusTo, MutexCreate, BusReturn, wire
  <1>16. ASSUME NEW d \in AllMoves, FinishIrq(d) PROVE DeviceInv'
    BY <1>16, NoInitBeside DEF FinishIrq, lock, tasks
  <1>17. ASSUME NEW u \in Users, SetFlag(u) PROVE DeviceInv'
    BY <1>17 DEF SetFlag, lock, wire, tasks
  <1>18. CASE UNCHANGED bvars
    BY <1>18 DEF bvars, lock, wire, tasks
  <1> HIDE DEF BusInv, DeviceInv
  <1>19. QED
    BY <1>1, <1>2, <1>3, <1>4, <1>5, <1>6, <1>7, <1>8, <1>9, <1>10, <1>11, <1>12,
       <1>13, <1>14, <1>15, <1>16, <1>17, <1>18
       DEF BNext, BusStep

(* No step starts a second direction, or loses a post, before full duplex. *)
LEMMA DataHolds == BusInv /\ [BNext]_bvars => DataInv'
  <1> SUFFICES ASSUME BusInv, [BNext]_bvars PROVE DataInv'
    OBVIOUS
  <1> USE SpiAssumption DEF SpiAssumption, flags, BusInv, BusTypes, Transfers, Mutexes, NULL,
        Inside, Making, Moving, KindInv, DataInv
  <1>1. ASSUME NEW u \in Users, BusCall(u) PROVE DataInv'
    <2>1. PICK k \in Kinds :
            /\ kind' = [kind EXCEPT ![u] = k] /\ hasty' = (hasty \/ k = "duplex")
            /\ bpc' = [bpc EXCEPT ![u] = IF k = "init" THEN "dev" ELSE "lock"]
      BY <1>1 DEF BusCall, BusTo
    <2>2. /\ UNCHANGED <<dma, finish_sem, cs, spci_flag, broken>> /\ bpc[u] = "idle"
      BY <1>1 DEF BusCall, AtBus, wire
    <2>3. CASE ~ broken /\ ~ hasty /\ k # "duplex"
      BY <2>1, <2>2, <2>3
    <2>4. QED
      BY <2>1, <2>2, <2>3
  <1>2. ASSUME NEW u \in Users, LockRead(u) PROVE DataInv'
    BY <1>2, MoverAlone DEF AtBus, BusTo, LockRead, lock, wire
  <1>3. ASSUME NEW u \in Users, LockTaken(u) PROVE DataInv'
    BY <1>3, MoverAlone DEF AtBus, BusTo, LockTaken, wire
  <1>4. ASSUME NEW u \in Users, XferEnter(u) PROVE DataInv'
    BY <1>4, MoverAlone DEF AtBus, BusTo, XferEnter, lock
  <1>5. ASSUME NEW u \in Users, XferStart(u) PROVE DataInv'
    BY <1>5, MoverAlone DEF AtBus, BusTo, XferStart, Moves, OnePack, lock
  <1>6. ASSUME NEW u \in Users, XferWait(u) PROVE DataInv'
    BY <1>6, MoverAlone DEF AtBus, BusTo, XferWait, lock
  <1>7. ASSUME NEW u \in Users, XferLeave(u) PROVE DataInv'
    BY <1>7, MoverAlone DEF AtBus, BusTo, XferLeave, lock
  <1>8. ASSUME NEW u \in Users, BusUnlock(u) PROVE DataInv'
    BY <1>8, MoverAlone DEF AtBus, BusTo, BusUnlock, BusReturn, wire
  <1>9. ASSUME NEW u \in Users, DevDeinit(u) PROVE DataInv'
    BY <1>9, MoverAlone DEF AtBus, BusTo, DevDeinit, lock
  <1>10. ASSUME NEW u \in Users, MutexRelease(u) PROVE DataInv'
    BY <1>10, MoverAlone DEF AtBus, BusTo, MutexRelease, wire
  <1>11. ASSUME NEW u \in Users, MutexNull(u) PROVE DataInv'
    BY <1>11, MoverAlone DEF AtBus, BusTo, MutexNull, BusReturn, wire
  <1>12. ASSUME NEW u \in Users, DevInit(u) PROVE DataInv'
    <2>1. /\ bpc[u] = "dev" /\ bpc' = [bpc EXCEPT ![u] = "mutex"] /\ kind' = kind
          /\ dma' = {} /\ finish_sem' = 0 /\ hasty' = spci_flag'
      BY <1>12 DEF AtBus, BusTo, DevInit
    <2>2. kind[u] = "init" /\ \A v \in Users \ {u} : bpc[v] = "idle" /\ kind[v] = "send"
      BY <2>1
    <2>3. \A v \in Users : bpc'[v] \notin Moving /\ kind'[v] # "duplex"
      BY <2>1, <2>2
    <2>4. QED
      BY <2>1, <2>3
  <1>13. ASSUME NEW u \in Users, MutexKeep(u) PROVE DataInv'
    BY <1>13, MoverAlone DEF AtBus, BusTo, MutexKeep, BusReturn, lock, wire
  <1>14. ASSUME NEW u \in Users, MutexCheck(u) PROVE DataInv'
    BY <1>14, MoverAlone DEF AtBus, BusTo, MutexCheck, lock, wire
  <1>15. ASSUME NEW u \in Users, MutexCreate(u) PROVE DataInv'
    BY <1>15, MoverAlone DEF AtBus, BusTo, MutexCreate, BusReturn, wire
  <1>16. ASSUME NEW d \in AllMoves, FinishIrq(d) PROVE DataInv'
    BY <1>16, MoverAlone DEF FinishIrq, lock, tasks
  <1>17. ASSUME NEW u \in Users, SetFlag(u) PROVE DataInv'
    BY <1>17 DEF SetFlag, lock, wire, tasks
  <1>18. CASE UNCHANGED bvars
    BY <1>18 DEF bvars, lock, wire, tasks
  <1> HIDE DEF BusInv, DataInv
  <1>19. QED
    BY <1>1, <1>2, <1>3, <1>4, <1>5, <1>6, <1>7, <1>8, <1>9, <1>10, <1>11, <1>12,
       <1>13, <1>14, <1>15, <1>16, <1>17, <1>18
       DEF BNext, BusStep

(* No step makes a second task move data, not even the one that uses what  *)
(* is deleted.                                                             *)
LEMMA SoleHolds == BusInv /\ [BNext]_bvars => SoleMover'
  <1> SUFFICES ASSUME BusInv, [BNext]_bvars PROVE SoleMover'
    OBVIOUS
  <1> USE SpiAssumption DEF SpiAssumption, flags, BusInv, BusTypes, Transfers, Mutexes, NULL,
        Inside, Making, Moving, SoleMover
  <1>1. ASSUME NEW u \in Users, BusCall(u) PROVE SoleMover'
    BY <1>1, MoverAlone DEF AtBus, BusTo, BusCall, lock, wire
  <1>2. ASSUME NEW u \in Users, LockRead(u) PROVE SoleMover'
    BY <1>2, MoverAlone DEF AtBus, BusTo, LockRead, lock, wire
  <1>3. ASSUME NEW u \in Users, LockTaken(u) PROVE SoleMover'
    BY <1>3, MoverAlone DEF AtBus, BusTo, LockTaken, wire
  <1>4. ASSUME NEW u \in Users, XferEnter(u) PROVE SoleMover'
    BY <1>4, MoverAlone DEF AtBus, BusTo, XferEnter, lock
  <1>5. ASSUME NEW u \in Users, XferStart(u) PROVE SoleMover'
    BY <1>5, MoverAlone DEF AtBus, BusTo, XferStart, Moves, OnePack, lock
  <1>6. ASSUME NEW u \in Users, XferWait(u) PROVE SoleMover'
    BY <1>6, MoverAlone DEF AtBus, BusTo, XferWait, lock
  <1>7. ASSUME NEW u \in Users, XferLeave(u) PROVE SoleMover'
    BY <1>7, MoverAlone DEF AtBus, BusTo, XferLeave, lock
  <1>8. ASSUME NEW u \in Users, BusUnlock(u) PROVE SoleMover'
    BY <1>8, MoverAlone DEF AtBus, BusTo, BusUnlock, BusReturn, wire
  <1>9. ASSUME NEW u \in Users, DevDeinit(u) PROVE SoleMover'
    BY <1>9, MoverAlone DEF AtBus, BusTo, DevDeinit, lock
  <1>10. ASSUME NEW u \in Users, MutexRelease(u) PROVE SoleMover'
    BY <1>10, MoverAlone DEF AtBus, BusTo, MutexRelease, wire
  <1>11. ASSUME NEW u \in Users, MutexNull(u) PROVE SoleMover'
    BY <1>11, MoverAlone DEF AtBus, BusTo, MutexNull, BusReturn, wire
  <1>12. ASSUME NEW u \in Users, DevInit(u) PROVE SoleMover'
    BY <1>12, MoverAlone DEF AtBus, BusTo, DevInit, lock
  <1>13. ASSUME NEW u \in Users, MutexKeep(u) PROVE SoleMover'
    BY <1>13, MoverAlone DEF AtBus, BusTo, MutexKeep, BusReturn, lock, wire
  <1>14. ASSUME NEW u \in Users, MutexCheck(u) PROVE SoleMover'
    BY <1>14, MoverAlone DEF AtBus, BusTo, MutexCheck, lock, wire
  <1>15. ASSUME NEW u \in Users, MutexCreate(u) PROVE SoleMover'
    BY <1>15, MoverAlone DEF AtBus, BusTo, MutexCreate, BusReturn, wire
  <1>16. ASSUME NEW d \in AllMoves, FinishIrq(d) PROVE SoleMover'
    BY <1>16, MoverAlone DEF FinishIrq, lock, tasks
  <1>17. ASSUME NEW u \in Users, SetFlag(u) PROVE SoleMover'
    BY <1>17 DEF SetFlag, lock, wire, tasks
  <1>18. CASE UNCHANGED bvars
    BY <1>18 DEF bvars, lock, wire, tasks
  <1> HIDE DEF BusInv, SoleMover
  <1>19. QED
    BY <1>1, <1>2, <1>3, <1>4, <1>5, <1>6, <1>7, <1>8, <1>9, <1>10, <1>11, <1>12,
       <1>13, <1>14, <1>15, <1>16, <1>17, <1>18
       DEF BNext, BusStep

(* No step raises the chip select while data moves, before full duplex.    *)
LEMMA SelectHolds == BusInv /\ [BNext]_bvars => HalfDuplexUnderSelect'
  <1> SUFFICES ASSUME BusInv, [BNext]_bvars PROVE HalfDuplexUnderSelect'
    OBVIOUS
  <1> USE SpiAssumption DEF SpiAssumption, flags, BusInv, BusTypes, Transfers, Mutexes, NULL,
        Inside, Making, Moving, DataInv, KindInv, HalfDuplexUnderSelect, DataUnderSelect
  <1>1. ASSUME NEW u \in Users, BusCall(u) PROVE HalfDuplexUnderSelect'
    BY <1>1, MoverAlone DEF AtBus, BusTo, BusCall, lock, wire
  <1>2. ASSUME NEW u \in Users, LockRead(u) PROVE HalfDuplexUnderSelect'
    BY <1>2, MoverAlone DEF AtBus, BusTo, LockRead, lock, wire
  <1>3. ASSUME NEW u \in Users, LockTaken(u) PROVE HalfDuplexUnderSelect'
    BY <1>3, MoverAlone DEF AtBus, BusTo, LockTaken, wire
  <1>4. ASSUME NEW u \in Users, XferEnter(u) PROVE HalfDuplexUnderSelect'
    BY <1>4, MoverAlone DEF AtBus, BusTo, XferEnter, lock
  <1>5. ASSUME NEW u \in Users, XferStart(u) PROVE HalfDuplexUnderSelect'
    BY <1>5, MoverAlone DEF AtBus, BusTo, XferStart, Moves, OnePack, lock
  <1>6. ASSUME NEW u \in Users, XferWait(u) PROVE HalfDuplexUnderSelect'
    BY <1>6, MoverAlone DEF AtBus, BusTo, XferWait, lock
  <1>7. ASSUME NEW u \in Users, XferLeave(u) PROVE HalfDuplexUnderSelect'
    BY <1>7, MoverAlone DEF AtBus, BusTo, XferLeave, lock
  <1>8. ASSUME NEW u \in Users, BusUnlock(u) PROVE HalfDuplexUnderSelect'
    BY <1>8, MoverAlone DEF AtBus, BusTo, BusUnlock, BusReturn, wire
  <1>9. ASSUME NEW u \in Users, DevDeinit(u) PROVE HalfDuplexUnderSelect'
    BY <1>9, MoverAlone DEF AtBus, BusTo, DevDeinit, lock
  <1>10. ASSUME NEW u \in Users, MutexRelease(u) PROVE HalfDuplexUnderSelect'
    BY <1>10, MoverAlone DEF AtBus, BusTo, MutexRelease, wire
  <1>11. ASSUME NEW u \in Users, MutexNull(u) PROVE HalfDuplexUnderSelect'
    BY <1>11, MoverAlone DEF AtBus, BusTo, MutexNull, BusReturn, wire
  <1>12. ASSUME NEW u \in Users, DevInit(u) PROVE HalfDuplexUnderSelect'
    BY <1>12, MoverAlone DEF AtBus, BusTo, DevInit, lock
  <1>13. ASSUME NEW u \in Users, MutexKeep(u) PROVE HalfDuplexUnderSelect'
    BY <1>13, MoverAlone DEF AtBus, BusTo, MutexKeep, BusReturn, lock, wire
  <1>14. ASSUME NEW u \in Users, MutexCheck(u) PROVE HalfDuplexUnderSelect'
    BY <1>14, MoverAlone DEF AtBus, BusTo, MutexCheck, lock, wire
  <1>15. ASSUME NEW u \in Users, MutexCreate(u) PROVE HalfDuplexUnderSelect'
    BY <1>15, MoverAlone DEF AtBus, BusTo, MutexCreate, BusReturn, wire
  <1>16. ASSUME NEW d \in AllMoves, FinishIrq(d) PROVE HalfDuplexUnderSelect'
    BY <1>16, MoverAlone DEF FinishIrq, lock, tasks
  <1>17. ASSUME NEW u \in Users, SetFlag(u) PROVE HalfDuplexUnderSelect'
    BY <1>17 DEF SetFlag, lock, wire, tasks
  <1>18. CASE UNCHANGED bvars
    BY <1>18 DEF bvars, lock, wire, tasks
  <1> HIDE DEF BusInv, HalfDuplexUnderSelect
  <1>19. QED
    BY <1>1, <1>2, <1>3, <1>4, <1>5, <1>6, <1>7, <1>8, <1>9, <1>10, <1>11, <1>12,
       <1>13, <1>14, <1>15, <1>16, <1>17, <1>18
       DEF BNext, BusStep

(* The parts together are an invariant.                                    *)
LEMMA BusHolds == BusInv /\ [BNext]_bvars => BusInv'
  BY TypesHold, KindHolds, OwnerHolds, DeviceHolds, DataHolds, SoleHolds, SelectHolds
  DEF BusInv

(* At first there is neither a mutex nor a device, and nobody calls.       *)
LEMMA BusBegins == BInit => BusInv
  <1> SUFFICES ASSUME BInit PROVE BusInv
    OBVIOUS
  <1> USE SpiAssumption DEF SpiAssumption, BInit, Transfers, Mutexes, NULL,
                            Inside, Making, Moving
  <1>1. MaxInits \in Nat /\ made = 0
    OBVIOUS
  <1>2. BusTypes /\ KindInv
    <2>1. /\ bpc \in [Users -> {"idle"}] /\ kind \in [Users -> {"send"}]
          /\ locking \in [Users -> {0}]
      OBVIOUS
    <2>2. /\ made \in 0 .. MaxInits /\ spi_mutex \in 0 .. made /\ deleted \subseteq 1 .. made
      BY <1>1
    <2>3. owner \in [Mutexes -> Users \cup {NoUser}]
      OBVIOUS
    <2>4. BusTypes
      BY <1>1, <2>1, <2>2, <2>3 DEF BusTypes
    <2>5. KindInv
      BY <2>1 DEF KindInv
    <2>6. QED
      BY <2>4, <2>5
  <1>3. OwnerInv /\ DeviceInv /\ DataInv
    BY DEF OwnerInv, DeviceInv, DataInv
  <1>4. SoleMover /\ HalfDuplexUnderSelect
    BY DEF SoleMover, HalfDuplexUnderSelect, DataUnderSelect
  <1>5. QED
    BY <1>2, <1>3, <1>4 DEF BusInv

(* One task at a time has packs to move, also over deinit and a new init.  *)
THEOREM OneAtATime == BSpec => []OneTransfer
  <1>1. BusInv => OneTransfer
    <2> SUFFICES ASSUME BusInv PROVE OneTransfer
      OBVIOUS
    <2> DEFINE M == {u \in Users : bpc[u] \in {"start", "wait"}}
    <2>1. \A u, v \in M : u = v
      BY DEF BusInv, SoleMover, Moving
    <2>2. CASE M = {}
      BY <2>2, FS_EmptySet DEF OneTransfer
    <2>3. CASE M # {}
      <3>1. PICK u \in M : M = {u}
        BY <2>1, <2>3
      <3>2. Cardinality({u}) = 1
        BY FS_Singleton
      <3>3. QED
        BY <3>1, <3>2 DEF OneTransfer
    <2>4. QED
      BY <2>2, <2>3
  <1>2. QED
    BY <1>1, BusBegins, BusHolds, PTL DEF BSpec

(* Who waits for the mutex waits for a task that is in a transfer or a     *)
(* deinit, and so comes to its unlock.                                     *)
THEOREM LockIsHeldInside == BSpec => []LockHasOwner
  <1>1. BusInv => LockHasOwner
    BY DEF BusInv, BusTypes, KindInv, OwnerInv, LockHasOwner, Inside, NULL
  <1>2. QED
    BY <1>1, BusBegins, BusHolds, PTL DEF BSpec

(* Until full duplex is used, data moves under chip select only.           *)
THEOREM HalfDuplexIsSelected == BSpec => []HalfDuplexUnderSelect
  <1>1. BusInv => HalfDuplexUnderSelect
    BY DEF BusInv
  <1>2. QED
    BY <1>1, BusBegins, BusHolds, PTL DEF BSpec
-----------------------------------------------------------------------------
(* What a task has read of a register still holds when it writes, unless   *)
(* calls have overlapped.                                                  *)
Calls == [op : Ops, on : Timers, value : SUBSET Timers]

ShapeInv ==
    /\ enabled \subseteq Timers /\ asked \subseteq Timers
    /\ call \in [TimerUsers -> Calls \cup {NoCall}]

ReadInv ==
    ~ overlapped =>
        /\ enabled = asked
        /\ \A u \in TimerUsers :
              call[u] # NoCall => call[u].value = enabled \cap Register(call[u].on)

(* The timers of a register: two of them are the same or have nothing in   *)
(* common.                                                                 *)
LEMMA Registers ==
    ASSUME NEW t \in Timers, NEW s \in Timers
    PROVE  /\ t \in Register(t) /\ Register(t) \subseteq Timers
           /\ s \notin Register(t) => Register(s) \cap Register(t) = {}
  <1>1. \A n \in Timers : n \in Int
    BY TimerAssumption DEF TimerAssumption
  <1>2. QED
    BY <1>1 DEF Register

(* One write changes the bit of its own timer and no other, when what was  *)
(* read is still true.                                                     *)
LEMMA OneBit ==
    ASSUME NEW op \in Ops, NEW t \in Timers, WriteControl(op, t, enabled \cap Register(t))
    PROVE  enabled' = IF op = "start" THEN enabled \cup {t} ELSE enabled \ {t}
  <1>1. t \in Register(t)
    BY Registers
  <1>2. QED
    BY <1>1 DEF WriteControl, Ops

(* The bits and the calls are those of the timers in use.                  *)
LEMMA ShapeHolds == ShapeInv /\ [TNext]_tvars => ShapeInv'
  <1> SUFFICES ASSUME ShapeInv, [TNext]_tvars PROVE ShapeInv'
    OBVIOUS
  <1> USE DEF ShapeInv
  <1>1. ASSUME NEW u \in TimerUsers, TimerRead(u) PROVE ShapeInv'
    BY <1>1, Registers DEF TimerRead, Calls, regs, irq, noted
  <1>2. ASSUME NEW u \in TimerUsers, TimerWrite(u) PROVE ShapeInv'
    <2>1. call[u] \in Calls
      BY <1>2 DEF TimerWrite
    <2>2. PICK op \in Ops, t \in Timers, read \in SUBSET Timers :
            WriteControl(op, t, read) /\ Asks(op, t, TimerUsers \ {u})
      BY <1>2, <2>1 DEF TimerWrite, Calls
    <2>3. QED
      BY <1>2, <2>2 DEF TimerWrite, WriteControl, Asks, irq
  <1>3. ASSUME NEW t \in Timers, Expire(t) PROVE ShapeInv'
    BY <1>3 DEF Expire, irq, noted
  <1>4. CASE IsrEnter
    BY <1>4 DEF IsrEnter, regs, noted
  <1>5. CASE IsrServe
    <2>1. CASE UNCHANGED <<regs, noted>>
      BY <1>5, <2>1 DEF IsrServe, regs, noted
    <2>2. ASSUME NEW op \in Ops, NEW t \in Timers,
                 WriteControl(op, t, enabled \cap Register(t)), Asks(op, t, TimerUsers)
          PROVE  ShapeInv'
      BY <1>5, <2>2, OneBit DEF IsrServe, Asks
    <2>3. QED
      BY <1>5, <2>1, <2>2 DEF IsrServe
  <1>6. CASE IsrAck
    BY <1>6 DEF IsrAck, noted
  <1>7. CASE UNCHANGED tvars
    BY <1>7 DEF tvars, regs, noted
  <1>8. QED
    BY <1>1, <1>2, <1>3, <1>4, <1>5, <1>6, <1>7 DEF TNext

(* No step makes what a task has read untrue, unless calls overlap.        *)
LEMMA ReadHolds == ShapeInv /\ ReadInv /\ [TNext]_tvars => ReadInv'
  <1> SUFFICES ASSUME ShapeInv, ReadInv, [TNext]_tvars, ~ overlapped' PROVE ReadInv'
    BY DEF ReadInv
  <1> USE DEF ShapeInv
  <1>a. ~ overlapped
    BY DEF TNext, TimerRead, TimerWrite, Expire, IsrEnter, IsrServe, IsrAck, Asks, noted, tvars
  <1>b. /\ enabled = asked
        /\ \A u \in TimerUsers :
              call[u] # NoCall => call[u].value = enabled \cap Register(call[u].on)
    BY <1>a DEF ReadInv
  <1>1. ASSUME NEW u \in TimerUsers, TimerRead(u) PROVE ReadInv'
    <2>1. enabled' = enabled /\ asked' = asked
      BY <1>1 DEF TimerRead, regs, noted
    <2>2. ASSUME NEW v \in TimerUsers, call'[v] # NoCall
          PROVE  call'[v].value = enabled' \cap Register(call'[v].on)
      <3>1. CASE v = u
        BY <1>1, <2>1, <3>1 DEF TimerRead
      <3>2. CASE v # u
        BY <1>1, <1>b, <2>1, <2>2, <3>2 DEF TimerRead
      <3>3. QED
        BY <3>1, <3>2
    <2>3. QED
      BY <1>b, <2>1, <2>2 DEF ReadInv, Register
  <1>2. ASSUME NEW u \in TimerUsers, TimerWrite(u) PROVE ReadInv'
    <2> DEFINE op == call[u].op
               t  == call[u].on
    <2>1. op \in Ops /\ t \in Timers /\ call[u].value = enabled \cap Register(t)
      BY <1>2, <1>b DEF TimerWrite, Calls
    <2>2. WriteControl(op, t, enabled \cap Register(t)) /\ Asks(op, t, TimerUsers \ {u})
      BY <1>2, <2>1 DEF TimerWrite
    <2>3. enabled' = IF op = "start" THEN enabled \cup {t} ELSE enabled \ {t}
      BY <2>1, <2>2, OneBit
    <2>4. asked' = enabled'
      BY <1>b, <2>2, <2>3 DEF Asks
    <2>5. ASSUME NEW v \in TimerUsers, call'[v] # NoCall
          PROVE  call'[v].value = enabled' \cap Register(call'[v].on)
      <3>1. v # u /\ call'[v] = call[v]
        BY <1>2, <2>5 DEF TimerWrite
      <3>2. call[v].on \in Timers /\ call[v].on \notin Register(t)
        BY <2>2, <2>5, <3>1 DEF Asks, Calls
      <3>3. t \notin Register(call[v].on)
        BY <2>1, <3>2, Registers
      <3>4. call[v].value = enabled \cap Register(call[v].on)
        BY <1>b, <2>5, <3>1
      <3>5. QED
        BY <2>3, <3>1, <3>3, <3>4
    <2>6. QED
      BY <2>4, <2>5 DEF ReadInv, Register
  <1>3. ASSUME NEW t \in Timers, Expire(t) PROVE ReadInv'
    BY <1>3, <1>b DEF Expire, ReadInv, Register, noted
  <1>4. CASE IsrEnter
    BY <1>4, <1>b DEF IsrEnter, ReadInv, Register, regs, noted
  <1>5. CASE IsrServe
    <2>1. CASE UNCHANGED <<regs, noted>>
      BY <1>5, <1>b, <2>1 DEF IsrServe, ReadInv, Register, regs, noted
    <2>2. ASSUME NEW op \in Ops, NEW t \in Timers,
                 WriteControl(op, t, enabled \cap Register(t)), Asks(op, t, TimerUsers)
          PROVE  ReadInv'
      <3>1. enabled' = IF op = "start" THEN enabled \cup {t} ELSE enabled \ {t}
        BY <2>2, OneBit
      <3>2. asked' = enabled'
        BY <1>b, <2>2, <3>1 DEF Asks
      <3>3. ASSUME NEW v \in TimerUsers, call'[v] # NoCall
            PROVE  call'[v].value = enabled' \cap Register(call'[v].on)
        <4>1. call'[v] = call[v]
          BY <1>5 DEF IsrServe
        <4>2. call[v].on \in Timers /\ call[v].on \notin Register(t)
          BY <2>2, <3>3, <4>1 DEF Asks, Calls
        <4>3. t \notin Register(call[v].on)
          BY <4>2, Registers
        <4>4. call[v].value = enabled \cap Register(call[v].on)
          BY <1>b, <3>3, <4>1
        <4>5. QED
          BY <3>1, <4>1, <4>3, <4>4
      <3>4. QED
        BY <3>2, <3>3 DEF ReadInv, Register
    <2>3. QED
      BY <1>5, <2>1, <2>2 DEF IsrServe
  <1>6. CASE IsrAck
    BY <1>6, <1>b DEF IsrAck, ReadInv, Register, noted
  <1>7. CASE UNCHANGED tvars
    BY <1>7, <1>b DEF tvars, ReadInv, Register, regs, noted
  <1>8. QED
    BY <1>1, <1>2, <1>3, <1>4, <1>5, <1>6, <1>7 DEF TNext

(* While calls on one register do not overlap, the timers that run are     *)
(* those that were started last and not stopped, wherever the interrupt    *)
(* falls and whatever its callbacks start and stop.                        *)
THEOREM TimersRunAsAsked == TSpec => []RunsAsAsked
  <1>1. TInit => ShapeInv /\ ReadInv
    BY DEF TInit, ShapeInv, ReadInv
  <1>2. ShapeInv /\ ReadInv /\ [TNext]_tvars => (ShapeInv /\ ReadInv)'
    BY ShapeHolds, ReadHolds
  <1>3. ShapeInv /\ ReadInv => RunsAsAsked
    BY DEF ReadInv, RunsAsAsked
  <1>4. QED
    BY <1>1, <1>2, <1>3, PTL DEF TSpec

(* No step of tasks, hardware or interrupt loses an expiry, until a        *)
(* callback starts a timer.                                                *)
THEOREM ExpiriesAreServed == TSpec => NoExpiryLost
  <1>1. ASSUME [TNext]_tvars, NEW t \in expired \ expired'
        PROVE  restarted' \/ t \notin asked' \/ t \in status \ toServe
    <2>1. CASE IsrServe
      BY <1>1, <2>1 DEF IsrServe, Asks, Ops, regs
    <2>2. CASE IsrAck
      BY <1>1, <2>2 DEF IsrAck
    <2>3. CASE ~ IsrServe /\ ~ IsrAck
      BY <1>1, <2>3 DEF TNext, TimerRead, TimerWrite, Expire, IsrEnter, regs, tvars
    <2>4. QED
      BY <2>1, <2>2, <2>3
  <1>2. [TNext]_tvars =>
          [\A t \in expired \ expired' :
              restarted' \/ t \notin asked' \/ t \in status \ toServe]_tvars
    BY <1>1
  <1>3. QED
    BY <1>2, PTL DEF TSpec, NoExpiryLost
==============================================================================
