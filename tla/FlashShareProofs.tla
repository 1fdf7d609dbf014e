-------------------------- MODULE FlashShareProofs --------------------------
(***************************************************************************)
(* Only a fast connect's SET_PROTECT makes the updater's calls lose pages, *)
(* and only that or tkl_flash_set_protect(TRUE) any locked call: for any   *)
(* number of tasks and pages, and whatever stray bytes do.                 *)
(***************************************************************************)
EXTENDS FlashShare, TLAPS

LEMMA InitInv == FlashInit => FlashInv
  BY ShareAssumption DEF FlashInit, FlashInv, FlashTypeOK, LockInv, PageInv, PlaceInv, UpdateLands,
     OnlySetProtectLoses, FlashTasks, Holders, Levels, Bracket, Locked, Unlocked

LEMMA StepType ==
    ASSUME FlashTypeOK, PlaceInv, NEW t \in FlashTasks, Step(t)
    PROVE  FlashTypeOK'
  <1> USE ShareAssumption
      DEF FlashTypeOK, Move, callVars, Locked, Unlocked, Levels, Bracket, Holders, FlashTasks, PlaceInv
  <1>1. ASSUME NEW o \in Calls(t), Call(t, o) PROVE FlashTypeOK'
    <2>1. o \in {"write", "erase", "store", "fci", "clear"}
      BY <1>1 DEF Calls
    <2>2. page' \in [FlashTasks -> 0 .. Pages]
      <3>1. 0 \in 0 .. Pages /\ Pages - 1 \in 0 .. Pages
        BY ShareAssumption
      <3> QED BY <1>1, <3>1 DEF Call
    <2> QED BY <1>1, <2>1, <2>2 DEF Call
  <1>2. CASE OpenHalf(t)
    BY <1>2 DEF OpenHalf, ReadStatus, WriteStatus
  <1>3. CASE Lock(t)
    BY <1>3 DEF Lock
  <1>4. CASE Check(t)
    BY <1>4 DEF Check
  <1>5. CASE Unprotect(t)
    BY <1>5 DEF Unprotect, ReadStatus, WriteStatus
  <1>6. CASE Page(t)
    <2>1. page[t] + 1 \in 0 .. Pages
      BY <1>6, ShareAssumption DEF Page
    <2> QED BY <1>6, <2>1 DEF Page
  <1>7. CASE Worked(t)
    BY <1>7 DEF Worked
  <1>8. CASE Recheck(t)
    BY <1>8 DEF Recheck
  <1>9. CASE Protect(t)
    BY <1>9 DEF Protect, ReadStatus, WriteStatus
  <1>10. CASE Unlock(t)
    BY <1>10 DEF Unlock
  <1>11. CASE CloseAll(t)
    BY <1>11 DEF CloseAll, ReadStatus, WriteStatus
  <1>12. CASE Get(t)
    <2>1. PICK o \in {"none", "all"}, z \in Levels :
             level' = [level EXCEPT ![t] = [open |-> o, shut |-> z]]
      BY <1>12, ShareAssumption DEF Get
    <2>2. [open |-> o, shut |-> z] \in [open : Levels, shut : Levels]
      OBVIOUS
    <2>3. level' \in [FlashTasks -> [open : Levels, shut : Levels]]
      BY <2>1, <2>2
    <2> QED BY <1>12, <2>3 DEF Get
  <1>13. CASE Bare(t)
    BY <1>13 DEF Bare, ReadStatus, WriteStatus
  <1>14. CASE Cover(t)
    BY <1>14 DEF Cover, ReadStatus, WriteStatus
  <1>15. CASE Return(t)
    BY <1>15 DEF Return
  <1> QED
    BY <1>1, <1>2, <1>3, <1>4, <1>5, <1>6, <1>7, <1>8, <1>9, <1>10, <1>11,
       <1>12, <1>13, <1>14, <1>15 DEF Step

(* The lock keeps the locked parts of the calls apart, and only the        *)
(* updater and the fast connect have a status register to write outside it.*)
LEMMA StepLock ==
    ASSUME FlashTypeOK, LockInv, PlaceInv, NEW t \in FlashTasks, Step(t)
    PROVE  LockInv' /\ PlaceInv'
  <1> USE ShareAssumption
      DEF FlashTypeOK, LockInv, PlaceInv, Move, callVars, Locked, Unlocked, FlashTasks,
          Holders, Levels, Bracket
  <1>1. ASSUME NEW o \in Calls(t), Call(t, o) PROVE LockInv' /\ PlaceInv'
    BY <1>1 DEF Call, Calls
  <1>2. CASE OpenHalf(t)
    BY <1>2 DEF OpenHalf, ReadStatus, WriteStatus
  <1>3. CASE Lock(t)
    BY <1>3 DEF Lock
  <1>4. CASE Check(t)
    BY <1>4 DEF Check
  <1>5. CASE Unprotect(t)
    BY <1>5 DEF Unprotect, ReadStatus, WriteStatus
  <1>6. CASE Page(t)
    BY <1>6 DEF Page
  <1>7. CASE Worked(t)
    BY <1>7 DEF Worked
  <1>8. CASE Recheck(t)
    BY <1>8 DEF Recheck
  <1>9. CASE Protect(t)
    BY <1>9 DEF Protect, ReadStatus, WriteStatus
  <1>10. CASE Unlock(t)
    BY <1>10 DEF Unlock
  <1>11. CASE CloseAll(t)
    BY <1>11 DEF CloseAll, ReadStatus, WriteStatus
  <1>12. CASE Get(t)
    <2>1. t \in Savers /\ t \notin Holders
      BY <1>12 DEF Get
    <2>2. \A u \in Holders : level'[u] = level[u]
      BY <1>12, <2>1 DEF Get
    <2> QED BY <1>12, <2>1, <2>2 DEF Get
  <1>13. CASE Bare(t)
    BY <1>13 DEF Bare, ReadStatus, WriteStatus
  <1>14. CASE Cover(t)
    BY <1>14 DEF Cover, ReadStatus, WriteStatus
  <1>15. CASE Return(t)
    BY <1>15 DEF Return
  <1> QED
    BY <1>1, <1>2, <1>3, <1>4, <1>5, <1>6, <1>7, <1>8, <1>9, <1>10, <1>11,
       <1>12, <1>13, <1>14, <1>15 DEF Step

(* While a task is at its pages the chip stays open to it: whoever else    *)
(* holds no lock can change the protection only as the updater closing it. *)
LEMMA StepPage ==
    ASSUME FlashTypeOK, LockInv, PlaceInv, PageInv, NEW t \in FlashTasks, Step(t)
    PROVE  PageInv'
  <1> USE ShareAssumption
      DEF FlashTypeOK, LockInv, PlaceInv, PageInv, Move, callVars, Locked, Unlocked, FlashTasks,
          Holders, Levels, Bracket
  <1>1. ASSUME NEW o \in Calls(t), Call(t, o) PROVE PageInv'
    BY <1>1 DEF Call, Calls
  <1>2. CASE OpenHalf(t)
    BY <1>2 DEF OpenHalf, ReadStatus, WriteStatus
  <1>3. CASE Lock(t)
    BY <1>3 DEF Lock
  <1>4. CASE Check(t)
    BY <1>4 DEF Check
  <1>5. CASE Unprotect(t)
    BY <1>5 DEF Unprotect, ReadStatus, WriteStatus
  <1>6. CASE Page(t)
    BY <1>6 DEF Page
  <1>7. CASE Worked(t)
    BY <1>7 DEF Worked
  <1>8. CASE Recheck(t)
    BY <1>8 DEF Recheck
  <1>9. CASE Protect(t)
    BY <1>9 DEF Protect, ReadStatus, WriteStatus
  <1>10. CASE Unlock(t)
    BY <1>10 DEF Unlock
  <1>11. CASE CloseAll(t)
    BY <1>11 DEF CloseAll, ReadStatus, WriteStatus
  <1>12. CASE Get(t)
    BY <1>12 DEF Get
  <1>13. CASE Bare(t)
    BY <1>13 DEF Bare, ReadStatus, WriteStatus
  <1>14. CASE Cover(t)
    BY <1>14 DEF Cover, ReadStatus, WriteStatus
  <1>15. CASE Return(t)
    BY <1>15 DEF Return
  <1> QED
    BY <1>1, <1>2, <1>3, <1>4, <1>5, <1>6, <1>7, <1>8, <1>9, <1>10, <1>11,
       <1>12, <1>13, <1>14, <1>15 DEF Step

(* A page is missed only at Page, where PageInv holds, and what fell into  *)
(* a call is remembered until the call ends.                               *)
LEMMA StepMissed ==
    ASSUME FlashTypeOK, PageInv, UpdateLands, OnlySetProtectLoses, NEW t \in FlashTasks, Step(t)
    PROVE  UpdateLands' /\ OnlySetProtectLoses'
  <1> USE DEF UpdateLands, OnlySetProtectLoses
  <1>1. CASE Page(t)
    <2>1. t \in Holders => prot # "all" \/ t \in restored \/ (t # Updater /\ t \in closed)
      BY <1>1 DEF PageInv, Page, Move
    <2> QED BY <1>1, <2>1 DEF Page
  <1>2. CASE Unlock(t)
    BY <1>2 DEF Unlock
  <1>3. CASE ~Page(t) /\ ~Unlock(t)
    <2>1. missed' = missed /\ closed \subseteq closed' /\ restored \subseteq restored'
      BY <1>3 DEF Step, Call, OpenHalf, Lock, Check, Unprotect, Worked, Recheck, Protect, CloseAll,
                  Get, Bare, Cover, Return, ReadStatus, WriteStatus, callVars
    <2> QED BY <2>1
  <1> QED BY <1>1, <1>2, <1>3

LEMMA NextInv ==
    ASSUME FlashInv, [FlashNext]_flashVars
    PROVE  FlashInv'
  <1>1. CASE UNCHANGED flashVars
    BY <1>1 DEF flashVars, FlashInv, FlashTypeOK, LockInv, PageInv, PlaceInv, UpdateLands,
                OnlySetProtectLoses
  <1>2. ASSUME NEW t \in FlashTasks, Step(t) PROVE FlashInv'
    BY <1>2, StepType, StepLock, StepPage, StepMissed DEF FlashInv
  <1> QED BY <1>1, <1>2 DEF FlashNext

(* The adapter's state keeps its types: the lock has one owner at most, a  *)
(* call is at one place, its pages are counted up to its size.             *)
THEOREM FlashTypeCorrect == FlashSpec => []FlashTypeOK
  <1>1. FlashInv => FlashTypeOK
    BY DEF FlashInv
  <1> QED BY InitInv, NextInv, <1>1, PTL DEF FlashSpec

(* However many tasks write to the flash beside it, and whatever they do   *)
(* to the protection: the updater loses a page only to a fast connect that *)
(* protects the chip in the middle of its call.                            *)
THEOREM UpdaterLosesOnlyToFastConnect == FlashSpec => []UpdateLands
  <1>1. FlashInv => UpdateLands
    BY DEF FlashInv
  <1> QED BY InitInv, NextInv, <1>1, PTL DEF FlashSpec

(* Locked calls do not make each other lose pages: only the two users of   *)
(* the chip that set its protection without the lock do.                   *)
THEOREM LockedCallsKeepPages == FlashSpec => []OnlySetProtectLoses
  <1>1. FlashInv => OnlySetProtectLoses
    BY DEF FlashInv
  <1> QED BY InitInv, NextInv, <1>1, PTL DEF FlashSpec
=============================================================================
