-------------------------- MODULE OtaUpdateProofs --------------------------
(***************************************************************************)
(* Type correctness of OtaUpdate, what is staged and installed, where the  *)
(* flash changes, that the slot never shows a package that was not         *)
(* verified, and that the update implements UpdateSlot: for every chip,    *)
(* slot, unit and packet size, every set of packages, and any number of    *)
(* starts and power failures.                                              *)
(***************************************************************************)
EXTENDS OtaUpdate, TLAPS

(* Numbers the steps below compute with.                                   *)
LEMMA Numbers ==
    /\ OtaBase \in Nat \ {0} /\ Unit \in Nat \ {0} /\ BufSize \in Nat \ {0}
    /\ MaxBin \in Nat \ {0} /\ Hdr \in Nat \ {0} /\ Word \in Nat \ {0}
    /\ MaxPacket \in Nat \ {0} /\ Sector \in Nat \ {0} /\ Half \in Nat
    /\ MaxStarts \in Nat /\ MaxCrashes \in Nat /\ FlashSize \in Nat
    /\ BufSize = Sector /\ Unit < BufSize /\ BufSize <= MaxBin /\ OtaBase >= Half /\ Half >= Sector
    /\ MaxBin + MaxPacket < Word
    /\ OtaBase + MaxBin + BufSize + MaxPacket <= FlashSize
    /\ Erased \in Byte
  BY OtaAssumption, FlashAssumption

LEMMA FileType ==
    ASSUME NEW f \in Files
    PROVE  /\ f.len \in Nat
           /\ f.sum \in Nat /\ f.size \in Nat
           /\ f.data \in [0 .. f.size - 1 -> Byte]
  <1>1. IsFile(f)
    BY OtaAssumption
  <1>3. f.len \in 0 .. Word - 1
    BY <1>1 DEF IsFile
  <1>4. f.sum \in Nat /\ f.size \in Nat
    BY <1>1 DEF IsFile
  <1>5. f.data \in [0 .. f.size - 1 -> Byte]
    BY <1>1 DEF IsFile
  <1>6. f.len \in Nat
    BY <1>3, Numbers
  <1> QED BY <1>4, <1>5, <1>6

LEMMA Sentinels ==
    /\ NoProc \notin Proc /\ NoBuf \notin Block /\ NullBlock \in Block
    /\ \A n \in 0 .. MaxBin : NoImage \notin [0 .. n - 1 -> Byte]
  BY OtaAssumption

(* Programming and erasing keep the cells bytes.                           *)
LEMMA ProgramType ==
    ASSUME NEW cells \in Cells, NEW prot, NEW addr \in Nat, NEW len \in Nat,
           NEW src \in [0 .. len - 1 -> Byte]
    PROVE  Program(cells, prot, addr, len, src) \in Cells
  BY FlashAssumption DEF Program, Cells, Addr

LEMMA EraseType ==
    ASSUME NEW cells \in Cells, NEW prot, NEW base
    PROVE  EraseSector(cells, prot, base) \in Cells
  BY FlashAssumption DEF EraseSector, Cells, Addr

(* The addresses that end_notify and the header's erase start from are     *)
(* those of a sector.                                                      *)
LEMMA SectorBases == SectorBase(OtaBase) = OtaBase /\ SectorBase(0) = 0
  BY FlashAssumption, OtaAssumption DEF SectorBase

(* A piece of the package that was delivered is made of bytes.             *)
LEMMA ChunkType ==
    ASSUME NEW len \in Nat, file \in Files, fed \in Nat, fed >= Hdr,
           fed + len <= Hdr + file.size
    PROVE  Chunk(len) \in [0 .. len - 1 -> Byte]
  <1>1. file.data \in [0 .. file.size - 1 -> Byte] /\ file.size \in Nat /\ Hdr \in Nat
    BY OtaAssumption DEF IsFile
  <1>2. \A k \in 0 .. len - 1 : fed - Hdr + k \in 0 .. file.size - 1
    BY <1>1
  <1> QED BY <1>1, <1>2 DEF Chunk

(* What end_notify sums and writes back is made of bytes.                  *)
LEMMA RamType ==
    ASSUME TypeOK
    PROVE  FirstUnitInRam \in Block
  BY OtaAssumption DEF TypeOK, FirstUnitInRam

TypeInv == TypeOK /\ CallInv /\ DataInv

LEMMA InitType == Init => TypeInv
  <1> SUFFICES ASSUME Init PROVE TypeInv
    OBVIOUS
  <1>1. TypeOK
    <2>1. flash \in Cells
      BY FlashAssumption, OtaAssumption DEF Init, Cells, Addr
    <2>2. buf \in [0 .. BufSize - 1 -> Byte]
      BY FlashAssumption DEF Init
    <2>3. file \in Files /\ fed + rest <= Hdr + file.size
      BY FileType, Numbers DEF Init
    <2>4. emptied \in BOOLEAN
      BY DEF Init
    <2> QED BY <2>1, <2>2, <2>3, <2>4, Numbers DEF Init, TypeOK
  <1>2. CallInv /\ DataInv
    BY DEF Init, CallInv, DataInv
  <1> QED BY <1>1, <1>2 DEF TypeInv

LEMMA StartType ==
    ASSUME TypeInv, NEW f \in Files, StartNotify(f)
    PROVE  TypeInv'
  <1> USE Numbers DEF TypeInv, StartNotify, callVars, procVars
  <1>1. f.size \in Nat
    BY FileType
  <1>2. NewProc \in Proc /\ NewProc # NoProc
    BY Sentinels DEF NewProc, Proc
  <1>3. TypeOK'
    BY <1>1, <1>2 DEF TypeOK
  <1>4. CallInv' /\ DataInv'
    BY <1>2 DEF TypeOK, CallInv, DataInv, NewProc
  <1> QED BY <1>3, <1>4

LEMMA DataType ==
    ASSUME TypeInv, NEW n \in 0 .. MaxPacket, DataProcess(n)
    PROVE  TypeInv'
  <1> USE Numbers DEF TypeInv, CanProcess, Packet, callVars, procVars, bounds
  <1>0. file.size \in Nat /\ file.len \in Nat /\ file.sum \in Nat
    BY FileType DEF TypeOK
  <1>1. ASSUME DataShortHeader(n) PROVE TypeInv'
    BY <1>0, <1>1 DEF DataShortHeader, TypeOK, CallInv, DataInv
  <1>2. ASSUME DataBadHeader(n) PROVE TypeInv'
    <2>0. ug \in Proc /\ ug.stat = "header"
      BY <1>2 DEF DataBadHeader, TypeOK
    <2>1. ug' \in Proc /\ ug'.stat = "header" /\ ug'.start = ug.start
      BY <1>2, <2>0 DEF DataBadHeader, Proc
    <2>2. ug' # NoProc
      BY <2>1, Sentinels
    <2> QED BY <1>0, <1>2, <2>0, <2>1, <2>2 DEF DataBadHeader, TypeOK, CallInv, DataInv
  <1>3. ASSUME DataHeader(n) PROVE TypeInv'
    <2>1. ug' \in Proc /\ ug' # NoProc
      BY <1>0, <1>3, Sentinels, SMTT(30) DEF DataHeader, Proc
    <2>2. TypeOK'
      BY <1>0, <1>3, <2>1, SectorBases DEF DataHeader, TypeOK
    <2>3. CallInv'
      <3>1. /\ ug'.stat = "data" /\ ug'.start = OtaBase /\ ug'.binLen = file.len
            /\ file.len < MaxBin /\ pc' = "erase" /\ at' = OtaBase
            /\ emptied' = (file.len = 0 \/ emptied)
        BY <1>3, SectorBases DEF DataHeader
      <3>2. file.len \in 0 .. MaxBin - 1
        BY <1>0, <3>1
      <3>3. ug'.binLen = 0 => emptied'
        BY <3>1
      <3> QED BY <2>1, <3>1, <3>2, <3>3 DEF CallInv
    <2>4. firstBlock = 1
      BY <1>3 DEF DataHeader, CallInv
    <2>5. DataInv'
      BY <1>3, <2>1, <2>4 DEF DataHeader, DataInv
    <2> QED BY <2>2, <2>3, <2>5
  <1>4. ASSUME DataWait(n) PROVE TypeInv'
    <2>1. TypeOK'
      BY <1>0, <1>4 DEF DataWait, TypeOK
    <2>2. CallInv' /\ DataInv'
      BY <1>4 DEF DataWait, CallInv, DataInv
    <2> QED BY <2>1, <2>2
  <1>5. ASSUME DataBegin(n) PROVE TypeInv'
    <2>1. TypeOK'
      BY <1>0, <1>5 DEF DataBegin, TypeOK
    <2>2. CallInv'
      BY <1>5 DEF DataBegin, CallInv
    <2>3. DataInv'
      BY <1>5 DEF DataBegin, DataInv
    <2> QED BY <2>1, <2>2, <2>3
  <1>6. ASSUME DataAfterFinish(n) PROVE TypeInv'
    BY <1>0, <1>6 DEF DataAfterFinish, TypeOK, CallInv, DataInv
  <1> QED BY <1>1, <1>2, <1>3, <1>4, <1>5, <1>6 DEF DataProcess

(* The cells a packet still holds are cells of the package.                *)
LEMMA BlockFacts ==
    ASSUME TypeInv, pc = "block"
    PROVE  /\ ug \in Proc /\ ug # NoProc /\ ug.stat = "data"
           /\ rest = left /\ left \in Nat /\ fed = Hdr + ug.recv /\ fed >= Hdr
           /\ file.size \in Nat /\ fed + left <= Hdr + file.size
           /\ ug.recv \in Nat /\ ug.addr \in Nat /\ ug.binLen \in Nat
  <1>1. ug \in Proc /\ ug # NoProc /\ ug.stat = "data"
    BY DEF TypeInv, TypeOK, CallInv
  <1>2. rest = left /\ fed = Hdr + ug.recv /\ left \in Nat
    BY <1>1, Numbers DEF TypeInv, TypeOK, DataInv
  <1>3. file.size \in Nat
    BY FileType DEF TypeInv, TypeOK
  <1>4. fed + left <= Hdr + file.size
    BY <1>2 DEF TypeInv, TypeOK
  <1> QED BY <1>1, <1>2, <1>3, <1>4, Numbers DEF Proc

LEMMA CallType ==
    ASSUME TypeInv, CallStep
    PROVE  TypeInv'
  <1> USE Numbers DEF TypeInv, procVars, bounds, callerVars
  <1>0. file.size \in Nat /\ (ug \in Proc => ug \in Proc /\ ug.recv \in Nat /\ ug.addr \in Nat)
    BY FileType DEF TypeOK, Proc
  <1>1. ASSUME EraseNext PROVE TypeInv'
    <2>1. flash' \in Cells
      BY <1>1, EraseType DEF EraseNext, TypeOK
    <2>2. at' \in Nat /\ at' >= OtaBase
      BY <1>1 DEF EraseNext, TypeOK, CallInv
    <2>3. TypeOK'
      BY <1>1, <2>1, <2>2 DEF EraseNext, TypeOK
    <2>4. DataInv'
      BY <1>1 DEF EraseNext, DataInv
    <2>5. CallInv'
      <3>1. /\ ug' = ug /\ ug # NoProc /\ ug.stat = "data" /\ ug.start = OtaBase
            /\ ug.binLen \in 0 .. MaxBin - 1 /\ (ug.binLen = 0 => emptied)
            /\ (ug.binLen # 0 /\ emptied => at = OtaBase)
            /\ at \in Nat /\ at >= OtaBase /\ pc' \in {"erase", "idle"}
        BY <1>1 DEF EraseNext, TypeOK, CallInv
      <3>2. CASE at <= ug.start + ug.binLen - 1
        <4>1. emptied' = FALSE /\ ug.binLen # 0
          BY <1>1, <3>1, <3>2 DEF EraseNext
        <4> QED BY <2>2, <3>1, <4>1 DEF CallInv
      <3>3. CASE ~(at <= ug.start + ug.binLen - 1)
        <4>1. emptied' = emptied /\ ~(ug.binLen # 0 /\ emptied)
          BY <1>1, <3>1, <3>3 DEF EraseNext
        <4> QED BY <2>2, <3>1, <4>1 DEF CallInv
      <3> QED BY <3>2, <3>3
    <2> QED BY <2>3, <2>4, <2>5
  <1>2. ASSUME pc = "block", left >= Unit, UnitTaken, flash' \in Cells,
               firstBuf' \in Block \/ UNCHANGED firstBuf, firstBlock' = 0
        PROVE  TypeInv'
    <2>1. ug \in Proc /\ ug # NoProc /\ ug.stat = "data"
      BY <1>2 DEF TypeOK, CallInv
    <2>2. /\ ug' \in Proc /\ ug'.stat = "data" /\ ug'.start = ug.start
          /\ ug'.binLen = ug.binLen
          /\ ug'.addr = ug.addr + Unit /\ ug'.recv = ug.recv + Unit
      <3>1. ug' = [ug EXCEPT !.addr = @ + Unit, !.recv = @ + Unit]
        BY <1>2 DEF UnitTaken
      <3>2. ug.addr + Unit \in Nat /\ ug.recv + Unit \in Nat
        BY <2>1 DEF Proc
      <3> QED BY <2>1, <3>1, <3>2 DEF Proc
    <2>3. ug' # NoProc
      BY <2>2, Sentinels
    <2>4. left' \in 0 .. MaxPacket /\ rest' = left' /\ fed' = fed + Unit
          /\ fed' + rest' <= Hdr + file.size /\ fed' \in Nat
      <3>1. left' = left - Unit /\ rest' = left - Unit /\ fed' = fed + Unit /\ file' = file
        BY <1>2 DEF UnitTaken
      <3>2. left \in 0 .. MaxPacket /\ fed + left <= Hdr + file.size /\ fed \in Nat
            /\ file.size \in Nat
        BY <1>2, BlockFacts DEF TypeOK
      <3> QED BY <1>2, <3>1, <3>2
    <2>5. TypeOK'
      BY <1>2, <2>2, <2>4 DEF UnitTaken, TypeOK
    <2>6. CallInv'
      BY <1>2, <2>1, <2>2, <2>3 DEF UnitTaken, CallInv
    <2>7. DataInv'
      BY <1>2, <1>0, <2>1, <2>2, <2>3, <2>4 DEF UnitTaken, DataInv
    <2> QED BY <2>5, <2>6, <2>7
  <1>3. ASSUME pc = "block", left >= Unit
        PROVE  Chunk(Unit) \in Block /\ ug.addr \in Nat
    <2>1. ug \in Proc /\ ug # NoProc /\ ug.stat = "data"
      BY <1>3 DEF TypeOK, CallInv
    <2>2. fed >= Hdr /\ fed + Unit <= Hdr + file.size
      BY <1>0, <1>3, <2>1 DEF TypeOK, DataInv
    <2> QED BY <1>0, <2>1, <2>2, ChunkType DEF TypeOK, Block
  <1>4. ASSUME FirstUnit PROVE TypeInv'
    <2>1. [k \in 0 .. Unit - 1 |-> Erased] \in [0 .. Unit - 1 -> Byte]
      OBVIOUS
    <2>2. flash' \in Cells /\ firstBuf' \in Block
      BY <1>3, <1>4, <2>1, ProgramType DEF FirstUnit, TypeOK
    <2> QED BY <1>2, <1>4, <2>2 DEF FirstUnit
  <1>5. ASSUME FirstUnitNoMemory PROVE TypeInv'
    <2>1. firstBuf' = NoBuf \/ firstBuf' \in Block
      BY <1>3, <1>5 DEF FirstUnitNoMemory
    <2> QED BY <1>0, <1>5, <2>1 DEF FirstUnitNoMemory, TypeOK, CallInv, DataInv
  <1>6. ASSUME NextUnit PROVE TypeInv'
    <2>1. flash' \in Cells
      BY <1>3, <1>6, ProgramType DEF NextUnit, TypeOK, Block
    <2> QED BY <1>2, <1>6, <2>1 DEF NextUnit
  <1>7. ASSUME DataReturn PROVE TypeInv'
    <2> DEFINE taken == IF IsTail THEN left ELSE 0
               done  == ug.recv + taken >= ug.binLen
    <2>1. ug \in Proc /\ ug # NoProc /\ ug.stat = "data" /\ left \in Nat
      BY <1>7 DEF DataReturn, TypeOK, CallInv
    <2>2. taken \in Nat /\ taken <= left
      BY <2>1
    <2>3. ug.recv = 0 => taken = 0
      <3>1. ug.binLen \in 0 .. MaxBin - 1
        BY <2>1 DEF CallInv
      <3>2. ASSUME ug.recv = 0, IsTail PROVE FALSE
        BY <1>7, <2>1, <3>1, <3>2 DEF DataReturn, IsTail, Minus
      <3> QED BY <3>2
    <2> HIDE DEF taken
    <2>4. /\ flash' = Program(flash, Open, ug.addr, taken, Chunk(taken))
          /\ ug' = [ug EXCEPT !.addr = @ + taken, !.recv = @ + taken,
                              !.stat = IF done THEN "finish" ELSE @]
          /\ rest' = left - taken /\ left' = left - taken /\ fed' = fed + taken
      BY <1>7 DEF DataReturn, taken
    <2>5. /\ ug'.stat \in {"data", "finish"} /\ ug'.start = ug.start
          /\ ug'.binLen = ug.binLen
          /\ ug'.addr = ug.addr + taken /\ ug'.recv = ug.recv + taken
          /\ ug' \in Proc
      <3>1. ug.addr + taken \in Nat /\ ug.recv + taken \in Nat
        BY <2>1, <2>2 DEF Proc
      <3>2. CASE done
        BY <2>1, <2>4, <3>1, <3>2 DEF Proc
      <3>3. CASE ~done
        BY <2>1, <2>4, <3>1, <3>3 DEF Proc
      <3> QED BY <3>2, <3>3
    <2>6. ug' # NoProc
      BY <2>5, Sentinels
    <2>7. Chunk(taken) \in [0 .. taken - 1 -> Byte]
      <3>1. file \in Files /\ fed \in Nat
        BY DEF TypeOK
      <3>2. fed >= Hdr /\ fed + left <= Hdr + file.size /\ file.size \in Nat
        BY <1>7, BlockFacts DEF DataReturn
      <3>3. fed + taken <= Hdr + file.size
        BY <2>1, <2>2, <3>1, <3>2
      <3> QED BY <2>2, <3>1, <3>2, <3>3, ChunkType
    <2>8. flash' \in Cells
      BY <1>0, <2>1, <2>2, <2>4, <2>7, ProgramType DEF TypeOK
    <2>9. left' \in 0 .. MaxPacket /\ rest' = left' /\ fed' = fed + taken
          /\ fed' + rest' <= Hdr + file.size /\ fed' \in Nat
      <3>1. file' = file /\ left \in 0 .. MaxPacket /\ fed + left <= Hdr + file.size
            /\ fed \in Nat /\ file.size \in Nat
        BY <1>7, BlockFacts DEF DataReturn, TypeOK
      <3> QED BY <2>2, <2>4, <3>1
    <2>10. TypeOK'
      BY <1>7, <2>5, <2>8, <2>9 DEF DataReturn, TypeOK
    <2>11. CallInv'
      BY <1>7, <2>1, <2>5, <2>6 DEF DataReturn, CallInv
    <2>12. DataInv'
      BY <1>0, <1>7, <2>1, <2>2, <2>3, <2>5, <2>6, <2>9 DEF DataReturn, DataInv
    <2> QED BY <2>10, <2>11, <2>12
  <1>8. ASSUME EraseFirst PROVE TypeInv'
    <2>1. flash' \in Cells
      BY <1>8, EraseType DEF EraseFirst, TypeOK
    <2> QED BY <1>8, <2>1 DEF EraseFirst, TypeOK, CallInv, DataInv
  <1>9. ASSUME WriteFirst PROVE TypeInv'
    <2>1. ug.start + at \in Nat
      BY <1>9 DEF WriteFirst, TypeOK, CallInv, Proc
    <2>2. [k \in {0} |-> buf[at]] \in [0 .. 1 - 1 -> Byte]
      BY <1>9 DEF WriteFirst, TypeOK
    <2>3. flash' \in Cells
      BY <1>9, <2>1, <2>2, ProgramType DEF WriteFirst, TypeOK
    <2>4. TypeOK'
      BY <1>9, <2>3 DEF WriteFirst, TypeOK
    <2>5. CallInv' /\ DataInv'
      BY <1>9 DEF WriteFirst, TypeOK, CallInv, DataInv
    <2> QED BY <2>4, <2>5
  <1>10. ASSUME EndReturn PROVE TypeInv'
    BY <1>10 DEF EndReturn, TypeOK, CallInv, DataInv
  <1> QED BY <1>1, <1>4, <1>5, <1>6, <1>7, <1>8, <1>9, <1>10 DEF CallStep

LEMMA EndType ==
    ASSUME TypeInv, EndNotify
    PROVE  TypeInv'
  <1> USE Numbers DEF TypeInv, callVars, procVars, bounds, callerVars
  <1>1. ASSUME EndRefused PROVE TypeInv'
    BY <1>1 DEF EndRefused, TypeOK, CallInv, DataInv
  <1>2. ASSUME EndReject PROVE TypeInv'
    BY <1>2 DEF EndReject, TypeOK, CallInv, DataInv
  <1>3. ASSUME EndAccept PROVE TypeInv'
    <2>1. \A k \in 0 .. BufSize - 1 : flash[ug.start + k] \in Byte
      <3>1. ug.start \in {0, OtaBase}
        BY <1>3 DEF EndAccept, TypeOK, CallInv, Proc
      <3> QED BY <3>1 DEF TypeOK, Cells, Addr
    <2>2. \A k \in 0 .. Unit - 1 : FirstUnitInRam[k] \in Byte
      BY RamType DEF Block
    <2>3. buf' \in [0 .. BufSize - 1 -> Byte]
      BY <1>3, <2>1, <2>2 DEF EndAccept
    <2>4. TypeOK'
      BY <1>3, <2>3 DEF EndAccept, TypeOK
    <2>5. CallInv' /\ DataInv'
      BY <1>3 DEF EndAccept, CallInv, DataInv
    <2> QED BY <2>4, <2>5
  <1> QED BY <1>1, <1>2, <1>3 DEF EndNotify

LEMMA NextType ==
    ASSUME TypeInv, [Next]_vars
    PROVE  TypeInv'
  <1>1. ASSUME Start PROVE TypeInv'
    <2>1. ASSUME StartRefused PROVE TypeInv'
      BY <2>1 DEF StartRefused, TypeInv, TypeOK, CallInv, DataInv, callVars,
                  procVars, bounds
    <2> QED BY <1>1, <2>1, StartType DEF Start
  <1>2. ASSUME DataWithoutStart PROVE TypeInv'
    BY <1>2 DEF DataWithoutStart, TypeInv, TypeOK, CallInv, DataInv, callVars,
                procVars, bounds
  <1>3. ASSUME PowerFail PROVE TypeInv'
    <2>1. file.size \in Nat
      BY FileType DEF TypeInv, TypeOK
    <2> QED BY <1>3, <2>1, Numbers DEF PowerFail, TypeInv, TypeOK, CallInv, DataInv
  <1>4. ASSUME UNCHANGED vars PROVE TypeInv'
    BY <1>4 DEF vars, TypeInv, TypeOK, CallInv, DataInv, callVars, procVars,
                callerVars, bounds
  <1> QED BY <1>1, <1>2, <1>3, <1>4, DataType, CallType, EndType DEF Next

(* The module's values keep their types: the cells stay bytes, the counts  *)
(* of unsigned ints stay within a packet and a package, ...                *)
THEOREM TypeCorrect == Spec => []TypeOK
  <1>1. Init => TypeInv
    BY InitType
  <1>2. TypeInv /\ [Next]_vars => TypeInv'
    BY NextType
  <1>3. TypeInv => TypeOK
    BY DEF TypeInv
  <1> QED BY <1>1, <1>2, <1>3, PTL DEF Spec
-----------------------------------------------------------------------------
(* What the slot shows when the package is not empty.                      *)
PromiseInv == HiddenInv /\ CommitInv /\ ShownIsVerified

(* The cells of the slot's first sector and of the largest image exist and *)
(* can be written.                                                         *)
LEMMA SlotCells ==
    ASSUME NEW k \in 0 .. MaxBin + BufSize - 1
    PROVE  OtaBase + k \in Addr /\ OtaBase + k >= Half
  BY Numbers DEF Addr

(* A blank first unit stays blank when its cells keep their values or are  *)
(* erased.                                                                 *)
LEMMA StaysHidden ==
    ASSUME ~Bootable,
           \A k \in 0 .. Unit - 1 :
              flash'[OtaBase + k] = flash[OtaBase + k] \/ flash'[OtaBase + k] = Erased
    PROVE  ~Bootable'
  BY DEF Bootable

LEMMA NotBootable ==
    ASSUME ~Bootable'
    PROVE  ShownIsVerified'
  BY DEF ShownIsVerified

(* What is shown depends on the cells and the verified image only.         *)
LEMMA SameShown ==
    ASSUME ShownIsVerified, flash' = flash, verified' = verified
    PROVE  ShownIsVerified'
  BY DEF ShownIsVerified, Bootable

(* A call that changes neither the cells nor the verified image, and       *)
(* leaves the stage as it is or gives the update up, shows nothing new.    *)
LEMMA QuietShown ==
    ASSUME PromiseInv, flash' = flash, verified' = verified,
           pc' \notin {"eraseFirst", "writeFirst"},
           \/ ug' = NoProc \/ ug'.stat = "header"
           \/ /\ ug # NoProc /\ ug.stat # "header" /\ pc # "writeFirst"
              /\ ~(pc = "erase" /\ at = OtaBase)
           \/ pc' = "erase" /\ at' = OtaBase
    PROVE  PromiseInv'
  <1>1. ShownIsVerified'
    BY SameShown DEF PromiseInv
  <1>2. HiddenInv'
    BY DEF PromiseInv, HiddenInv, Bootable
  <1>3. CommitInv'
    BY DEF CommitInv
  <1> QED BY <1>1, <1>2, <1>3 DEF PromiseInv

(* The first step of an erase hides what an empty package has left.        *)
LEMMA EraseNextShown ==
    ASSUME TypeInv, ShownInv, EraseNext
    PROVE  ShownInv'
  <1>1. /\ ug # NoProc /\ ug.stat = "data" /\ ug.start = OtaBase
        /\ ug.binLen \in 0 .. MaxBin - 1 /\ at \in Nat /\ at >= OtaBase
    BY DEF EraseNext, TypeInv, TypeOK, CallInv
  <1>2. CASE at <= ug.start + ug.binLen - 1
    <2>1. flash' = EraseSector(flash, Open, at) /\ at' = at + Sector
          /\ pc' = "erase" /\ ug' = ug
      BY <1>2 DEF EraseNext, procVars
    <2>2. ~Bootable'
      <3>1. CASE at = OtaBase
        <4>1. \A k \in 0 .. Unit - 1 : flash'[OtaBase + k] = Erased
          BY <2>1, <3>1, SlotCells, Numbers DEF EraseSector, Writable, Open
        <4> QED BY <4>1 DEF Bootable
      <3>2. CASE at # OtaBase
        <4>1. ~emptied
          <5>1. ug.binLen # 0
            BY <1>1, <1>2, Numbers
          <5> QED BY <1>1, <3>2, <5>1 DEF TypeInv, CallInv
        <4>2. ~Bootable
          BY <1>1, <3>2, <4>1 DEF ShownInv, HiddenInv, EraseNext
        <4>3. \A k \in 0 .. Unit - 1 :
                 flash'[OtaBase + k] = flash[OtaBase + k] \/ flash'[OtaBase + k] = Erased
          BY <2>1, SlotCells, Numbers DEF EraseSector
        <4> QED BY <4>2, <4>3, StaysHidden
      <3> QED BY <3>1, <3>2
    <2>3. HiddenInv' /\ CommitInv'
      BY <2>1, <2>2 DEF HiddenInv, CommitInv
    <2> QED BY <2>2, <2>3, NotBootable DEF ShownInv
  <1>3. CASE ~(at <= ug.start + ug.binLen - 1)
    <2>1. flash' = flash /\ verified' = verified /\ pc' = "idle" /\ pc = "erase"
          /\ emptied' = emptied
      BY <1>3 DEF EraseNext
    <2>2. CASE ~emptied
      <3>1. ug.binLen # 0 /\ PromiseInv
        BY <1>1, <2>2 DEF TypeInv, CallInv, ShownInv, PromiseInv
      <3>2. at # OtaBase
        BY <1>1, <1>3, <3>1, Numbers
      <3>3. PromiseInv'
        BY <1>1, <2>1, <3>1, <3>2, QuietShown
      <3> QED BY <3>3 DEF ShownInv, PromiseInv
    <2>3. CASE emptied
      BY <2>1, <2>3 DEF ShownInv
    <2> QED BY <2>2, <2>3
  <1> QED BY <1>2, <1>3

(* A unit's write touches the first unit's cells with 0xFF at most.        *)
LEMMA BlockShown ==
    ASSUME TypeInv, PromiseInv, pc = "block", pc' \in {"block", "idle"},
           \A k \in 0 .. Unit - 1 : flash'[OtaBase + k] = flash[OtaBase + k]
    PROVE  PromiseInv'
  <1>1. ug # NoProc /\ ug.stat = "data"
    BY BlockFacts
  <1>2. ~Bootable
    BY <1>1 DEF PromiseInv, HiddenInv
  <1>3. ~Bootable'
    BY <1>2, StaysHidden
  <1> QED BY <1>3, NotBootable DEF PromiseInv, HiddenInv, CommitInv

LEMMA BehindFirstUnit ==
    ASSUME NEW addr \in Nat, addr >= OtaBase + Unit, NEW len \in Nat, NEW src,
           NEW k \in 0 .. Unit - 1
    PROVE  Program(flash, Open, addr, len, src)[OtaBase + k] = flash[OtaBase + k]
  BY SlotCells, Numbers DEF Program

LEMMA UnitShown ==
    ASSUME TypeInv, PromiseInv, FirstUnit \/ NextUnit \/ DataReturn \/ FirstUnitNoMemory
    PROVE  PromiseInv'
  <1>1. pc = "block" /\ pc' \in {"block", "idle"}
    BY DEF FirstUnit, NextUnit, DataReturn, FirstUnitNoMemory, UnitTaken
  <1>2. /\ ug.addr = OtaBase + ug.recv /\ (ug.recv = 0 \/ ug.recv >= Unit)
        /\ firstBlock = (IF ug.recv = 0 THEN 1 ELSE 0) /\ ug.recv \in Nat /\ left \in Nat
        /\ ug.binLen \in 0 .. MaxBin - 1
    BY <1>1, BlockFacts DEF TypeInv, DataInv, CallInv
  <1>3. ASSUME NEW k \in 0 .. Unit - 1
        PROVE  flash'[OtaBase + k] = flash[OtaBase + k]
    <2>0. OtaBase + k \in Addr /\ flash[OtaBase + k] \in Byte
      BY SlotCells, Numbers, SMTT(30) DEF TypeInv, TypeOK, Cells
    <2>1. CASE FirstUnit
      <3>1. flash' = Program(flash, Open, ug.addr, Unit, [j \in 0 .. Unit - 1 |-> Erased])
            /\ ug.addr = OtaBase
        BY <1>2, <2>1, Numbers DEF FirstUnit
      <3>2. CASE OtaBase + Unit > FlashSize
        BY <3>1, <3>2 DEF Program
      <3>3. CASE ~(OtaBase + Unit > FlashSize)
        BY <2>0, <3>1, <3>3, FlashAssumption, Numbers DEF Program
      <3> QED BY <3>2, <3>3, Numbers
    <2>2. CASE NextUnit
      <3>1. flash' = Program(flash, Open, ug.addr, Unit, Chunk(Unit)) /\ firstBlock = 0
        BY <2>2 DEF NextUnit
      <3>2. ug.addr \in Nat /\ ug.addr >= OtaBase + Unit
        BY <1>2, <3>1, Numbers
      <3> QED BY <3>1, <3>2, BehindFirstUnit, Numbers
    <2>3. CASE DataReturn
      <3> DEFINE taken == IF IsTail THEN left ELSE 0
      <3>1. taken \in Nat
        BY <1>2
      <3>2. ug.recv = 0 => taken = 0
        <4>1. ASSUME ug.recv = 0, IsTail PROVE FALSE
          BY <1>2, <4>1, Numbers DEF IsTail, Minus
        <4> QED BY <4>1
      <3> HIDE DEF taken
      <3>3. flash' = Program(flash, Open, ug.addr, taken, Chunk(taken))
        BY <2>3 DEF DataReturn, taken
      <3>4. CASE ug.recv = 0
        BY <1>2, <2>0, <3>2, <3>3, <3>4, Numbers DEF Program
      <3>5. CASE ug.recv # 0
        <4>1. ug.addr \in Nat /\ ug.addr >= OtaBase + Unit
          BY <1>2, <3>5, Numbers
        <4> QED BY <3>1, <3>3, <4>1, BehindFirstUnit
      <3> QED BY <3>4, <3>5
    <2>4. CASE FirstUnitNoMemory
      BY <2>4 DEF FirstUnitNoMemory
    <2> QED BY <2>1, <2>2, <2>3, <2>4
  <1> QED BY <1>1, <1>3, BlockShown
(* Accepting: the slot shows nothing yet, and what will be written is what *)
(* has just passed the sum.                                                *)
LEMMA EndAcceptShown ==
    ASSUME TypeInv, PromiseInv, ~emptied, EndAccept
    PROVE  PromiseInv'
  <1>1. /\ pc = "idle" /\ ug # NoProc /\ ug \in Proc /\ pc' = "eraseFirst"
        /\ ug' = ug /\ flash' = flash
    BY DEF EndAccept, procVars, TypeInv, TypeOK
  <1>2. CASE ug.stat = "header"
    <2>1. verified' = verified
      BY <1>2 DEF EndAccept
    <2>2. ShownIsVerified'
      BY <1>1, <2>1, SameShown DEF PromiseInv
    <2> QED BY <1>1, <1>2, <2>2 DEF PromiseInv, HiddenInv, CommitInv
  <1>3. CASE ug.stat # "header"
    <2>1. ~Bootable /\ ~Bootable'
      BY <1>1, <1>3 DEF PromiseInv, HiddenInv, Bootable
    <2>2. ug.start = OtaBase /\ ug.binLen \in 1 .. MaxBin - 1
      BY <1>1, <1>3 DEF TypeInv, CallInv
    <2>3. verified' = [img |-> Assembled, len |-> ug.binLen]
      BY <1>3 DEF EndAccept
    <2>4. verified'.len \in 1 .. MaxBin - 1 /\ verified'.len = ug.binLen
      BY <2>2, <2>3
    <2>5. \A k \in 0 .. ug.binLen - 1 :
             verified'.img[k] = IF k < Unit THEN FirstUnitInRam[k]
                                ELSE flash[OtaBase + k]
      BY <2>2, <2>3 DEF Assembled
    <2>6. \A k \in BufSize .. verified'.len - 1 : flash'[OtaBase + k] = verified'.img[k]
      BY <1>1, <2>2, <2>4, <2>5, Numbers
    <2>7. \A k \in 0 .. BufSize - 1 :
             buf'[k] = IF k < Unit THEN FirstUnitInRam[k] ELSE flash[OtaBase + k]
      BY <2>2 DEF EndAccept
    <2>8. \A k \in 0 .. BufSize - 1 : k < verified'.len => buf'[k] = verified'.img[k]
      BY <2>2, <2>4, <2>5, <2>7, Numbers
    <2>9. CommitInv'
      BY <1>1, <2>4, <2>6, <2>8 DEF CommitInv
    <2> QED BY <1>1, <2>1, <2>9, NotBootable DEF PromiseInv, HiddenInv
  <1> QED BY <1>2, <1>3

(* Without a header the sector at address 0 is erased and written: both    *)
(* are in the protected half, nothing changes.                             *)
LEMMA ProtectedSector ==
    ASSUME NEW cells \in Cells
    PROVE  /\ EraseSector(cells, Open, 0) = cells
           /\ \A a \in 0 .. BufSize - 1 : \A src : Program(cells, Open, a, 1, src) = cells
  <1>1. \A a \in 0 .. BufSize - 1 : ~Writable(Open, a)
    BY Numbers DEF Writable
  <1>2. EraseSector(cells, Open, 0) = cells
    BY <1>1, Numbers DEF EraseSector, Cells, Addr
  <1>3. ASSUME NEW a \in 0 .. BufSize - 1, NEW src
        PROVE  Program(cells, Open, a, 1, src) = cells
    BY <1>1, Numbers DEF Program, Cells, Addr
  <1> QED BY <1>2, <1>3

LEMMA EraseFirstShown ==
    ASSUME TypeInv, PromiseInv, EraseFirst
    PROVE  PromiseInv'
  <1>1. /\ pc = "eraseFirst" /\ ug # NoProc /\ ug \in Proc /\ pc' = "writeFirst"
        /\ ug' = ug /\ buf' = buf /\ verified' = verified /\ at' = 0
        /\ flash' = EraseSector(flash, Open, SectorBase(ug.start)) /\ flash \in Cells
    BY DEF EraseFirst, procVars, TypeInv, TypeOK, CallInv
  <1>2. CASE ug.stat = "header"
    <2>1. ug.start = 0
      BY <1>1, <1>2 DEF TypeInv, CallInv
    <2>2. flash' = flash
      BY <1>1, <2>1, SectorBases, ProtectedSector
    <2>3. ShownIsVerified'
      BY <1>1, <2>2, SameShown DEF PromiseInv
    <2> QED BY <1>1, <1>2, <2>3 DEF PromiseInv, HiddenInv, CommitInv
  <1>3. CASE ug.stat # "header"
    <2>1. flash' = EraseSector(flash, Open, OtaBase)
      BY <1>1, <1>3, SectorBases DEF TypeInv, CallInv
    <2>2. \A k \in 0 .. BufSize - 1 : flash'[OtaBase + k] = Erased
      BY <2>1, SlotCells, Numbers DEF EraseSector, Writable, Open
    <2>3. ~Bootable'
      BY <2>2, Numbers DEF Bootable
    <2>4. /\ verified.len \in 1 .. MaxBin - 1
          /\ \A k \in BufSize .. verified.len - 1 : flash[OtaBase + k] = verified.img[k]
          /\ \A k \in 0 .. BufSize - 1 : k < verified.len => buf[k] = verified.img[k]
      BY <1>1, <1>3 DEF PromiseInv, CommitInv
    <2>5. \A k \in BufSize .. verified.len - 1 : flash'[OtaBase + k] = verified.img[k]
      <3>1. SUFFICES ASSUME NEW k \in BufSize .. verified.len - 1
                     PROVE  flash'[OtaBase + k] = flash[OtaBase + k]
        BY <2>4
      <3>2. k \in 0 .. MaxBin + BufSize - 1
        BY <2>4, Numbers
      <3>3. OtaBase + k \in Addr /\ OtaBase + k \notin OtaBase .. OtaBase + Sector - 1
        BY <3>2, SlotCells, Numbers
      <3> QED BY <2>1, <3>3 DEF EraseSector
    <2>6. CommitInv'
      BY <1>1, <2>2, <2>4, <2>5 DEF CommitInv
    <2> QED BY <1>1, <2>3, <2>6, NotBootable DEF PromiseInv, HiddenInv
  <1> QED BY <1>2, <1>3

LEMMA WriteFirstShown ==
    ASSUME TypeInv, PromiseInv, WriteFirst
    PROVE  PromiseInv'
  <1> DEFINE src == [k \in {0} |-> buf[at]]
  <1>1. /\ pc = "writeFirst" /\ ug # NoProc /\ ug \in Proc /\ pc' = "writeFirst"
        /\ ug' = ug /\ buf' = buf /\ verified' = verified
        /\ flash' = Program(flash, Open, ug.start + at, 1, src) /\ flash \in Cells
    BY DEF WriteFirst, procVars, TypeInv, TypeOK, CallInv
  <1>2. /\ at \in 0 .. BufSize - 1 /\ at' = at + 1 /\ at' \in 0 .. BufSize
        /\ buf[at] \in Byte
    BY Numbers DEF WriteFirst, TypeInv, TypeOK
  <1>a. src[0] = buf[at]
    OBVIOUS
  <1> HIDE DEF src
  <1>3. CASE ug.stat = "header"
    <2>1. ug.start = 0
      BY <1>1, <1>3 DEF TypeInv, CallInv
    <2>2. flash' = flash
      BY <1>1, <1>2, <2>1, ProtectedSector
    <2>3. ShownIsVerified'
      BY <1>1, <2>2, SameShown DEF PromiseInv
    <2> QED BY <1>1, <1>3, <2>3 DEF PromiseInv, HiddenInv, CommitInv
  <1>4. CASE ug.stat # "header"
    <2>1. flash' = Program(flash, Open, OtaBase + at, 1, src)
      BY <1>1, <1>4 DEF TypeInv, CallInv
    <2>2. /\ verified.len \in 1 .. MaxBin - 1
          /\ \A k \in BufSize .. verified.len - 1 : flash[OtaBase + k] = verified.img[k]
          /\ \A k \in 0 .. BufSize - 1 : k < verified.len => buf[k] = verified.img[k]
          /\ \A k \in 0 .. at - 1 : flash[OtaBase + k] = buf[k]
          /\ \A k \in at .. BufSize - 1 : flash[OtaBase + k] = Erased
      BY <1>1, <1>4 DEF PromiseInv, CommitInv
    <2>3. OtaBase + at \in Addr /\ OtaBase + at >= Half /\ OtaBase + at + 1 <= FlashSize
      BY <1>2, SlotCells, Numbers DEF Addr
    <2>4. flash' = [a \in Addr |-> IF a \in OtaBase + at .. OtaBase + at + 1 - 1
                                      /\ Writable(Open, a)
                                   THEN BitAnd(flash[a], src[a - (OtaBase + at)])
                                   ELSE flash[a]]
      BY <2>1, <2>3, <1>2, Numbers DEF Program
    <2>5. flash'[OtaBase + at] = BitAnd(Erased, buf[at])
      BY <1>2, <1>a, <2>2, <2>3, <2>4, Numbers DEF Writable, Open
    <2>6. flash'[OtaBase + at] = buf[at]
      BY <1>2, <2>5, FlashAssumption
    <2>7. \A k \in Nat : k # at /\ OtaBase + k \in Addr =>
             flash'[OtaBase + k] = flash[OtaBase + k]
      BY <1>2, <2>4, Numbers
    <2>8. ASSUME NEW k \in 0 .. at' - 1
          PROVE  flash'[OtaBase + k] = buf[k]
      <3>1. k \in Nat /\ k \in 0 .. MaxBin + BufSize - 1 /\ (k # at => k \in 0 .. at - 1)
        BY <1>2, Numbers
      <3> QED BY <2>2, <2>6, <2>7, <3>1, SlotCells
    <2>9. ASSUME NEW k \in at' .. BufSize - 1
          PROVE  flash'[OtaBase + k] = Erased
      <3>1. /\ k \in Nat /\ k \in 0 .. MaxBin + BufSize - 1 /\ k # at
            /\ k \in at .. BufSize - 1
        BY <1>2, Numbers
      <3> QED BY <2>2, <2>7, <3>1, SlotCells
    <2>10. \A k \in BufSize .. verified.len - 1 : flash'[OtaBase + k] = verified.img[k]
      <3>1. SUFFICES ASSUME NEW k \in BufSize .. verified.len - 1
                     PROVE  flash'[OtaBase + k] = flash[OtaBase + k]
        BY <2>2
      <3>2. k \in Nat /\ k # at /\ k \in 0 .. MaxBin + BufSize - 1
        BY <1>2, <2>2, Numbers
      <3> QED BY <2>7, <3>2, SlotCells
    <2>11. CommitInv'
      BY <1>1, <2>2, <2>8, <2>9, <2>10 DEF CommitInv
    <2>12. ASSUME NEW k \in 0 .. at + 1 - 1, k < verified.len
           PROVE  flash'[OtaBase + k] = verified.img[k]
      <3>1. k \in 0 .. BufSize - 1
        BY <1>2, Numbers
      <3>2. flash'[OtaBase + k] = buf[k]
        BY <1>2, <2>8
      <3> QED BY <2>2, <2>12, <3>1, <3>2
    <2>13. \E n \in 0 .. BufSize :
              /\ \A k \in 0 .. n - 1 :
                   k < verified.len => flash'[OtaBase + k] = verified.img[k]
              /\ \A k \in n .. BufSize - 1 : flash'[OtaBase + k] = Erased
      <3>1. at + 1 \in 0 .. BufSize
        BY <1>2
      <3> WITNESS at + 1 \in 0 .. BufSize
      <3> QED BY <1>2, <2>9, <2>12
    <2>14. verified.len >= 1
      BY <2>2
    <2>15. ShownIsVerified'
      BY <1>1, <2>10, <2>13, <2>14 DEF ShownIsVerified
    <2> QED BY <1>1, <2>11, <2>15 DEF PromiseInv, HiddenInv
  <1> QED BY <1>3, <1>4

LEMMA StartShown ==
    ASSUME TypeInv, PromiseInv, Start
    PROVE  PromiseInv'
  <1>1. CASE StartRefused
    BY <1>1 DEF StartRefused, PromiseInv, HiddenInv, CommitInv, ShownIsVerified,
                Bootable, callVars, procVars
  <1>2. ASSUME NEW f \in Files, StartNotify(f) PROVE PromiseInv'
    <2>1. /\ flash' = flash /\ verified' = verified /\ pc = "idle" /\ pc' = "idle"
          /\ ug' = NewProc \/ ug' = NoProc
      BY <1>2 DEF StartNotify, callVars
    <2>2. ug' = NoProc \/ ug'.stat = "header"
      BY <2>1 DEF NewProc
    <2> QED BY <2>1, <2>2, QuietShown
  <1> QED BY <1>1, <1>2 DEF Start

LEMMA DataShown ==
    ASSUME TypeInv, PromiseInv, NEW n \in 0 .. MaxPacket, DataProcess(n)
    PROVE  PromiseInv'
  <1>1. /\ flash' = flash /\ verified' = verified /\ pc = "idle" /\ ug # NoProc
        /\ ug \in Proc /\ pc' \in {"idle", "block", "erase"}
    BY DEF DataProcess, DataShortHeader, DataBadHeader, DataHeader, DataWait, DataBegin,
           DataAfterFinish, CanProcess, callVars, TypeInv, TypeOK
  <1>2. CASE DataHeader(n)
    <2>1. pc' = "erase" /\ at' = OtaBase
      BY <1>2, SectorBases DEF DataHeader
    <2> QED BY <1>1, <2>1, QuietShown
  <1>3. CASE DataBadHeader(n)
    <2>1. ug.stat = "header" /\ ug' = [ug EXCEPT !.binLen = 0, !.binSum = 0]
      BY <1>3 DEF DataBadHeader
    <2>2. ug'.stat = "header"
      BY <1>1, <2>1 DEF Proc
    <2> QED BY <1>1, <2>2, QuietShown
  <1>4. CASE ~DataHeader(n) /\ ~DataBadHeader(n)
    <2>1. ug' = ug
      BY <1>4 DEF DataProcess, DataShortHeader, DataWait, DataBegin, DataAfterFinish, procVars
    <2> QED BY <1>1, <2>1, QuietShown
  <1> QED BY <1>2, <1>3, <1>4

LEMMA InitShown == Init => ShownInv
  <1> SUFFICES ASSUME Init PROVE ShownInv
    OBVIOUS
  <1>1. \A k \in 0 .. Unit - 1 : flash[OtaBase + k] = Erased
    BY SlotCells, Numbers DEF Init
  <1> QED BY <1>1 DEF Init, ShownInv, HiddenInv, CommitInv, ShownIsVerified, Bootable

(* Only an erase ends what an empty package has begun.                     *)
LEMMA StaysEmptied ==
    ASSUME [Next]_vars, ~EraseNext, emptied
    PROVE  emptied'
  <1>1. CASE UNCHANGED vars \/ PowerFail \/ DataWithoutStart
    BY <1>1 DEF vars, PowerFail, DataWithoutStart
  <1>2. CASE CallStep
    BY <1>2 DEF CallStep, FirstUnit, FirstUnitNoMemory, NextUnit, DataReturn, UnitTaken,
                EraseFirst, WriteFirst, EndReturn
  <1>3. CASE EndNotify
    BY <1>3 DEF EndNotify, EndRefused, EndReject, EndAccept
  <1>4. CASE Start
    BY <1>4 DEF Start, StartRefused, StartNotify
  <1>5. ASSUME NEW n \in 0 .. MaxPacket, DataProcess(n) PROVE emptied'
    BY <1>5 DEF DataProcess, DataShortHeader, DataBadHeader, DataHeader, DataWait,
                DataBegin, DataAfterFinish
  <1> QED BY <1>1, <1>2, <1>3, <1>4, <1>5 DEF Next

LEMMA NextPromise ==
    ASSUME TypeInv, PromiseInv, ~emptied, ~EraseNext, [Next]_vars
    PROVE  PromiseInv'
  <1>1. CASE UNCHANGED vars
    BY <1>1 DEF vars, PromiseInv, HiddenInv, CommitInv, ShownIsVerified, Bootable,
                callVars, procVars, callerVars, bounds
  <1>2. CASE DataWithoutStart
    BY <1>2 DEF DataWithoutStart, PromiseInv, HiddenInv, CommitInv, ShownIsVerified,
                Bootable, callVars, procVars
  <1>3. CASE PowerFail
    <2>1. flash' = flash /\ verified' = verified /\ pc' = "idle" /\ ug' = NoProc
      BY <1>3 DEF PowerFail
    <2> QED BY <2>1, QuietShown
  <1>4. CASE EndNotify
    <2>1. CASE EndRefused
      BY <2>1 DEF EndRefused, PromiseInv, HiddenInv, CommitInv, ShownIsVerified,
                  Bootable, callVars, procVars
    <2>2. CASE EndReject
      <3>1. /\ flash' = flash /\ verified' = verified /\ pc' = "idle" /\ ug' = NoProc
        BY <2>2 DEF EndReject, callVars
      <3> QED BY <3>1, QuietShown
    <2> QED BY <1>4, <2>1, <2>2, EndAcceptShown DEF EndNotify
  <1>5. CASE CallStep
    <2>1. CASE EndReturn
      <3>1. /\ flash' = flash /\ verified' = verified /\ pc' = "idle" /\ ug' = NoProc
        BY <2>1 DEF EndReturn
      <3> QED BY <3>1, QuietShown
    <2> QED BY <1>5, <2>1, UnitShown, EraseFirstShown, WriteFirstShown DEF CallStep
  <1> QED BY <1>1, <1>2, <1>3, <1>4, <1>5, StartShown, DataShown DEF Next

LEMMA NextShown ==
    ASSUME TypeInv, ShownInv, [Next]_vars
    PROVE  ShownInv'
  <1>1. CASE EraseNext
    BY <1>1, EraseNextShown
  <1>2. CASE emptied /\ ~EraseNext
    BY <1>2, StaysEmptied DEF ShownInv
  <1>3. CASE ~emptied /\ ~EraseNext
    <2>1. PromiseInv
      BY <1>3 DEF ShownInv, PromiseInv
    <2>2. PromiseInv'
      BY <1>3, <2>1, NextPromise
    <2> QED BY <2>2 DEF ShownInv, PromiseInv
  <1> QED BY <1>1, <1>2, <1>3

(* After any calls, refused allocations and power failures the slot shows  *)
(* a package only with an image behind it that passed its sum: the first   *)
(* unit stays blank from the erase on until tkl_ota_end_notify has summed  *)
(* the image, and the last write puts only that image there.  A header     *)
(* with bin_len 0, which the code accepts, suspends that until the next    *)
(* package's erase.                                                        *)
THEOREM OnlyVerifiedIsBootable == Spec => []BootableOnlyIfVerified
  <1>1. Init => TypeInv /\ ShownInv
    BY InitType, InitShown
  <1>2. TypeInv /\ ShownInv /\ [Next]_vars => (TypeInv /\ ShownInv)'
    BY NextType, NextShown
  <1>3. ShownInv => BootableOnlyIfVerified
    BY DEF ShownInv, BootableOnlyIfVerified
  <1> QED BY <1>1, <1>2, <1>3, PTL DEF Spec
-----------------------------------------------------------------------------
(* What is staged, and why it is what was served.                          *)
Staged ==
    \A k \in 0 .. ug.recv - 1 : k < ug.binLen =>
        file.data[k] = IF k < Unit THEN FirstUnitInRam[k] ELSE flash[OtaBase + k]

CountInv ==
    /\ ug.binLen = file.len
    /\ ug.stat = "finish" => ug.recv >= ug.binLen
    /\ ug.stat = "data" /\ pc # "block" => ug.recv < ug.binLen \/ ug.recv = 0
    /\ pc = "block" => ug.recv + left < MaxBin + MaxPacket

BlankInv ==
    /\ pc = "erase" =>
         \A k \in 0 .. ug.binLen - 1 : OtaBase + k < at => flash[OtaBase + k] = Erased
    /\ pc \in {"idle", "block"} /\ ug.stat = "data" =>
         \A k \in ug.recv .. ug.binLen - 1 : flash[OtaBase + k] = Erased

ServedInv ==
    /\ pc \in {"idle", "block"} => Staged
    /\ pc \in {"eraseFirst", "writeFirst"} /\ ug.stat = "finish" =>
         /\ verified.len = file.len
         /\ \A k \in 0 .. file.len - 1 : verified.img[k] = file.data[k]

StageInv ==
    ug # NoProc /\ ug.stat # "header" => CountInv /\ BlankInv /\ ServedInv

(* Nothing staged is touched.                                              *)
LEMMA SameStage ==
    ASSUME StageInv, flash' = flash, ug' = ug, firstBuf' = firstBuf, pc' = pc,
           at' = at, left' = left, file' = file, verified' = verified
    PROVE  StageInv'
  BY DEF StageInv, CountInv, BlankInv, ServedInv, Staged, FirstUnitInRam

(* No update, or one without a header, stages nothing.                     *)
LEMMA NoStage ==
    ASSUME ug' = NoProc \/ ug'.stat = "header"
    PROVE  StageInv'
  BY DEF StageInv

(* What is known of an update whose header was accepted.                   *)
LEMMA StageFacts ==
    ASSUME TypeInv, ug # NoProc, ug.stat # "header"
    PROVE  /\ ug \in Proc /\ ug.recv \in Nat /\ ug.binLen \in 0 .. MaxBin - 1
           /\ ug.binLen \in Nat /\ ug.start = OtaBase /\ ug.addr \in Nat
           /\ file \in Files /\ file.len \in Nat /\ flash \in Cells
  <1>1. ug \in Proc /\ file \in Files /\ flash \in Cells
    BY DEF TypeInv, TypeOK
  <1>2. ug.binLen \in 0 .. MaxBin - 1 /\ ug.start = OtaBase
    BY DEF TypeInv, CallInv
  <1> QED BY <1>1, <1>2, FileType, Numbers DEF Proc

LEMMA DataStage ==
    ASSUME TypeInv, StageInv, NEW n \in 0 .. MaxPacket, DataProcess(n)
    PROVE  StageInv'
  <1> USE Numbers
  <1>1. CASE DataShortHeader(n)
    BY <1>1, NoStage DEF DataShortHeader, procVars
  <1>2. CASE DataBadHeader(n)
    <2>1. ug \in Proc /\ ug.stat = "header" /\ ug' = [ug EXCEPT !.binLen = 0, !.binSum = 0]
      BY <1>2 DEF DataBadHeader, CanProcess, TypeInv, TypeOK
    <2>2. ug'.stat = "header"
      BY <2>1 DEF Proc
    <2> QED BY <2>2, NoStage
  <1>3. CASE DataHeader(n)
    <2>1. /\ ug'.binLen = file.len /\ ug'.stat = "data" /\ ug'.recv = 0
          /\ file' = file /\ pc' = "erase" /\ at' = OtaBase
      BY <1>3, SectorBases DEF DataHeader
    <2>2. file.len \in Nat
      BY FileType DEF TypeInv, TypeOK
    <2>3. CountInv'
      BY <2>1, <2>2 DEF CountInv
    <2>4. BlankInv'
      <3>1. \A k \in 0 .. ug'.binLen - 1 : ~(OtaBase + k < at')
        BY <2>1, <2>2
      <3> QED BY <2>1, <3>1 DEF BlankInv
    <2>5. ServedInv'
      BY <2>1 DEF ServedInv
    <2> QED BY <2>3, <2>4, <2>5 DEF StageInv
  <1>4. CASE DataWait(n)
    BY <1>4, SameStage DEF DataWait, procVars, callVars
  <1>5. CASE DataBegin(n)
    <2>1. /\ pc = "idle" /\ ug # NoProc /\ ug.stat = "data" /\ pc' = "block" /\ left' = Packet(n)
          /\ Packet(n) \in 1 .. MaxPacket
          /\ ug' = ug /\ flash' = flash /\ firstBuf' = firstBuf /\ file' = file
      BY <1>5 DEF DataBegin, CanProcess, procVars
    <2>2. CountInv /\ BlankInv /\ ServedInv
      BY <2>1 DEF StageInv
    <2>3. CountInv'
      <3>1. ug.recv \in Nat /\ ug.binLen \in 0 .. MaxBin - 1
        BY <2>1, StageFacts
      <3>2. ug.recv + Packet(n) < MaxBin + MaxPacket
        BY <2>1, <2>2, <3>1 DEF CountInv
      <3> QED BY <2>1, <2>2, <3>2 DEF CountInv
    <2>4. BlankInv' /\ ServedInv'
      BY <2>1, <2>2 DEF BlankInv, ServedInv, Staged, FirstUnitInRam
    <2> QED BY <2>3, <2>4 DEF StageInv
  <1>6. CASE DataAfterFinish(n)
    BY <1>6, SameStage DEF DataAfterFinish, procVars, callVars
  <1> QED BY <1>1, <1>2, <1>3, <1>4, <1>5, <1>6 DEF DataProcess

(* The erase leaves every cell of the image blank.                         *)
LEMMA EraseStage ==
    ASSUME TypeInv, StageInv, EraseNext
    PROVE  StageInv'
  <1> USE Numbers
  <1>1. /\ ug # NoProc /\ ug.stat = "data" /\ pc = "erase" /\ ug' = ug /\ file' = file
        /\ ug.start = OtaBase /\ ug.binLen \in 0 .. MaxBin - 1 /\ at \in Nat /\ at >= OtaBase
        /\ ug.recv = 0 /\ flash \in Cells
    BY DEF EraseNext, TypeInv, TypeOK, CallInv, DataInv, procVars
  <1>2. CountInv /\ \A k \in 0 .. ug.binLen - 1 : OtaBase + k < at => flash[OtaBase + k] = Erased
    BY <1>1 DEF StageInv, BlankInv
  <1>3. CASE at <= ug.start + ug.binLen - 1
    <2>1. flash' = EraseSector(flash, Open, at) /\ at' = at + Sector /\ pc' = "erase"
      BY <1>3 DEF EraseNext
    <2>2. ASSUME NEW k \in 0 .. ug.binLen - 1, OtaBase + k < at + Sector
          PROVE  flash'[OtaBase + k] = Erased
      <3>1. k \in 0 .. MaxBin + BufSize - 1
        BY <1>1
      <3>2. OtaBase + k \in Addr /\ OtaBase + k >= Half
        BY <3>1, SlotCells
      <3>3. CASE OtaBase + k < at
        BY <1>1, <1>2, <2>1, <3>2, <3>3 DEF EraseSector
      <3>4. CASE ~(OtaBase + k < at)
        <4>1. OtaBase + k \in at .. at + Sector - 1
          BY <1>1, <2>2, <3>4
        <4> QED BY <2>1, <3>2, <4>1 DEF EraseSector, Writable, Open
      <3> QED BY <3>3, <3>4
    <2>3. CountInv' /\ ServedInv'
      BY <1>1, <1>2, <2>1 DEF CountInv, ServedInv
    <2>4. BlankInv'
      BY <1>1, <2>1, <2>2 DEF BlankInv
    <2> QED BY <2>3, <2>4 DEF StageInv
  <1>4. CASE ~(at <= ug.start + ug.binLen - 1)
    <2>1. flash' = flash /\ pc' = "idle"
      BY <1>4 DEF EraseNext
    <2>2. \A k \in 0 .. ug.binLen - 1 : flash[OtaBase + k] = Erased
      BY <1>1, <1>2, <1>4
    <2>3. CountInv'
      BY <1>1, <1>2, <2>1 DEF CountInv
    <2>4. BlankInv'
      BY <1>1, <2>1, <2>2 DEF BlankInv
    <2>5. ServedInv'
      BY <1>1, <2>1 DEF ServedInv, Staged
    <2> QED BY <2>3, <2>4, <2>5 DEF StageInv
  <1> QED BY <1>3, <1>4

(* A cell of the upper half after a program of the open chip.              *)
LEMMA ProgrammedCell ==
    ASSUME NEW addr \in Nat, NEW len \in Nat, NEW src, addr + len <= FlashSize,
           NEW a \in Addr, a >= Half
    PROVE  Program(flash, Open, addr, len, src)[a] =
              IF a \in addr .. addr + len - 1 THEN BitAnd(flash[a], src[a - addr])
              ELSE flash[a]
  BY Numbers DEF Program, Writable, Open

(* A packet's cells land behind those received, in blank cells.            *)
LEMMA PlacedCells ==
    ASSUME TypeInv, StageInv, pc = "block", NEW len \in 0 .. left,
           NEW k \in 0 .. ug.binLen - 1
    PROVE  Program(flash, Open, ug.addr, len, Chunk(len))[OtaBase + k] =
              IF k \in ug.recv .. ug.recv + len - 1 THEN file.data[k]
              ELSE flash[OtaBase + k]
  <1> USE Numbers
  <1>1. /\ ug # NoProc /\ ug.stat = "data" /\ left \in Nat /\ fed = Hdr + ug.recv
        /\ fed + left <= Hdr + file.size /\ file.size \in Nat /\ ug.recv \in Nat
    BY BlockFacts
  <1>2. /\ ug.addr = OtaBase + ug.recv /\ ug.binLen \in 0 .. MaxBin - 1 /\ len \in Nat
        /\ file \in Files /\ flash \in Cells /\ ug.binLen \in Nat
    BY <1>1, StageFacts DEF TypeInv, DataInv
  <1>3. ug.recv + left < MaxBin + MaxPacket
    BY <1>1 DEF StageInv, CountInv
  <1>4. \A j \in ug.recv .. ug.binLen - 1 : flash[OtaBase + j] = Erased
    BY <1>1 DEF StageInv, BlankInv
  <1>5. ug.addr + len <= FlashSize
    BY <1>1, <1>2, <1>3
  <1>6. k \in 0 .. MaxBin + BufSize - 1
    BY <1>2
  <1>7. OtaBase + k \in Addr /\ OtaBase + k >= Half
    BY <1>6, SlotCells
  <1>8. Program(flash, Open, ug.addr, len, Chunk(len))[OtaBase + k] =
           IF OtaBase + k \in ug.addr .. ug.addr + len - 1
           THEN BitAnd(flash[OtaBase + k], Chunk(len)[OtaBase + k - ug.addr])
           ELSE flash[OtaBase + k]
    BY <1>1, <1>2, <1>5, <1>7, ProgrammedCell
  <1>9. CASE k \in ug.recv .. ug.recv + len - 1
    <2>1. OtaBase + k \in ug.addr .. ug.addr + len - 1 /\ OtaBase + k - ug.addr = k - ug.recv
      BY <1>1, <1>2, <1>9
    <2>2. Chunk(len)[k - ug.recv] = file.data[k]
      <3>1. k - ug.recv \in 0 .. len - 1 /\ fed - Hdr + (k - ug.recv) = k
        BY <1>1, <1>2, <1>9
      <3> QED BY <3>1 DEF Chunk
    <2>3. file.data[k] \in Byte
      <3>1. k \in 0 .. file.size - 1
        BY <1>1, <1>2, <1>9
      <3> QED BY <1>2, <3>1, FileType
    <2>4. flash[OtaBase + k] = Erased
      BY <1>1, <1>2, <1>4, <1>9
    <2> QED BY <1>8, <1>9, <2>1, <2>2, <2>3, <2>4, FlashAssumption
  <1>10. CASE k \notin ug.recv .. ug.recv + len - 1
    <2>1. OtaBase + k \notin ug.addr .. ug.addr + len - 1
      BY <1>1, <1>2, <1>10
    <2> QED BY <1>8, <1>10, <2>1
  <1> QED BY <1>9, <1>10

(* The first unit is kept in RAM, and its place stays blank.               *)
LEMMA FirstUnitStage ==
    ASSUME TypeInv, StageInv, FirstUnit
    PROVE  StageInv'
  <1> USE Numbers
  <1>1. /\ pc = "block" /\ ug # NoProc /\ ug.stat = "data" /\ left \in Nat /\ left >= Unit
        /\ file.size \in Nat /\ fed = Hdr + ug.recv /\ fed + left <= Hdr + file.size
        /\ ug.recv \in Nat /\ firstBlock = 1
    BY BlockFacts DEF FirstUnit
  <1>2. ug.recv = 0 /\ ug.addr = OtaBase
    BY <1>1 DEF TypeInv, DataInv
  <1>3. CountInv /\ BlankInv
    BY <1>1 DEF StageInv
  <1>4. /\ ug' = [ug EXCEPT !.addr = @ + Unit, !.recv = @ + Unit] /\ left' = left - Unit
        /\ pc' = "block" /\ file' = file /\ firstBuf' = Chunk(Unit)
        /\ flash' = Program(flash, Open, OtaBase, Unit, [k \in 0 .. Unit - 1 |-> Erased])
    BY <1>1, <1>2 DEF FirstUnit, UnitTaken
  <1>5. ug \in Proc /\ ug.binLen \in 0 .. MaxBin - 1 /\ ug.binLen \in Nat /\ file \in Files
        /\ flash \in Cells
    BY <1>1, StageFacts
  <1>6. ug'.recv = Unit /\ ug'.binLen = ug.binLen /\ ug'.stat = "data"
    BY <1>1, <1>2, <1>4, <1>5 DEF Proc
  <1>7. CountInv'
    <2>1. ug.recv + left < MaxBin + MaxPacket /\ ug.binLen = file.len
      BY <1>1, <1>3 DEF CountInv
    <2>2. pc' = "block" /\ file' = file /\ left' = left - Unit
      BY <1>4
    <2> QED BY <1>1, <1>2, <1>5, <1>6, <2>1, <2>2 DEF CountInv
  <1>8. ASSUME NEW k \in Unit .. ug.binLen - 1 PROVE flash'[OtaBase + k] = Erased
    <2>1. OtaBase + k \in Addr /\ k \in ug.recv .. ug.binLen - 1
      <3>1. k \in 0 .. MaxBin + BufSize - 1 /\ k \in ug.recv .. ug.binLen - 1
        BY <1>2, <1>5
      <3> QED BY <3>1, SlotCells
    <2>2. flash'[OtaBase + k] = flash[OtaBase + k]
      BY <1>4, <2>1, SMTT(30) DEF Program
    <2>3. flash[OtaBase + k] = Erased
      BY <1>1, <1>3, <2>1 DEF BlankInv
    <2> QED BY <2>2, <2>3
  <1>9. ASSUME NEW k \in 0 .. Unit - 1 PROVE firstBuf'[k] = file.data[k]
    <2>1. fed - Hdr + k = k
      BY <1>1, <1>2
    <2> QED BY <1>4, <2>1 DEF Chunk
  <1>10. firstBuf' # NoBuf
    <2>1. Chunk(Unit) \in [0 .. Unit - 1 -> Byte]
      <3>1. fed \in Nat /\ fed >= Hdr /\ fed + Unit <= Hdr + file.size
        BY <1>1, <1>2
      <3> QED BY <1>5, <3>1, ChunkType
    <2> QED BY <1>4, <2>1, Sentinels DEF Block
  <1>11. Staged'
    <2>1. \A k \in 0 .. Unit - 1 : k < ug.binLen => file.data[k] = FirstUnitInRam'[k]
      BY <1>9, <1>10 DEF FirstUnitInRam
    <2> QED BY <1>4, <1>6, <2>1, SMTT(30) DEF Staged
  <1>12. BlankInv' /\ ServedInv'
    BY <1>4, <1>6, <1>8, <1>11 DEF BlankInv, ServedInv
  <1> QED BY <1>7, <1>12 DEF StageInv

(* len more cells are in place: a whole unit, or the end of the image.     *)
LEMMA MoreStage ==
    ASSUME TypeInv, StageInv, pc = "block", NEW len \in 0 .. left,
           ug.recv = 0 => len = 0,
           flash' = Program(flash, Open, ug.addr, len, Chunk(len)),
           firstBuf' = firstBuf, file' = file, ug'.binLen = ug.binLen,
           ug'.recv = ug.recv + len
    PROVE  /\ Staged'
           /\ \A k \in ug'.recv .. ug'.binLen - 1 : flash'[OtaBase + k] = Erased
  <1> USE Numbers
  <1>1. /\ ug # NoProc /\ ug.stat = "data" /\ left \in Nat /\ ug.recv \in Nat
        /\ ug.binLen \in 0 .. MaxBin - 1 /\ ug.binLen \in Nat /\ len \in Nat
        /\ (ug.recv = 0 \/ ug.recv >= Unit)
    BY BlockFacts, StageFacts DEF TypeInv, DataInv
  <1>2. \A k \in 0 .. ug.binLen - 1 :
           flash'[OtaBase + k] = IF k \in ug.recv .. ug.recv + len - 1 THEN file.data[k]
                                 ELSE flash[OtaBase + k]
    BY PlacedCells
  <1>3. Staged /\ \A k \in ug.recv .. ug.binLen - 1 : flash[OtaBase + k] = Erased
    BY <1>1 DEF StageInv, BlankInv, ServedInv
  <1>4. FirstUnitInRam' = FirstUnitInRam
    BY DEF FirstUnitInRam
  <1>5. ASSUME NEW k \in 0 .. ug'.recv - 1, k < ug'.binLen
        PROVE  file'.data[k] = IF k < Unit THEN FirstUnitInRam'[k] ELSE flash'[OtaBase + k]
    <2>1. k \in 0 .. ug.binLen - 1
      BY <1>1, <1>5
    <2>2. CASE k < ug.recv
      <3>1. k \in 0 .. ug.recv - 1 /\ k \notin ug.recv .. ug.recv + len - 1
        BY <1>1, <2>2
      <3> QED BY <1>2, <1>3, <1>4, <1>5, <2>1, <3>1 DEF Staged
    <2>3. CASE ~(k < ug.recv)
      <3>1. k \in ug.recv .. ug.recv + len - 1 /\ ug.recv # 0 /\ ~(k < Unit)
        BY <1>1, <1>5, <2>3
      <3> QED BY <1>2, <2>1, <3>1
    <2> QED BY <2>2, <2>3
  <1>6. ASSUME NEW k \in ug'.recv .. ug'.binLen - 1 PROVE flash'[OtaBase + k] = Erased
    <2>1. /\ k \in 0 .. ug.binLen - 1 /\ k \in ug.recv .. ug.binLen - 1
          /\ k \notin ug.recv .. ug.recv + len - 1
      BY <1>1, <1>6
    <2> QED BY <1>2, <1>3, <2>1
  <1> QED BY <1>5, <1>6 DEF Staged

LEMMA NextUnitStage ==
    ASSUME TypeInv, StageInv, NextUnit
    PROVE  StageInv'
  <1> USE Numbers
  <1>1. /\ pc = "block" /\ ug # NoProc /\ ug.stat = "data" /\ left \in Nat /\ left >= Unit
        /\ ug.recv \in Nat /\ firstBlock = 0 /\ ug \in Proc /\ Unit \in 0 .. left
        /\ ug.binLen \in Nat
    BY BlockFacts DEF NextUnit
  <1>2. ug.recv # 0
    BY <1>1 DEF TypeInv, DataInv
  <1>3. /\ ug' = [ug EXCEPT !.addr = @ + Unit, !.recv = @ + Unit] /\ left' = left - Unit
        /\ pc' = "block" /\ file' = file /\ firstBuf' = firstBuf
        /\ flash' = Program(flash, Open, ug.addr, Unit, Chunk(Unit))
    BY <1>1 DEF NextUnit, UnitTaken
  <1>4. ug'.recv = ug.recv + Unit /\ ug'.binLen = ug.binLen /\ ug'.stat = "data"
    BY <1>1, <1>3 DEF Proc
  <1>5. CountInv'
    <2>1. CountInv
      BY <1>1 DEF StageInv
    <2> QED BY <1>1, <1>3, <1>4, <2>1 DEF CountInv
  <1>6. Staged' /\ \A k \in ug'.recv .. ug'.binLen - 1 : flash'[OtaBase + k] = Erased
    BY <1>1, <1>2, <1>3, <1>4, MoreStage
  <1>7. BlankInv' /\ ServedInv'
    BY <1>3, <1>4, <1>6 DEF BlankInv, ServedInv
  <1> QED BY <1>5, <1>7 DEF StageInv

LEMMA DataReturnStage ==
    ASSUME TypeInv, StageInv, DataReturn
    PROVE  StageInv'
  <1> USE Numbers
  <1> DEFINE taken == IF IsTail THEN left ELSE 0
             done  == ug.recv + taken >= ug.binLen
  <1>1. /\ pc = "block" /\ ug # NoProc /\ ug.stat = "data" /\ left \in Nat /\ left < Unit
        /\ ug.recv \in Nat /\ ug \in Proc /\ ug.binLen \in Nat /\ ug.binLen \in 0 .. MaxBin - 1
    BY BlockFacts, StageFacts DEF DataReturn
  <1>2. taken \in 0 .. left /\ taken \in Nat
    BY <1>1
  <1>3. ug.recv = 0 => taken = 0
    <2>1. ASSUME ug.recv = 0, IsTail PROVE FALSE
      BY <1>1, <2>1 DEF IsTail, Minus
    <2> QED BY <2>1
  <1> HIDE DEF taken
  <1>4. /\ flash' = Program(flash, Open, ug.addr, taken, Chunk(taken))
        /\ ug' = [ug EXCEPT !.addr = @ + taken, !.recv = @ + taken,
                            !.stat = IF done THEN "finish" ELSE @]
        /\ pc' = "idle" /\ file' = file /\ firstBuf' = firstBuf
    BY DEF DataReturn, taken
  <1>5. /\ ug'.recv = ug.recv + taken /\ ug'.binLen = ug.binLen
        /\ ug'.stat = IF done THEN "finish" ELSE "data"
    BY <1>1, <1>4 DEF Proc
  <1>6. CountInv'
    <2>1. CountInv
      BY <1>1 DEF StageInv
    <2>2. CASE done
      BY <1>1, <1>2, <1>4, <1>5, <2>1, <2>2 DEF CountInv
    <2>3. CASE ~done
      BY <1>1, <1>2, <1>4, <1>5, <2>1, <2>3 DEF CountInv
    <2> QED BY <2>2, <2>3
  <1>7. Staged' /\ \A k \in ug'.recv .. ug'.binLen - 1 : flash'[OtaBase + k] = Erased
    BY <1>1, <1>2, <1>3, <1>4, <1>5, MoreStage
  <1>8. BlankInv' /\ ServedInv'
    BY <1>4, <1>7 DEF BlankInv, ServedInv
  <1> QED BY <1>6, <1>8 DEF StageInv

(* Out of memory for the first unit, nothing has been staged yet.          *)
LEMMA NoMemoryStage ==
    ASSUME TypeInv, StageInv, FirstUnitNoMemory
    PROVE  StageInv'
  <1>1. /\ pc = "block" /\ ug # NoProc /\ ug.stat = "data" /\ firstBlock = 1
        /\ ug' = ug /\ flash' = flash /\ file' = file /\ pc' = "idle"
    BY BlockFacts DEF FirstUnitNoMemory
  <1>2. ug.recv = 0 /\ ug.binLen \in 0 .. MaxBin - 1
    BY <1>1, StageFacts DEF TypeInv, DataInv
  <1>3. CountInv /\ BlankInv
    BY <1>1 DEF StageInv
  <1>4. CountInv'
    BY <1>1, <1>2, <1>3, Numbers DEF CountInv
  <1>5. BlankInv' /\ ServedInv'
    BY <1>1, <1>2, <1>3 DEF BlankInv, ServedInv, Staged
  <1> QED BY <1>4, <1>5 DEF StageInv

(* What passes the sum after the last packet is the package.               *)
LEMMA EndStage ==
    ASSUME TypeInv, StageInv, EndNotify
    PROVE  StageInv'
  <1>1. CASE EndRefused
    BY <1>1, SameStage DEF EndRefused, procVars, callVars
  <1>2. CASE EndReject
    BY <1>2, NoStage DEF EndReject
  <1>3. CASE EndAccept
    <2>1. /\ pc = "idle" /\ ug # NoProc /\ pc' = "eraseFirst" /\ ug' = ug /\ file' = file
          /\ verified' = IF ug.stat = "header" THEN verified
                         ELSE [img |-> Assembled, len |-> ug.binLen]
      BY <1>3 DEF EndAccept, procVars, callerVars
    <2>2. CASE ug.stat = "header"
      BY <2>1, <2>2, NoStage
    <2>3. CASE ug.stat # "header"
      <3>1. CountInv /\ ServedInv
        BY <2>1, <2>3 DEF StageInv
      <3>2. CountInv' /\ BlankInv'
        BY <2>1, <3>1 DEF CountInv, BlankInv
      <3>3. ASSUME ug.stat = "finish"
            PROVE  /\ verified'.len = file.len
                   /\ \A k \in 0 .. file.len - 1 : verified'.img[k] = file.data[k]
        <4>1. /\ ug.binLen = file.len /\ ug.recv >= ug.binLen /\ Staged
              /\ ug.start = OtaBase /\ ug.recv \in Nat /\ ug.binLen \in Nat
          BY <2>1, <2>3, <3>1, <3>3, StageFacts DEF CountInv, ServedInv
        <4>2. verified'.len = ug.binLen /\ verified'.img = Assembled
          BY <2>1, <2>3
        <4>3. ASSUME NEW k \in 0 .. file.len - 1 PROVE verified'.img[k] = file.data[k]
          <5>1. k \in 0 .. ug.recv - 1 /\ k < ug.binLen /\ k \in 0 .. ug.binLen - 1
            BY <4>1
          <5>2. file.data[k] = IF k < Unit THEN FirstUnitInRam[k] ELSE flash[OtaBase + k]
            BY <4>1, <5>1 DEF Staged
          <5> QED BY <4>1, <4>2, <5>1, <5>2 DEF Assembled
        <4> QED BY <4>1, <4>2, <4>3
      <3>4. ServedInv'
        BY <2>1, <3>3 DEF ServedInv
      <3> QED BY <3>2, <3>4 DEF StageInv
    <2> QED BY <2>2, <2>3
  <1> QED BY <1>1, <1>2, <1>3 DEF EndNotify

(* Putting it in place changes nothing of that.                            *)
LEMMA FirstStage ==
    ASSUME TypeInv, StageInv, EraseFirst \/ WriteFirst
    PROVE  StageInv'
  <1>1. /\ pc \in {"eraseFirst", "writeFirst"} /\ pc' = "writeFirst" /\ ug' = ug
        /\ file' = file /\ verified' = verified
    BY DEF EraseFirst, WriteFirst, procVars, callerVars
  <1>2. ASSUME ug # NoProc, ug.stat # "header" PROVE CountInv' /\ BlankInv' /\ ServedInv'
    BY <1>1, <1>2 DEF StageInv, CountInv, BlankInv, ServedInv
  <1> QED BY <1>1, <1>2 DEF StageInv

LEMMA NextStage ==
    ASSUME TypeInv, StageInv, [Next]_vars
    PROVE  StageInv'
  <1>1. CASE UNCHANGED vars \/ DataWithoutStart \/ StartRefused
    BY <1>1, SameStage DEF vars, DataWithoutStart, StartRefused, procVars, callVars,
                           callerVars
  <1>2. ASSUME NEW f \in Files, StartNotify(f) PROVE StageInv'
    BY <1>2, NoStage DEF StartNotify, NewProc
  <1>3. CASE PowerFail \/ EndReturn
    BY <1>3, NoStage DEF PowerFail, EndReturn
  <1>4. CASE CallStep
    BY <1>3, <1>4, EraseStage, FirstUnitStage, NextUnitStage, DataReturnStage,
       NoMemoryStage, FirstStage DEF CallStep
  <1> QED BY <1>1, <1>2, <1>3, <1>4, DataStage, EndStage DEF Next, Start

LEMMA InitStage == Init => StageInv
  BY DEF Init, StageInv

(* All of it together, in every state.                                     *)
LEMMA Always == Spec => [](TypeInv /\ ShownInv /\ StageInv)
  <1>1. Init => TypeInv /\ ShownInv /\ StageInv
    BY InitType, InitShown, InitStage
  <1>2. TypeInv /\ ShownInv /\ StageInv /\ [Next]_vars => (TypeInv /\ ShownInv /\ StageInv)'
    BY NextType, NextShown, NextStage
  <1> QED BY <1>1, <1>2, PTL DEF Spec

(* Between two calls of a download the cells counted as received are the   *)
(* first cells of the package offered: whatever was abandoned before, and  *)
(* however the packets were cut, the erase left the rest of the image      *)
(* blank, and each cell lands on a blank one, once.                        *)
THEOREM StagedIsServed == Spec => []StagedInPlace
  <1>1. StageInv => StagedInPlace
    BY DEF StageInv, ServedInv, Staged, StagedInPlace
  <1> QED BY <1>1, Always, PTL

(* When tkl_ota_end_notify returns OPRT_OK after a complete download, what *)
(* it wrote is what it summed, and what it summed is the package offered.  *)
THEOREM InstalledIsTheServed == Spec => InstalledIsServed
  <1> DEFINE Install == /\ pc = "writeFirst" /\ pc' = "idle" /\ ret' = "installed"
                        /\ ug.stat = "finish"
             Served  == \A k \in 0 .. file.len - 1 : flash[OtaBase + k] = file.data[k]
  <1>1. TypeInv /\ ShownInv /\ StageInv /\ [Next]_vars => (Install => Served)
    <2> SUFFICES ASSUME TypeInv, ShownInv, StageInv, [Next]_vars, Install
                 PROVE  Served
      OBVIOUS
    <2> USE Numbers
    <2>1. at = BufSize
      <3>1. CASE UNCHANGED vars \/ PowerFail
        BY <3>1 DEF vars, callVars, PowerFail
      <3>2. CASE CallStep
        BY <3>2 DEF CallStep, EraseNext, FirstUnit, FirstUnitNoMemory, NextUnit, DataReturn,
                    EraseFirst, WriteFirst, EndReturn
      <3>3. CASE Start \/ EndNotify \/ DataWithoutStart
        BY <3>3 DEF Start, StartRefused, StartNotify, EndNotify, EndRefused, EndReject,
                    EndAccept, DataWithoutStart
      <3>4. ASSUME NEW n \in 0 .. MaxPacket, DataProcess(n) PROVE FALSE
        BY <3>4 DEF DataProcess, DataShortHeader, DataBadHeader, DataHeader, DataWait,
                    DataBegin, DataAfterFinish, CanProcess
      <3> QED BY <3>1, <3>2, <3>3, <3>4 DEF Next
    <2>2. /\ ug # NoProc /\ ug.stat # "header"
      BY DEF TypeInv, CallInv
    <2>3. /\ verified.len = file.len
          /\ \A k \in 0 .. file.len - 1 : verified.img[k] = file.data[k]
      BY <2>2 DEF StageInv, ServedInv
    <2>a. CASE emptied
      <3>1. file.len = 0
        BY <2>2, <2>a DEF TypeInv, CallInv, StageInv, CountInv
      <3> QED BY <3>1
    <2>4. ASSUME ~emptied
          PROVE  /\ \A k \in BufSize .. verified.len - 1 : flash[OtaBase + k] = verified.img[k]
                 /\ \A k \in 0 .. BufSize - 1 : k < verified.len => buf[k] = verified.img[k]
                 /\ \A k \in 0 .. BufSize - 1 : flash[OtaBase + k] = buf[k]
      BY <2>1, <2>2, <2>4 DEF ShownInv, CommitInv
    <2>5. file.len \in Nat
      BY FileType DEF TypeInv, TypeOK
    <2>6. ASSUME ~emptied, NEW k \in 0 .. file.len - 1
          PROVE  flash[OtaBase + k] = file.data[k]
      <3>1. k \in 0 .. BufSize - 1 \/ k \in BufSize .. verified.len - 1
        BY <2>3, <2>5
      <3>2. k < verified.len
        BY <2>3, <2>5
      <3> QED BY <2>3, <2>4, <2>6, <3>1, <3>2
    <2> QED BY <2>6, <2>a
  <1> QED BY <1>1, Always, PTL DEF Spec, InstalledIsServed
-----------------------------------------------------------------------------
(* Where the flash changes.  The erase goes by whole sectors of the slot.  *)
AlignInv == pc = "erase" => \E j \in Nat : at = OtaBase + j * Sector

LEMMA AlignHolds ==
    ASSUME TypeInv, AlignInv, [Next]_vars
    PROVE  AlignInv'
  <1> USE Numbers
  <1>1. CASE EraseNext
    <2>1. CASE pc' = "erase"
      <3>1. pc = "erase" /\ at' = at + Sector
        BY <1>1, <2>1 DEF EraseNext
      <3>2. PICK j \in Nat : at = OtaBase + j * Sector
        BY <3>1 DEF AlignInv
      <3>3. j + 1 \in Nat /\ at' = OtaBase + (j + 1) * Sector
        BY <3>1, <3>2
      <3> QED BY <3>3 DEF AlignInv
    <2>2. CASE pc' # "erase"
      BY <2>2 DEF AlignInv
    <2> QED BY <2>1, <2>2
  <1>2. ASSUME NEW n \in 0 .. MaxPacket, DataProcess(n) PROVE AlignInv'
    <2>1. CASE DataHeader(n)
      <3>1. at' = OtaBase + 0 * Sector /\ 0 \in Nat
        BY <2>1, SectorBases DEF DataHeader
      <3> QED BY <3>1 DEF AlignInv
    <2>2. CASE ~ DataHeader(n)
      <3>1. pc' # "erase"
        BY <1>2, <2>2 DEF DataProcess, DataShortHeader, DataBadHeader, DataWait,
                    DataBegin, DataAfterFinish, CanProcess, callVars
      <3> QED BY <3>1 DEF AlignInv
    <2> QED BY <2>1, <2>2
  <1>3. CASE CallStep /\ ~ EraseNext
    BY <1>3 DEF CallStep, FirstUnit, FirstUnitNoMemory, NextUnit, DataReturn, UnitTaken,
                EraseFirst, WriteFirst, EndReturn, AlignInv
  <1>4. CASE UNCHANGED vars \/ PowerFail
    BY <1>4 DEF vars, callVars, PowerFail, AlignInv
  <1>5. CASE Start \/ EndNotify \/ DataWithoutStart
    <2>1. pc = "idle" /\ pc' \in {"idle", "eraseFirst"}
      BY <1>5 DEF Start, StartRefused, StartNotify, EndNotify, EndRefused, EndReject,
                  EndAccept, DataWithoutStart, callVars
    <2> QED BY <2>1 DEF AlignInv
  <1> QED BY <1>1, <1>2, <1>3, <1>4, <1>5 DEF Next

(* A sector that begins in the slot ends in it.                            *)
LEMMA SectorInSlot ==
    ASSUME NEW j \in Nat, j * Sector < MaxBin
    PROVE  j * Sector + Sector <= MaxBin
  <1> USE Numbers
  <1> DEFINE m == MaxBin \div Sector
  <1>1. MaxBin % Sector = 0
    BY OtaAssumption
  <1>2. m \in Nat /\ MaxBin = m * Sector
    BY <1>1
  <1> HIDE DEF m
  <1>3. j < m
    BY <1>2
  <1> QED BY <1>2, <1>3

LEMMA ProgramChanges ==
    ASSUME NEW cells \in Cells, NEW prot, NEW addr, NEW len, NEW src, NEW a \in Addr,
           Program(cells, prot, addr, len, src)[a] # cells[a]
    PROVE  a \in addr .. addr + len - 1
  BY DEF Program

LEMMA EraseChanges ==
    ASSUME NEW cells \in Cells, NEW prot, NEW base, NEW a \in Addr,
           EraseSector(cells, prot, base)[a] # cells[a]
    PROVE  a \in base .. base + Sector - 1
  BY DEF EraseSector

(* A unit or a tail that is written lies in the slot or right behind it.   *)
LEMMA BlockInSlot ==
    ASSUME TypeInv, StageInv, pc = "block", NEW len \in 0 .. left, NEW src,
           NEW a \in Addr, Program(flash, Open, ug.addr, len, src)[a] # flash[a]
    PROVE  a \in OtaBase .. OtaBase + MaxBin + MaxPacket - 1
  <1> USE Numbers
  <1>1. /\ ug # NoProc /\ ug.stat = "data" /\ left \in Nat /\ ug.recv \in Nat /\ len \in Nat
        /\ ug.addr = OtaBase + ug.recv /\ flash \in Cells /\ ug.binLen \in 0 .. MaxBin - 1
    BY BlockFacts, StageFacts DEF TypeInv, DataInv
  <1>2. ug.recv + left < MaxBin + MaxPacket
    BY <1>1 DEF StageInv, CountInv
  <1>3. a \in ug.addr .. ug.addr + len - 1
    BY <1>1, ProgramChanges
  <1> QED BY <1>1, <1>2, <1>3 DEF Addr

(* No call, and no power failure, changes a cell outside the slot and the  *)
(* place behind it that the last packet may run over.                      *)
THEOREM OnlyTheSlotChanges == Spec => OnlySlotChanges
  <1> DEFINE InSlot == \A a \in Addr : flash'[a] # flash[a] =>
                          a \in OtaBase .. OtaBase + MaxBin + MaxPacket - 1
  <1>1. Init => AlignInv
    BY DEF Init, AlignInv
  <1>2. TypeInv /\ AlignInv /\ [Next]_vars => AlignInv'
    BY AlignHolds
  <1>3. TypeInv /\ StageInv /\ AlignInv /\ [Next]_vars => InSlot
    <2> SUFFICES ASSUME TypeInv, StageInv, AlignInv, [Next]_vars,
                        NEW a \in Addr, flash'[a] # flash[a]
                 PROVE  a \in OtaBase .. OtaBase + MaxBin + MaxPacket - 1
      OBVIOUS
    <2> USE Numbers
    <2>0. flash \in Cells
      BY DEF TypeInv, TypeOK
    <2>1. CASE EraseNext
      <3>1. /\ at \in Nat /\ at >= OtaBase /\ ug.start = OtaBase
            /\ ug.binLen \in 0 .. MaxBin - 1 /\ pc = "erase"
        BY <2>1 DEF EraseNext, TypeInv, TypeOK, CallInv
      <3>2. flash' = EraseSector(flash, Open, at) /\ at <= OtaBase + ug.binLen - 1
        BY <2>1, <3>1 DEF EraseNext
      <3>3. a \in at .. at + Sector - 1
        BY <2>0, <3>2, EraseChanges
      <3>4. PICK j \in Nat : at = OtaBase + j * Sector
        BY <3>1 DEF AlignInv
      <3>5. j * Sector \in Nat /\ j * Sector < MaxBin
        BY <3>1, <3>2, <3>4
      <3>6. j * Sector + Sector <= MaxBin
        BY <3>5, SectorInSlot
      <3> QED BY <3>1, <3>3, <3>4, <3>5, <3>6 DEF Addr
    <2>2. CASE FirstUnit
      <3>1. pc = "block" /\ Unit \in 0 .. left
        BY <2>2, BlockFacts DEF FirstUnit
      <3> QED BY <2>2, <3>1, BlockInSlot DEF FirstUnit
    <2>3. CASE NextUnit
      <3>1. pc = "block" /\ Unit \in 0 .. left
        BY <2>3, BlockFacts DEF NextUnit
      <3> QED BY <2>3, <3>1, BlockInSlot DEF NextUnit
    <2>4. CASE DataReturn
      <3> DEFINE taken == IF IsTail THEN left ELSE 0
      <3>1. pc = "block" /\ taken \in 0 .. left
        BY <2>4, BlockFacts DEF DataReturn
      <3>2. flash' = Program(flash, Open, ug.addr, taken, Chunk(taken))
        BY <2>4 DEF DataReturn
      <3> HIDE DEF taken
      <3> QED BY <3>1, <3>2, BlockInSlot
    <2>5. CASE EraseFirst \/ WriteFirst
      <3>1. /\ ug # NoProc /\ ug \in Proc /\ ug.start \in {0, OtaBase} /\ at \in Nat
        BY <2>5 DEF EraseFirst, WriteFirst, TypeInv, TypeOK, CallInv
      <3>2. CASE ug.start = 0
        <4>1. flash' = flash
          BY <2>0, <2>5, <3>1, <3>2, SectorBases, ProtectedSector DEF EraseFirst, WriteFirst
        <4> QED BY <4>1
      <3>3. CASE ug.start = OtaBase
        <4>1. CASE EraseFirst
          <5>1. a \in OtaBase .. OtaBase + Sector - 1
            BY <2>0, <3>3, <4>1, SectorBases, EraseChanges DEF EraseFirst
          <5> QED BY <5>1
        <4>2. CASE WriteFirst
          <5>1. a \in OtaBase + at .. OtaBase + at + 1 - 1 /\ at < BufSize
            BY <2>0, <3>3, <4>2, ProgramChanges DEF WriteFirst
          <5> QED BY <3>1, <5>1 DEF Addr
        <4> QED BY <2>5, <4>1, <4>2
      <3> QED BY <3>1, <3>2, <3>3
    <2>6. CASE FirstUnitNoMemory \/ EndReturn \/ PowerFail \/ UNCHANGED vars
      BY <2>6 DEF FirstUnitNoMemory, EndReturn, PowerFail, vars
    <2>7. CASE Start \/ EndNotify \/ DataWithoutStart
      BY <2>7 DEF Start, StartRefused, StartNotify, EndNotify, EndRefused, EndReject,
                  EndAccept, DataWithoutStart
    <2>8. ASSUME NEW n \in 0 .. MaxPacket, DataProcess(n) PROVE FALSE
      BY <2>8 DEF DataProcess, DataShortHeader, DataBadHeader, DataHeader, DataWait,
                  DataBegin, DataAfterFinish
    <2> QED BY <2>1, <2>2, <2>3, <2>4, <2>5, <2>6, <2>7, <2>8 DEF Next, CallStep
  <1> QED BY <1>1, <1>2, <1>3, Always, PTL DEF Spec, OnlySlotChanges
-----------------------------------------------------------------------------
(* The image that is being shown is one.                                   *)
ImageInv == pc \in {"eraseFirst", "writeFirst"} /\ ug.stat # "header" =>
                verified.img # NoImage

LEMMA ImageHolds ==
    ASSUME TypeInv, ImageInv, [Next]_vars
    PROVE  ImageInv'
  <1>1. CASE EndAccept
    <2>1. /\ ug' = ug /\ ug # NoProc
          /\ verified' = IF ug.stat = "header" THEN verified
                         ELSE [img |-> Assembled, len |-> ug.binLen]
      BY <1>1 DEF EndAccept, procVars
    <2>2. CASE ug.stat # "header"
      <3>1. /\ ug.binLen \in Nat /\ ug.binLen \in 0 .. MaxBin - 1 /\ ug.start = OtaBase
            /\ flash \in Cells
        BY <2>1, <2>2, StageFacts
      <3>2. ASSUME NEW k \in 0 .. ug.binLen - 1
            PROVE  (IF k < Unit THEN FirstUnitInRam[k] ELSE flash[ug.start + k]) \in Byte
        <4>1. FirstUnitInRam \in Block
          BY RamType DEF TypeInv
        <4>2. k \in 0 .. MaxBin + BufSize - 1
          BY <3>1, Numbers
        <4> QED BY <3>1, <4>1, <4>2, SlotCells, Numbers DEF Cells, Block
      <3>3. Assembled \in [0 .. ug.binLen - 1 -> Byte]
        BY <3>2 DEF Assembled
      <3>4. Assembled # NoImage
        <4>1. ug.binLen \in 0 .. MaxBin
          BY <3>1, Numbers
        <4> QED BY <3>3, <4>1, Sentinels
      <3> QED BY <2>1, <2>2, <3>4 DEF ImageInv
    <2> QED BY <2>1, <2>2 DEF ImageInv
  <1>2. CASE EraseFirst \/ WriteFirst \/ UNCHANGED vars
    BY <1>2 DEF EraseFirst, WriteFirst, vars, procVars, callVars, ImageInv
  <1>3. CASE PowerFail \/ EndReturn \/ EndRefused \/ EndReject \/ Start \/ DataWithoutStart
    <2>1. pc' \notin {"eraseFirst", "writeFirst"}
      BY <1>3 DEF PowerFail, EndReturn, EndRefused, EndReject, Start, StartRefused,
                  StartNotify, DataWithoutStart, callVars
    <2> QED BY <2>1 DEF ImageInv
  <1>4. CASE EraseNext \/ FirstUnit \/ FirstUnitNoMemory \/ NextUnit \/ DataReturn
    <2>1. pc' \notin {"eraseFirst", "writeFirst"}
      BY <1>4 DEF EraseNext, FirstUnit, FirstUnitNoMemory, NextUnit, DataReturn, UnitTaken
    <2> QED BY <2>1 DEF ImageInv
  <1>5. ASSUME NEW n \in 0 .. MaxPacket, DataProcess(n) PROVE ImageInv'
    <2>1. pc' \notin {"eraseFirst", "writeFirst"}
      BY <1>5 DEF DataProcess, DataShortHeader, DataBadHeader, DataHeader, DataWait,
                  DataBegin, DataAfterFinish, CanProcess, callVars
    <2> QED BY <2>1 DEF ImageInv
  <1> QED BY <1>1, <1>2, <1>3, <1>4, <1>5 DEF Next, EndNotify, CallStep

(* What UpdateSlot sees of a state.                                        *)
SlotStep == Slot!Next \/ (SlotShown' = SlotShown /\ Candidate' = Candidate)

LEMMA SameSlot ==
    ASSUME flash' = flash, verified' = verified, emptied' = emptied
    PROVE  SlotShown' = SlotShown
  BY DEF SlotShown, Bootable

(* After an empty package nothing is promised, until an erase.             *)
LEMMA EmptiedStep ==
    ASSUME emptied, emptied'
    PROVE  SlotStep
  BY DEF SlotStep, SlotShown, Candidate

(* A step that leaves the cells alone: the candidate goes at most.         *)
LEMMA QuietStep ==
    ASSUME flash' = flash, verified' = verified, emptied' = emptied,
           pc' \notin {"eraseFirst", "writeFirst"}
    PROVE  SlotStep
  <1>1. SlotShown' = SlotShown /\ Candidate' = NoImage
    BY SameSlot DEF Candidate
  <1> QED BY <1>1 DEF SlotStep, Slot!Next, Slot!Leave

(* An empty package is announced.                                          *)
LEMMA LoseStep ==
    ASSUME pc \notin {"eraseFirst", "writeFirst"},
           pc' \notin {"eraseFirst", "writeFirst"}, emptied'
    PROVE  SlotStep
  <1>1. SlotShown' = [state |-> "unknown", img |-> NoImage]
    BY DEF SlotShown
  <1>2. Candidate = NoImage /\ Candidate' = NoImage
    BY DEF Candidate
  <1> QED BY <1>1, <1>2 DEF SlotStep, Slot!Next, Slot!Lose, Slot!Unknown

(* A step outside end_notify that ends with a blank slot.                  *)
LEMMA HideStep ==
    ASSUME pc \notin {"eraseFirst", "writeFirst"},
           pc' \notin {"eraseFirst", "writeFirst"}, ~Bootable', ~emptied'
    PROVE  SlotStep
  <1>1. SlotShown' = [state |-> "blank", img |-> NoImage]
    BY DEF SlotShown
  <1>2. Candidate = NoImage /\ Candidate' = NoImage
    BY DEF Candidate
  <1> QED BY <1>1, <1>2 DEF SlotStep, Slot!Next, Slot!Hide, Slot!Blank

(* end_notify without a header shows nothing and is no candidate.          *)
LEMMA HeaderStep ==
    ASSUME TypeInv, ug # NoProc, ug.stat = "header", ug' = ug,
           EndAccept \/ EraseFirst \/ WriteFirst
    PROVE  SlotStep
  <1>1. /\ ug.start = 0 /\ flash \in Cells /\ at \in Nat /\ verified' = verified
        /\ emptied' = emptied
    BY DEF TypeInv, TypeOK, CallInv, EndAccept, EraseFirst, WriteFirst
  <1>2. flash' = flash
    <2>1. CASE EndAccept
      BY <2>1 DEF EndAccept
    <2>2. CASE EraseFirst
      BY <1>1, <2>2, SectorBases, ProtectedSector DEF EraseFirst
    <2>3. CASE WriteFirst
      <3>1. at \in 0 .. BufSize - 1 /\ 0 + at = at
        BY <1>1, <2>3, Numbers DEF WriteFirst
      <3> QED BY <1>1, <2>3, <3>1, ProtectedSector DEF WriteFirst
    <2> QED BY <2>1, <2>2, <2>3
  <1>3. Candidate = NoImage /\ Candidate' = NoImage
    BY DEF Candidate
  <1> QED BY <1>1, <1>2, <1>3, SameSlot DEF SlotStep

(* The image that passed the sum is accepted behind a blank first unit.    *)
LEMMA AcceptStep ==
    ASSUME TypeInv, ShownInv, ~emptied, ImageInv', EndAccept
    PROVE  SlotStep
  <1>1. /\ pc = "idle" /\ ug # NoProc /\ pc' = "eraseFirst" /\ ug' = ug /\ flash' = flash
        /\ ~emptied'
    BY DEF EndAccept, procVars
  <1>2. CASE ug.stat # "header"
    <2>1. ~Bootable /\ ~Bootable'
      BY <1>1, <1>2 DEF ShownInv, HiddenInv, Bootable
    <2>2. /\ SlotShown = [state |-> "blank", img |-> NoImage]
          /\ SlotShown' = [state |-> "blank", img |-> NoImage]
      BY <1>1, <2>1 DEF SlotShown
    <2>3. Candidate = NoImage /\ Candidate' # NoImage
      BY <1>1, <1>2 DEF Candidate, ImageInv
    <2> QED BY <2>2, <2>3 DEF SlotStep, Slot!Next, Slot!Accept, Slot!Blank
  <1> QED BY <1>1, <1>2, HeaderStep

(* The first sector's erase shows nothing, as before.                      *)
LEMMA EraseFirstStep ==
    ASSUME TypeInv, ShownInv, ShownInv', ~emptied, EraseFirst
    PROVE  SlotStep
  <1>1. /\ pc = "eraseFirst" /\ ug # NoProc /\ pc' = "writeFirst" /\ ug' = ug
        /\ verified' = verified /\ ~emptied'
    BY DEF EraseFirst, procVars, TypeInv, CallInv
  <1>2. CASE ug.stat # "header"
    <2>1. ~Bootable
      BY <1>1, <1>2 DEF ShownInv, HiddenInv
    <2>2. at' = 0
      BY DEF EraseFirst
    <2>3. \A k \in 0 .. BufSize - 1 : flash'[OtaBase + k] = Erased
      BY <1>1, <1>2, <2>2 DEF ShownInv, CommitInv
    <2>4. ~Bootable'
      BY <2>3, Numbers DEF Bootable
    <2>5. SlotShown' = SlotShown
      BY <1>1, <2>1, <2>4 DEF SlotShown
    <2>6. Candidate' = Candidate
      BY <1>1 DEF Candidate
    <2> QED BY <2>5, <2>6 DEF SlotStep
  <1> QED BY <1>1, <1>2, HeaderStep

(* A cell is written with the image's: what was shown stays shown, and     *)
(* what is whole stays whole.                                              *)
LEMMA WriteFirstStep ==
    ASSUME TypeInv, ShownInv, ShownInv', ImageInv, ~emptied, WriteFirst
    PROVE  SlotStep
  <1> USE Numbers
  <1>1. /\ pc = "writeFirst" /\ ug # NoProc /\ pc' = "writeFirst" /\ ug' = ug
        /\ verified' = verified /\ buf' = buf /\ at \in 0 .. BufSize - 1 /\ at' = at + 1
        /\ ~emptied'
    BY DEF WriteFirst, procVars, TypeInv, TypeOK, CallInv
  <1>2. CASE ug.stat # "header"
    <2>1. /\ \A k \in 0 .. BufSize - 1 : k < verified.len => buf[k] = verified.img[k]
          /\ \A k \in 0 .. at - 1 : flash[OtaBase + k] = buf[k]
          /\ \A k \in at .. BufSize - 1 : flash[OtaBase + k] = Erased
          /\ \A k \in BufSize .. verified.len - 1 : flash[OtaBase + k] = verified.img[k]
          /\ verified.len \in 1 .. MaxBin - 1
      BY <1>1, <1>2 DEF ShownInv, CommitInv
    <2>2. /\ \A k \in 0 .. at : flash'[OtaBase + k] = buf[k]
          /\ \A k \in BufSize .. verified.len - 1 : flash'[OtaBase + k] = verified.img[k]
      <3>1. /\ \A k \in 0 .. at + 1 - 1 : flash'[OtaBase + k] = buf[k]
            /\ \A k \in BufSize .. verified.len - 1 : flash'[OtaBase + k] = verified.img[k]
        BY <1>1, <1>2 DEF ShownInv, CommitInv
      <3> QED BY <1>1, <3>1
    <2>3. \A k \in at + 1 .. BufSize - 1 : flash'[OtaBase + k] = Erased
      BY <1>1, <1>2 DEF ShownInv, CommitInv
    <2> DEFINE Whole == \A k \in 0 .. verified.len - 1 : flash[OtaBase + k] = verified.img[k]
    <2>4. Bootable => Bootable'
      <3>1. ASSUME NEW k \in 0 .. Unit - 1, flash[OtaBase + k] # Erased
            PROVE  flash'[OtaBase + k] # Erased
        <4>1. k \in 0 .. at - 1 /\ k \in 0 .. at
          BY <1>1, <2>1, <3>1
        <4> QED BY <2>1, <2>2, <3>1, <4>1
      <3> QED BY <3>1 DEF Bootable
    <2>5. Whole => Whole'
      <3>1. ASSUME Whole, NEW k \in 0 .. verified.len - 1
            PROVE  flash'[OtaBase + k] = verified.img[k]
        <4>1. CASE k \in 0 .. at
          <5>1. k \in 0 .. BufSize - 1 /\ k < verified.len
            BY <1>1, <2>1, <4>1
          <5> QED BY <2>1, <2>2, <4>1, <5>1
        <4>2. CASE k \in at + 1 .. BufSize - 1
          <5>1. k \in at .. BufSize - 1
            BY <1>1, <4>2
          <5> QED BY <2>1, <2>3, <3>1, <4>2, <5>1
        <4>3. CASE k \in BufSize .. verified.len - 1
          BY <2>2, <4>3
        <4> QED BY <1>1, <2>1, <4>1, <4>2, <4>3
      <3> QED BY <1>1, <3>1
    <2>6. Candidate = verified.img /\ Candidate' = verified.img /\ verified.img # NoImage
      BY <1>1, <1>2 DEF Candidate, ImageInv
    <2>7. SlotShown = IF ~Bootable THEN [state |-> "blank", img |-> NoImage]
                      ELSE IF Whole THEN [state |-> "whole", img |-> verified.img]
                      ELSE [state |-> "torn", img |-> NoImage]
      BY DEF SlotShown
    <2>8. SlotShown' = IF ~Bootable' THEN [state |-> "blank", img |-> NoImage]
                       ELSE IF Whole' THEN [state |-> "whole", img |-> verified.img]
                       ELSE [state |-> "torn", img |-> NoImage]
      BY <1>1 DEF SlotShown
    <2> HIDE DEF Whole
    <2> QED BY <2>4, <2>5, <2>6, <2>7, <2>8 DEF SlotStep, Slot!Next, Slot!Show, Slot!Torn,
            Slot!Whole, Slot!Blank
  <1> QED BY <1>1, <1>2, HeaderStep

LEMMA NextSlot ==
    ASSUME TypeInv, ShownInv, StageInv, ImageInv, ShownInv', ImageInv', [Next]_vars
    PROVE  SlotStep
  <1>0. CASE emptied /\ ~EraseNext
    BY <1>0, StaysEmptied, EmptiedStep
  <1>1. CASE UNCHANGED vars
    <2>1. SlotShown' = SlotShown /\ Candidate' = Candidate
      BY <1>1, SameSlot DEF vars, procVars, callVars, Candidate
    <2> QED BY <2>1 DEF SlotStep
  <1>2. CASE EraseNext
    <2>1. pc = "erase" /\ pc' \in {"erase", "idle"} /\ verified' = verified
      BY <1>2 DEF EraseNext
    <2>2. CASE ~(at <= ug.start + ug.binLen - 1)
      <3>1. flash' = flash /\ emptied' = emptied
        BY <1>2, <2>2 DEF EraseNext
      <3> QED BY <2>1, <3>1, QuietStep
    <2>3. CASE at <= ug.start + ug.binLen - 1
      <3>1. /\ pc' = "erase" /\ ug' = ug /\ ug # NoProc /\ ug.stat = "data"
            /\ at' = at + Sector /\ at \in Nat /\ at >= OtaBase /\ ~emptied'
        BY <1>2, <2>3 DEF EraseNext, procVars, TypeInv, TypeOK, CallInv
      <3>2. at' # OtaBase
        BY <3>1, Numbers
      <3>3. ~Bootable'
        BY <3>1, <3>2 DEF ShownInv, HiddenInv
      <3> QED BY <2>1, <3>1, <3>3, HideStep
    <2> QED BY <2>2, <2>3
  <1>3. CASE ~emptied /\ (FirstUnit \/ NextUnit \/ DataReturn)
    <2>1. /\ pc = "block" /\ pc' \in {"block", "idle"} /\ ug # NoProc /\ ug.stat = "data"
          /\ ~emptied'
      BY <1>3, BlockFacts DEF FirstUnit, NextUnit, DataReturn, UnitTaken
    <2>2. ug \in Proc /\ ug' # NoProc /\ ug'.stat # "header"
      <3>1. ug \in Proc /\ ug.stat = "data"
        BY <2>1, StageFacts
      <3>2. CASE FirstUnit \/ NextUnit
        <4>1. ug'.stat = "data"
          BY <3>1, <3>2 DEF FirstUnit, NextUnit, UnitTaken, Proc
        <4>2. ug' = [ug EXCEPT !.addr = @ + Unit, !.recv = @ + Unit]
          BY <3>2 DEF FirstUnit, NextUnit, UnitTaken
        <4>3. ug.addr + Unit \in Nat /\ ug.recv + Unit \in Nat
          BY <3>1, Numbers DEF Proc
        <4>4. ug' \in Proc
          BY <3>1, <4>2, <4>3 DEF Proc
        <4> QED BY <3>1, <4>1, <4>4, Sentinels
      <3>3. CASE DataReturn
        <4> DEFINE taken == IF IsTail THEN left ELSE 0
                   done  == ug.recv + taken >= ug.binLen
        <4>1. taken \in Nat
          BY <2>1, BlockFacts
        <4>2. ug' = [ug EXCEPT !.addr = @ + taken, !.recv = @ + taken,
                               !.stat = IF done THEN "finish" ELSE @]
          BY <3>3 DEF DataReturn
        <4> HIDE DEF taken, done
        <4>3. ug.addr + taken \in Nat /\ ug.recv + taken \in Nat
          BY <3>1, <4>1 DEF Proc
        <4>4. ug' \in Proc /\ ug'.stat # "header"
          <5>1. CASE done
            BY <3>1, <4>2, <4>3, <5>1 DEF Proc
          <5>2. CASE ~done
            BY <3>1, <4>2, <4>3, <5>2 DEF Proc
          <5> QED BY <5>1, <5>2
        <4> QED BY <3>1, <4>4, Sentinels
      <3> QED BY <1>3, <3>1, <3>2, <3>3
    <2>3. ~Bootable'
      BY <2>1, <2>2 DEF ShownInv, HiddenInv
    <2> QED BY <2>1, <2>3, HideStep
  <1>4. CASE FirstUnitNoMemory \/ EndReturn \/ PowerFail
    BY <1>4, QuietStep DEF FirstUnitNoMemory, EndReturn, PowerFail
  <1>5. CASE Start \/ DataWithoutStart \/ EndRefused \/ EndReject
    BY <1>5, QuietStep DEF Start, StartRefused, StartNotify, DataWithoutStart, EndRefused,
                           EndReject, callVars
  <1>6. ASSUME NEW n \in 0 .. MaxPacket, DataProcess(n), ~emptied PROVE SlotStep
    <2>1. /\ flash' = flash /\ verified' = verified /\ pc = "idle"
          /\ pc' \in {"idle", "block", "erase"}
      BY <1>6 DEF DataProcess, DataShortHeader, DataBadHeader, DataHeader,
                DataWait, DataBegin, DataAfterFinish, CanProcess, callVars
    <2>2. CASE emptied'
      BY <2>1, <2>2, LoseStep
    <2>3. CASE ~emptied'
      <3>1. emptied \in BOOLEAN /\ emptied' \in BOOLEAN
        BY <1>6 DEF TypeInv, TypeOK, DataProcess, DataShortHeader, DataBadHeader,
                    DataHeader, DataWait, DataBegin, DataAfterFinish
      <3> QED BY <1>6, <2>1, <2>3, <3>1, QuietStep
    <2> QED BY <2>2, <2>3
  <1> QED BY <1>0, <1>1, <1>2, <1>3, <1>4, <1>5, <1>6, AcceptStep, EraseFirstStep,
          WriteFirstStep DEF Next, EndNotify, CallStep

(* The update implements the slot: an old package disappears before a new  *)
(* one is staged, a new one appears only after its sum was right, and a    *)
(* power failure leaves shown what was shown.  A header with bin_len 0 is  *)
(* a step of the slot too, which then promises nothing until it is hidden. *)
THEOREM UpdateImplementsSlot == Spec => ImplementsSlot
  <1>1. Init => Slot!Init
    <2> SUFFICES ASSUME Init PROVE Slot!Init
      OBVIOUS
    <2>1. \A k \in 0 .. Unit - 1 : flash[OtaBase + k] = Erased
      BY SlotCells, Numbers DEF Init
    <2>2. ~Bootable /\ Candidate = NoImage
      BY <2>1 DEF Bootable, Candidate, Init
    <2>3. ~emptied
      BY DEF Init
    <2> QED BY <2>2, <2>3 DEF SlotShown, Slot!Init, Slot!Blank
  <1>2. Init => ImageInv
    BY DEF Init, ImageInv
  <1>3. TypeInv /\ ImageInv /\ [Next]_vars => ImageInv'
    BY ImageHolds
  <1>4. TypeInv /\ ShownInv /\ StageInv /\ ImageInv /\ ShownInv' /\ ImageInv' /\ [Next]_vars
           => [Slot!Next]_<<SlotShown, Candidate>>
    <2> SUFFICES ASSUME TypeInv, ShownInv, StageInv, ImageInv, ShownInv', ImageInv',
                        [Next]_vars
                 PROVE  [Slot!Next]_<<SlotShown, Candidate>>
      OBVIOUS
    <2>1. SlotStep
      BY NextSlot
    <2> QED BY <2>1 DEF SlotStep
  <1> QED BY <1>1, <1>2, <1>3, <1>4, Always, PTL DEF Spec, ImplementsSlot, Slot!Spec
=============================================================================
