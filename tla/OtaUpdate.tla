----------------------------- MODULE OtaUpdate -----------------------------
(***************************************************************************)
(* The firmware update of TuyaOS/adapter/src/system/tkl_ota.c over the     *)
(* flash of tkl_flash.c: tkl_ota_start_notify, tkl_ota_data_process and    *)
(* tkl_ota_end_notify, called by the cloud SDK's download task (a binary   *)
(* library: the caller below is modelled from the interface alone).  Power *)
(* may fail between any two flash operations.                              *)
(*                                                                         *)
(* A package is a header of Hdr cells followed by the image.  Its first    *)
(* write unit, which carries what the bootloader looks for, is kept in RAM *)
(* (frist_block_databuf) while the rest goes to flash; it is written last, *)
(* with the rest of its sector, once the byte sum of the image is right.   *)
(***************************************************************************)
EXTENDS NorFlash

CONSTANTS
    OtaBase,        \* UG_START_ADDR
    Unit,           \* RT_IMG_WR_UNIT
    BufSize,        \* BUF_SIZE
    MaxBin,         \* OTA_MAX_BIN_SIZE
    Hdr,            \* sizeof(UPDATE_FILE_HDR_S)
    Word,           \* 2^32: unsigned int wraps at it
    Sum(_),         \* the byte sum of an image, modulo Word
    NullBlock,      \* what memcpy reads through a NULL frist_block_databuf
    Old,            \* the content of the flash outside the slot
    Files,          \* the packages the server may offer
    MaxPacket,      \* the most data the caller hands to one call
    MaxStarts,      \* bound on tkl_ota_start_notify calls
    MaxCrashes,     \* bound on power failures
    NoProc, NoBuf, NoImage

Block == [0 .. Unit - 1 -> Byte]

(* A package: magic says whether its two flags and head_sum are right;      *)
(* len and sum are the header's bin_len and bin_sum; data holds the size   *)
(* cells that really follow the header.                                    *)
IsFile(f) ==
    /\ f.magic \in {"right", "wrong"} /\ f.len \in 0 .. Word - 1 /\ f.sum \in Nat
    /\ f.size \in Nat /\ f.data \in [0 .. f.size - 1 -> Byte]

Proc == [stat : {"header", "data", "finish"}, binLen : Nat, binSum : Nat,
         start : Nat, addr : Nat, recv : Nat]

ASSUME OtaAssumption ==
    /\ MaxBin % Sector = 0 /\ Half >= Sector
    /\ {OtaBase, Unit, BufSize, MaxBin, Hdr, Word, MaxPacket} \subseteq Nat \ {0}
    /\ MaxStarts \in Nat /\ MaxCrashes \in Nat
    /\ BufSize = Sector /\ Unit < BufSize /\ BufSize <= MaxBin
    /\ OtaBase % Sector = 0 /\ OtaBase >= Half
    /\ MaxBin + MaxPacket < Word
    /\ OtaBase + MaxBin + BufSize + MaxPacket <= FlashSize
    /\ Old \in Byte /\ NullBlock \in Block /\ NoBuf \notin Block
    /\ NoProc \notin Proc /\ \A n \in 0 .. MaxBin : NoImage \notin [0 .. n - 1 -> Byte]
    /\ Files # {} /\ \A f \in Files : IsFile(f)

VARIABLES
    flash,          \* the cells of the chip
    (* tkl_ota.c *)
    ug,             \* *ug_proc, or NoProc
    firstBuf,       \* *frist_block_databuf, or NoBuf
    firstBlock,     \* first_block
    pc,             \* the flash operation the running call is at, or "idle"
    at,             \* erase: next sector's address; write: next cell's index
    left,           \* data_process: write_len
    buf,            \* end_notify: pTempbuf when it is written back
    (* the caller *)
    file,           \* the package being downloaded
    fed,            \* cells of it that data_process has consumed
    rest,           \* cells the last call left to the caller (*remain_len)
    ret,            \* what the last call returned
    (* observation *)
    verified,       \* the image that last passed the sum, and its length
    emptied,        \* a header with bin_len 0 was accepted since the last erase
    starts, crashes

procVars   == <<ug, firstBuf, firstBlock>>
callVars   == <<pc, at, left, buf>>
callerVars == <<file, fed, rest, ret>>
bounds     == <<starts, crashes>>
vars == <<flash, procVars, callVars, callerVars, verified, emptied, bounds>>

(* Every flash operation below stands between tkl_flash_set_protect(FALSE), *)
(* which opens the upper half of the chip only, and (TRUE).  This module    *)
(* takes it that no fast connect sets the protection in the middle of one:  *)
(* what other tasks do on the flash meanwhile is module FlashShare.         *)
Open == "half"

NewProc == [stat |-> "header", binLen |-> 0, binSum |-> 0,
            start |-> 0, addr |-> 0, recv |-> 0]

(* Subtraction of unsigned ints.                                           *)
Minus(a, b) == IF b <= a THEN a - b ELSE Word + a - b

(* The len cells of the package from cell fed on (&pack->data[...]).       *)
Chunk(len) == [k \in 0 .. len - 1 |-> file.data[fed - Hdr + k]]

Init ==
    /\ flash = [a \in Addr |-> IF a \in OtaBase .. OtaBase + MaxBin - 1 THEN Erased ELSE Old]
    /\ ug = NoProc /\ firstBuf = NoBuf /\ firstBlock = 1
    /\ pc = "idle" /\ at = 0 /\ left = 0
    /\ buf = [k \in 0 .. BufSize - 1 |-> Erased]
    /\ file \in Files /\ fed = 0 /\ rest = 0 /\ ret = "none"
    /\ verified = [img |-> NoImage, len |-> 0] /\ emptied = FALSE
    /\ starts = 0 /\ crashes = 0
-----------------------------------------------------------------------------
(* Mutant: an abandoned download's first_block is not set again.           *)
StartNotify_keepsFirstBlock(f) ==
    /\ pc = "idle" /\ starts < MaxStarts
    /\ starts' = starts + 1
    /\ ug' = NewProc /\ UNCHANGED firstBlock
    /\ file' = f /\ fed' = 0 /\ rest' = 0 /\ ret' = "ok"
    /\ UNCHANGED <<flash, firstBuf, callVars, verified, emptied, crashes>>

(* tkl_ota_start_notify: the allocation may fail; an old ug_proc is reused *)
(* and the first block of an abandoned download stays in its buffer.       *)
StartNotify(f) ==
    /\ pc = "idle" /\ starts < MaxStarts
    /\ starts' = starts + 1
    /\ \/ /\ ug' = NewProc /\ firstBlock' = 1
          /\ file' = f /\ fed' = 0 /\ rest' = 0 /\ ret' = "ok"
       \/ /\ ug = NoProc /\ ret' = "error"
          /\ UNCHANGED <<ug, firstBlock, file, fed, rest>>
    /\ UNCHANGED <<flash, firstBuf, callVars, verified, emptied, crashes>>

(* image_size = 0 is refused.                                              *)
StartRefused ==
    /\ pc = "idle" /\ ret' = "error"
    /\ UNCHANGED <<flash, procVars, callVars, file, fed, rest, verified, emptied, bounds>>
-----------------------------------------------------------------------------
(* tkl_ota_data_process.  The caller hands over what the last call left    *)
(* and n new cells; packet length and *remain_len are in cells.            *)
Packet(n) == rest + n

CanProcess(n) ==
    /\ pc = "idle" /\ ug # NoProc
    /\ n \in 0 .. file.size + Hdr - fed - rest
    /\ Packet(n) \in 1 .. MaxPacket

DataWithoutStart ==
    /\ pc = "idle" /\ ug = NoProc /\ ret' = "error"
    /\ UNCHANGED <<flash, procVars, callVars, file, fed, rest, verified, emptied, bounds>>

DataShortHeader(n) ==
    /\ CanProcess(n) /\ ug.stat = "header" /\ Packet(n) < Hdr
    /\ rest' = Packet(n) /\ ret' = "ok"
    /\ UNCHANGED <<flash, procVars, callVars, file, fed, verified, emptied, bounds>>

(* A wrong magic number or head_sum, or an image too large: file_header is *)
(* zeroed and *remain_len is not set.                                      *)
DataBadHeader(n) ==
    /\ CanProcess(n) /\ ug.stat = "header" /\ Packet(n) >= Hdr
    /\ file.magic = "wrong" \/ file.len >= MaxBin
    /\ ug' = [ug EXCEPT !.binLen = 0, !.binSum = 0]
    /\ ret' = "error"
    /\ UNCHANGED <<flash, firstBuf, firstBlock, callVars, file, fed, rest,
                   verified, emptied, bounds>>

(* Mutant: the erase leaves out the slot's first sector.                   *)
DataHeader_keepsFirstSector(n) ==
    /\ CanProcess(n) /\ ug.stat = "header" /\ Packet(n) >= Hdr
    /\ file.magic = "right" /\ file.len < MaxBin
    /\ ug' = [stat |-> "data", binLen |-> file.len, binSum |-> file.sum,
              start |-> OtaBase, addr |-> OtaBase, recv |-> 0]
    /\ rest' = Packet(n) - Hdr /\ fed' = Hdr
    /\ pc' = "erase" /\ at' = SectorBase(OtaBase) + Sector
    /\ emptied' = (file.len = 0 \/ emptied)
    /\ UNCHANGED <<flash, firstBuf, firstBlock, left, buf, file, ret, verified, bounds>>

(* A right header: the state moves on and the erase of the slot begins.    *)
(* Nothing refuses a header with bin_len 0.                                *)
DataHeader(n) ==
    /\ CanProcess(n) /\ ug.stat = "header" /\ Packet(n) >= Hdr
    /\ file.magic = "right" /\ file.len < MaxBin
    /\ ug' = [stat |-> "data", binLen |-> file.len, binSum |-> file.sum,
              start |-> OtaBase, addr |-> OtaBase, recv |-> 0]
    /\ rest' = Packet(n) - Hdr /\ fed' = Hdr
    /\ pc' = "erase" /\ at' = SectorBase(OtaBase)
    /\ emptied' = (file.len = 0 \/ emptied)
    /\ UNCHANGED <<flash, firstBuf, firstBlock, left, buf, file, ret, verified, bounds>>

(* tkl_flash_erase(start_addr, bin_len), a sector at a time; none at all   *)
(* when bin_len is 0: the last sector's number is then below the first's.  *)
EraseNext ==
    /\ pc = "erase"
    /\ IF at <= ug.start + ug.binLen - 1
       THEN /\ flash' = EraseSector(flash, Open, at)
            /\ at' = at + Sector /\ emptied' = FALSE
            /\ UNCHANGED <<pc, ret>>
       ELSE /\ pc' = "idle" /\ ret' = "ok"
            /\ UNCHANGED <<flash, at, emptied>>
    /\ UNCHANGED <<procVars, left, buf, file, fed, rest, verified, bounds>>

(* Mutant: a packet of exactly one unit is left to the caller as well.     *)
TooShort_orEqual(len) == len <= Unit /\ ug.recv <= Minus(ug.binLen, Unit)

(* Less than a write unit, and not the end of the image: nothing is taken. *)
TooShort(len) == len < Unit /\ ug.recv <= Minus(ug.binLen, Unit)

DataWait(n) ==
    /\ CanProcess(n) /\ ug.stat = "data" /\ TooShort(Packet(n))
    /\ rest' = Packet(n) /\ ret' = "ok"
    /\ UNCHANGED <<flash, procVars, callVars, file, fed, verified, emptied, bounds>>

DataBegin(n) ==
    /\ CanProcess(n) /\ ug.stat = "data" /\ ~TooShort(Packet(n))
    /\ rest' = Packet(n) /\ left' = Packet(n) /\ pc' = "block"
    /\ UNCHANGED <<flash, procVars, at, buf, file, fed, ret, verified, emptied, bounds>>

(* One pass of the loop's end: the unit at fed is dealt with.              *)
UnitTaken ==
    /\ ug' = [ug EXCEPT !.addr = @ + Unit, !.recv = @ + Unit]
    /\ left' = left - Unit /\ rest' = left - Unit /\ fed' = fed + Unit
    /\ UNCHANGED <<pc, at, buf, file, ret, verified, emptied, bounds>>

(* Mutant: the first unit is written where it belongs at once.             *)
FirstUnit_inPlace ==
    /\ pc = "block" /\ left >= Unit /\ firstBlock = 1
    /\ firstBuf' = Chunk(Unit)
    /\ flash' = Program(flash, Open, ug.addr, Unit, Chunk(Unit))
    /\ firstBlock' = 0
    /\ UnitTaken

(* The image's first unit is kept in RAM and 0xFF written in its place.    *)
FirstUnit ==
    /\ pc = "block" /\ left >= Unit /\ firstBlock = 1
    /\ firstBuf' = Chunk(Unit)
    /\ flash' = Program(flash, Open, ug.addr, Unit, [k \in 0 .. Unit - 1 |-> Erased])
    /\ firstBlock' = 0
    /\ UnitTaken

(* One of its two buffers cannot be allocated: the call fails there.       *)
FirstUnitNoMemory ==
    /\ pc = "block" /\ left >= Unit /\ firstBlock = 1
    /\ \/ firstBuf = NoBuf /\ UNCHANGED firstBuf
       \/ firstBuf' = Chunk(Unit)
    /\ pc' = "idle" /\ ret' = "error"
    /\ UNCHANGED <<flash, ug, firstBlock, at, left, buf, file, fed, rest,
                   verified, emptied, bounds>>

(* Mutant: the loop goes on while anything is left.                        *)
NextUnit_anyRest ==
    /\ pc = "block" /\ left > 0 /\ firstBlock = 0
    /\ flash' = Program(flash, Open, ug.addr, Unit, [k \in 0 .. Unit - 1 |-> Erased])
    /\ UNCHANGED <<firstBuf, firstBlock>>
    /\ UnitTaken

NextUnit ==
    /\ pc = "block" /\ left >= Unit /\ firstBlock = 0
    /\ flash' = Program(flash, Open, ug.addr, Unit, Chunk(Unit))
    /\ UNCHANGED <<firstBuf, firstBlock>>
    /\ UnitTaken

(* What is left when the loop ends is the end of the image, or is returned *)
(* to the caller; all of it is written, also what lies behind the image.   *)
IsTail == ug.recv > Minus(ug.binLen, Unit) /\ left >= Minus(ug.binLen, ug.recv)

DataReturn ==
    /\ pc = "block" /\ left < Unit
    /\ LET taken == IF IsTail THEN left ELSE 0
           done  == ug.recv + taken >= ug.binLen
       IN /\ flash' = Program(flash, Open, ug.addr, taken, Chunk(taken))
          /\ ug' = [ug EXCEPT !.addr = @ + taken, !.recv = @ + taken,
                              !.stat = IF done THEN "finish" ELSE @]
          /\ rest' = left - taken /\ left' = left - taken /\ fed' = fed + taken
    /\ pc' = "idle" /\ ret' = "ok"
    /\ UNCHANGED <<firstBuf, firstBlock, at, buf, file, verified, emptied, bounds>>

(* After the image is complete every packet is taken and dropped.          *)
DataAfterFinish(n) ==
    /\ CanProcess(n) /\ ug.stat = "finish"
    /\ rest' = 0 /\ fed' = fed + Packet(n) /\ ret' = "ok"
    /\ UNCHANGED <<flash, procVars, callVars, file, verified, emptied, bounds>>
-----------------------------------------------------------------------------
(* tkl_ota_end_notify.  The image it sums: the flash, with its first unit  *)
(* taken from RAM.                                                         *)
FirstUnitInRam == IF firstBuf = NoBuf THEN NullBlock ELSE firstBuf

Assembled ==
    [k \in 0 .. ug.binLen - 1 |-> IF k < Unit THEN FirstUnitInRam[k]
                                             ELSE flash[ug.start + k]]

(* There is no update to end, or no memory for the sector buffer.          *)
EndRefused ==
    /\ pc = "idle" /\ ret' = "error"
    /\ UNCHANGED <<flash, procVars, callVars, file, fed, rest, verified, emptied, bounds>>

(* The sum is wrong: everything is freed.                                  *)
EndReject ==
    /\ pc = "idle" /\ ug # NoProc
    /\ Sum(Assembled) # ug.binSum
    /\ ug' = NoProc /\ firstBuf' = NoBuf /\ ret' = "rejected"
    /\ UNCHANGED <<flash, firstBlock, callVars, file, fed, rest, verified, emptied, bounds>>

(* Mutant: the first sector is written back as it was read.                *)
EndAccept_withoutFirstUnit ==
    /\ pc = "idle" /\ ug # NoProc
    /\ Sum(Assembled) = ug.binSum
    /\ buf' = [k \in 0 .. BufSize - 1 |-> flash[ug.start + k]]
    /\ pc' = "eraseFirst"
    /\ verified' = IF ug.stat = "header" THEN verified
                   ELSE [img |-> Assembled, len |-> ug.binLen]
    /\ UNCHANGED <<flash, procVars, at, left, callerVars, emptied, bounds>>

(* The sum is right: the first sector is read back, erased and written     *)
(* again with the image's first unit in its place.                         *)
EndAccept ==
    /\ pc = "idle" /\ ug # NoProc
    /\ Sum(Assembled) = ug.binSum
    /\ buf' = [k \in 0 .. BufSize - 1 |-> IF k < Unit THEN FirstUnitInRam[k]
                                                     ELSE flash[ug.start + k]]
    /\ pc' = "eraseFirst"
    /\ verified' = IF ug.stat = "header" THEN verified
                   ELSE [img |-> Assembled, len |-> ug.binLen]
    /\ UNCHANGED <<flash, procVars, at, left, callerVars, emptied, bounds>>

EraseFirst ==
    /\ pc = "eraseFirst"
    /\ flash' = EraseSector(flash, Open, SectorBase(ug.start))
    /\ pc' = "writeFirst" /\ at' = 0
    /\ UNCHANGED <<procVars, left, buf, callerVars, verified, emptied, bounds>>

(* flash_write_data programs in ascending order: power may fail in between. *)
WriteFirst ==
    /\ pc = "writeFirst" /\ at < BufSize
    /\ flash' = Program(flash, Open, ug.start + at, 1, [k \in {0} |-> buf[at]])
    /\ at' = at + 1
    /\ UNCHANGED <<procVars, pc, left, buf, callerVars, verified, emptied, bounds>>

(* The reset that may follow is a PowerFail.                               *)
EndReturn ==
    /\ pc = "writeFirst" /\ at = BufSize
    /\ ug' = NoProc /\ firstBuf' = NoBuf
    /\ pc' = "idle" /\ ret' = "installed"
    /\ UNCHANGED <<flash, firstBlock, at, left, buf, file, fed, rest, verified, emptied, bounds>>

(* Power fails, or the system is reset: RAM is lost, the flash stays.      *)
PowerFail ==
    /\ crashes < MaxCrashes /\ crashes' = crashes + 1
    /\ ug' = NoProc /\ firstBuf' = NoBuf /\ firstBlock' = 1
    /\ pc' = "idle" /\ at' = 0 /\ left' = 0
    /\ fed' = 0 /\ rest' = 0 /\ ret' = "none"
    /\ UNCHANGED <<flash, buf, file, verified, emptied, starts>>
-----------------------------------------------------------------------------
DataProcess(n) ==
    \/ DataShortHeader(n) \/ DataBadHeader(n) \/ DataHeader(n)
    \/ DataWait(n) \/ DataBegin(n) \/ DataAfterFinish(n)

(* What a call does by itself once it has begun.                           *)
CallStep ==
    \/ EraseNext \/ FirstUnit \/ FirstUnitNoMemory \/ NextUnit \/ DataReturn
    \/ EraseFirst \/ WriteFirst \/ EndReturn

(* The interface does not say when tkl_ota_end_notify may be called: here  *)
(* at any moment, also before any header was accepted.                     *)
EndNotify == EndRefused \/ EndReject \/ EndAccept

Start == StartRefused \/ \E f \in Files : StartNotify(f)

Next ==
    \/ Start \/ DataWithoutStart \/ \E n \in 0 .. MaxPacket : DataProcess(n)
    \/ EndNotify \/ CallStep \/ PowerFail

Spec == Init /\ [][Next]_vars

(* For liveness: a call that has begun goes on; the download task goes on  *)
(* offering data while there is some; memory for the first unit's buffers  *)
(* is not refused for ever.                                                *)
LiveSpec ==
    /\ Spec
    /\ WF_vars(CallStep) /\ SF_vars(FirstUnit)
    /\ WF_vars(\E n \in 1 .. MaxPacket : DataProcess(n))
    /\ WF_vars(\E n \in 0 .. MaxPacket : DataBegin(n))
-----------------------------------------------------------------------------
TypeOK ==
    /\ flash \in Cells
    /\ ug = NoProc \/ ug \in Proc
    /\ firstBuf = NoBuf \/ firstBuf \in Block
    /\ firstBlock \in {0, 1}
    /\ pc \in {"idle", "erase", "block", "eraseFirst", "writeFirst"}
    /\ at \in Nat /\ left \in 0 .. MaxPacket
    /\ buf \in [0 .. BufSize - 1 -> Byte]
    /\ file \in Files /\ fed \in Nat /\ rest \in 0 .. MaxPacket
    /\ fed + rest <= Hdr + file.size
    /\ ret \in {"none", "ok", "error", "rejected", "installed"}
    /\ emptied \in BOOLEAN
    /\ starts \in 0 .. MaxStarts /\ crashes \in 0 .. MaxCrashes

(* What the bootloader looks for is in the slot: its first unit is not     *)
(* blank.                                                                  *)
Bootable == \E k \in 0 .. Unit - 1 : flash[OtaBase + k] # Erased

(* The slot shows a package only with an image behind it that passed the   *)
(* sum: all of it but its first sector is the verified image, and that     *)
(* sector holds the image up to some cell and is blank from there on (the  *)
(* last write may have been cut).                                          *)
ShownIsVerified ==
    Bootable =>
      /\ verified.len >= 1
      /\ \A k \in BufSize .. verified.len - 1 : flash[OtaBase + k] = verified.img[k]
      /\ \E n \in 0 .. BufSize :
           /\ \A k \in 0 .. n - 1 :
                k < verified.len => flash[OtaBase + k] = verified.img[k]
           /\ \A k \in n .. BufSize - 1 : flash[OtaBase + k] = Erased

(* Whatever sequence of calls, refused allocations and power failures came *)
(* before, that is so, except after a header with bin_len 0 and until the  *)
(* next package's erase: such a header erases nothing, its data is         *)
(* programmed over the old package, and its end sums nothing.              *)
BootableOnlyIfVerified == ~emptied => ShownIsVerified

(* Why that holds.  Calls and their state go together:                     *)
CallInv ==
    /\ pc \in {"erase", "block"} => ug # NoProc /\ ug.stat = "data"
    /\ pc \in {"eraseFirst", "writeFirst"} => ug # NoProc
    /\ pc = "writeFirst" => at <= BufSize
    /\ pc = "erase" => at >= OtaBase
    /\ ug # NoProc /\ ug.stat = "header" => ug.start = 0 /\ firstBlock = 1
    /\ ug # NoProc /\ ug.stat # "header" =>
         /\ ug.start = OtaBase /\ ug.binLen \in 0 .. MaxBin - 1
         /\ ug.binLen = 0 => emptied
         /\ ug.binLen # 0 /\ emptied => pc = "erase" /\ at = OtaBase

(* while a package is received, the next unit's place is known, the first  *)
(* unit's place is only ever written with 0xFF;                            *)
DataInv ==
    ug # NoProc /\ ug.stat = "data" =>
      /\ ug.addr = OtaBase + ug.recv /\ fed = Hdr + ug.recv
      /\ ug.recv = 0 \/ ug.recv >= Unit
      /\ firstBlock = (IF ug.recv = 0 THEN 1 ELSE 0)
      /\ pc = "block" => rest = left
      /\ pc = "erase" => ug.recv = 0

(* from the first sector's erase to its last write the slot is not         *)
(* bootable;                                                               *)
HiddenInv ==
    /\ ug # NoProc /\ ug.stat # "header" /\ pc # "writeFirst"
    /\ ~(pc = "erase" /\ at = OtaBase)
    => ~Bootable

(* and what is written then is the image that passed the sum.              *)
CommitInv ==
    pc \in {"eraseFirst", "writeFirst"} /\ ug.stat # "header" =>
      /\ verified.len \in 1 .. MaxBin - 1
      /\ \A k \in BufSize .. verified.len - 1 : flash[OtaBase + k] = verified.img[k]
      /\ \A k \in 0 .. BufSize - 1 : k < verified.len => buf[k] = verified.img[k]
      /\ pc = "writeFirst" =>
           /\ \A k \in 0 .. at - 1 : flash[OtaBase + k] = buf[k]
           /\ \A k \in at .. BufSize - 1 : flash[OtaBase + k] = Erased

(* The last three hold of packages that are not empty.                     *)
ShownInv == ~emptied => HiddenInv /\ CommitInv /\ ShownIsVerified

IInv == TypeOK /\ CallInv /\ DataInv /\ ShownInv

(* The slot as UpdateSlot sees it, and that the update is one.             *)
SlotShown ==
    IF emptied THEN [state |-> "unknown", img |-> NoImage]
    ELSE IF ~Bootable THEN [state |-> "blank", img |-> NoImage]
    ELSE IF \A k \in 0 .. verified.len - 1 :
                 flash[OtaBase + k] = verified.img[k]
         THEN [state |-> "whole", img |-> verified.img]
         ELSE [state |-> "torn", img |-> NoImage]

Candidate ==
    IF pc \in {"eraseFirst", "writeFirst"} /\ ug.stat # "header" /\ ~emptied
    THEN verified.img ELSE NoImage

Slot == INSTANCE UpdateSlot WITH slot <- SlotShown, candidate <- Candidate

(* Every step of the update, a power failure included, is a step of the    *)
(* abstract slot: an old package disappears before the new one is staged,  *)
(* and the new one appears only after its sum was right.  A header with    *)
(* bin_len 0 is the abstract slot's Lose, the next package's erase its     *)
(* Hide.                                                                   *)
ImplementsSlot == Slot!Spec

(* Between two calls of a download, the cells the module counts as         *)
(* received are the first cells of the package offered, in order and each  *)
(* once, the first unit in RAM and the rest in the slot: nothing of an     *)
(* earlier, abandoned download is left among them.                         *)
StagedInPlace ==
    pc = "idle" /\ ug # NoProc /\ ug.stat # "header" =>
      \A k \in 0 .. ug.recv - 1 : k < ug.binLen =>
        file.data[k] = IF k < Unit THEN FirstUnitInRam[k] ELSE flash[OtaBase + k]

(* When tkl_ota_end_notify returns OPRT_OK after a complete download, the  *)
(* slot holds the package that was offered, and nothing else.              *)
InstalledIsServed ==
    [][pc = "writeFirst" /\ pc' = "idle" /\ ret' = "installed" /\ ug.stat = "finish"
         => \A k \in 0 .. file.len - 1 : flash[OtaBase + k] = file.data[k]]_vars

(* No call changes a cell outside the slot, except that the packet which   *)
(* completes an image may run over the slot's end by less than its length. *)
(* This includes an end without a header, which erases and writes at       *)
(* address 0: only the half protection keeps the bootloader there.         *)
OnlySlotChanges ==
    [][\A a \in Addr : flash'[a] # flash[a] =>
         a \in OtaBase .. OtaBase + MaxBin + MaxPacket - 1]_vars

(* OPRT_OK from tkl_ota_end_notify says that there was an image to install *)
(* ("@return OPRT_OK on success, others on failed").                       *)
OkMeansImage ==
    [][ret # "installed" /\ ret' = "installed" => ug.stat # "header"]_vars

(* A download does not stay in the data stage for ever: "last 512 (write   *)
(* directly when get data )" (tkl_ota.c:216).                              *)
Receiving == ug # NoProc /\ ug.stat = "data"

DownloadEnds == Receiving ~> ~Receiving

(* That is so of a package of a write unit or more that is offered         *)
(* completely, in whatever packets: none of them leaves the download       *)
(* waiting for what it already holds.                                      *)
WholeDownloadEnds ==
    (Receiving /\ file.len \in Unit .. file.size) ~> ~Receiving
=============================================================================
