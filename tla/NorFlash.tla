------------------------------ MODULE NorFlash ------------------------------
(***************************************************************************)
(* The NOR flash chip behind the adapter, as vendor/driver/flash/flash.c   *)
(* drives it.  A cell holds a member of Byte; erasing a sector sets its    *)
(* cells to Erased (0xFF), programming can only clear bits of a cell.  A   *)
(* protected cell ignores both, without any error: the driver returns      *)
(* FLASH_SUCCESS all the same.                                             *)
(***************************************************************************)
EXTENDS Integers

CONSTANTS
    FlashSize,      \* cells of the chip
    Sector,         \* cells of an erase sector (PARTITION_SIZE)
    Half,           \* first cell that FLASH_PROTECT_HALF leaves writable
    Byte,           \* the values of a cell
    Erased,         \* the value of an erased cell
    BitAnd(_, _)    \* what programming the second over the first leaves

ASSUME FlashAssumption ==
    /\ FlashSize \in Nat /\ Half \in Nat
    /\ Sector \in Nat \ {0}
    /\ Erased \in Byte
    /\ \A v, w \in Byte : BitAnd(v, w) \in Byte
    /\ \A v \in Byte : BitAnd(v, Erased) = v /\ BitAnd(Erased, v) = v

Addr == 0 .. FlashSize - 1

Cells == [Addr -> Byte]

(* Mutant: half protection covers nothing.                                 *)
Writable_everywhere(prot, a) == prot = "half"

(* The adapter only ever sets FLASH_PROTECT_ALL ("all") and                *)
(* FLASH_PROTECT_HALF ("half": the lower half, status-register value 0x0D). *)
Writable(prot, a) == prot = "half" /\ a >= Half

(* CMD_FLASH_ERASE_SECTOR of the sector that starts at base.               *)
EraseSector(cells, prot, base) ==
    [a \in Addr |-> IF a \in base .. base + Sector - 1 /\ Writable(prot, a)
                    THEN Erased ELSE cells[a]]

(* flash_write_data: nothing at all when the range leaves the chip.        *)
Program(cells, prot, addr, len, src) ==
    IF addr + len > FlashSize
    THEN cells
    ELSE [a \in Addr |-> IF a \in addr .. addr + len - 1 /\ Writable(prot, a)
                         THEN BitAnd(cells[a], src[a - addr]) ELSE cells[a]]

(* The first cell of the sector that holds addr (addr / PARTITION_SIZE).   *)
SectorBase(addr) == addr - (addr % Sector)
=============================================================================
