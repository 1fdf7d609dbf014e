----------------------------- MODULE FlashShare -----------------------------
(***************************************************************************)
(* Several tasks on the one flash chip, through tkl_flash_write and        *)
(* tkl_flash_erase of TuyaOS/adapter/src/driver/tkl_flash.c.  Both hold    *)
(* hal_flash_lock.  The updater (tkl_ota.c) also brackets each call with   *)
(* tkl_flash_set_protect(FALSE) and (TRUE), which hold no lock.            *)
(*                                                                         *)
(* The chip has two more kinds of user, in the SDK.  save_info_item of     *)
(* net_param.c holds the lock as well, opens the whole chip and protects   *)
(* all of it again.  wlan_write_fast_connect_info and                      *)
(* wlan_clear_fast_connect_info of wlan_ui.c, in the supplicant's task and *)
(* in the one that takes the firmware's messages, hold no lock at all:     *)
(* they get the protection, open the chip, erase, program, and set it back.*)
(*                                                                         *)
(* What matters of a call is whether the chip took every page it was told  *)
(* to program or erase: a protected chip ignores the command silently and  *)
(* the call returns OPRT_OK all the same.                                  *)
(***************************************************************************)
EXTENDS Integers

CONSTANTS
    Updater,    \* the task that runs tkl_ota.c
    Writers,    \* the tasks that keep their data in the upper half
    Savers,     \* the tasks that keep or clear the fast connect information
    Stray,      \* what stray bytes may make of a fast connect's levels
    Pages,      \* pages of a write, or sectors of an erase
    Free        \* no task holds hal_flash_lock

ASSUME ShareAssumption ==
    /\ Pages \in Nat \ {0} /\ Stray \subseteq {"none", "all"}
    /\ Updater \notin Writers \cup Savers /\ Writers \cap Savers = {}
    /\ Free \notin Writers \cup Savers \cup {Updater}

Holders    == Writers \cup {Updater}    \* the tasks that use hal_flash_lock
FlashTasks == Holders \cup Savers

(* What of the chip is protected.  All that these tasks program or erase   *)
(* lies in the upper half.                                                 *)
Levels == {"all", "half", "none"}

Calls(t) == CASE t = Updater    -> {"write", "erase"}
              [] t \in Writers -> {"write", "erase", "store"}
              [] OTHER          -> {"fci", "clear"}

VARIABLES
    prot,       \* protection in the chip's status register
    lock,       \* holder of hal_flash_mutex
    at,         \* where each task is
    doing,      \* the call it makes, or "none"
    level,      \* the levels that call opens the chip to and sets it back to
    page,       \* the next page of that call
    missed,     \* observation: locked calls of which the chip ignored a page
    closed,     \* observation: locked calls into which set_protect(TRUE) fell
    restored    \* observation: ... a fast connect's command that protects all

flashVars == <<prot, lock, at, doing, level, page, missed, closed, restored>>

(* Inside hal_flash_lock, for a task that uses it.                         *)
Locked == {"check", "unprotect", "unprotectSet", "bare", "bareSet", "page",
           "cover", "coverSet", "recheck", "protect", "protectSet", "unlock"}

Unlocked == {"idle", "open", "openSet", "get", "lock", "close", "closeSet",
             "return"}

(* save_info_item's levels; a fast connect chooses its own.                *)
Bracket == [open |-> "none", shut |-> "all"]

FlashInit ==
    /\ prot = "all" /\ lock = Free
    /\ at = [t \in FlashTasks |-> "idle"]
    /\ doing = [t \in FlashTasks |-> "none"]
    /\ level = [t \in FlashTasks |-> Bracket]
    /\ page = [t \in FlashTasks |-> 0]
    /\ missed = {} /\ closed = {} /\ restored = {}

Move(t, from, to) == at[t] = from /\ at' = [at EXCEPT ![t] = to]

callVars == <<doing, level, page, missed, closed, restored>>

(* set_flash_protect: the status register is read, and written only when   *)
(* it differs; another task may run in between.                            *)
ReadStatus(t, from, want, write, done) ==
    /\ Move(t, from, IF prot # want THEN write ELSE done)
    /\ UNCHANGED <<prot, lock, callVars>>

WriteStatus(t, from, want, done) ==
    /\ Move(t, from, done) /\ prot' = want
    /\ closed' = IF t = Updater /\ want = "all"
                 THEN closed \cup ({lock} \ {Free, t}) ELSE closed
    /\ restored' = IF t \in Savers /\ want = "all"
                   THEN restored \cup ({lock} \ {Free}) ELSE restored
    /\ UNCHANGED <<lock, doing, level, page, missed>>
-----------------------------------------------------------------------------
(* A call begins.  Clearing the fast connect information is an erase and   *)
(* no more.                                                                *)
Call(t, o) ==
    /\ Move(t, "idle", IF t = Updater THEN "open" ELSE IF t \in Savers THEN "get" ELSE "lock")
    /\ doing' = [doing EXCEPT ![t] = o]
    /\ page' = [page EXCEPT ![t] = IF o = "clear" THEN Pages - 1 ELSE 0]
    /\ UNCHANGED <<prot, lock, level, missed, closed, restored>>

(* CMD_FLASH_GET_PROTECT stores 32 bits through a pointer to a uint8_t,    *)
(* and CMD_FLASH_SET_PROTECT loads 32 bits through such a pointer.  With   *)
(* stray bytes beside its 0, FLASH_PROTECT_NONE is a level unheard of,     *)
(* which protects all; what was got may be overwritten by such bytes, or   *)
(* by zeros, before it is set back.                                        *)
Get(t) ==
    /\ Move(t, "get", "bare")
    /\ \E o \in {"none"} \cup (Stray \cap {"all"}), s \in {prot} \cup Stray :
          level' = [level EXCEPT ![t] = [open |-> o, shut |-> s]]
    /\ UNCHANGED <<prot, lock, doing, page, missed, closed, restored>>

(* tkl_flash_set_protect(FALSE) before the updater's call.                 *)
OpenHalf(t) ==
    \/ ReadStatus(t, "open", "half", "openSet", "lock")
    \/ WriteStatus(t, "openSet", "half", "lock")

(* Mutant: the call goes on without the lock.                              *)
Lock_ignored(t) ==
    /\ Move(t, "lock", IF doing[t] = "store" THEN "bare" ELSE "check")
    /\ lock' = t
    /\ UNCHANGED <<prot, callVars>>

Lock(t) ==
    /\ lock = Free /\ Move(t, "lock", IF doing[t] = "store" THEN "bare" ELSE "check")
    /\ lock' = t
    /\ UNCHANGED <<prot, callVars>>

(* Mutant: the chip is taken to be open already.                           *)
Check_skipped(t) ==
    /\ Move(t, "check", "page")
    /\ UNCHANGED <<prot, lock, callVars>>

(* __uni_flash_is_protect_all, before the work.                            *)
Check(t) ==
    /\ Move(t, "check", IF prot = "all" THEN "unprotect" ELSE "page")
    /\ UNCHANGED <<prot, lock, callVars>>

Unprotect(t) ==
    \/ ReadStatus(t, "unprotect", "half", "unprotectSet", "page")
    \/ WriteStatus(t, "unprotectSet", "half", "page")

(* The whole chip is opened: with the lock by save_info_item, and without  *)
(* it for the fast connect.                                                *)
Bare(t) ==
    \/ ReadStatus(t, "bare", level[t].open, "bareSet", "page")
    \/ WriteStatus(t, "bareSet", level[t].open, "page")

(* Mutant: one page too many.                                              *)
Page_oneMore(t) ==
    /\ page[t] <= Pages /\ Move(t, "page", "page")
    /\ page' = [page EXCEPT ![t] = @ + 1]
    /\ missed' = IF prot # "all" THEN missed ELSE missed \cup ({t} \cap Holders)
    /\ UNCHANGED <<prot, lock, doing, level, closed, restored>>

(* One page program or sector erase, with interrupts disabled.             *)
Page(t) ==
    /\ page[t] < Pages /\ Move(t, "page", "page")
    /\ page' = [page EXCEPT ![t] = @ + 1]
    /\ missed' = IF prot # "all" THEN missed ELSE missed \cup ({t} \cap Holders)
    /\ UNCHANGED <<prot, lock, doing, level, closed, restored>>

Worked(t) ==
    /\ page[t] = Pages
    /\ Move(t, "page", CASE doing[t] = "erase" -> "recheck"
                         [] doing[t] = "write" -> "unlock"
                         [] OTHER              -> "cover")
    /\ page' = [page EXCEPT ![t] = 0]
    /\ UNCHANGED <<prot, lock, doing, level, missed, closed, restored>>

(* The protection is set back after it.                                    *)
Cover(t) ==
    LET done == IF t \in Savers THEN "return" ELSE "unlock"
    IN  \/ ReadStatus(t, "cover", level[t].shut, "coverSet", done)
        \/ WriteStatus(t, "coverSet", level[t].shut, done)

(* tkl_flash_erase looks at the protection again, and sets what it finds.  *)
Recheck(t) ==
    /\ Move(t, "recheck", IF prot = "all" THEN "protect" ELSE "unlock")
    /\ UNCHANGED <<prot, lock, callVars>>

Protect(t) ==
    \/ ReadStatus(t, "protect", "all", "protectSet", "unlock")
    \/ WriteStatus(t, "protectSet", "all", "unlock")

Unlock(t) ==
    /\ Move(t, "unlock", IF t = Updater THEN "close" ELSE "idle") /\ lock' = Free
    /\ doing' = [doing EXCEPT ![t] = "none"]
    /\ missed' = missed \ {t} /\ closed' = closed \ {t} /\ restored' = restored \ {t}
    /\ UNCHANGED <<prot, level, page>>

Return(t) ==
    /\ Move(t, "return", "idle")
    /\ doing' = [doing EXCEPT ![t] = "none"] /\ level' = [level EXCEPT ![t] = Bracket]
    /\ UNCHANGED <<prot, lock, page, missed, closed, restored>>

(* tkl_flash_set_protect(TRUE) after the updater's call.                   *)
CloseAll(t) ==
    \/ ReadStatus(t, "close", "all", "closeSet", "idle")
    \/ WriteStatus(t, "closeSet", "all", "idle")
-----------------------------------------------------------------------------
Step(t) ==
    \/ \E o \in Calls(t) : Call(t, o)
    \/ OpenHalf(t) \/ Lock(t) \/ Check(t) \/ Unprotect(t) \/ Page(t) \/ Worked(t)
    \/ Recheck(t) \/ Protect(t) \/ Unlock(t) \/ CloseAll(t)
    \/ Get(t) \/ Bare(t) \/ Cover(t) \/ Return(t)

FlashNext == \E t \in FlashTasks : Step(t)

FlashSpec == FlashInit /\ [][FlashNext]_flashVars
-----------------------------------------------------------------------------
FlashTypeOK ==
    /\ prot \in Levels /\ lock \in Holders \cup {Free}
    /\ at \in [FlashTasks -> Locked \cup Unlocked]
    /\ doing \in [FlashTasks -> {"none", "write", "erase", "store", "fci", "clear"}]
    /\ level \in [FlashTasks -> [open : Levels, shut : Levels]]
    /\ page \in [FlashTasks -> 0 .. Pages]
    /\ missed \subseteq Holders /\ closed \subseteq Holders /\ restored \subseteq Holders

(* Nothing that the users of hal_flash_lock do to the protection meanwhile *)
(* makes the chip ignore a page of the updater's own writes and erases:    *)
(* only a fast connect's SET_PROTECT inside its locked call does.          *)
UpdateLands == Updater \in missed => Updater \in restored

(* Two locked calls never make each other lose pages, although each may    *)
(* change the protection: a locked call that lost one had the updater's    *)
(* set_protect(TRUE) or a fast connect's SET_PROTECT fall into it, which   *)
(* hold no lock.                                                           *)
OnlySetProtectLoses == missed \subseteq closed \cup restored

(* "@return OPRT_OK on success": a call that returns OPRT_OK has done what *)
(* it was asked to.                                                        *)
OkMeansWritten == \A t \in Writers :
    at[t] = "unlock" /\ doing[t] # "store" => t \notin missed

(* Why UpdateLands holds: a task past lock holds it, and only the tasks    *)
(* without it can protect the chip while the updater is at its pages.      *)
LockInv == \A t \in Holders : at[t] \in Locked => lock = t

PageInv == \A t \in Holders :
    at[t] = "page" => prot # "all" \/ t \in restored \/ (t # Updater /\ t \in closed)

(* Who is where: only the updater brackets its calls, the fast connect     *)
(* never takes the lock, and those who hold the lock open the whole chip.  *)
PlaceInv ==
    /\ \A t \in FlashTasks \ {Updater} : at[t] \notin {"open", "openSet", "close", "closeSet"}
    /\ \A t \in Savers : at[t] \in {"idle", "get", "bare", "bareSet", "page", "cover", "coverSet",
                                "return"}
    /\ \A t \in Savers : doing[t] \in {"none", "fci", "clear"}
    /\ \A t \in Holders : at[t] \notin {"get", "return"} /\ level[t].open = "none"

FlashInv == FlashTypeOK /\ LockInv /\ PageInv /\ PlaceInv /\ UpdateLands /\ OnlySetProtectLoses
=============================================================================
