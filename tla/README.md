# A verification development for arduino-t2

arduino-t2 is the Arduino core for the Tuya T2 module (BK7231N, one core,
FreeRTOS 9 with preemption). This directory holds TLA+ models of the parts of
it that keep state and meet concurrency, failure or ordering, TLC runs that
check them on small instances, and theorems proved with TLAPS for every value
of the constants. `PROJECT.json` lists the components, the runs, which source
lines each definition stands for, the hazards found in the code and the
findings.

Unless they begin otherwise, paths below are under `src/cores/arduino/`; those
of FreeRTOS are under `src/t2Vendor/os/FreeRTOSv9.0.0/`.

## 1. Inventory

The repository's own code is a thin layer in three stages:

    sketch (setup, loop)                       tuya_arduino_main.cpp
      Arduino API                              SerialUART.cpp, wiring_*.cpp, Interrupts.cpp
        TuyaOS adapter ("tkl")                 TuyaOS/adapter/src/{driver,system}
          Beken SDK, FreeRTOS, lwIP            vendor, t2Vendor       (third party)
    Tuya cloud SDK (binary) calls the adapter  TuyaOS/libs, TuyaOS/include

| component | state it keeps | operations | interacts through | what is hard | what makes it correct |
|---|---|---|---|---|---|
| Firmware update, `tkl_ota.c` | `ug_proc`, `frist_block_databuf`, `first_block`; the flash slot at 0x12A000 | start, data, end notification | called by the SDK's download task; calls `tkl_flash_*` | arbitrary packets, abandoned downloads, refused allocations, power failure | the slot never shows an unverified image; each byte staged once and in place; nothing outside the slot changes |
| Flash adapter, `tkl_flash.c` | protection bits in the chip; `hal_flash_mutex` | read, write, erase, set_protect | shared by the updater, key-value storage and the SDK | a protected chip ignores commands silently; set_protect takes no lock | a call that returns OPRT_OK has done its work |
| Flash driver, `vendor/driver/flash/flash.c` | the cells, the status register | sector erase, page program | registers | bits only clear | as assumed by the two above |
| Serial receive, `SerialUART.cpp`, `api/RingBuffer.h`, `tkl_uart.c` | ring buffer, mutex, registered object and callback | begin, end, available, peek, read, receive interrupt | interrupt against tasks | the mutex does not hold an interrupt off | bytes come out once, in order; a full ring drops |
| OS adapter, `tkl_semaphore.c`, `tkl_queue.c`, `tkl_mutex.c`, `tkl_thread.c` | handles | create, wait, post, lock, unlock, release | tasks and interrupts, through the kernel | time-outs against posts, release against a waiter | no post is lost, no waiter left behind |
| FreeRTOS, `t2Vendor/os/FreeRTOSv9.0.0` (`queue.c`, `tasks.c`, `list.c`, `timers.c`, `rtos_pub.c`) | queues, event lists, priorities, timer lists, the tick count | send, receive, take, give, timer commands | everything above runs on it | an interrupt between a task's look and its wait; inheritance over several mutexes; the tick count wraps; a late timer task | a queue is a bounded first in first out store; a holder is never kept from its mutex; no timer is early or forgotten |
| WiFi scan, `tkl_wifi.c` over `wlan_ui.c` and the supplicant | `scanHandle`, a semaphore per call | scan, its callback | the supplicant's thread | time-out against a late callback, check-then-create | a scan gets its own results; scanning never jams |
| WiFi connect and state, `tkl_wifi.c`, `rw_msg_rx.c` | the station's status, the last abnormal one, a polling thread's memory | connect, report, poll | firmware messages, supplicant, lwIP, application | the poll samples what others write | a status that stays is told |
| Network interfaces, `net.c` | `sta_ip_start_flag`, DHCP | ip start and down, status callback | lwIP's thread, the supplicant's, the application's | order of callback, interface and DHCP; what the last connection left | the flag says the truth; a failure is reported only of what was tried |
| Sockets, `tkl_network.c` | none of its own | guards and loops over lwIP | lwIP | partial reads | the count returned is what was received |
| SPI, `tkl_spi.c`, `spi_master_bk7231n_new.c` | mutex, device, `finish_sem`, chip select | init, deinit, send, receive, transfer | DMA interrupt, other tasks | deinit under a transfer, two interrupts for one wait | data moves only under select; a call returns after its data |
| Hardware timers, `tkl_timer.c`, `bk_timer.c` | enable and expiry bits in two shared registers | start, stop, interrupt | callbacks in the interrupt | read, change and write of a register others change | a timer runs as it was asked last; no expiry is lost |
| Stream search, `api/Stream.cpp` | how much of each target has matched | find, findUntil, findMulti | reads from the port | walking back in a target that overlaps itself | the first target to come is found |
| GPIO interrupts, `tkl_gpio.c`, `Interrupts.cpp` | callback table | register, enable, disable | interrupt | enabled before arguments are set | a callback gets its own argument |
| PWM, ADC, `tkl_pwm.c`, `tkl_adc.c`, `wiring_analog.cpp` | none | set, read | | limits and scaling | values in their ranges |
| Sketch runner | a thread | setup once, loop for ever | | | |

## 2. Modules

### NorFlash
The chip: `EraseSector`, `Program` and `Writable` as `flash.c` performs them.
Programming only clears bits (`BitAnd`), a protected cell ignores everything
without an error, a write that leaves the chip is ignored as a whole.

### OtaUpdate (core), UpdateSlot, MCOtaUpdate
`OtaUpdate` models `tkl_ota.c`. `ug`, `firstBuf` and `firstBlock` are its three
statics. A call that does not touch the flash is one action, guarded by the
code's early returns (`DataShortHeader`, `DataBadHeader`, `DataWait`, ...). A
call that does is a sequence of actions, one per flash operation (`pc` says
which one is next), so that `PowerFail` can fall between any two: `DataHeader`
then `EraseNext` per sector; `DataBegin`, then `FirstUnit` or `NextUnit` per
write unit of 512 and `DataReturn` for the tail; `EndAccept`, `EraseFirst`,
`WriteFirst` per cell, `EndReturn`. `FirstUnitNoMemory`, `StartNotify`'s second
disjunct and `EndRefused` are refused allocations. Subtractions of unsigned
ints wrap (`Minus`).

The caller is the SDK's download task, a binary library. It is modelled from
the interface alone: it hands over what the last call left (`rest`) and any
number of new cells, may start again at any moment, and may end at any moment,
also before a header. Package contents are cells over a small alphabet; the
header's flags and its sum are one field, `magic`.

A header with `bin_len` 0 passes every check of the code. Nothing is erased
then, the data is programmed over the old package, and the end sums nothing.
`emptied` observes that such a header was accepted, up to the next package's
erase; for that time nothing is promised of the slot, and rightly: with the
`~emptied` taken out of `BootableOnlyIfVerified`, TLC finds a first sector shown
over cells that no sum has covered.

`UpdateSlot` is the abstract specification: what the slot promises to the
bootloader that reads it. `ImplementsSlot` is the refinement
(`Slot == INSTANCE UpdateSlot WITH ...`): the slot shows "blank", "torn" or
"whole", an old package is hidden before a new one is accepted, and a package
appears only after its sum was right; the header of an empty package is the
slot's `Lose`. `verified` is an observation variable:
the image that last passed the sum.

### FlashShare
`tkl_flash_write` and `tkl_flash_erase` by several tasks, with the lock, the
look at the protection, its removal, each page, and for an erase the second
look. The updater brackets its calls with `tkl_flash_set_protect`, without a
lock. The SDK has two more users: `save_info_item` of `net_param.c` takes the
lock and opens the whole chip (a `Writers` task's call "store"), and
`wlan_write_fast_connect_info` and `wlan_clear_fast_connect_info` of
`wlan_ui.c` take none (`Savers`, calls "fci" and "clear"): they get the level
(`Get`), open the chip (`Bare`), erase and program, and set the level back
(`Cover`). Their variables of 8 bits are stored and loaded as 32: `Stray` is
what the bytes beside them may make of a level.

A status register change is a read and a later write (`ReadStatus`,
`WriteStatus`). The data is abstracted to whether the chip ignored a page of a
locked call (`missed`); `closed` and `restored` observe into which locked calls
the updater's `set_protect(TRUE)` and a fast connect's SET_PROTECT fell.
`UpdateLands` says what `OtaUpdate` takes for granted when it treats the chip as
open (`Open`) during the updater's operations: that no fast connect is kept or
cleared in the middle of one. The code does not see to that: with `restored`
taken out of `UpdateLands`, TLC finds the trace (level got before the updater
opened the chip, set back between two of its pages), and needs no stray bytes
for it.

### SerialRx
The ring buffer access by access: `ReadValue`, `ReadTail`, `ReadLoad`,
`ReadStore` are the parts of `read_char` an interrupt can separate;
`StoreByte`/`DropByte` are one pass of the interrupt's loop, which is atomic to
tasks. Bytes are arrival numbers. `unread` (what a perfect queue would hold) and
`raced` (a byte was stored between the load and the store of `_numElems - 1`)
are observations. `begin` and `end` are assumed to be called while no other call
on the port runs: the class has no protection there. `available` is the value
of `num`. The UART's hardware queue and line errors are left out: a byte lost
there never reaches this code.

### StreamFind
`Stream::findMulti` under `find` and `findUntil`, one letter at a time.
`Advance` is the code's walk back; `recent`, the last letters that came, is an
observation, and what the properties compare with. It holds as many letters as
the longest target, so that the stream itself is unbounded.

### HwTimer
Three timers share a control register. A task's call is two steps, a read of
the register (`TimerRead`) and a write of what it read with its own bits changed
(`TimerWrite`); the interrupt falls between them, serves what has expired and
acknowledges it. A callback starts and stops timers inside the interrupt, where
a start writes back every expiry bit as 1 and so clears it. `asked` (what the
calls so far say), `overlapped` and `restarted` are observations.

### OsFifo, OsQueue, MCOs
`OsQueue` is FreeRTOS's `queue.c` as the adapter's queues and semaphores use it.
A critical section is one action; between them are the places an interrupt or
another task can take: the test (`TrySend`, `TryReceive`), `vTaskSuspendAll`,
`prvLockQueue`, the time-out (`CheckBlock`), the second look (`CheckAgain`),
`vTaskPlaceOnEventList`, `prvUnlockQueue`, `xTaskResumeAll`, and the loop
(`Retest`). The event lists are sets: who of those that wait is woken depends on
priorities, which may be any. A semaphore is the queue whose items are all
alike. `OsFifo` is the abstract specification, a bounded first in first out
store each call of which takes effect at one moment; `ImplementsFifo` is the
refinement.

### OsMutex
Mutexes with priority inheritance under the scheduler: `Running` picks a ready
task of the highest priority. Locking is one step here; what it is made of is
`OsQueue`. Tasks take several mutexes in one order and release them in any.

### SoftTimer
`timers.c`: the queue of commands, the two lists of active timers, the timer
task's steps (`NextSwitches`, `NextExpired`, `NextBlocks`, `TakeCommand`, and what
each command does), the tick count modulo `Wrap`. `due` is an observation: in how
many ticks each timer is to expire by the commands that were given, counted
without a wrap. A periodic timer that is late restarts itself by a command at
the back of the queue; `mark` records what such a restart meets there
(`Overtake`). A command holds the tick count its caller has read up to `Lag` ticks
earlier, and the timer task is at most `Lag` late (`InTime`).

### WifiScan
`tkl_wifi_scan_ap`, `bk_wlan_start_scan` and the supplicant's scan, down to the
callback that posts whatever semaphore `scanHandle` names. A call is a number,
which also names its semaphore and the scan it asked for. `alone`, `troubled` and
`misused` are observations; the model stops where a released semaphore is used.

### Station
The status of the station is one variable that four threads write: reports of
the firmware and the supplicant (`Report`, `Associated`), `sta_ip_start` and
`sta_ip_down` step by step in the supplicant's thread and the connecting task,
lwIP's status callback, and a thread that polls it (`Poll`) and tells the
application. lwIP is external: `dhcp_stop` keeps its record, and an interface
that comes up calls the registered callback. A connect disconnects first and
waits for that (`Connecting`), or its request is refused, which nobody looks at
(`ConnectingRefused`); `kept` observes that the link has so outlived a connect.
`IpFlagTruth` says nothing for that time, in which the flag may well be wrong.

### SpiBus
`tkl_spi.c` over the DMA driver: the mutex with creation and deletion, the chip
select, packs, the finish interrupts of each direction and `finish_sem`. With
`spic_flag` set, `tkl_spi_send` ("long") takes its own way; a device made while
it is set (`spci_flag`) takes the DMA's interrupt for an end too ("feed"), which
comes before the data is out ("tail"). `hasty` observes that since its init the
device has been used in full duplex or has `spci_flag`: for it the chip select
does rise while data moves (`SpiEarly` shows it of full duplex, and TLC finds it
of a flagged send when `hasty` leaves `spci_flag` out). The model stops where
something deleted is used.

### MCSafety, MCOs, MCDrivers
Parts that share no state are checked as a sum: `part`, chosen at the start,
says which of them moves while the others rest in an initial state. Each
state of a part is reached exactly as in a run of its own, and a part that rests
has no action enabled that fairness would ask for. The parts that do meet are
composed inside the modules: the updater with other flash users and the flash's
lock, a port with its readers and its interrupt, the kernel's queue with tasks
and interrupts, a scan with the supplicant, a station with lwIP and the poll.

## 3. Runs

| run | module | checks | shows |
|---|---|---|---|
| OtaUpdate | MCOtaUpdate | TypeOK, BootableOnlyIfVerified, StagedInPlace, InstalledIsServed, OnlySlotChanges, ImplementsSlot | every packetisation of ten packages, two starts, one power failure |
| | | WholeDownloadEnds | a whole package offered is completed, with fairness |
| OtaSmall (violation) | MCOtaUpdate | DownloadEnds | an image under 512 bytes is never completed: `bin_len - 512` wraps |
| OtaEarlyEnd (violation) | MCOtaUpdate | OkMeansImage | end before a header reports success without an image |
| Safety | MCSafety | FlashTypeOK, UpdateLands, OnlySetProtectLoses | the updater, two writers with the lock and a fast connect without it: only the two that set the protection without the lock make a locked call lose pages |
| | | TypeOK, CountNotAhead, ReadsOldest, RingHoldsUnread | two readers, the interrupt, begin and end |
| | | LongestMatchKept, FirstTargetFound | the search against what has really come |
| | | RunsAsAsked, NoExpiryLost | hardware timers, two tasks, callbacks that start and stop |
| | | NeverEarly, NeverSleepsPast | software timers, late and over the wrap |
| FlashLost (violation) | FlashShare | OkMeansWritten | the updater's `set_protect(TRUE)` silently cuts another task's write |
| SerialOverrun (violation) | SerialRx | StoreNeverOverruns | a lost count makes the ring overwrite unread bytes |
| TimerRevived (violation) | SoftTimer | StoppedStays | a late timer's own restart, queued behind a stop, undoes the stop |
| Os | MCOs | QTypeOK, NoLostWakeup, ImplementsFifo, MessageReachesWaiter, TimedSendReturns | three tasks that poll, wait with a time-out and for ever, and an interrupt |
| | | MTypeOK, HolderOutranksWaiters, BoostEnds, FreeIsOffered | four priorities and two mutexes |
| Drivers | MCDrivers | STypeOK, OwnScanEnded, MisuseNeedsTrouble, HandleHasOwner, ScanReturns | two callers, time-outs, late callbacks |
| | | IpFlagTruth, SteadyStatusTold | connects, reconnects, refused disconnects, DHCP, the poll (of a failure that is counted SteadyStatusTold says nothing) |
| Spi | SpiBus | OneTransfer, HalfDuplexUnderSelect, LockHasOwner, CallsReturn | two tasks send, also with `spic_flag` set before or after the device is made, use full duplex, deinit and init the bus |
| SpiEarly (violation) | SpiBus | DataUnderSelect | full duplex waits for one of two finishes: it returns while data moves |
| StationFalseFail (violation) | Station | DhcpFailedAfterTry | every connect but the first reports a DHCP failure before it asks |

Bounds, and why they are enough:

- OtaUpdate: a chip of 20 cells (a protected sector, two sectors of slot, one
  to overrun into, one behind), units of 2 and sectors of 4 cells, packets up
  to 4 cells. Images of 4, 5 and 7 cells give a whole number of units, a tail
  of one, and the largest size; the others are cut, corrupt, carry trailing
  data, have a wrong header, are empty, or are below a unit or above the limit.
  `MaxStarts = 2` lets a download be abandoned for another; `MaxCrashes = 1`
  puts a power failure at every point, after which everything starts from the
  flash alone, so that a second failure starts from no new kind of state.
  `Word = 64` lies above every sum of sizes, so wrapping occurs only where the
  code wraps.
- FlashShare: two pages per call (something can fall between them), two
  writers and one fast connect, stray bytes that make its level one of which the
  chip protects all (the proofs hold for any), no bound on the number of calls;
  the state space is finite.
- SerialRx: a ring of 3 cells and 6 bytes fill it, wrap it twice and overrun
  it; two tasks. The overrun needs only 2 cells.
- StreamFind: all targets of up to five letters and all pairs of up to three,
  over two letters: targets that overlap themselves at every distance, and each
  other. The stream has no end.
- HwTimer: timers 0 and 1 share a register, 4 has the other (the adapter's own
  numbers); two tasks; no bound on calls or expiries.
- SoftTimer: a periodic timer with periods of 1 and 2 ticks, a one-shot timer of
  2, a lag of 1 (a whole period late), a count that wraps at 4 and starts anywhere, a queue
  of two commands: a restart lies behind a command, or finds no room. Only
  periodic timers change their period: `rtos_change_period` takes no others.
- OsQueue: a queue of two places, three tasks of which one can be on each list
  while the third goes on, and the interrupt at any time.
- OsMutex: four priorities and two mutexes: a chain of inheritance, a task in
  between, and a holder of both.
- WifiScan: two callers and two calls, one retry instead of 3000: a late
  callback meets the next call, or another's. SpiBus: two tasks, transfers of
  one and two packs, two mutexes in a life of the bus (the first deleted).
  Station: `MaxCount = 3`; of the statuses reported one of each kind (noted,
  counted, told) is enough, as the code treats those of a kind alike.

Fairness, and why the code gives it:

- `LiveSpec` (update): a call that has begun goes on (it waits for nothing but
  the flash), the download task offers data while there is some, it offers more
  than a unit's worth now and then, and an allocation is not refused for ever
  (strong fairness of `FirstUnit`). `OtaSmall` uses the same fairness.
- `QFairness` (queue): strong, of each task's steps and ticks. Tasks of one
  priority share the processor by time slices, so one that is ready again and
  again does run though others suspend the scheduler in between; ticks that
  come while it is suspended are pended and made up for.
- `SFairness` (scan): the threads run, and a wait for a semaphore ends after
  five seconds. That a scan ends is not assumed.
- `BFairness` (bus): a task past the mutex runs and the hardware finishes. A
  task may wait for the mutex for ever, as others may take it first: `CallsReturn`
  speaks of calls that have it.
- `NFairness` (station): the polling thread runs.

Deadlock is checked but in `Drivers` and the two runs of `SpiBus`: there the number of calls is
bounded and the models stop where something deleted is used.

## 4. Proofs

Checked by `tlapm`, for all values of the constants that satisfy the named
assumptions:

- `OtaUpdateProofs`
  - `TypeCorrect`: `Spec => []TypeOK`, by `TypeInv == TypeOK /\ CallInv /\
    DataInv`. `TypeOK` alone is not inductive: that the address of the next unit
    is a number of the slot, that a packet's rest is what the package still has,
    and that a call's state exists while it runs, all depend on the stage.
  - `OnlyVerifiedIsBootable`: `Spec => []BootableOnlyIfVerified`. The
    strengthening is `HiddenInv` (from the first sector's erase to its last
    write the first unit is blank: the only write to its cells is of 0xFF) and
    `CommitInv` (while the sector is written, what is in the buffer and behind
    it is the image that was summed). An end without a header is harmless
    because the sector at address 0 lies in the protected half
    (`ProtectedSector`). All of it is under `~emptied` (`ShownInv`), which the
    next package's first erase brings back: it blanks the first unit, whatever
    the empty package has left there.
  - `StagedIsServed` and `InstalledIsTheServed`, by `StageInv`. That the cells
    received are the first of the package needs that the cells behind them are
    blank (`BlankInv`: programming only clears bits, so a unit lands as it is
    only there), and how far the count may run past the image (`CountInv`).
    `ServedInv` carries the image from the sum to the last write.
  - `OnlyTheSlotChanges`, with `AlignInv`: the erase goes by whole sectors of the
    slot.
  - `UpdateImplementsSlot`: each step maps to a step of `UpdateSlot` or a
    stutter, the header of an empty package to `Lose`, after which the abstract
    slot promises nothing until its next `Hide`. `ImageInv`: what is shown is an image, which is why an image must
    not be confused with none (`OtaAssumption`'s last conjunct).
- `FlashShareProofs`
  - `UpdaterLosesOnlyToFastConnect`, `LockedCallsKeepPages` and
    `FlashTypeCorrect`, for any number of writers, savers and pages and any
    stray bytes. `PageInv` carries them: a task at its pages has seen the chip
    open under the lock, and only the updater's close or a fast connect's
    SET_PROTECT, neither under the lock, can change that. `PlaceInv` says who
    may be where, so that no third user of the chip is overlooked.
- `SerialProofs` (of `SerialRx` and `StreamFind`)
  - `CountNeverAhead` and `RingTypeCorrect`, for every ring size, number of tasks
    and of bytes. `CountInv`: what a reader has loaded is never more than the
    count, so a lost update can only make the count too small.
  - `ReadsTheOldest` and `RingKeepsUnread`, by `RingInv`. `HoldInv` is the second
    without a division (`Place`; `PlaceIs` relates the two); it says nothing once
    a store has been lost, so `SeenInv` must say what a reader holds meanwhile:
    the oldest byte, and a count that is still right. `ClearInv` follows the
    three assignments of `clear`, behind which the ring is as at first.
  - `MatchesAreKept` and `FirstIsFound`, for targets of any length, any number of
    them and any letters, by `FindInv`: each target's index is its longest match
    and not the whole. `EndsWith` says what one letter does to all matches,
    `EndsWithin` that a shorter match is one inside the longer (which is what
    the code compares when it walks back), and `AdvanceIsLongest` that the first
    one found so is the longest. `MaxIs` and `MinIs` give a finite set of numbers
    its greatest and least member; without induction they come from the
    well-foundedness of strict inclusion.
- `SoftTimerProofs`
  - `TimersAreNeverEarly` and `TaskWakesInTime`, for any timers, periods and
    queue and wherever the tick count wraps, by `SoftInv`. A list holds a tick
    count and `due` a distance, so `ListedInv` gives each listed timer the ticks
    it has left from `lastTime` on (`Left`, one round of the count less until
    the lists are switched) and says that they are what `due` says (`Meets`):
    exactly for a timer whose restarts are its own, and to within a round for
    one whose restart a caller's command has overtaken, which may have waited
    for longer than a round. A timer in no list is in the stage of the task that
    has it (`ReloadInv`, `MessageInv`) or has a restart in the queue, one at most
    while it is its own (`RestartInv`, `OnTheWayInv`); `LagInv` bounds how late
    each may be. `SleepInv` is the second property, and says too that the task
    does not sleep for ever with a timer due. `Remainder` takes the model's
    modulo apart once, into additions; `ApartKeeps` is what every command's step
    has in common. The theorems hold as the model does while nobody is later
    than `Lag` (`InTime`), with every period plus `Lag` less than `Wrap`.
- `OsProofs`
  - `InheritanceEnds`, for any tasks, mutexes and priorities. `CountInv`:
    uxMutexesHeld is the number of mutexes a task holds, so that it is 0 only for
    a task that can inherit from nobody.
  - `MutexTypeCorrect`, `NoInversion` and `FreeMutexIsOffered`, by `RankInv`. That
    a holder outranks those that wait is preserved only because the waiters are
    in the order of their priorities (`OrderInv`: who is woken is the first), a
    task waits on one list at most (`WaitsInv`), and a task that may take a
    mutex it was woken for is not on its list (`AwakeInv`, `OfferInv`).
  - `QueueTypeCorrect`, `WakeupsAreKept` and `QueueImplementsFifo`, for any tasks,
    items and length, by `QueueInv`. `CtrlInv` says which task has the scheduler
    suspended and the queue locked, who may be on a list, and that what a task
    saw before it goes on a list still holds (`PlaceInv`). `RecvInv` and
    `SendInv` are the two halves of `NoLostWakeup`; the second counts fewer
    senders than the property, for it is not inductive with a sender whose time
    is over: it looks no more once it has suspended the scheduler. `WrapInv`
    ties readFrom, writeTo and the count together. The refinement maps each
    critical section to the send or receive that takes effect in it, or to a
    stutter, and needs `TimedInv`: only a call with a time-out runs out of time.
- `WifiScanProofs`
  - `ScanningNeverJams`, `ScanTypeCorrect` and `OnlyTroubleMisuses`, for any
    callers, calls and retries. The last needs `SoleInv`: until a call times out
    or two overlap one caller at most is in a call, the handle is its own, and a
    scan is under way only while it waits with its semaphore not yet posted.
  - `AloneReadsItsOwn`, by `AloneInv`: what the one call that is alone has
    asked for, its semaphore and the scan that runs are the same number, step by
    step, and a callback notifies only of a scan that runs.
- `StationProofs`
  - `FlagTellsTruth`. `IpFlagTruth` is not inductive: sta_ip_down may run while
    sta_ip_start raises the interface, and leaves the flag wrong until the
    supplicant has seen the link go. `LinkInv` (no link: the flag is reset) is
    what the connecting task waits for, and `BuildInv` what lasts while it rests.
    A connect whose disconnect is refused waits for nothing: if the link is up
    the theorem is silent until that link goes (`kept`).
- `DriverProofs`
  - `OneAtATime`, `LockIsHeldInside`, `HalfDuplexIsSelected`, for any tasks,
    calls and inits, by `BusInv`. That only the mutex's holder is past it is not
    true after a deinit (a caller then finds no mutex and goes on), so
    `DeviceInv` says it of a bus that has a device, and `KindInv` that no deinit
    leaves one and that an init is alone. `OwnerInv` (every mutex but the one in
    use is deleted) ties the task that waits to the task that holds; `DataInv`
    (a post is there only after the one direction that moved) carries the chip
    select, for what is not `hasty`.
  - `TimersRunAsAsked`, by `ReadInv` (what a call has read still holds when it
    writes, unless calls overlapped), and the action property
    `ExpiriesAreServed`, which holds of each step.
Assumptions: `FlashAssumption` (the cells are bytes, 0xFF is neutral for
programming), `OtaAssumption` (the geometry: slot inside the chip and in the
upper half, sectors and units in proportion, packages of any length that fits
the word, empty ones too, no image taken for none), `ShareAssumption`, `RxAssumption`, `FindAssumption`
(targets are sequences of letters, a search has at least one, and the history
holds the longest), `SoftTimerAssumption` (a period and the lag fit in a round of
the tick count), `QueueAssumption` (a queue has 1 to 127 places and items,
finitely many tasks), `MutexAssumption`, `SpiAssumption`, `ScanAssumption`,
`TimerAssumption`. TLC evaluates each on the instances it checks.

Every safety property that a passing run checks is stated by a theorem.
Liveness (`WholeDownloadEnds`, `MessageReachesWaiter`, `TimedSendReturns`,
`ScanReturns`, `CallsReturn`, `SteadyStatusTold`) stays with TLC: fairness and
ENABLED are beyond this prover.

## 5. Plan

What is left, in order:

1. Deletion of software timers, and of queues and mutexes under their users, in
   one model of the kernel's objects.
2. The application's side of the station: two tasks that connect at once.

## 6. Not modelled, and why

Third-party and binary code (the rest of the Beken SDK and of FreeRTOS, lwIP,
the Tuya libraries, the Arduino core API) is modelled only as far as this code
runs through it; lwIP's sources are not in the repository, so that its DHCP
record and its status callback are external definitions of `Station`. Sockets
are a call of lwIP's each. GPIO registration writes one table entry from one
caller; PWM, ADC and analogWrite compute a register's value; sending on the
UART, pin configuration, RTC, watchdog, sleep and output forward to the SDK and
keep no state. Access point, sniffer and power save of the WiFi adapter do the
same. Of the kernel the port, the heap, task creation and deletion, queue sets
and event groups are left out.

A power failure in the middle of one sector erase or one page program leaves
cells in no defined state; the models let it fall between them (for the last
write of an update, between any two cells). Using a deleted mutex or a released
semaphore has no defined outcome either: there `SpiBus` and `WifiScan` stop, and
`SoftTimer` leaves deletion out. The strength of the update's byte sum, the heap
(the update leaks a 512 byte buffer per download) and what the SDK does with
the wrong handle that `SerialUART::end` passes are outside the models;
`PROJECT.json` lists them under hazards.
