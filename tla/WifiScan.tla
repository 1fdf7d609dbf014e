------------------------------ MODULE WifiScan -------------------------------
(***************************************************************************)
(* Scanning with tkl_wifi_scan_ap: the caller makes a semaphore, asks the  *)
(* supplicant's thread for a scan, waits up to five seconds, throws the    *)
(* semaphore away and reads the list of access points; the supplicant      *)
(* posts the semaphore, if it sees one, whenever a scan ends.              *)
(*                                                                         *)
(* Nothing but the global scanHandle ties an end to a call.  The model     *)
(* stops where a released semaphore is used: there anything may happen.    *)
(* Calls are numbered; a call's number names its semaphore and its scan.   *)
(***************************************************************************)
EXTENDS Naturals, FiniteSets

CONSTANTS
    Callers,    \* the tasks that scan
    MaxCalls,   \* calls that get as far as a semaphore: a bound of the model
    MaxTries    \* WLAN_SCAN_MAX_RETRIES

ASSUME ScanAssumption == MaxCalls \in Nat /\ MaxTries \in Nat

CallNo == 1 .. MaxCalls
NoCall == 0

VARIABLES
    scanHandle,         \* the call whose semaphore it holds
    sem,                \* each call's semaphore
    calls,              \* calls so far
    spc, mine, tries,   \* each caller: where it is, its call, its retries
    waitsOn, woken,     \* the semaphore it waits on, whether it was posted
    scanState, scanOf,  \* the supplicant's scan, and the call that asked for it
    notifier,           \* scan_cb: "quiet", "test", "post"
    alone,              \* caller began with nobody else scanning
    troubled,           \* a call has timed out, or was not alone
    misused             \* a released semaphore was used

handles == <<scanHandle, sem, calls>>
scanner == <<spc, mine, tries, waitsOn, woken>>
wpa     == <<scanState, scanOf, notifier>>
history == <<alone, troubled>>
svars   == <<handles, scanner, wpa, history, misused>>

SInit ==
    /\ scanHandle = NoCall /\ sem = [n \in CallNo |-> "unborn"] /\ calls = 0
    /\ spc = [c \in Callers |-> "idle"] /\ mine = [c \in Callers |-> NoCall]
    /\ tries = [c \in Callers |-> 0]
    /\ waitsOn = [c \in Callers |-> NoCall] /\ woken = [c \in Callers |-> FALSE]
    /\ scanState = "none" /\ scanOf = NoCall /\ notifier = "quiet"
    /\ alone = [c \in Callers |-> FALSE] /\ troubled = FALSE
    /\ misused = FALSE

AtScan(c, here) == ~ misused /\ spc[c] = here
StepTo(c, pos)  == spc' = [spc EXCEPT ![c] = pos]
Idling(c)       == spc[c] = "idle"

(* Nothing of a call is kept (but what the history says).                  *)
ReturnToCaller(c) ==
    /\ StepTo(c, "idle")
    /\ mine' = [mine EXCEPT ![c] = NoCall] /\ tries' = [tries EXCEPT ![c] = 0]
    /\ waitsOn' = [waitsOn EXCEPT ![c] = NoCall] /\ woken' = [woken EXCEPT ![c] = FALSE]
-----------------------------------------------------------------------------
(* A call that finds a handle returns OPRT_OS_ADAPTER_INVALID_PARM.        *)
ScanCheck(c) ==
    /\ AtScan(c, "idle") /\ calls < MaxCalls /\ scanHandle = NoCall
    /\ StepTo(c, "create")
    /\ LET quiet == scanState = "none" /\ \A d \in Callers : Idling(d)
       IN  alone' = [d \in Callers |-> IF d = c THEN quiet ELSE FALSE]
    /\ troubled' = (troubled \/ \E d \in Callers : ~ Idling(d))
    /\ UNCHANGED <<handles, mine, tries, waitsOn, woken, wpa, misused>>

(* Mutant: the semaphore begins posted.                                    *)
ScanCreate_posted(c) ==
    /\ AtScan(c, "create") /\ calls < MaxCalls
    /\ calls' = calls + 1 /\ scanHandle' = calls' /\ sem' = [sem EXCEPT ![calls'] = "posted"]
    /\ StepTo(c, "start") /\ mine' = [mine EXCEPT ![c] = calls']
    /\ UNCHANGED <<tries, waitsOn, woken, wpa, history, misused>>

(* The handle is overwritten, whatever it holds.                           *)
ScanCreate(c) ==
    /\ AtScan(c, "create") /\ calls < MaxCalls
    /\ calls' = calls + 1 /\ scanHandle' = calls' /\ sem' = [sem EXCEPT ![calls'] = "empty"]
    /\ StepTo(c, "start") /\ mine' = [mine EXCEPT ![c] = calls']
    /\ UNCHANGED <<tries, waitsOn, woken, wpa, history, misused>>

ScanCreateFails(c) ==
    /\ AtScan(c, "create") /\ scanHandle' = NoCall /\ StepTo(c, "idle")
    /\ UNCHANGED <<sem, calls, mine, tries, waitsOn, woken, wpa, history, misused>>

(* bk_wlan_start_scan in monitor mode: 0, and no scan.                     *)
StartNothing(c) ==
    /\ AtScan(c, "start") /\ StepTo(c, "enter")
    /\ UNCHANGED <<handles, mine, tries, waitsOn, woken, wpa, history, misused>>

(* wpas_ctrl_scan: a scan that was asked for and has not begun is replaced.*)
StartScan(c) ==
    /\ AtScan(c, "start") /\ notifier = "quiet" /\ scanState # "running"
    /\ scanState' = "requested" /\ scanOf' = mine[c]
    /\ StepTo(c, "enter")
    /\ UNCHANGED <<handles, mine, tries, waitsOn, woken, notifier, history, misused>>

(* Mutant: one retry too many.                                             *)
StartBusy_over(c) ==
    /\ AtScan(c, "start") /\ notifier = "quiet" /\ scanState = "running"
    /\ \/ tries[c] <= MaxTries /\ tries' = [tries EXCEPT ![c] = @ + 1] /\ UNCHANGED spc
       \/ tries[c] > MaxTries /\ StepTo(c, "release") /\ UNCHANGED tries
    /\ UNCHANGED <<handles, mine, waitsOn, woken, wpa, history, misused>>

(* -2, and the request is made again, ten milliseconds later.              *)
StartBusy(c) ==
    /\ AtScan(c, "start") /\ notifier = "quiet" /\ scanState = "running"
    /\ \/ tries[c] < MaxTries /\ tries' = [tries EXCEPT ![c] = @ + 1] /\ UNCHANGED spc
       \/ tries[c] = MaxTries /\ StepTo(c, "release") /\ UNCHANGED tries
    /\ UNCHANGED <<handles, mine, waitsOn, woken, wpa, history, misused>>

(* Mutant: a call whose scan was refused returns at once.                  *)
StartRefused_returns(c) ==
    /\ AtScan(c, "start") /\ ReturnToCaller(c)
    /\ UNCHANGED <<handles, wpa, history, misused>>

(* -1: a full queue, no memory, an interface that is disabled.             *)
StartRefused(c) ==
    /\ AtScan(c, "start") /\ StepTo(c, "release")
    /\ UNCHANGED <<handles, mine, tries, waitsOn, woken, wpa, history, misused>>

(* tkl_semaphore_wait is handed what scanHandle holds now.                 *)
WaitBegins(c) ==
    /\ AtScan(c, "enter")
    /\ waitsOn' = [waitsOn EXCEPT ![c] = scanHandle]
    /\ StepTo(c, IF scanHandle = NoCall THEN "release" ELSE "wait")
    /\ misused' = (scanHandle # NoCall /\ sem[scanHandle] = "released")
    /\ UNCHANGED <<handles, mine, tries, woken, wpa, history>>

WaitEnds(c) ==
    /\ AtScan(c, "wait") /\ sem[waitsOn[c]] = "posted"
    /\ sem' = [sem EXCEPT ![waitsOn[c]] = "empty"]
    /\ StepTo(c, "release") /\ woken' = [woken EXCEPT ![c] = TRUE]
    /\ UNCHANGED <<scanHandle, calls, mine, tries, waitsOn, wpa, history, misused>>

(* Mutant: the wait has no end (TKL_SEM_WAIT_FOREVER).                     *)
WaitTimesOut_never(c) ==
    AtScan(c, "wait") /\ sem[waitsOn[c]] # "posted" /\ UNCHANGED svars

WaitTimesOut(c) ==
    /\ AtScan(c, "wait") /\ sem[waitsOn[c]] # "posted"
    /\ StepTo(c, "release") /\ troubled' = TRUE
    /\ UNCHANGED <<handles, mine, tries, waitsOn, woken, wpa, alone, misused>>

(* Whatever scanHandle holds is released, also under another task's wait.  *)
ScanRelease(c) ==
    /\ AtScan(c, "release") /\ StepTo(c, "clear")
    /\ IF scanHandle = NoCall THEN UNCHANGED <<sem, misused>>
       ELSE /\ sem' = [sem EXCEPT ![scanHandle] = "released"]
            /\ misused' = \/ sem[scanHandle] = "released"
                          \/ \E d \in Callers : spc[d] = "wait" /\ waitsOn[d] = scanHandle
    /\ UNCHANGED <<scanHandle, calls, mine, tries, waitsOn, woken, wpa, history>>

ScanClear(c) ==
    /\ AtScan(c, "clear") /\ scanHandle' = NoCall
    /\ \/ woken[c] /\ StepTo(c, "result") /\ UNCHANGED <<mine, tries, waitsOn, woken>>
       \/ ~ woken[c] /\ ReturnToCaller(c)
    /\ UNCHANGED <<sem, calls, wpa, history, misused>>

(* wlan_sta_scan_result: two requests, the second empties the list, whose  *)
(* content is left out.                                                    *)
ScanResult(c) ==
    /\ AtScan(c, "result") /\ notifier = "quiet" /\ ReturnToCaller(c)
    /\ UNCHANGED <<handles, wpa, history, misused>>
-----------------------------------------------------------------------------
(* wpas_trigger_scan_cb: the driver takes the scan, or does not: then it   *)
(* ends without a word.                                                    *)
ScanBegins ==
    /\ ~ misused /\ scanState = "requested" /\ scanState' \in {"running", "none"}
    /\ UNCHANGED <<handles, scanner, scanOf, notifier, history, misused>>

(* scan_only_handler: the notifiers are called, and scan_cb, unless the    *)
(* scan's id is 0; a scan may also never end.                              *)
ScanEnds ==
    /\ ~ misused /\ scanState = "running" /\ notifier = "quiet"
    /\ \/ notifier' = "test" /\ UNCHANGED scanState
       \/ scanState' = "none" /\ UNCHANGED notifier
    /\ UNCHANGED <<handles, scanner, scanOf, history, misused>>

ScanCbTest ==
    /\ ~ misused /\ notifier = "test"
    /\ IF scanHandle # NoCall THEN notifier' = "post" /\ UNCHANGED scanState
       ELSE notifier' = "quiet" /\ scanState' = "none"
    /\ UNCHANGED <<handles, scanner, scanOf, history, misused>>

(* scanHandle is read again.                                               *)
ScanCbPost ==
    /\ ~ misused /\ notifier = "post"
    /\ notifier' = "quiet" /\ scanState' = "none"
    /\ IF scanHandle = NoCall THEN UNCHANGED <<sem, misused>>
       ELSE IF sem[scanHandle] = "released" THEN misused' = TRUE /\ UNCHANGED sem
       ELSE sem' = [sem EXCEPT ![scanHandle] = "posted"] /\ UNCHANGED misused
    /\ UNCHANGED <<scanHandle, calls, scanner, scanOf, history>>

Supplicant == ScanBegins \/ ScanCbTest \/ ScanCbPost

CallerStep(c) ==
    \/ ScanCreate(c) \/ ScanCreateFails(c)
    \/ StartNothing(c) \/ StartScan(c) \/ StartBusy(c) \/ StartRefused(c)
    \/ WaitBegins(c) \/ WaitEnds(c) \/ WaitTimesOut(c)
    \/ ScanRelease(c) \/ ScanClear(c) \/ ScanResult(c)

SNext == Supplicant \/ ScanEnds \/ \E c \in Callers : ScanCheck(c) \/ CallerStep(c)

(* The threads run, and a wait ends in five seconds; a scan need not end.  *)
SFairness == WF_svars(Supplicant) /\ \A c \in Callers : WF_svars(CallerStep(c))

SSpec == SInit /\ [][SNext]_svars /\ SFairness
-----------------------------------------------------------------------------
STypeOK ==
    /\ scanHandle \in CallNo \cup {NoCall} /\ calls \in 0 .. MaxCalls
    /\ sem \in [CallNo -> {"unborn", "empty", "posted", "released"}]
    /\ spc \in [Callers -> {"idle", "create", "start", "enter", "wait", "release",
                            "clear", "result"}]
    /\ mine \in [Callers -> CallNo \cup {NoCall}] /\ tries \in [Callers -> 0 .. MaxTries]
    /\ waitsOn \in [Callers -> CallNo \cup {NoCall}] /\ woken \in [Callers -> BOOLEAN]
    /\ scanState \in {"none", "requested", "running"}
    /\ scanOf \in CallNo \cup {NoCall}
    /\ notifier \in {"quiet", "test", "post"}
    /\ alone \in [Callers -> BOOLEAN]
    /\ troubled \in BOOLEAN /\ misused \in BOOLEAN

(* A call that began while nothing was scanned, and during which no other  *)
(* began, reads the list only after its own scan has ended.                *)
OwnScanEnded == \A c \in Callers :
    spc[c] = "result" /\ alone[c] =>
        scanOf = mine[c] /\ (scanState = "none" \/ notifier = "post")

(* A released semaphore is used only after a call has timed out or two     *)
(* have overlapped.                                                        *)
MisuseNeedsTrouble == misused => troubled

(* scanHandle is never left set when nobody is there to clear it: scanning *)
(* does not end for ever, however calls overlap and fail.                  *)
HandleHasOwner ==
    scanHandle # NoCall =>
        \E c \in Callers : spc[c] \in {"start", "enter", "wait", "release", "clear"}

(* Every call returns, though a scan may never end.                        *)
ScanReturns == \A c \in Callers : spc[c] # "idle" ~> spc[c] = "idle" \/ misused
=============================================================================
