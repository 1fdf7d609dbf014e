--------------------------- MODULE WifiScanProofs ---------------------------
(***************************************************************************)
(* What WifiScan promises, for any number of tasks, calls and retries.     *)
(***************************************************************************)
EXTENDS WifiScan, TLAPS

Owners == {"start", "enter", "wait", "release", "clear"}

OwnerInv == spc \in [Callers -> {"idle", "create", "result"} \cup Owners] /\ HandleHasOwner

(* Whoever sets the handle goes on to clear it, and nobody leaves before.  *)
LEMMA OwnerHolds == OwnerInv /\ [SNext]_svars => OwnerInv'
  <1> SUFFICES ASSUME OwnerInv, [SNext]_svars PROVE OwnerInv'
    OBVIOUS
  <1> USE DEF OwnerInv, HandleHasOwner, Owners
  <1>1. CASE Supplicant \/ ScanEnds \/ UNCHANGED svars
    BY <1>1 DEF Supplicant, ScanBegins, ScanCbTest, ScanCbPost, ScanEnds,
                svars, handles, scanner
  <1>2. ASSUME NEW c \in Callers, ScanCheck(c) PROVE OwnerInv'
    BY <1>2 DEF ScanCheck, StepTo, handles
  <1>3. ASSUME NEW c \in Callers, ScanCreate(c) \/ ScanCreateFails(c) PROVE OwnerInv'
    BY <1>3 DEF ScanCreate, ScanCreateFails, StepTo
  <1>4. ASSUME NEW c \in Callers,
               StartNothing(c) \/ StartScan(c) \/ StartBusy(c) \/ StartRefused(c)
        PROVE  OwnerInv'
    BY <1>4 DEF StartNothing, StartScan, StartBusy, StartRefused, StepTo, AtScan, handles
  <1>5. ASSUME NEW c \in Callers,
               WaitBegins(c) \/ WaitEnds(c) \/ WaitTimesOut(c) \/ ScanRelease(c)
        PROVE  OwnerInv'
    BY <1>5 DEF WaitBegins, WaitEnds, WaitTimesOut, ScanRelease, StepTo, AtScan, handles
  <1>6. ASSUME NEW c \in Callers, ScanClear(c) PROVE OwnerInv'
    BY <1>6 DEF ScanClear, StepTo, ReturnToCaller
  <1>7. ASSUME NEW c \in Callers, ScanResult(c) PROVE OwnerInv'
    BY <1>7 DEF ScanResult, StepTo, ReturnToCaller, AtScan, handles
  <1>8. QED
    BY <1>1, <1>2, <1>3, <1>4, <1>5, <1>6, <1>7 DEF SNext, CallerStep

(* scanHandle is never left set when nobody is there to clear it: however  *)
(* many tasks scan at once, scanning does not jam for ever.                *)
THEOREM ScanningNeverJams == SSpec => []HandleHasOwner
  <1>1. SInit => OwnerInv
    BY DEF SInit, OwnerInv, HandleHasOwner
  <1>2. OwnerInv => HandleHasOwner
    BY DEF OwnerInv
  <1>3. QED
    BY <1>1, <1>2, OwnerHolds, PTL DEF SSpec
-----------------------------------------------------------------------------
(* While nothing has been troubled one task at most is in a call, its      *)
(* handle is its own, and a scan is under way only while that task waits   *)
(* for it with its semaphore not yet posted.                               *)
ScanQuiet == scanState = "none" /\ notifier = "quiet"

SoleInv ==
    /\ ~ misused
    /\ \A c, d \in Callers : spc[c] # "idle" /\ spc[d] # "idle" => c = d
    /\ (\A c \in Callers : spc[c] = "idle") => scanHandle = NoCall /\ ScanQuiet
    /\ \A c \in Callers :
         /\ spc[c] \in {"create", "result"} => scanHandle = NoCall
         /\ spc[c] \in {"create", "start", "release", "clear", "result"} => ScanQuiet
         /\ spc[c] \in {"start", "enter", "wait", "release"} =>
               scanHandle \in CallNo /\ sem[scanHandle] # "released"
         /\ spc[c] \in {"enter", "wait"} /\ sem[scanHandle] = "posted" => ScanQuiet
         /\ spc[c] \in {"start"} => sem[scanHandle] = "empty"
         /\ spc[c] = "wait" => waitsOn[c] = scanHandle
         /\ spc[c] = "clear" => scanHandle \in CallNo

TroubleInv == ~ troubled => SoleInv

(* No step takes a value out of its type.                                  *)
LEMMA TypeHolds == STypeOK /\ [SNext]_svars => STypeOK'
  <1> SUFFICES ASSUME STypeOK, [SNext]_svars PROVE STypeOK'
    OBVIOUS
  <1> USE ScanAssumption DEF ScanAssumption, STypeOK, CallNo, NoCall
  <1>1. CASE Supplicant \/ ScanEnds
    BY <1>1 DEF Supplicant, ScanBegins, ScanCbTest, ScanCbPost, ScanEnds,
                handles, scanner, history
  <1>2. ASSUME NEW c \in Callers, ScanCheck(c) PROVE STypeOK'
    BY <1>2 DEF ScanCheck, StepTo, handles, wpa
  <1>3. ASSUME NEW c \in Callers, ScanCreate(c) PROVE STypeOK'
    <2>1. calls' \in 1 .. MaxCalls
      BY <1>3 DEF ScanCreate
    <2>2. QED
      BY <1>3, <2>1 DEF ScanCreate, StepTo, wpa, history
  <1>4. ASSUME NEW c \in Callers, ScanCreateFails(c) PROVE STypeOK'
    BY <1>4 DEF ScanCreateFails, StepTo, wpa, history
  <1>5. ASSUME NEW c \in Callers, StartNothing(c) \/ StartScan(c) \/ StartRefused(c)
        PROVE  STypeOK'
    BY <1>5 DEF StartNothing, StartScan, StartRefused, StepTo, handles, wpa, history
  <1>6. ASSUME NEW c \in Callers, StartBusy(c) PROVE STypeOK'
    <2>1. tries' \in [Callers -> 0 .. MaxTries]
      <3>1. tries[c] \in 0 .. MaxTries
        OBVIOUS
      <3>2. CASE tries[c] < MaxTries /\ tries' = [tries EXCEPT ![c] = @ + 1]
        BY <3>1, <3>2
      <3>3. QED
        BY <1>6, <3>2 DEF StartBusy
    <2>2. QED
      BY <1>6, <2>1 DEF StartBusy, StepTo, handles, wpa, history
  <1>7. ASSUME NEW c \in Callers, WaitBegins(c) \/ WaitTimesOut(c) PROVE STypeOK'
    <2>1. misused' \in BOOLEAN /\ troubled' \in BOOLEAN
      BY <1>7 DEF WaitBegins, WaitTimesOut, history
    <2>2. waitsOn' \in [Callers -> CallNo \cup {NoCall}]
      BY <1>7 DEF WaitBegins, WaitTimesOut
    <2>3. QED
      BY <1>7, <2>1, <2>2 DEF WaitBegins, WaitTimesOut, StepTo, handles, wpa, history
  <1>8. ASSUME NEW c \in Callers, WaitEnds(c) PROVE STypeOK'
    <2>1. woken' \in [Callers -> BOOLEAN]
      BY <1>8 DEF WaitEnds
    <2>2. sem' \in [CallNo -> {"unborn", "empty", "posted", "released"}]
      BY <1>8 DEF WaitEnds
    <2>3. QED
      BY <1>8, <2>1, <2>2 DEF WaitEnds, StepTo, wpa, history
  <1>9. ASSUME NEW c \in Callers, ScanRelease(c) PROVE STypeOK'
    BY <1>9 DEF ScanRelease, StepTo, wpa, history
  <1>10. ASSUME NEW c \in Callers, ScanClear(c) \/ ScanResult(c) PROVE STypeOK'
    <2>1. woken' \in [Callers -> BOOLEAN]
      BY <1>10 DEF ScanClear, ScanResult, ReturnToCaller
    <2>2. CASE UNCHANGED <<mine, tries, waitsOn>>
      BY <1>10, <2>1, <2>2 DEF ScanClear, ScanResult, ReturnToCaller, StepTo, handles, wpa, history
    <2>3. CASE ReturnToCaller(c)
      <3>1. tries' \in [Callers -> 0 .. MaxTries]
        BY <2>3 DEF ReturnToCaller
      <3>2. mine' \in [Callers -> CallNo \cup {NoCall}]
        BY <2>3 DEF ReturnToCaller
      <3>3. waitsOn' \in [Callers -> CallNo \cup {NoCall}]
        BY <2>3 DEF ReturnToCaller
      <3>4. QED
        BY <1>10, <2>1, <2>3, <3>1, <3>2, <3>3
           DEF ScanClear, ScanResult, ReturnToCaller, StepTo, handles, wpa, history
    <2>4. QED
      BY <1>10, <2>2, <2>3 DEF ScanClear, ScanResult
  <1>11. CASE UNCHANGED svars
    BY <1>11 DEF svars, handles, scanner, wpa, history
  <1>12. QED
    BY <1>1, <1>2, <1>3, <1>4, <1>5, <1>6, <1>7, <1>8, <1>9, <1>10, <1>11
       DEF SNext, CallerStep

(* The values a scan starts from are of their types.                       *)
LEMMA TypeBegins == SInit => STypeOK
  <1> SUFFICES ASSUME SInit PROVE STypeOK
    OBVIOUS
  <1> USE ScanAssumption DEF ScanAssumption, SInit, CallNo, NoCall
  <1>1. woken \in [Callers -> BOOLEAN] /\ alone \in [Callers -> BOOLEAN]
    OBVIOUS
  <1>2. troubled \in BOOLEAN /\ misused \in BOOLEAN
    OBVIOUS
  <1>3. scanHandle \in CallNo \cup {NoCall} /\ calls \in 0 .. MaxCalls
    OBVIOUS
  <1>4. tries \in [Callers -> 0 .. MaxTries]
    OBVIOUS
  <1>5. /\ mine \in [Callers -> CallNo \cup {NoCall}]
        /\ waitsOn \in [Callers -> CallNo \cup {NoCall}]
    OBVIOUS
  <1>6. QED
    BY <1>1, <1>2, <1>3, <1>4, <1>5 DEF STypeOK

(* Every value of the scan is of its type, for all bounds.                 *)
THEOREM ScanTypeCorrect == SSpec => []STypeOK
  <1>1. QED
    BY TypeBegins, TypeHolds, PTL DEF SSpec

(* While untroubled, no step breaks the rule of the sole caller.           *)
LEMMA SoleHolds == STypeOK /\ TroubleInv /\ [SNext]_svars => TroubleInv'
  <1> SUFFICES ASSUME STypeOK, TroubleInv, [SNext]_svars, ~ troubled' PROVE SoleInv'
    BY DEF TroubleInv
  <1>a. ~ troubled
    BY DEF SNext, CallerStep, Supplicant, ScanBegins, ScanCbTest, ScanCbPost, ScanEnds,
           ScanCheck, ScanCreate, ScanCreateFails, StartNothing, StartScan, StartBusy,
           StartRefused, WaitBegins, WaitEnds, WaitTimesOut, ScanRelease, ScanClear,
           ScanResult, history, svars, STypeOK
  <1>b. SoleInv
    BY <1>a DEF TroubleInv
  <1> USE ScanAssumption DEF ScanAssumption, STypeOK, CallNo, NoCall, ScanQuiet
  <1>1. CASE ScanBegins \/ ScanEnds \/ ScanCbTest
    BY <1>1, <1>b DEF ScanBegins, ScanEnds, ScanCbTest, SoleInv, handles, scanner
  <1>2. CASE ScanCbPost
    BY <1>2, <1>b DEF ScanCbPost, SoleInv, scanner
  <1>3. ASSUME NEW c \in Callers, ScanCheck(c) PROVE SoleInv'
    BY <1>3, <1>a, <1>b DEF ScanCheck, Idling, StepTo, SoleInv, handles, wpa
  <1>4. ASSUME NEW c \in Callers, ScanCreate(c) PROVE SoleInv'
    <2>1. calls' \in 1 .. MaxCalls
      BY <1>4 DEF ScanCreate
    <2>2. QED
      BY <1>4, <1>b, <2>1 DEF ScanCreate, StepTo, AtScan, SoleInv, wpa
  <1>5. ASSUME NEW c \in Callers, ScanCreateFails(c) PROVE SoleInv'
    BY <1>5, <1>b DEF ScanCreateFails, StepTo, AtScan, SoleInv, wpa
  <1>6. ASSUME NEW c \in Callers, StartNothing(c) \/ StartRefused(c) PROVE SoleInv'
    <2>1. CASE StartNothing(c)
      BY <2>1, <1>b DEF StartNothing, StepTo, AtScan, SoleInv, handles, wpa
    <2>2. CASE StartRefused(c)
      BY <2>2, <1>b DEF StartRefused, StepTo, AtScan, SoleInv, handles, wpa
    <2>3. QED
      BY <1>6, <2>1, <2>2
  <1>7. ASSUME NEW c \in Callers, StartScan(c) PROVE SoleInv'
    <2>1. /\ spc[c] = "start" /\ spc' = [spc EXCEPT ![c] = "enter"]
          /\ scanHandle' = scanHandle /\ sem' = sem /\ misused' = misused
          /\ waitsOn' = waitsOn
      BY <1>7 DEF StartScan, StepTo, AtScan, handles
    <2>2. \A d \in Callers \ {c} : spc[d] = "idle" /\ spc'[d] = "idle"
      BY <1>b, <2>1 DEF SoleInv
    <2>3. scanHandle \in CallNo /\ sem[scanHandle] = "empty" /\ spc'[c] = "enter"
      BY <1>b, <2>1 DEF SoleInv
    <2>4. ~ misused'
      BY <1>b, <2>1 DEF SoleInv
    <2>5. QED
      BY <2>1, <2>2, <2>3, <2>4 DEF SoleInv
  <1>8. ASSUME NEW c \in Callers, StartBusy(c) PROVE FALSE
    BY <1>8, <1>b DEF StartBusy, AtScan, SoleInv
  <1>9. ASSUME NEW c \in Callers, WaitBegins(c) PROVE SoleInv'
    BY <1>9, <1>b DEF WaitBegins, StepTo, AtScan, SoleInv, handles, wpa
  <1>10. ASSUME NEW c \in Callers, WaitEnds(c) PROVE SoleInv'
    BY <1>10, <1>b DEF WaitEnds, StepTo, AtScan, SoleInv, wpa
  <1>11. ASSUME NEW c \in Callers, ScanRelease(c) PROVE SoleInv'
    BY <1>11, <1>b DEF ScanRelease, StepTo, AtScan, SoleInv, wpa
  <1>12. ASSUME NEW c \in Callers, ScanClear(c) PROVE SoleInv'
    <2>1. /\ spc[c] = "clear" /\ scanHandle' = NoCall
          /\ spc' = [spc EXCEPT ![c] = "result"] \/ spc' = [spc EXCEPT ![c] = "idle"]
          /\ scanState' = scanState /\ notifier' = notifier /\ misused' = misused
      BY <1>12 DEF ScanClear, ReturnToCaller, StepTo, AtScan, wpa
    <2>2. \A d \in Callers \ {c} : spc[d] = "idle" /\ spc'[d] = "idle"
      BY <1>b, <2>1 DEF SoleInv
    <2>3. ~ misused' /\ ScanQuiet' /\ spc'[c] \in {"result", "idle"}
      BY <1>b, <2>1 DEF SoleInv
    <2>4. QED
      BY <2>1, <2>2, <2>3 DEF SoleInv
  <1>13. ASSUME NEW c \in Callers, ScanResult(c) PROVE SoleInv'
    BY <1>13, <1>b DEF ScanResult, ReturnToCaller, StepTo, AtScan, SoleInv, handles, wpa
  <1>14. CASE UNCHANGED svars
    BY <1>14, <1>b DEF svars, SoleInv, handles, scanner, wpa
  <1>15. ASSUME NEW c \in Callers, WaitTimesOut(c) PROVE FALSE
    BY <1>15 DEF WaitTimesOut
  <1>16. QED
    BY <1>1, <1>2, <1>3, <1>4, <1>5, <1>6, <1>7, <1>8, <1>9, <1>10, <1>11, <1>12, <1>13,
       <1>14, <1>15 DEF SNext, CallerStep, Supplicant

(* However tasks scan, retry and fail, a released semaphore is used only   *)
(* after a call has timed out or two have overlapped.                      *)
THEOREM OnlyTroubleMisuses == SSpec => []MisuseNeedsTrouble
  <1>1. SInit => STypeOK /\ TroubleInv
    <2>1. SInit => SoleInv
      BY DEF SInit, SoleInv, ScanQuiet
    <2>2. QED
      BY <2>1, TypeBegins DEF TroubleInv
  <1>2. STypeOK /\ TroubleInv /\ [SNext]_svars => (STypeOK /\ TroubleInv)'
    BY TypeHolds, SoleHolds
  <1>3. STypeOK /\ TroubleInv => MisuseNeedsTrouble
    BY DEF TroubleInv, SoleInv, MisuseNeedsTrouble
  <1>4. QED
    BY <1>1, <1>2, <1>3, PTL DEF SSpec
-----------------------------------------------------------------------------
(* A call that is alone: the handle is its own, and so is every scan and   *)
(* every post while it waits.                                              *)
OwnScan(c) ==
    /\ \A d \in Callers \ {c} : spc[d] = "idle"
    /\ spc[c] \in {"create", "start"} => scanState = "none"
    /\ spc[c] \in {"start", "enter", "wait"} => mine[c] \in CallNo /\ scanHandle = mine[c]
    /\ spc[c] = "start" => sem[mine[c]] = "empty"
    /\ spc[c] \in {"enter", "wait"} =>
          /\ scanState # "none" => scanOf = mine[c] /\ sem[mine[c]] # "posted"
          /\ sem[mine[c]] = "posted" => scanOf = mine[c]
    /\ spc[c] = "wait" => waitsOn[c] = mine[c]
    /\ woken[c] => scanOf = mine[c] /\ scanState = "none"
    /\ spc[c] = "result" => woken[c]

AloneInv ==
    /\ notifier # "quiet" => scanState = "running"
    /\ \A c \in Callers : spc[c] \in {"idle", "create", "start", "enter", "wait"} => ~ woken[c]
    /\ \A c \in Callers : alone[c] /\ spc[c] # "idle" => OwnScan(c)

(* At first nobody is in a call.                                          *)
LEMMA AloneBegins == SInit => AloneInv
  BY DEF SInit, AloneInv

(* The supplicant notifies only of a scan that runs.                       *)
LEMMA NotifierHolds ==
    ASSUME AloneInv, [SNext]_svars
    PROVE  (notifier # "quiet" => scanState = "running")'
  BY DEF AloneInv, SNext, CallerStep, Supplicant, ScanBegins, ScanCbTest, ScanCbPost,
         ScanEnds, ScanCheck, ScanCreate, ScanCreateFails, StartNothing, StartScan,
         StartBusy, StartRefused, WaitBegins, WaitEnds, WaitTimesOut, ScanRelease,
         ScanClear, ScanResult, wpa, svars

(* What a call woke up with is forgotten when it returns.                  *)
LEMMA WokenHolds ==
    ASSUME STypeOK, AloneInv, [SNext]_svars, NEW c \in Callers,
           spc'[c] \in {"idle", "create", "start", "enter", "wait"}
    PROVE  ~ woken'[c]
  <1> DEFINE Early == {"idle", "create", "start", "enter", "wait"}
  <1>0. /\ spc[c] \in Early => ~ woken[c]
        /\ woken \in [Callers -> BOOLEAN] /\ DOMAIN spc = Callers
    BY DEF AloneInv, STypeOK
  <1>1. CASE UNCHANGED <<spc, woken>>
    BY <1>0, <1>1
  <1>2. ASSUME NEW d \in Callers,
               \/ ScanCheck(d) \/ ScanCreate(d) \/ ScanCreateFails(d) \/ StartNothing(d)
               \/ StartScan(d) \/ StartBusy(d) \/ StartRefused(d) \/ WaitBegins(d)
               \/ WaitTimesOut(d) \/ ScanRelease(d)
        PROVE  ~ woken'[c]
    <2>1. woken' = woken /\ (spc[d] \in Early \/ spc'[d] = "clear")
      BY <1>2 DEF ScanCheck, ScanCreate, ScanCreateFails, StartNothing, StartScan,
                  StartBusy, StartRefused, WaitBegins, WaitTimesOut, ScanRelease, AtScan,
                  StepTo, STypeOK
    <2>2. c # d => spc'[c] = spc[c]
      BY <1>2 DEF ScanCheck, ScanCreate, ScanCreateFails, StartNothing, StartScan,
                  StartBusy, StartRefused, WaitBegins, WaitTimesOut, ScanRelease,
                  StepTo, STypeOK
    <2> QED BY <1>0, <2>1, <2>2
  <1>3. ASSUME NEW d \in Callers, WaitEnds(d) \/ ScanClear(d) \/ ScanResult(d)
        PROVE  ~ woken'[c]
    <2>1. CASE c # d
      <3>1. spc'[c] = spc[c] /\ woken'[c] = woken[c]
        BY <1>0, <1>3, <2>1 DEF WaitEnds, ScanClear, ScanResult, ReturnToCaller, StepTo
      <3> QED BY <1>0, <3>1
    <2>2. CASE c = d
      <3>1. spc'[c] \in {"release", "result"} \/ woken'[c] = FALSE
        BY <1>0, <1>3, <2>2 DEF WaitEnds, ScanClear, ScanResult, ReturnToCaller, StepTo
      <3> QED BY <3>1
    <2> QED BY <2>1, <2>2
  <1>4. CASE Supplicant \/ ScanEnds \/ UNCHANGED svars
    <2>1. UNCHANGED <<spc, woken>>
      BY <1>4 DEF Supplicant, ScanBegins, ScanCbTest, ScanCbPost, ScanEnds, svars, scanner
    <2> QED BY <1>1, <2>1
  <1> QED BY <1>2, <1>3, <1>4 DEF SNext, CallerStep

(* What an alone caller's own steps find and leave.                        *)
LEMMA OwnStepHolds ==
    ASSUME STypeOK, AloneInv, NEW c \in Callers, OwnScan(c), CallerStep(c),
           spc[c] # "idle", spc'[c] # "idle"
    PROVE  OwnScan(c)'
  <1> USE ScanAssumption DEF ScanAssumption, STypeOK, CallNo, NoCall
  <1>1. ASSUME NEW d \in Callers \ {c} PROVE spc'[d] = "idle"
    BY DEF CallerStep, ScanCreate, ScanCreateFails, StartNothing, StartScan, StartBusy,
           StartRefused, WaitBegins, WaitEnds, WaitTimesOut, ScanRelease, ScanClear,
           ScanResult, StepTo, ReturnToCaller, OwnScan
  <1>2. spc[c] \in {"idle", "create", "start", "enter", "wait"} => ~ woken[c]
    BY DEF AloneInv
  <1>3. CASE ScanCreate(c)
    <2>1. calls' \in 1 .. MaxCalls
      BY <1>3 DEF ScanCreate
    <2> QED BY <1>1, <1>2, <1>3, <2>1 DEF ScanCreate, StepTo, AtScan, OwnScan, wpa
  <1>4. CASE ScanCreateFails(c)
    BY <1>4 DEF ScanCreateFails, StepTo
  <1>5. CASE StartNothing(c)
    BY <1>1, <1>2, <1>5 DEF StartNothing, StepTo, AtScan, OwnScan, handles, wpa
  <1>6. CASE StartScan(c)
    BY <1>1, <1>2, <1>6 DEF StartScan, StepTo, AtScan, OwnScan, handles
  <1>7. CASE StartBusy(c)
    BY <1>7 DEF StartBusy, AtScan, OwnScan
  <1>8. CASE StartRefused(c)
    BY <1>1, <1>2, <1>8 DEF StartRefused, StepTo, AtScan, OwnScan, handles, wpa
  <1>9. CASE WaitBegins(c)
    BY <1>1, <1>2, <1>9 DEF WaitBegins, StepTo, AtScan, OwnScan, handles, wpa
  <1>10. CASE WaitEnds(c)
    BY <1>1, <1>10 DEF WaitEnds, StepTo, AtScan, OwnScan, wpa
  <1>11. CASE WaitTimesOut(c)
    BY <1>1, <1>2, <1>11 DEF WaitTimesOut, StepTo, AtScan, OwnScan, handles, wpa
  <1>12. CASE ScanRelease(c)
    BY <1>1, <1>12 DEF ScanRelease, StepTo, AtScan, OwnScan, wpa
  <1>13. CASE ScanClear(c)
    BY <1>1, <1>13 DEF ScanClear, StepTo, ReturnToCaller, AtScan, OwnScan, wpa
  <1>14. CASE ScanResult(c)
    BY <1>14 DEF ScanResult, StepTo, ReturnToCaller
  <1> QED BY <1>3, <1>4, <1>5, <1>6, <1>7, <1>8, <1>9, <1>10, <1>11, <1>12, <1>13,
             <1>14 DEF CallerStep

(* Another call, once it begins, ends the claim; the rest are own steps.   *)
LEMMA OwnScanHolds ==
    ASSUME STypeOK, AloneInv, [SNext]_svars, NEW c \in Callers, alone'[c], spc'[c] # "idle"
    PROVE  OwnScan(c)'
  <1> USE DEF STypeOK
  <1>1. ASSUME NEW d \in Callers, ScanCheck(d) PROVE OwnScan(c)'
    <2>1. alone' = [e \in Callers |-> IF e = d
                      THEN scanState = "none" /\ \A x \in Callers : spc[x] = "idle" ELSE FALSE]
      BY <1>1 DEF ScanCheck, Idling
    <2>2. c = d /\ scanState = "none" /\ \A x \in Callers : spc[x] = "idle"
      BY <2>1
    <2>3. /\ spc' = [spc EXCEPT ![c] = "create"] /\ woken' = woken /\ scanState' = scanState
          /\ ~ woken[c]
      BY <1>1, <2>2 DEF ScanCheck, StepTo, wpa, AloneInv
    <2>4. ~ woken'[c]
      BY <2>3
    <2> QED BY <2>2, <2>3, <2>4 DEF OwnScan
  <1>2. CASE ~ \E d \in Callers : ScanCheck(d)
    <2>1. alone' = alone
      BY <1>2 DEF SNext, CallerStep, Supplicant, ScanBegins, ScanCbTest, ScanCbPost,
             ScanEnds, ScanCreate, ScanCreateFails, StartNothing, StartScan, StartBusy,
             StartRefused, WaitBegins, WaitEnds, WaitTimesOut, ScanRelease, ScanClear,
             ScanResult, history, svars
    <2>2. spc[c] # "idle"
      BY <1>2 DEF SNext, CallerStep, Supplicant, ScanBegins, ScanCbTest, ScanCbPost,
             ScanEnds, ScanCreate, ScanCreateFails, StartNothing, StartScan, StartBusy,
             StartRefused, WaitBegins, WaitEnds, WaitTimesOut, ScanRelease, ScanClear,
             ScanResult, scanner, svars, AtScan, StepTo, ReturnToCaller
    <2>3. OwnScan(c)
      BY <2>1, <2>2 DEF AloneInv
    <2>4. ASSUME NEW d \in Callers, CallerStep(d) PROVE d = c
      <3>1. spc[d] # "idle"
        BY <2>4 DEF CallerStep, ScanCreate, ScanCreateFails, StartNothing, StartScan,
             StartBusy, StartRefused, WaitBegins, WaitEnds, WaitTimesOut, ScanRelease,
             ScanClear, ScanResult, AtScan
      <3> QED BY <2>3, <3>1 DEF OwnScan
    <2>5. CASE ScanBegins
      BY <2>3, <2>5 DEF ScanBegins, OwnScan, handles, scanner
    <2>6. CASE ScanEnds
      BY <2>3, <2>6 DEF ScanEnds, OwnScan, handles, scanner
    <2>7. CASE ScanCbTest
      BY <2>3, <2>7 DEF ScanCbTest, OwnScan, handles, scanner
    <2>8. CASE ScanCbPost
      <3>1. scanState = "running"
        BY <2>8 DEF ScanCbPost, AloneInv
      <3> QED BY <2>3, <2>8, <3>1, ScanAssumption DEF ScanCbPost, OwnScan, scanner, CallNo, NoCall
    <2>9. CASE UNCHANGED svars
      BY <2>3, <2>9 DEF svars, OwnScan, handles, scanner, wpa
    <2> QED BY <1>2, <2>2, <2>3, <2>4, <2>5, <2>6, <2>7, <2>8, <2>9, OwnStepHolds
            DEF SNext, Supplicant
  <1> QED BY <1>1, <1>2

(* A call that was alone reads the list only after its own scan has ended: *)
(* nothing of an earlier call's scan, time-out or late answer reaches it.  *)
THEOREM AloneReadsItsOwn == SSpec => []OwnScanEnded
  <1>1. STypeOK /\ AloneInv /\ [SNext]_svars => AloneInv'
    BY NotifierHolds, WokenHolds, OwnScanHolds DEF AloneInv
  <1>2. AloneInv => OwnScanEnded
    BY DEF AloneInv, OwnScan, OwnScanEnded
  <1> QED BY AloneBegins, <1>1, <1>2, ScanTypeCorrect, PTL DEF SSpec
=============================================================================
