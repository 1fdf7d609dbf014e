-------------------------- MODULE SoftTimerProofs ---------------------------
(***************************************************************************)
(* The software timers: none is called back before it is due, and the task *)
(* never sleeps past one that is, for any timers, periods and queue, and   *)
(* wherever the tick count wraps.                                          *)
(***************************************************************************)
EXTENDS SoftTimer, SequenceTheorems, TLAPS

(* The ticks from v to k, and the tick count n ticks after v.              *)
Passed(v, k) == IF v <= k THEN k - v ELSE k - v + Wrap
Ahead(v, n)  == IF v + n < Wrap THEN v + n ELSE v + n - Wrap

Count == 0 .. Wrap - 1
Given == [op : {"start", "restart"}, timer : SoftTimers, value : Count]
           \cup [op : {"stop"}, timer : SoftTimers, value : {0}]
           \cup [op : {"period"}, timer : SoftTimers, value : Periods]
Spot == [in : {"current", "overflow"}, at : Count]

(* Every value is of its type.                                             *)
SoftTypes ==
    /\ tick \in Count /\ lastTime \in Count
    /\ list \in [SoftTimers -> {Unlisted} \cup Spot]
    /\ period \in [SoftTimers -> Periods \cup Delays]
    /\ daemon \in {"commands", "blocked", "expired", "switch", "reload", "apply", "restart"}
    /\ back \in {"commands", "apply"}
    /\ subject \in {NoTimer} \cup [timer : SoftTimers, at : Count]
    /\ wait \in 0 .. Wrap /\ commands \in Seq(Given) /\ message \in Given \cup {NoOrder}
    /\ due \in [SoftTimers -> Int] /\ mark \in [SoftTimers -> {"own", "overtaken", "revived"}]
    /\ \A t \in SoftTimers : due[t] >= - Wrap

(* Where the timer task is, it has what it needs there.                    *)
Applying == daemon \in {"apply", "restart"} \/ (daemon \in {"switch", "reload"} /\ back = "apply")

StageInv ==
    /\ message # NoOrder <=> Applying
    /\ back = "apply" => daemon \in {"switch", "reload"}
    /\ message # NoOrder => list[message.timer] = Unlisted
    /\ daemon = "restart" => message.op \in {"start", "restart"}
    /\ daemon \in {"expired", "reload"} => subject \in [timer : SoftTimers, at : Count]
    /\ daemon = "expired" =>
          list[subject.timer] = [in |-> "current", at |-> subject.at] /\ subject.at <= lastTime
    /\ daemon = "reload" =>
          list[subject.timer] = Unlisted /\ message.timer # subject.timer

(* In left ticks from lastTime on, t is due, or later by a whole round of  *)
(* the count if a restart it has overtaken has waited that long.           *)
Meets(t, left) ==
    /\ due[t] # NotDue
    /\ Passed(lastTime, tick) + due[t] \in {left, left + Wrap}
    /\ mark[t] = "own" => Passed(lastTime, tick) + due[t] = left

(* The lists are those of the count before it wrapped until they have been *)
(* switched.                                                               *)
Shift == IF daemon \in {"switch", "reload"} THEN Wrap ELSE 0

Left(t) == list[t].at + (IF list[t].in = "overflow" THEN Wrap ELSE 0) - Shift - lastTime

ListedInv == \A t \in SoftTimers : list[t] # Unlisted => Left(t) <= period[t] /\ Meets(t, Left(t))

ReloadInv == daemon = "reload" /\ subject.timer \in AutoReload =>
    /\ Meets(subject.timer, subject.at + period[subject.timer] - Wrap - lastTime)
    /\ due[subject.timer] > period[subject.timer] - Wrap

(* A restart from v on is what due says.                                   *)
GoesOn(t, v) == due[t] # NotDue /\ Passed(v, tick) + due[t] = period[t]

RestartsIn(s, t) == {i \in DOMAIN s : s[i].op = "restart" /\ s[i].timer = t}

RestartInv == \A t \in SoftTimers : mark[t] = "own" =>
    \A i \in RestartsIn(commands, t) :
      /\ GoesOn(t, commands[i].value) /\ list[t] = Unlisted /\ message.timer # t
      /\ daemon = "reload" => subject.timer # t
      /\ \A j \in RestartsIn(commands, t) : i = j

MessageInv == message # NoOrder /\ mark[message.timer] = "own" =>
    /\ message.op = "restart" /\ daemon # "restart" =>
         GoesOn(message.timer, message.value)
           /\ Passed(lastTime, tick) <= Passed(message.value, tick)
    /\ daemon = "restart" => GoesOn(message.timer, Ahead(message.value, period[message.timer]))

(* Nobody is later than Lag.                                               *)
LagInv ==
    /\ \A i \in DOMAIN commands :
          commands[i].op = "start" => Passed(commands[i].value, tick) <= Lag
    /\ message.op = "start" =>
          Passed(message.value, tick) <= Lag /\ Passed(lastTime, tick) <= Passed(message.value, tick)
    /\ message.op = "period" => Passed(lastTime, tick) <= Lag

(* A timer that is due and in no list is on its way to one.                *)
OnTheWayInv == \A t \in SoftTimers : due[t] # NotDue /\ list[t] = Unlisted =>
    \/ message.timer = t
    \/ daemon = "reload" /\ subject.timer = t /\ t \in AutoReload
    \/ RestartsIn(commands, t) # {}

(* The task does not sleep past a time at which a timer is due.            *)
SleepInv == daemon = "blocked" /\ commands = <<>> =>
    \A t \in SoftTimers : due[t] # NotDue =>
        list[t] # Unlisted /\ wait # Forever /\ (wait = 0 \/ wait <= due[t])

SoftInv ==
    /\ SoftTypes /\ StageInv /\ ListedInv /\ ReloadInv /\ RestartInv /\ MessageInv /\ LagInv
    /\ OnTheWayInv /\ SleepInv /\ NeverEarly
-----------------------------------------------------------------------------
(* The parts of SoftTimerAssumption.                                       *)
LEMMA SoftFacts ==
    /\ Wrap \in Nat /\ Lag \in Nat /\ AutoReload \subseteq SoftTimers /\ NoTimer \notin SoftTimers
    /\ \A p \in Periods \cup Delays : p \in Nat /\ p >= 1 /\ p + Lag < Wrap
  BY SoftTimerAssumption DEF SoftTimerAssumption

(* A remainder, without a division.                                        *)
LEMMA Remainder ==
    ASSUME NEW x \in Int, - Wrap <= x, x < Wrap + Wrap, Wrap >= 1
    PROVE  /\ x % Wrap \in Count
           /\ x % Wrap = IF x < 0 THEN x + Wrap ELSE IF x < Wrap THEN x ELSE x - Wrap
  <1> DEFINE m == x \div Wrap
             y == x % Wrap
  <1>1. Wrap \in Nat
    BY SoftFacts
  <1>2. m \in Int /\ y \in Int /\ x = Wrap * m + y /\ 0 <= y /\ y < Wrap
    BY <1>1
  <1> HIDE DEF m, y
  <1>3. m = -1 \/ m = 0 \/ m = 1
    <2>1. m >= -1
      <3> SUFFICES ASSUME m <= -2 PROVE FALSE
        BY <1>2
      <3>1. Wrap * m <= - Wrap - Wrap
        BY <1>1, <1>2
      <3>2. QED
        BY <1>1, <1>2, <3>1
    <2>2. m <= 1
      <3> SUFFICES ASSUME m >= 2 PROVE FALSE
        BY <1>2
      <3>1. Wrap * m >= Wrap + Wrap
        BY <1>1, <1>2
      <3>2. QED
        BY <1>1, <1>2, <3>1
    <2>3. QED
      BY <1>2, <2>1, <2>2
  <1>4. x = y - Wrap \/ x = y \/ x = y + Wrap
    <2>1. m = -1 => Wrap * m = - Wrap
      BY <1>1
    <2>2. m = 0 => Wrap * m = 0
      BY <1>1
    <2>3. m = 1 => Wrap * m = Wrap
      BY <1>1
    <2>4. QED
      BY <1>1, <1>2, <1>3, <2>1, <2>2, <2>3
  <1>5. y \in Count /\ y = IF x < 0 THEN x + Wrap ELSE IF x < Wrap THEN x ELSE x - Wrap
    BY <1>1, <1>2, <1>4 DEF Count
  <1>6. QED
    BY <1>5 DEF y

(* The count goes round: what has passed, and what is ahead.               *)
LEMMA RoundIs ==
    ASSUME NEW v \in Count
    PROVE  /\ \A k \in Count : (k - v) % Wrap = Passed(v, k) /\ Passed(v, k) \in Count
           /\ \A n \in 0 .. Wrap : (v + n) % Wrap = Ahead(v, n) /\ Ahead(v, n) \in Count
  <1>1. Wrap \in Nat /\ Wrap >= 1 /\ v \in Int /\ 0 <= v /\ v < Wrap
    BY SoftFacts DEF Count
  <1>2. ASSUME NEW k \in Count
        PROVE  (k - v) % Wrap = Passed(v, k) /\ Passed(v, k) \in Count
    <2>1. k \in Int /\ 0 <= k /\ k < Wrap /\ k - v \in Int /\ - Wrap <= k - v /\ k - v < Wrap + Wrap
      BY <1>1 DEF Count
    <2> DEFINE x == k - v
    <2>2. (x % Wrap) = (IF x < 0 THEN x + Wrap ELSE IF x < Wrap THEN x ELSE x - Wrap)
          /\ x % Wrap \in Count
      BY <1>1, <2>1, Remainder
    <2>3. QED
      BY <1>1, <2>1, <2>2 DEF Passed
  <1>3. ASSUME NEW n \in 0 .. Wrap
        PROVE  (v + n) % Wrap = Ahead(v, n) /\ Ahead(v, n) \in Count
    <2>1. n \in Int /\ 0 <= n /\ n <= Wrap /\ v + n \in Int /\ - Wrap <= v + n /\ v + n < Wrap + Wrap
      BY <1>1
    <2> DEFINE x == v + n
    <2>2. (x % Wrap) = (IF x < 0 THEN x + Wrap ELSE IF x < Wrap THEN x ELSE x - Wrap)
          /\ x % Wrap \in Count
      BY <1>1, <2>1, Remainder
    <2>3. QED
      BY <1>1, <2>1, <2>2 DEF Ahead
  <1>4. QED
    BY <1>2, <1>3

(* The model's own words for it.                                           *)
LEMMA RoundWords ==
    ASSUME SoftTypes, NEW v \in Count
    PROVE  /\ Since(v) = Passed(v, tick) /\ Passed(v, tick) \in Count
           /\ \A n \in 0 .. Wrap : Plus(v, n) = Ahead(v, n) /\ Ahead(v, n) \in Count
  BY RoundIs DEF Since, Plus, SoftTypes

(* What is known of a timer.                                               *)
LEMMA TimerFacts ==
    ASSUME SoftTypes, NEW t \in SoftTimers
    PROVE  /\ Wrap \in Nat /\ Lag \in Nat /\ Wrap >= 2 /\ tick \in Count /\ lastTime \in Count
           /\ period[t] \in Nat /\ period[t] >= 1 /\ period[t] + Lag < Wrap
           /\ period[t] \in 0 .. Wrap
           /\ due[t] \in Int /\ due[t] >= - Wrap
           /\ list[t] = Unlisted \/ list[t] \in Spot
           /\ list[t] # Unlisted => list[t].in \in {"current", "overflow"} /\ list[t].at \in Count
  <1>1. list[t] \in {Unlisted} \cup Spot /\ period[t] \in Periods \cup Delays
        /\ due[t] \in Int /\ due[t] >= - Wrap
    BY DEF SoftTypes
  <1>2. list[t] # Unlisted => list[t].in \in {"current", "overflow"} /\ list[t].at \in Count
    BY <1>1 DEF Spot
  <1>3. QED
    BY <1>1, <1>2, SoftFacts DEF SoftTypes

(* What is known of a command.                                             *)
LEMMA CommandIs ==
    ASSUME NEW c \in Given
    PROVE  /\ c.op \in {"start", "restart", "stop", "period"} /\ c.timer \in SoftTimers
           /\ c.op \in {"start", "restart"} => c.value \in Count
           /\ c.op = "period" => c.value \in Periods
           /\ c # NoOrder
  BY DEF Given, NoOrder

LEMMA CommandType ==
    ASSUME NEW t \in SoftTimers
    PROVE  /\ \A v \in Count : Command("start", t, v) \in Given /\ Command("restart", t, v) \in Given
           /\ Command("stop", t, 0) \in Given
           /\ \A p \in Periods : Command("period", t, p) \in Given
  BY DEF Given, Command

(* A command comes to the end of the queue, and is taken at its front.     *)
LEMMA Appended ==
    ASSUME NEW s \in Seq(Given), NEW c \in Given
    PROVE  /\ Append(s, c) \in Seq(Given) /\ Append(s, c) # <<>>
           /\ Len(s) + 1 \notin DOMAIN s /\ DOMAIN Append(s, c) = DOMAIN s \cup {Len(s) + 1}
           /\ \A i \in DOMAIN s : Append(s, c)[i] = s[i] /\ s[i] \in Given
           /\ Append(s, c)[Len(s) + 1] = c
           /\ \A t : RestartsIn(Append(s, c), t) =
                  RestartsIn(s, t) \cup (IF c.op = "restart" /\ c.timer = t THEN {Len(s) + 1} ELSE {})
  <1> DEFINE r == Append(s, c)
  <1>1. /\ r \in Seq(Given) /\ Len(r) = Len(s) + 1 /\ r[Len(s) + 1] = c /\ Len(s) \in Nat
        /\ \A i \in 1 .. Len(s) : r[i] = s[i]
    BY AppendProperties
  <1>2. DOMAIN s = 1 .. Len(s) /\ DOMAIN r = 1 .. Len(r) /\ \A i \in DOMAIN s : s[i] \in Given
    BY <1>1
  <1> HIDE DEF r
  <1>3. r # <<>> /\ Len(s) + 1 \notin DOMAIN s /\ DOMAIN r = DOMAIN s \cup {Len(s) + 1}
    BY <1>1, <1>2, EmptySeq
  <1>4. \A i \in DOMAIN s : r[i] = s[i]
    BY <1>1, <1>2
  <1>5. ASSUME NEW t
        PROVE  RestartsIn(r, t) =
                  RestartsIn(s, t) \cup (IF c.op = "restart" /\ c.timer = t THEN {Len(s) + 1} ELSE {})
    BY <1>1, <1>3, <1>4 DEF RestartsIn
  <1>6. QED
    BY <1>1, <1>2, <1>3, <1>4, <1>5 DEF r

LEMMA Taken ==
    ASSUME NEW s \in Seq(Given), s # <<>>
    PROVE  /\ Head(s) = s[1] /\ 1 \in DOMAIN s /\ s[1] \in Given /\ Tail(s) \in Seq(Given)
           /\ \A i \in DOMAIN Tail(s) : i \in Nat /\ i + 1 \in DOMAIN s /\ Tail(s)[i] = s[i + 1]
           /\ \A i \in DOMAIN s : i # 1 => i - 1 \in DOMAIN Tail(s) /\ Tail(s)[i - 1] = s[i]
           /\ \A t : \A i \in RestartsIn(Tail(s), t) :
                 i \in Nat /\ i + 1 # 1 /\ i + 1 \in RestartsIn(s, t) /\ Tail(s)[i] = s[i + 1]
           /\ \A t : \A i \in RestartsIn(s, t) : i # 1 => i - 1 \in RestartsIn(Tail(s), t)
  <1> DEFINE r == Tail(s)
  <1>1. Len(s) \in Nat /\ Len(s) # 0 /\ DOMAIN s = 1 .. Len(s) /\ \A i \in DOMAIN s : s[i] \in Given
    BY EmptySeq
  <1>2. /\ r \in Seq(Given) /\ Len(r) = Len(s) - 1 /\ \A i \in 1 .. Len(r) : r[i] = s[i + 1]
        /\ Head(s) = s[1]
    BY HeadTailProperties
  <1>3. DOMAIN r = 1 .. Len(r)
    BY <1>2
  <1> HIDE DEF r
  <1>4. \A i \in DOMAIN r : i \in Nat /\ i + 1 # 1 /\ i + 1 \in DOMAIN s /\ r[i] = s[i + 1]
    BY <1>1, <1>2, <1>3
  <1>5. ASSUME NEW i \in DOMAIN s, i # 1 PROVE i - 1 \in DOMAIN r /\ r[i - 1] = s[i]
    <2>1. i - 1 \in 1 .. Len(r) /\ (i - 1) + 1 = i
      BY <1>1, <1>2, <1>5
    <2>2. QED
      BY <1>2, <1>3, <2>1
  <1>6. 1 \in DOMAIN s
    BY <1>1
  <1>7. \A t : \A i \in RestartsIn(r, t) :
            i \in Nat /\ i + 1 # 1 /\ i + 1 \in RestartsIn(s, t) /\ r[i] = s[i + 1]
    BY <1>4 DEF RestartsIn
  <1>8. \A t : \A i \in RestartsIn(s, t) : i # 1 => i - 1 \in RestartsIn(r, t)
    BY <1>5 DEF RestartsIn
  <1>9. QED
    BY <1>1, <1>2, <1>4, <1>5, <1>6, <1>7, <1>8 DEF r

(* Where a timer that goes on from v is put, with the tick count at        *)
(* lastTime.                                                               *)
ListFor(t, v) == prvInsertTimerInActiveList(t, Plus(v, period[t]), lastTime, v)

LEMMA ListForIs ==
    ASSUME SoftTypes, NEW t \in SoftTimers, NEW v \in Count
    PROVE  /\ Plus(v, period[t]) = Ahead(v, period[t]) /\ Plus(v, period[t]) \in Count
           /\ \/ ListFor(t, v) = "now" /\ Passed(v, lastTime) >= period[t]
              \/ /\ ListFor(t, v) = "current" /\ Passed(v, lastTime) < period[t]
                 /\ Plus(v, period[t]) = lastTime + period[t] - Passed(v, lastTime)
              \/ /\ ListFor(t, v) = "overflow" /\ Passed(v, lastTime) < period[t]
                 /\ Plus(v, period[t]) = lastTime + period[t] - Passed(v, lastTime) - Wrap
  <1>1. /\ Wrap \in Nat /\ lastTime \in Nat /\ lastTime < Wrap /\ v \in Nat /\ v < Wrap
        /\ period[t] \in Nat /\ period[t] >= 1 /\ period[t] < Wrap /\ period[t] \in 0 .. Wrap
    BY TimerFacts DEF Count
  <1>2. Plus(v, period[t]) = Ahead(v, period[t]) /\ Plus(v, period[t]) \in Count
    BY <1>1, RoundWords
  <1>3. (lastTime - v) % Wrap = Passed(v, lastTime)
    BY RoundIs, TimerFacts
  <1>4. ListFor(t, v) = IF Ahead(v, period[t]) <= lastTime
                        THEN IF Passed(v, lastTime) >= period[t] THEN "now" ELSE "overflow"
                        ELSE IF lastTime < v /\ Ahead(v, period[t]) >= v THEN "now" ELSE "current"
    BY <1>2, <1>3 DEF ListFor, prvInsertTimerInActiveList
  <1>5. QED
    BY <1>1, <1>2, <1>4 DEF Ahead, Passed
-----------------------------------------------------------------------------
LEMMA PassedNext ==
    ASSUME NEW v \in Count, NEW k \in Count, Wrap >= 2
    PROVE  /\ Ahead(k, 1) \in Count
           /\ Passed(v, Ahead(k, 1)) = IF Passed(v, k) = Wrap - 1 THEN 0 ELSE Passed(v, k) + 1
  BY SoftFacts DEF Count, Passed, Ahead

(* A caller's command waits behind the others.                             *)
LEMMA CommandKeeps ==
    ASSUME SoftInv, NEW t \in SoftTimers, xTimerGenericCommand(t)
    PROVE  SoftInv'
  <1>0. SoftTypes /\ StageInv /\ ListedInv /\ ReloadInv /\ RestartInv /\ MessageInv /\ LagInv
        /\ OnTheWayInv
    BY DEF SoftInv
  <1>1. PICK c \in Orders(t) : commands' = Append(commands, c)
    BY DEF xTimerGenericCommand
  <1>2. /\ tick' = tick /\ lastTime' = lastTime /\ list' = list /\ period' = period
        /\ daemon' = daemon /\ back' = back /\ subject' = subject /\ wait' = wait
        /\ message' = message /\ due' = due /\ mark' = mark /\ called' = NoCallBack
    BY DEF xTimerGenericCommand, lists, place
  <1>3. c \in Given /\ c.op # "restart" /\ (c.op = "start" => Passed(c.value, tick) <= Lag)
    <2>1. CASE c \in {Command("start", t, (tick - age) % Wrap) :
                        age \in IF Suspended THEN {0} ELSE 0 .. Lag}
      <3>1. PICK age \in 0 .. Lag : c = Command("start", t, (tick - age) % Wrap)
        BY <2>1, SoftFacts
      <3>2. /\ Wrap \in Nat /\ Lag \in Nat /\ Lag + 1 < Wrap /\ tick \in Nat /\ tick < Wrap
            /\ age \in Nat /\ age <= Lag
        BY <1>0, TimerFacts DEF Count
      <3> DEFINE x == tick - age
      <3>3. x \in Int /\ - Wrap <= x /\ x < Wrap + Wrap /\ Wrap >= 1
        BY <3>2
      <3>4. x % Wrap \in Count /\ (x % Wrap) = IF x < 0 THEN x + Wrap
                                              ELSE IF x < Wrap THEN x ELSE x - Wrap
        BY <3>3, Remainder
      <3>5. Passed(x % Wrap, tick) = age
        BY <3>2, <3>4 DEF Passed
      <3>6. c \in Given /\ c.op = "start" /\ c.value = x % Wrap
        BY <3>1, <3>4, CommandType DEF Command
      <3>7. QED
        BY <3>2, <3>5, <3>6
    <2>2. CASE c = Command("stop", t, 0)
      BY <2>2, CommandType DEF Command
    <2>3. CASE c \in {Command("period", t, p) : p \in IF t \in AutoReload THEN Periods ELSE {}}
      <3>1. PICK p \in Periods : c = Command("period", t, p)
        BY <2>3
      <3>2. QED
        BY <3>1, CommandType DEF Command
    <2>4. QED
      BY <2>1, <2>2, <2>3 DEF Orders
  <1>4. commands \in Seq(Given)
    BY <1>0 DEF SoftTypes
  <1>5. /\ commands' \in Seq(Given) /\ commands' # <<>>
        /\ \A i \in DOMAIN commands : commands'[i] = commands[i]
        /\ commands'[Len(commands) + 1] = c
        /\ DOMAIN commands' = DOMAIN commands \cup {Len(commands) + 1}
        /\ \A u : RestartsIn(commands', u) = RestartsIn(commands, u)
        /\ \A u : \A i \in RestartsIn(commands, u) : commands'[i] = commands[i]
    BY <1>1, <1>3, <1>4, Appended DEF RestartsIn
  <1>6. SoftTypes'
    BY <1>0, <1>2, <1>5 DEF SoftTypes
  <1>7. StageInv' /\ ListedInv' /\ ReloadInv' /\ MessageInv'
    BY <1>0, <1>2 DEF StageInv, Applying, ListedInv, ReloadInv, Meets, Left, Shift, MessageInv, GoesOn
  <1>8. RestartInv'
    BY <1>0, <1>2, <1>5 DEF RestartInv, GoesOn
  <1>9. LagInv'
    BY <1>0, <1>2, <1>3, <1>5 DEF LagInv
  <1>10. OnTheWayInv'
    BY <1>0, <1>2, <1>5 DEF OnTheWayInv
  <1>11. SleepInv' /\ NeverEarly'
    BY <1>2, <1>5 DEF SleepInv, NeverEarly, NoCallBack
  <1>12. QED
    BY <1>6, <1>7, <1>8, <1>9, <1>10, <1>11 DEF SoftInv

(* A tick: nobody is so late that what has passed goes round.              *)
LEMMA TickKeeps ==
    ASSUME SoftInv, Tick, SoftTimers # {}
    PROVE  SoftInv'
  <1>0. SoftTypes /\ StageInv /\ ListedInv /\ ReloadInv /\ RestartInv /\ MessageInv /\ LagInv
        /\ OnTheWayInv /\ SleepInv
    BY DEF SoftInv
  <1>1. /\ InTime /\ tick' = Plus(tick, 1)
        /\ due' = [t \in SoftTimers |-> IF due[t] = NotDue THEN NotDue ELSE due[t] - 1]
        /\ wait' = IF wait \in {0, Forever} THEN wait ELSE wait - 1
        /\ called' = NoCallBack /\ lastTime' = lastTime /\ list' = list /\ period' = period
        /\ daemon' = daemon /\ back' = back /\ subject' = subject /\ commands' = commands
        /\ message' = message /\ mark' = mark
    BY DEF Tick, lists, place, queue
  <1>2. Wrap \in Nat /\ Lag \in Nat /\ Wrap >= 2 /\ Lag + 1 < Wrap /\ tick \in Count /\ lastTime \in Count
    BY <1>0, TimerFacts
  <1>3. /\ tick' \in Count
        /\ \A v \in Count :
              /\ Passed(v, tick) \in 0 .. Wrap - 1
              /\ Passed(v, tick') = IF Passed(v, tick) = Wrap - 1 THEN 0 ELSE Passed(v, tick) + 1
    <2>0. 1 \in 0 .. Wrap
      BY <1>2
    <2>1. tick' = Ahead(tick, 1)
      BY <1>0, <1>1, <1>2, <2>0, RoundWords
    <2>2. QED
      BY <1>0, <1>2, <2>1, PassedNext, RoundWords DEF Count
  <1>4. ASSUME NEW t \in SoftTimers, due[t] # NotDue
        PROVE  /\ due[t] > - Lag /\ due'[t] = due[t] - 1 /\ due'[t] # NotDue /\ due'[t] >= - Wrap
               /\ due[t] \in Int
    BY <1>0, <1>1, <1>2, <1>4, TimerFacts DEF InTime, NotDue
  <1>5. ASSUME NEW t \in SoftTimers, due[t] = NotDue PROVE due'[t] = NotDue
    BY <1>1, <1>5
  <1>6. ASSUME NEW t \in SoftTimers, NEW left \in Int, left <= period[t], Meets(t, left)
        PROVE  Meets(t, left)'
    <2> DEFINE gone == Passed(lastTime, tick)
               then == Passed(lastTime, tick')
    <2>1. /\ due[t] > - Lag /\ due'[t] = due[t] - 1 /\ due'[t] # NotDue /\ due[t] \in Int
          /\ gone + due[t] \in {left, left + Wrap} /\ (mark[t] = "own" => gone + due[t] = left)
      BY <1>4, <1>6 DEF Meets
    <2>2. gone \in 0 .. Wrap - 1 /\ then = IF gone = Wrap - 1 THEN 0 ELSE gone + 1
      BY <1>2, <1>3
    <2>3. period[t] \in Nat /\ period[t] + Lag < Wrap
      BY <1>0, TimerFacts
    <2> HIDE DEF gone, then
    <2>4. then + due'[t] \in {left, left + Wrap} /\ (mark[t] = "own" => then + due'[t] = left)
      BY <1>2, <1>6, <2>1, <2>2, <2>3
    <2>5. QED
      BY <1>1, <2>1, <2>4 DEF Meets, then
  <1>7. ASSUME NEW t \in SoftTimers, NEW v \in Count, GoesOn(t, v)
        PROVE  /\ due'[t] # NotDue /\ Passed(v, tick') + due'[t] = period[t]
               /\ Passed(v, tick') = Passed(v, tick) + 1
    <2>1. due[t] # NotDue /\ Passed(v, tick) + due[t] = period[t]
      BY <1>7 DEF GoesOn
    <2>2. /\ due[t] > - Lag /\ due'[t] = due[t] - 1 /\ due'[t] # NotDue /\ due[t] \in Int
          /\ period[t] \in Nat /\ period[t] + Lag < Wrap
      BY <1>0, <1>4, <2>1, TimerFacts
    <2>3. /\ Passed(v, tick) \in 0 .. Wrap - 1
          /\ Passed(v, tick') = IF Passed(v, tick) = Wrap - 1 THEN 0 ELSE Passed(v, tick) + 1
      BY <1>3
    <2>4. QED
      BY <1>2, <2>1, <2>2, <2>3
  <1>8. SoftTypes'
    <2>1. due' \in [SoftTimers -> Int] /\ \A t \in SoftTimers : due'[t] >= - Wrap
      BY <1>0, <1>1, <1>2, <1>4, <1>5, TimerFacts DEF NotDue
    <2>2. wait' \in 0 .. Wrap
      BY <1>0, <1>1, <1>2 DEF SoftTypes
    <2>3. QED
      BY <1>0, <1>1, <1>3, <2>1, <2>2 DEF SoftTypes
  <1>9. StageInv'
    BY <1>0, <1>1 DEF StageInv, Applying
  <1>10. ListedInv'
    <2> SUFFICES ASSUME NEW t \in SoftTimers, list[t] # Unlisted
                 PROVE  Left(t)' <= period[t] /\ Meets(t, Left(t))'
      BY <1>1 DEF ListedInv
    <2>1. Left(t)' = Left(t)
      BY <1>1 DEF Left, Shift
    <2>2. Left(t) \in Int
      BY <1>0, <1>2, TimerFacts DEF Left, Shift, Count
    <2>3. Left(t) <= period[t] /\ Meets(t, Left(t))
      BY <1>0 DEF ListedInv
    <2>4. PICK left \in Int : left = Left(t)
      BY <2>2
    <2>5. Meets(t, left)'
      BY <1>6, <2>3, <2>4
    <2>6. QED
      BY <1>1, <2>1, <2>3, <2>4, <2>5 DEF Meets
  <1>11. ReloadInv'
    <2> SUFFICES ASSUME daemon = "reload", subject.timer \in AutoReload
                 PROVE  /\ Meets(subject.timer, subject.at + period[subject.timer] - Wrap - lastTime)'
                        /\ due'[subject.timer] > period[subject.timer] - Wrap
      BY <1>1 DEF ReloadInv
    <2>1. subject.timer \in SoftTimers /\ subject.at \in Count
      BY <1>0 DEF SoftTypes, StageInv
    <2>2. PICK t \in SoftTimers : t = subject.timer
      BY <2>1
    <2>3. PICK left \in Int : left = subject.at + period[t] - Wrap - lastTime /\ left <= period[t]
      BY <1>0, <1>2, <2>1, <2>2, TimerFacts DEF Count
    <2>4. Meets(t, left) /\ Meets(t, left)'
      BY <1>0, <1>6, <2>2, <2>3 DEF ReloadInv
    <2>5. due'[t] > period[t] - Wrap
      <3>1. due[t] > - Lag /\ due'[t] = due[t] - 1 /\ due[t] \in Int
        BY <1>4, <2>4 DEF Meets
      <3>2. period[t] \in Nat /\ period[t] + Lag < Wrap
        BY <1>0, TimerFacts
      <3>3. QED
        BY <1>2, <3>1, <3>2
    <2>6. QED
      BY <1>1, <2>2, <2>3, <2>4, <2>5 DEF Meets
  <1>12. RestartInv'
    <2> SUFFICES ASSUME NEW t \in SoftTimers, mark[t] = "own", NEW i \in RestartsIn(commands, t)
                 PROVE  due'[t] # NotDue /\ Passed(commands[i].value, tick') + due'[t] = period[t]
      BY <1>0, <1>1 DEF RestartInv, GoesOn
    <2>1. i \in DOMAIN commands /\ commands[i].op = "restart" /\ commands[i] \in Given
      BY <1>0 DEF RestartsIn, SoftTypes
    <2>2. commands[i].value \in Count /\ GoesOn(t, commands[i].value)
      BY <1>0, <2>1, CommandIs DEF RestartInv
    <2>3. QED
      BY <1>7, <2>2
  <1>13. MessageInv'
    <2> SUFFICES ASSUME message # NoOrder, mark[message.timer] = "own" PROVE MessageInv'
      BY <1>1 DEF MessageInv
    <2>1. message \in Given /\ message.timer \in SoftTimers
      BY <1>0, CommandIs DEF SoftTypes
    <2>2. PICK t \in SoftTimers : t = message.timer
      BY <2>1
    <2>3. ASSUME message.op = "restart", daemon # "restart"
          PROVE  /\ due'[t] # NotDue /\ Passed(message.value, tick') + due'[t] = period[t]
                 /\ Passed(lastTime, tick') <= Passed(message.value, tick')
      <3>1. message.value \in Count /\ GoesOn(t, message.value)
            /\ Passed(lastTime, tick) <= Passed(message.value, tick)
        BY <1>0, <2>1, <2>2, <2>3, CommandIs DEF MessageInv
      <3>2. due'[t] # NotDue /\ Passed(message.value, tick') + due'[t] = period[t]
            /\ Passed(message.value, tick') = Passed(message.value, tick) + 1
        BY <1>7, <3>1
      <3>3. QED
        BY <1>2, <1>3, <3>1, <3>2
    <2>4. ASSUME daemon = "restart"
          PROVE  /\ due'[t] # NotDue
                 /\ Passed(Ahead(message.value, period[t]), tick') + due'[t] = period[t]
      <3>1. message.value \in Count
        BY <1>0, <2>1, <2>4, CommandIs DEF StageInv
      <3>2. Ahead(message.value, period[t]) \in Count
        BY <1>0, <3>1, RoundWords, TimerFacts
      <3>3. GoesOn(t, Ahead(message.value, period[t]))
        BY <1>0, <2>2, <2>4 DEF MessageInv
      <3>4. QED
        BY <1>7, <3>2, <3>3
    <2>5. QED
      BY <1>1, <2>2, <2>3, <2>4 DEF MessageInv, GoesOn
  <1>14. LagInv'
    <2>1. ASSUME NEW c \in Given, c.op = "start",
                 c \in {message} \cup {commands[i] : i \in DOMAIN commands}
          PROVE  /\ Passed(c.value, tick') <= Lag
                 /\ Passed(c.value, tick') = Passed(c.value, tick) + 1
      <3>1. c.value \in Count /\ Since(c.value) < Lag
        BY <1>1, <2>1, CommandIs DEF InTime
      <3>2. Passed(c.value, tick) < Lag
        BY <1>0, <3>1, RoundWords
      <3>3. QED
        BY <1>2, <1>3, <3>1, <3>2
    <2>2. \A i \in DOMAIN commands : commands[i] \in Given
      BY <1>0 DEF SoftTypes
    <2>3. ASSUME message.op = "start"
          PROVE  /\ Passed(message.value, tick') <= Lag
                 /\ Passed(lastTime, tick') <= Passed(message.value, tick')
      <3>1. message \in Given /\ message.value \in Count
        BY <1>0, <2>3, CommandIs DEF SoftTypes, NoOrder
      <3>2. Passed(lastTime, tick) <= Passed(message.value, tick)
        BY <1>0, <2>3 DEF LagInv
      <3>3. QED
        BY <1>2, <1>3, <2>1, <2>3, <3>1, <3>2
    <2>4. ASSUME message.op = "period" PROVE Passed(lastTime, tick') <= Lag
      <3>1. Passed(lastTime, tick) < Lag
        BY <1>0, <1>1, <1>2, <2>4, RoundWords DEF InTime
      <3>2. QED
        BY <1>2, <1>3, <3>1
    <2>5. QED
      BY <1>1, <2>1, <2>2, <2>3, <2>4 DEF LagInv
  <1>15. OnTheWayInv'
    BY <1>0, <1>1, <1>5 DEF OnTheWayInv
  <1>16. SleepInv'
    <2> SUFFICES ASSUME daemon = "blocked", commands = <<>>, NEW t \in SoftTimers, due[t] # NotDue
                 PROVE  list[t] # Unlisted /\ wait' # Forever /\ (wait' = 0 \/ wait' <= due'[t])
      BY <1>1, <1>5 DEF SleepInv, Forever
    <2>1. list[t] # Unlisted /\ wait # Forever /\ (wait = 0 \/ wait <= due[t])
      BY <1>0 DEF SleepInv
    <2>2. wait \in 0 .. Wrap /\ due[t] \in Int /\ due'[t] = due[t] - 1
      BY <1>0, <1>4, TimerFacts DEF SoftTypes
    <2>3. QED
      BY <1>1, <1>2, <2>1, <2>2 DEF Forever
  <1>17. NeverEarly'
    BY <1>1 DEF NeverEarly, NoCallBack
  <1>18. QED
    BY <1>8, <1>9, <1>10, <1>11, <1>12, <1>13, <1>14, <1>15, <1>16, <1>17 DEF SoftInv

(* lastTime becomes the tick count, and the lists are to be switched if    *)
(* that has wrapped: each timer is as far from due as before.              *)
Turns ==
    /\ tick' = tick /\ lastTime' = tick /\ period' = period /\ due' = due
    /\ daemon \notin {"switch", "reload"}
    /\ IF tick < lastTime THEN daemon' = "switch" ELSE daemon' \notin {"switch", "reload"}

LEMMA TurnKeeps ==
    ASSUME SoftTypes, ListedInv, Turns, NEW t \in SoftTimers, list[t] # Unlisted,
           list'[t] = list[t], mark'[t] = mark[t]
    PROVE  /\ Left(t)' <= period'[t] /\ Meets(t, Left(t))'
           /\ tick \in Int /\ Left(t)' \in Int /\ due[t] \in Int
           /\ Left(t)' <= due[t] /\ (mark[t] = "own" => Left(t)' = due[t])
           /\ Left(t)' = list[t].at + (IF list[t].in = "overflow" THEN Wrap ELSE 0)
                            - (IF tick < lastTime THEN Wrap ELSE 0) - tick
  <1>1. /\ Wrap \in Nat /\ tick \in Nat /\ tick < Wrap /\ lastTime \in Nat /\ lastTime < Wrap
        /\ list[t].at \in Nat /\ list[t].in \in {"current", "overflow"} /\ due[t] \in Int
        /\ period[t] \in Nat
    BY TimerFacts DEF Count
  <1>2. /\ Left(t) <= period[t] /\ due[t] # NotDue
        /\ Passed(lastTime, tick) + due[t] \in {Left(t), Left(t) + Wrap}
        /\ mark[t] = "own" => Passed(lastTime, tick) + due[t] = Left(t)
    BY DEF ListedInv, Meets
  <1>3. Passed(lastTime, tick) = IF lastTime <= tick THEN tick - lastTime ELSE tick - lastTime + Wrap
    BY DEF Passed
  <1>4. Passed(tick, tick) = 0
    BY <1>1 DEF Passed
  <1>5. /\ tick' = tick /\ lastTime' = tick /\ period' = period /\ due' = due
        /\ Shift = 0 /\ Shift' = IF tick < lastTime THEN Wrap ELSE 0
    BY DEF Turns, Shift
  <1>6. Left(t) = list[t].at + (IF list[t].in = "overflow" THEN Wrap ELSE 0) - lastTime
    BY <1>1, <1>5 DEF Left
  <1>7. Left(t)' = list[t].at + (IF list[t].in = "overflow" THEN Wrap ELSE 0)
                      - (IF tick < lastTime THEN Wrap ELSE 0) - tick
    BY <1>5 DEF Left
  <1>8. PICK w \in Int : w = list[t].at + (IF list[t].in = "overflow" THEN Wrap ELSE 0)
    BY <1>1
  <1>9. Left(t)' = Left(t) - Passed(lastTime, tick)
    BY <1>1, <1>3, <1>6, <1>7, <1>8
  <1>10. Left(t) \in Int /\ Passed(lastTime, tick) \in Nat
    BY <1>1, <1>3, <1>6, <1>8
  <1>11. /\ Left(t)' <= period[t] /\ due[t] \in {Left(t)', Left(t)' + Wrap}
         /\ Left(t)' \in Int /\ (mark[t] = "own" => due[t] = Left(t)')
    BY <1>1, <1>2, <1>9, <1>10
  <1>12. Meets(t, Left(t))'
    BY <1>1, <1>2, <1>4, <1>5, <1>11 DEF Meets, NotDue
  <1>13. QED
    BY <1>1, <1>5, <1>7, <1>11, <1>12

(* The timer task finds no command, and looks at its lists.                *)
LEMMA NextKeeps ==
    ASSUME SoftInv, NextSwitches \/ (\E t \in SoftTimers : NextExpired(t)) \/ NextBlocks
    PROVE  SoftInv'
  <1>0. SoftTypes /\ StageInv /\ ListedInv /\ ReloadInv /\ RestartInv /\ MessageInv /\ LagInv
        /\ OnTheWayInv
    BY DEF SoftInv
  <1>1. /\ Turns /\ Idle /\ called' = NoCallBack /\ list' = list /\ mark' = mark
        /\ commands' = commands /\ message' = message /\ back' = "commands"
        /\ daemon \in {"commands", "blocked"} /\ daemon' \in {"switch", "expired", "blocked"}
    <2>1. Idle /\ daemon \in {"commands", "blocked"} /\ back = "commands" /\ tick \in Nat /\ lastTime \in Nat
      BY <1>0 DEF NextSwitches, NextExpired, NextBlocks, Idle, StageInv, SoftTypes, Count
    <2>2. CASE NextSwitches
      BY <2>1, <2>2 DEF NextSwitches, Turns, lists, queue
    <2>3. ASSUME NEW t \in SoftTimers, NextExpired(t)
          PROVE  /\ Turns /\ called' = NoCallBack /\ list' = list /\ mark' = mark
                 /\ commands' = commands /\ message' = message /\ back' = "commands"
                 /\ daemon' = "expired"
      BY <2>1, <2>3 DEF NextExpired, Turns, lists, queue
    <2>4. CASE NextBlocks
      BY <2>1, <2>4 DEF NextBlocks, Turns, lists, queue, place
    <2>5. QED
      BY <2>1, <2>2, <2>3, <2>4
  <1>2. commands = <<>> /\ \A t : RestartsIn(commands, t) = {}
    BY <1>1 DEF Idle, RestartsIn
  <1>3. message = NoOrder
    BY <1>0, <1>1 DEF StageInv, Applying
  <1>4. tick' = tick /\ lastTime' = tick /\ period' = period /\ due' = due
    BY <1>1 DEF Turns
  <1>5. wait' \in 0 .. Wrap /\ subject' \in {NoTimer} \cup [timer : SoftTimers, at : Count]
    <2>1. CASE NextSwitches
      BY <1>0, <2>1 DEF NextSwitches, SoftTypes
    <2>2. ASSUME NEW t \in SoftTimers, NextExpired(t)
          PROVE  wait' = wait /\ subject' \in [timer : SoftTimers, at : Count]
      <3>1. list[t].in = "current" /\ list[t] # Unlisted
        BY <2>2 DEF NextExpired, Heads, In, Unlisted
      <3>2. list[t].at \in Count
        BY <1>0, <3>1, TimerFacts
      <3>3. QED
        BY <2>2, <3>2 DEF NextExpired, queue
    <2>3. CASE NextBlocks
      <3>1. subject' = subject
        BY <2>3 DEF NextBlocks, place
      <3>2. CASE wait' = Forever
        BY <1>0, <3>1, <3>2, SoftFacts DEF Forever, SoftTypes
      <3>3. CASE wait' = (0 - tick) % Wrap
        <4>1. 0 \in Count /\ tick \in Count /\ Wrap \in Nat
          BY <1>0, SoftFacts DEF SoftTypes, Count
        <4>2. (0 - tick) % Wrap \in Count
          BY <4>1, RoundIs
        <4>3. QED
          BY <1>0, <3>1, <3>3, <4>1, <4>2 DEF Count, SoftTypes
      <3>4. ASSUME NEW t \in Heads("current"), wait' = list[t].at - tick PROVE wait' \in 0 .. Wrap
        <4>1. t \in SoftTimers /\ list[t].in = "current" /\ list[t] # Unlisted /\ list[t].at > tick
          BY <2>3, <3>4 DEF NextBlocks, Heads, In, Unlisted
        <4>2. list[t].at \in Count /\ tick \in Count /\ Wrap \in Nat
          BY <1>0, <4>1, TimerFacts
        <4>3. QED
          BY <3>4, <4>1, <4>2 DEF Count
      <3>5. QED
        BY <1>0, <2>3, <3>1, <3>2, <3>3, <3>4 DEF NextBlocks, SoftTypes
    <2>4. QED
      BY <1>0, <2>1, <2>2, <2>3 DEF SoftTypes
  <1>6. SoftTypes'
    BY <1>0, <1>1, <1>4, <1>5 DEF SoftTypes
  <1>7. StageInv'
    <2>1. CASE daemon' # "expired"
      BY <1>1, <1>3, <2>1 DEF StageInv, Applying
    <2>2. ASSUME NEW t \in SoftTimers, NextExpired(t)
          PROVE  /\ subject' \in [timer : SoftTimers, at : Count] /\ subject'.at <= lastTime'
                 /\ list'[subject'.timer] = [in |-> "current", at |-> subject'.at]
      <3>1. /\ list[t].in = "current" /\ list[t] # Unlisted /\ list[t].at <= tick
            /\ subject' = [timer |-> t, at |-> list[t].at]
        BY <2>2 DEF NextExpired, Heads, In, Unlisted
      <3>2. list[t] \in Spot
        BY <1>0, <3>1, TimerFacts
      <3>3. list[t] = [in |-> "current", at |-> list[t].at]
        BY <3>1, <3>2 DEF Spot
      <3>4. subject' \in [timer : SoftTimers, at : Count]
        BY <3>1, <3>2 DEF Spot
      <3>5. QED
        BY <1>1, <1>4, <3>1, <3>3, <3>4
    <2>3. CASE daemon' = "expired"
      BY <1>1, <1>3, <2>2, <2>3 DEF StageInv, Applying, NextSwitches, NextBlocks
    <2>4. QED
      BY <2>1, <2>3
  <1>8. ListedInv'
    BY <1>0, <1>1, <1>4, TurnKeeps DEF ListedInv
  <1>9. ReloadInv' /\ RestartInv' /\ MessageInv' /\ LagInv'
    BY <1>1, <1>2, <1>3 DEF ReloadInv, RestartInv, MessageInv, LagInv, NoOrder
  <1>10. OnTheWayInv'
    BY <1>0, <1>1, <1>2, <1>3, <1>4 DEF OnTheWayInv, NoOrder
  <1>11. SleepInv'
    <2> SUFFICES ASSUME daemon' = "blocked", NEW t \in SoftTimers, due[t] # NotDue
                 PROVE  list[t] # Unlisted /\ wait' # Forever /\ (wait' = 0 \/ wait' <= due[t])
      BY <1>1, <1>4 DEF SleepInv, Forever
    <2>1. NextBlocks
      BY <1>1 DEF NextSwitches, NextExpired
    <2>2. list[t] # Unlisted
      BY <1>0, <1>1, <1>2, <1>3, SoftFacts DEF OnTheWayInv, NoOrder
    <2>3. /\ tick >= lastTime /\ Wrap \in Nat /\ tick \in Nat /\ tick < Wrap /\ lastTime \in Nat
          /\ list[t].at \in Nat /\ list[t].at < Wrap /\ due[t] \in Int
          /\ list[t].in \in {"current", "overflow"}
      BY <1>0, <2>1, <2>2, TimerFacts DEF NextBlocks, Count
    <2>4. list[t].at + (IF list[t].in = "overflow" THEN Wrap ELSE 0) - tick <= due[t]
      <3>1. /\ Left(t)' <= due[t] /\ Left(t)' \in Int
            /\ Left(t)' = list[t].at + (IF list[t].in = "overflow" THEN Wrap ELSE 0)
                             - (IF tick < lastTime THEN Wrap ELSE 0) - tick
        BY <1>0, <1>1, <2>2, TurnKeeps
      <3>2. QED
        BY <2>3, <3>1
    <2>5. In("current") \cup In("overflow") # {}
      BY <2>2, <2>3 DEF In
    <2>6. CASE In("current") = {} /\ wait' = (0 - tick) % Wrap
      <3>1. list[t].in = "overflow"
        BY <2>3, <2>6 DEF In
      <3>2. 0 \in Count /\ tick \in Count
        BY <2>3 DEF Count
      <3>3. wait' = Passed(tick, 0)
        BY <2>6, <3>2, RoundIs
      <3>4. QED
        BY <2>2, <2>3, <2>4, <3>1, <3>3 DEF Passed, Forever
    <2>7. ASSUME NEW u \in Heads("current"), wait' = list[u].at - tick
          PROVE  wait' # Forever /\ wait' <= due[t]
      <3>1. u \in SoftTimers /\ list[u] # Unlisted /\ \A o \in In("current") : list[u].at <= list[o].at
        BY <2>7 DEF Heads, In, Unlisted
      <3>2. list[u].at \in Nat /\ list[u].at < Wrap
        BY <1>0, <2>3, <3>1, TimerFacts DEF Count
      <3>3. list[t].in = "current" => list[u].at <= list[t].at
        BY <3>1 DEF In
      <3>4. QED
        BY <2>3, <2>4, <2>7, <3>2, <3>3 DEF Forever
    <2>8. QED
      BY <2>1, <2>2, <2>5, <2>6, <2>7 DEF NextBlocks
  <1>12. NeverEarly'
    BY <1>1 DEF NeverEarly, NoCallBack
  <1>13. QED
    BY <1>6, <1>7, <1>8, <1>9, <1>10, <1>11, <1>12 DEF SoftInv

(* A timer that is as it was, as far as its time goes.                     *)
LEMMA SameMeets ==
    ASSUME NEW t \in SoftTimers, NEW left, Meets(t, left), tick' = tick, lastTime' = lastTime,
           due'[t] = due[t], mark'[t] = mark[t]
    PROVE  Meets(t, left)'
  BY DEF Meets

(* A restart that is sent, or lost with its timer.                         *)
LEMMA RestartIs ==
    ASSUME SoftTypes, NEW t \in SoftTimers, NEW v \in Count, NEW d, Restart(t, v, d)
    PROVE  /\ commands' \in Seq(Given)
           /\ \A i \in DOMAIN commands : i \in DOMAIN commands' /\ commands'[i] = commands[i]
           /\ \A i \in DOMAIN commands' : i \in DOMAIN commands
                 \/ (commands'[i].op = "restart" /\ commands'[i].timer = t)
           /\ \A u \in SoftTimers : u # t => RestartsIn(commands', u) = RestartsIn(commands, u)
           /\ RestartsIn(commands, t) = {} =>
                 \A i \in RestartsIn(commands', t) :
                    /\ due' = [due EXCEPT ![t] = d] /\ commands'[i].value = v
                    /\ \A j \in RestartsIn(commands', t) : i = j
           /\ \/ due' = [due EXCEPT ![t] = NotDue]
              \/ due' = [due EXCEPT ![t] = d] /\ RestartsIn(commands', t) # {}
  <1> DEFINE c == Command("restart", t, v)
  <1>1. c \in Given /\ c.op = "restart" /\ c.timer = t /\ c.value = v /\ commands \in Seq(Given)
    BY CommandType DEF Command, SoftTypes
  <1>2. CASE HasRoom
    <2>1. commands' = Append(commands, c) /\ due' = [due EXCEPT ![t] = d]
      BY <1>2 DEF Restart
    <2> HIDE DEF c
    <2>2. /\ commands' \in Seq(Given)
          /\ Len(commands) + 1 \notin DOMAIN commands
          /\ DOMAIN commands' = DOMAIN commands \cup {Len(commands) + 1}
          /\ \A i \in DOMAIN commands : commands'[i] = commands[i]
          /\ commands'[Len(commands) + 1] = c
          /\ \A u : RestartsIn(commands', u) =
                RestartsIn(commands, u) \cup (IF c.op = "restart" /\ c.timer = u THEN {Len(commands) + 1} ELSE {})
      BY <1>1, <2>1, Appended
    <2>3. RestartsIn(commands', t) = RestartsIn(commands, t) \cup {Len(commands) + 1}
      BY <1>1, <2>2
    <2>4. \A u \in SoftTimers : u # t => RestartsIn(commands', u) = RestartsIn(commands, u)
      BY <1>1, <2>2
    <2>5. QED
      BY <1>1, <2>1, <2>2, <2>3, <2>4
  <1>3. CASE ~ HasRoom
    <2>1. commands' = commands /\ due' = [due EXCEPT ![t] = NotDue]
      BY <1>3 DEF Restart
    <2>2. QED
      BY <1>1, <2>1
  <1>4. QED
    BY <1>2, <1>3

(* A timer that has expired is called back, and goes on if it is periodic. *)
LEMMA ExpiredKeeps ==
    ASSUME SoftInv, prvProcessExpiredTimer
    PROVE  SoftInv'
  <1>0. SoftTypes /\ StageInv /\ ListedInv /\ ReloadInv /\ RestartInv /\ MessageInv /\ LagInv
        /\ OnTheWayInv
    BY DEF SoftInv
  <1>1. PICK t \in SoftTimers : t = subject.timer
    BY <1>0 DEF prvProcessExpiredTimer, StageInv
  <1>2. PICK at \in Count : at = subject.at
    BY <1>0 DEF prvProcessExpiredTimer, StageInv
  <1> DEFINE l == IF t \in AutoReload THEN ListFor(t, at) ELSE "none"
             next == Plus(at, period[t])
  <1>3. /\ daemon = "expired" /\ daemon' = "commands"
        /\ called' = [timer |-> t, isDue |-> due[t] <= 0]
        /\ IF l = "none" THEN list' = [list EXCEPT ![t] = Unlisted] ELSE Put(t, l, next)
        /\ IF l = "now" THEN Restart(t, at, NextDue(t, due[t]))
           ELSE due' = [due EXCEPT ![t] = NextDue(t, due[t])] /\ commands' = commands
        /\ subject' = NoTimer /\ tick' = tick /\ lastTime' = lastTime /\ period' = period
        /\ back' = back /\ wait' = wait /\ message' = message /\ mark' = mark
    BY <1>1, <1>2 DEF prvProcessExpiredTimer, CallBack, ListFor
  <1>4. /\ list[t] = [in |-> "current", at |-> at] /\ at <= lastTime /\ back = "commands"
        /\ message = NoOrder /\ list[t] # Unlisted
    <2>1. list[t] = [in |-> "current", at |-> at] /\ at <= lastTime
      BY <1>0, <1>1, <1>2, <1>3 DEF StageInv
    <2>2. back \in {"commands", "apply"}
      BY <1>0 DEF SoftTypes
    <2>3. back = "commands" /\ message = NoOrder
      BY <1>0, <1>3, <2>2 DEF StageInv, Applying
    <2>4. QED
      BY <2>1, <2>3 DEF Unlisted
  <1>5. /\ Wrap \in Nat /\ lastTime \in Nat /\ lastTime < Wrap /\ tick \in Nat /\ tick < Wrap
        /\ at \in Nat /\ period[t] \in Nat /\ period[t] >= 1 /\ period[t] < Wrap /\ due[t] \in Int
        /\ due[t] >= - Wrap
    BY <1>0, TimerFacts DEF Count
  <1>6. /\ due[t] # NotDue /\ Passed(lastTime, tick) + due[t] \in {at - lastTime, at - lastTime + Wrap}
        /\ mark[t] = "own" => Passed(lastTime, tick) + due[t] = at - lastTime
    <2>1. Left(t) = at - lastTime
      BY <1>3, <1>4, <1>5 DEF Left, Shift
    <2>2. QED
      BY <1>0, <1>4, <2>1 DEF ListedInv, Meets
  <1>7. Passed(lastTime, tick) = IF lastTime <= tick THEN tick - lastTime ELSE tick - lastTime + Wrap
    BY DEF Passed
  <1>8. Passed(at, lastTime) = lastTime - at
    BY <1>4 DEF Passed
  <1>9. /\ next \in Count
        /\ \/ ListFor(t, at) = "now" /\ lastTime - at >= period[t]
           \/ ListFor(t, at) = "current" /\ next = at + period[t] /\ lastTime - at < period[t]
           \/ ListFor(t, at) = "overflow" /\ next = at + period[t] - Wrap /\ lastTime - at < period[t]
    BY <1>0, <1>5, <1>8, ListForIs
  <1>10. l \in {"none", "now", "current", "overflow"} /\ (l # "none" <=> t \in AutoReload)
    BY <1>9
  <1> HIDE DEF l, next
  <1>11. list' = [list EXCEPT ![t] = IF l \in {"none", "now"} THEN Unlisted ELSE [in |-> l, at |-> next]]
    BY <1>3, <1>10 DEF Put
  <1>12. /\ \A u \in SoftTimers : u # t => list'[u] = list[u] /\ due'[u] = due[u]
         /\ list'[t] = IF l \in {"none", "now"} THEN Unlisted ELSE [in |-> l, at |-> next]
    BY <1>0, <1>3, <1>11 DEF SoftTypes, Restart
  <1>13. /\ \A u \in SoftTimers : u # t => RestartsIn(commands', u) = RestartsIn(commands, u)
         /\ \A i \in DOMAIN commands : i \in DOMAIN commands' /\ commands'[i] = commands[i]
         /\ \A i \in DOMAIN commands' : i \in DOMAIN commands \/ commands'[i].op = "restart"
         /\ commands' \in Seq(Given)
    BY <1>0, <1>3, RestartIs DEF SoftTypes
  <1>14. due' \in [SoftTimers -> Int] /\ \A u \in SoftTimers : due'[u] >= - Wrap
    <2>1. NextDue(t, due[t]) \in Int /\ NextDue(t, due[t]) >= - Wrap
      BY <1>5 DEF NextDue, NotDue
    <2>2. due' = [due EXCEPT ![t] = NextDue(t, due[t])] \/ due' = [due EXCEPT ![t] = NotDue]
      BY <1>3 DEF Restart
    <2>3. PICK d \in Int : d >= - Wrap /\ due' = [due EXCEPT ![t] = d]
      BY <1>5, <2>1, <2>2 DEF NotDue
    <2>4. due \in [SoftTimers -> Int] /\ \A u \in SoftTimers : due[u] >= - Wrap
      BY <1>0 DEF SoftTypes
    <2>5. QED
      BY <2>3, <2>4
  <1>15. SoftTypes'
    <2>1. list'[t] \in {Unlisted} \cup Spot
      BY <1>9, <1>10, <1>12 DEF Spot
    <2>2. list' \in [SoftTimers -> {Unlisted} \cup Spot]
      BY <1>0, <1>11, <1>12, <2>1 DEF SoftTypes
    <2>3. QED
      BY <1>0, <1>3, <1>13, <1>14, <2>2 DEF SoftTypes
  <1>16. StageInv'
    BY <1>3, <1>4 DEF StageInv, Applying
  <1>17. ListedInv'
    <2> SUFFICES ASSUME NEW u \in SoftTimers, list'[u] # Unlisted
                 PROVE  Left(u)' <= period[u] /\ Meets(u, Left(u))'
      BY <1>3 DEF ListedInv
    <2>1. Shift = 0 /\ Shift' = 0
      BY <1>3 DEF Shift
    <2>2. CASE u # t
      BY <1>0, <1>3, <1>12, <2>1, <2>2 DEF ListedInv, Left, Meets
    <2>3. CASE u = t
      <3>1. l \in {"current", "overflow"} /\ list'[t] = [in |-> l, at |-> next]
        BY <1>10, <1>12, <2>3
      <3>2. /\ due'[t] = due[t] + period[t] /\ ListFor(t, at) = l
        BY <1>0, <1>3, <1>10, <3>1 DEF NextDue, SoftTypes, l
      <3>3. Left(t)' = at + period[t] - lastTime
        BY <1>3, <1>5, <1>9, <2>1, <3>1, <3>2 DEF Left
      <3>4. Left(t)' <= period[t]
        BY <1>4, <1>5, <3>3
      <3>5. due'[t] # NotDue
        BY <1>5, <3>2 DEF NotDue
      <3>6. Passed(lastTime, tick) \in Int
        BY <1>5, <1>7
      <3>7. Meets(t, Left(t))'
        BY <1>3, <1>5, <1>6, <3>2, <3>3, <3>5, <3>6 DEF Meets
      <3>8. QED
        BY <2>3, <3>4, <3>7
    <2>4. QED
      BY <2>2, <2>3
  <1>18. RestartInv'
    <2> SUFFICES ASSUME NEW u \in SoftTimers, mark[u] = "own", NEW i \in RestartsIn(commands', u)
                 PROVE  /\ GoesOn(u, commands[i].value)' /\ list'[u] = Unlisted /\ message.timer # u
                        /\ \A j \in RestartsIn(commands', u) : i = j
      BY <1>3 DEF RestartInv
    <2>1. message.timer # u
      BY <1>4, SoftFacts DEF NoOrder
    <2>2. CASE u # t
      <3>1. i \in RestartsIn(commands, u) /\ commands'[i] = commands[i]
        BY <1>13, <2>2 DEF RestartsIn
      <3>2. QED
        BY <1>0, <1>3, <1>12, <1>13, <2>1, <2>2, <3>1 DEF RestartInv, GoesOn
    <2>3. CASE u = t
      <3>1. RestartsIn(commands, t) = {}
        BY <1>0, <1>4, <2>3 DEF RestartInv
      <3>2. l = "now"
        BY <1>3, <2>3, <3>1
      <3>3. /\ due' = [due EXCEPT ![t] = NextDue(t, due[t])] /\ commands'[i].value = at
            /\ \A j \in RestartsIn(commands', t) : i = j
        BY <1>0, <1>3, <2>3, <3>1, <3>2, RestartIs
      <3>4. due'[t] = due[t] + period[t]
        BY <1>0, <1>10, <3>2, <3>3 DEF NextDue, SoftTypes
      <3>5. Passed(at, tick) = IF at <= tick THEN tick - at ELSE tick - at + Wrap
        BY DEF Passed
      <3>6. Passed(lastTime, tick) + due[t] = at - lastTime /\ due[t] # - Wrap
        BY <1>6, <2>3 DEF NotDue
      <3>7. Passed(at, tick) = - due[t]
        BY <1>4, <1>5, <1>7, <3>5, <3>6
      <3>8. due'[t] # NotDue /\ Passed(at, tick) + due'[t] = period[t]
        BY <1>5, <3>4, <3>7 DEF NotDue
      <3>9. QED
        BY <1>3, <1>12, <2>1, <2>3, <3>2, <3>3, <3>8 DEF GoesOn
    <2>4. QED
      BY <2>2, <2>3
  <1>19. ReloadInv' /\ MessageInv' /\ SleepInv'
    BY <1>3, <1>4 DEF ReloadInv, MessageInv, SleepInv
  <1>20. LagInv'
    BY <1>0, <1>3, <1>4, <1>13 DEF LagInv, NoOrder
  <1>21. OnTheWayInv'
    <2> SUFFICES ASSUME NEW u \in SoftTimers, due'[u] # NotDue, list'[u] = Unlisted
                 PROVE  RestartsIn(commands', u) # {}
      BY DEF OnTheWayInv
    <2>1. CASE u # t
      BY <1>0, <1>3, <1>4, <1>12, <1>13, <2>1, SoftFacts DEF OnTheWayInv, NoOrder
    <2>2. CASE u = t
      <3>1. l = "now"
        BY <1>0, <1>3, <1>10, <1>12, <2>2 DEF NextDue, SoftTypes, Unlisted
      <3>2. due' # [due EXCEPT ![t] = NotDue]
        BY <1>0, <2>2 DEF SoftTypes
      <3>3. QED
        BY <1>0, <1>3, <2>2, <3>1, <3>2, RestartIs
    <2>3. QED
      BY <2>1, <2>2
  <1>22. NeverEarly'
    <2>1. mark[t] = "own" => due[t] <= 0
      BY <1>4, <1>5, <1>6, <1>7
    <2>2. QED
      BY <1>3, <2>1 DEF NeverEarly
  <1>23. QED
    BY <1>15, <1>16, <1>17, <1>18, <1>19, <1>20, <1>21, <1>22 DEF SoftInv
-----------------------------------------------------------------------------
(* The order that the timer task is at, if there is one.                   *)
LEMMA MessageIs ==
    ASSUME SoftTypes
    PROVE  \/ message = NoOrder /\ message.timer \notin SoftTimers /\ message.op = "none"
           \/ message \in Given /\ message # NoOrder /\ message.timer \in SoftTimers
  <1>1. CASE message = NoOrder
    BY <1>1, SoftFacts DEF NoOrder
  <1>2. CASE message \in Given
    BY <1>2, CommandIs
  <1>3. QED
    BY <1>1, <1>2 DEF SoftTypes

(* The count has wrapped: a timer of the current list is called back.      *)
LEMMA SwitchFiresKeeps ==
    ASSUME SoftInv, NEW t \in SoftTimers, SwitchFires(t)
    PROVE  SoftInv'
  <1>0. SoftTypes /\ StageInv /\ ListedInv /\ ReloadInv /\ RestartInv /\ MessageInv /\ LagInv
        /\ OnTheWayInv
    BY DEF SoftInv
  <1>1. /\ daemon = "switch" /\ daemon' = "reload" /\ called' = [timer |-> t, isDue |-> due[t] <= 0]
        /\ list' = [list EXCEPT ![t] = Unlisted] /\ subject' = [timer |-> t, at |-> list[t].at]
        /\ due' = [due EXCEPT ![t] = NextDue(t, due[t])] /\ list[t].in = "current"
        /\ tick' = tick /\ lastTime' = lastTime /\ period' = period /\ back' = back /\ wait' = wait
        /\ commands' = commands /\ message' = message /\ mark' = mark
    BY DEF SwitchFires, CallBack, queue, Heads, In
  <1>2. list[t] # Unlisted
    BY <1>1 DEF Unlisted
  <1>3. /\ Wrap \in Nat /\ lastTime \in Nat /\ lastTime < Wrap /\ tick \in Nat /\ tick < Wrap
        /\ list[t].at \in Count /\ list[t].at \in Nat /\ list[t].at < Wrap
        /\ period[t] \in Nat /\ period[t] >= 1 /\ period[t] < Wrap /\ due[t] \in Int
        /\ due[t] >= - Wrap
    BY <1>0, <1>2, TimerFacts DEF Count
  <1> DEFINE left == list[t].at - Wrap - lastTime
             gone == Passed(lastTime, tick)
  <1>4. Left(t) = left
    BY <1>1, <1>3 DEF Left, Shift
  <1>5. /\ due[t] # NotDue /\ gone + due[t] \in {left, left + Wrap}
        /\ mark[t] = "own" => gone + due[t] = left
    BY <1>0, <1>2, <1>4 DEF ListedInv, Meets
  <1>6. gone \in Nat
    BY <1>3 DEF Passed
  <1>7. /\ \A u \in SoftTimers : u # t => list'[u] = list[u] /\ due'[u] = due[u]
        /\ list'[t] = Unlisted /\ due'[t] = NextDue(t, due[t])
    BY <1>0, <1>1 DEF SoftTypes
  <1>8. message.timer # t
    BY <1>0, <1>2, MessageIs DEF StageInv
  <1>9. SoftTypes'
    <2>0. NextDue(t, due[t]) \in Int /\ NextDue(t, due[t]) >= - Wrap
      BY <1>3 DEF NextDue, NotDue
    <2>1. PICK d \in Int : d >= - Wrap /\ due' = [due EXCEPT ![t] = d]
      BY <1>1, <2>0
    <2>2. due' \in [SoftTimers -> Int] /\ \A u \in SoftTimers : due'[u] >= - Wrap
      BY <1>0, <2>1 DEF SoftTypes
    <2>3. subject' \in [timer : SoftTimers, at : Count]
      BY <1>1, <1>3
    <2>4. list' \in [SoftTimers -> {Unlisted} \cup Spot]
      BY <1>0, <1>1 DEF SoftTypes
    <2>5. QED
      BY <1>0, <1>1, <2>2, <2>3, <2>4 DEF SoftTypes
  <1>10. StageInv'
    <2>1. message # NoOrder => list'[message.timer] = Unlisted
      BY <1>0, <1>7, <1>8, MessageIs DEF StageInv
    <2>2. subject' \in [timer : SoftTimers, at : Count] /\ subject'.timer = t
      BY <1>1, <1>3
    <2>3. QED
      BY <1>0, <1>1, <1>7, <1>8, <2>1, <2>2 DEF StageInv, Applying
  <1>11. ListedInv'
    <2> SUFFICES ASSUME NEW u \in SoftTimers, list'[u] # Unlisted
                 PROVE  Left(u)' <= period[u] /\ Meets(u, Left(u))'
      BY <1>1 DEF ListedInv
    <2>1. u # t /\ list'[u] = list[u] /\ due'[u] = due[u] /\ Shift' = Shift
      BY <1>1, <1>7 DEF Shift
    <2>2. Left(u)' = Left(u)
      BY <1>1, <2>1 DEF Left
    <2>3. QED
      BY <1>0, <1>1, <2>1, <2>2 DEF ListedInv, Meets
  <1>12. ReloadInv'
    <2>0. PICK at \in Count : at = list[t].at
      BY <1>3
    <2> DEFINE next == at + period[t] - Wrap - lastTime
    <2> SUFFICES ASSUME t \in AutoReload PROVE Meets(t, next)' /\ due'[t] > period[t] - Wrap
      BY <1>1, <2>0 DEF ReloadInv
    <2>1. due'[t] = due[t] + period[t]
      BY <1>7 DEF NextDue
    <2> HIDE DEF left, gone
    <2>2. left \in Int
      BY <1>3 DEF left
    <2>3. due'[t] # NotDue /\ gone + due'[t] \in {left + period[t], left + period[t] + Wrap}
          /\ (mark[t] = "own" => gone + due'[t] = left + period[t])
      BY <1>3, <1>5, <1>6, <2>1, <2>2 DEF NotDue
    <2>4. next' = left + period[t]
      BY <1>1, <1>3, <2>0 DEF left
    <2>5. gone = Passed(lastTime, tick)' /\ mark'[t] = mark[t]
      BY <1>1 DEF gone
    <2> HIDE DEF next
    <2>6. due'[t] > period[t] - Wrap
      BY <1>3, <1>5, <2>1 DEF NotDue
    <2>7. QED
      BY <2>3, <2>4, <2>5, <2>6 DEF Meets
  <1>13. RestartInv'
    BY <1>0, <1>1, <1>2, <1>7 DEF RestartInv, GoesOn
  <1>14. MessageInv' /\ LagInv'
    BY <1>0, <1>1, <1>7, <1>8, MessageIs DEF MessageInv, LagInv, GoesOn
  <1>15. OnTheWayInv'
    BY <1>0, <1>1, <1>7 DEF OnTheWayInv, NextDue
  <1>16. SleepInv' /\ NeverEarly'
    <2>1. mark[t] = "own" => due[t] <= 0
      BY <1>3, <1>5, <1>6
    <2>2. QED
      BY <1>1, <2>1 DEF SleepInv, NeverEarly
  <1>17. QED
    BY <1>9, <1>10, <1>11, <1>12, <1>13, <1>14, <1>15, <1>16 DEF SoftInv

(* Back into the current list, or by a command when that is past the wrap. *)
LEMMA SwitchReloadsKeeps ==
    ASSUME SoftInv, SwitchReloads
    PROVE  SoftInv'
  <1>0. SoftTypes /\ StageInv /\ ListedInv /\ ReloadInv /\ RestartInv /\ MessageInv /\ LagInv
        /\ OnTheWayInv
    BY DEF SoftInv
  <1>1. /\ daemon = "reload" /\ daemon' = "switch" /\ subject' = NoTimer /\ called' = NoCallBack
        /\ tick' = tick /\ lastTime' = lastTime /\ period' = period /\ back' = back /\ wait' = wait
        /\ message' = message /\ mark' = mark
    BY DEF SwitchReloads
  <1>2. PICK t \in SoftTimers : t = subject.timer
    BY <1>0, <1>1 DEF StageInv
  <1>3. PICK at \in Count : at = subject.at
    BY <1>0, <1>1 DEF StageInv
  <1>4. list[t] = Unlisted /\ message.timer # t
    BY <1>0, <1>1, <1>2 DEF StageInv
  <1>5. mark[t] = "own" => RestartsIn(commands, t) = {}
    BY <1>0, <1>1, <1>2 DEF RestartInv
  <1>6. /\ Wrap \in Nat /\ lastTime \in Nat /\ lastTime < Wrap /\ tick \in Nat /\ tick < Wrap
        /\ at \in Nat /\ at < Wrap /\ period[t] \in Nat /\ period[t] >= 1 /\ period[t] < Wrap
        /\ due[t] \in Int /\ period[t] \in 0 .. Wrap
    BY <1>0, TimerFacts DEF Count
  <1>7. Shift = Wrap /\ Shift' = Wrap
    BY <1>1 DEF Shift
  <1> DEFINE left == at + period[t] - Wrap - lastTime
             gone == Passed(lastTime, tick)
             next == Plus(at, period[t])
  <1>8. t \in AutoReload =>
          /\ due[t] # NotDue /\ gone + due[t] \in {left, left + Wrap}
          /\ mark[t] = "own" => gone + due[t] = left
          /\ due[t] > period[t] - Wrap
    BY <1>0, <1>1, <1>2, <1>3 DEF ReloadInv, Meets
  <1>9. gone = IF lastTime <= tick THEN tick - lastTime ELSE tick - lastTime + Wrap
    BY DEF Passed
  <1>10. next \in Count /\ next = IF at + period[t] < Wrap THEN at + period[t] ELSE at + period[t] - Wrap
    BY <1>0, <1>6, RoundWords DEF Ahead
  <1> HIDE DEF next, gone
  <1>11. StageInv'
    <2>1. message # NoOrder => list'[message.timer] = Unlisted
      <3>1. message # NoOrder => message.timer \in SoftTimers /\ list[message.timer] = Unlisted
        BY <1>0, MessageIs DEF StageInv
      <3>2. list' \in {list} \cup {[list EXCEPT ![t] = x] : x \in {Unlisted} \cup Spot}
        BY <1>2, <1>3, <1>10 DEF SwitchReloads, Put, Spot, next
      <3>3. QED
        BY <1>0, <1>4, <3>1, <3>2 DEF SoftTypes
    <2>2. QED
      BY <1>0, <1>1, <2>1 DEF StageInv, Applying
  <1>12. CASE t \notin AutoReload
    <2>1. list' = list /\ due' = due /\ commands' = commands
      BY <1>2, <1>12 DEF SwitchReloads
    <2>2. SoftTypes'
      BY <1>0, <1>1, <2>1 DEF SoftTypes
    <2>3. ListedInv'
      BY <1>0, <1>1, <1>7, <2>1 DEF ListedInv, Left, Meets
    <2>4. RestartInv' /\ MessageInv' /\ LagInv'
      BY <1>0, <1>1, <2>1 DEF RestartInv, MessageInv, LagInv, GoesOn
    <2>5. OnTheWayInv'
      BY <1>0, <1>1, <1>2, <1>12, <2>1 DEF OnTheWayInv
    <2>6. QED
      BY <1>1, <1>11, <2>2, <2>3, <2>4, <2>5 DEF SoftInv, ReloadInv, SleepInv, NeverEarly, NoCallBack
  <1>13. CASE t \in AutoReload /\ next > at
    <2>1. list' = [list EXCEPT ![t] = [in |-> "current", at |-> next]] /\ due' = due /\ commands' = commands
      BY <1>2, <1>3, <1>6, <1>10, <1>13 DEF SwitchReloads, Put, next, Count
    <2>2. SoftTypes'
      <3>1. list' \in [SoftTimers -> {Unlisted} \cup Spot]
        BY <1>0, <1>10, <2>1 DEF SoftTypes, Spot
      <3>2. QED
        BY <1>0, <1>1, <2>1, <3>1 DEF SoftTypes
    <2>3. /\ list'[t] = [in |-> "current", at |-> next] /\ list'[t] # Unlisted
          /\ \A u \in SoftTimers : u # t => list'[u] = list[u]
      BY <1>0, <2>1 DEF SoftTypes, Unlisted
    <2>4. ListedInv'
      <3> SUFFICES ASSUME NEW u \in SoftTimers, list'[u] # Unlisted
                   PROVE  Left(u)' <= period[u] /\ Meets(u, Left(u))'
        BY <1>1 DEF ListedInv
      <3>1. CASE u # t
        BY <1>0, <1>1, <1>7, <2>1, <2>3, <3>1 DEF ListedInv, Left, Meets
      <3>2. CASE u = t
        <4>1. next = at + period[t]
          BY <1>6, <1>10, <1>13
        <4>2. Left(t)' = left /\ left <= period[t]
          BY <1>1, <1>6, <1>7, <2>3, <4>1 DEF Left
        <4>3. QED
          BY <1>1, <1>8, <1>13, <2>1, <3>2, <4>2 DEF Meets, gone
      <3>3. QED
        BY <3>1, <3>2
    <2>5. RestartInv' /\ MessageInv' /\ LagInv'
      BY <1>0, <1>1, <1>5, <2>1, <2>3 DEF RestartInv, MessageInv, LagInv, GoesOn
    <2>6. OnTheWayInv'
      BY <1>0, <1>1, <1>2, <2>1, <2>3 DEF OnTheWayInv
    <2>7. QED
      BY <1>1, <1>11, <2>2, <2>4, <2>5, <2>6 DEF SoftInv, ReloadInv, SleepInv, NeverEarly, NoCallBack
  <1>14. CASE t \in AutoReload /\ next <= at
    <2>1. list' = list /\ Restart(t, at, due[t])
      BY <1>2, <1>3, <1>6, <1>10, <1>14 DEF SwitchReloads, next, Count
    <2>2. PICK d \in Int : d = due[t]
      BY <1>6
    <2>3. /\ commands' \in Seq(Given)
          /\ \A i \in DOMAIN commands : i \in DOMAIN commands' /\ commands'[i] = commands[i]
          /\ \A i \in DOMAIN commands' : i \in DOMAIN commands
                \/ (commands'[i].op = "restart" /\ commands'[i].timer = t)
          /\ \A u \in SoftTimers : u # t => RestartsIn(commands', u) = RestartsIn(commands, u)
          /\ RestartsIn(commands, t) = {} =>
                \A i \in RestartsIn(commands', t) :
                   /\ due' = [due EXCEPT ![t] = d] /\ commands'[i].value = at
                   /\ \A j \in RestartsIn(commands', t) : i = j
          /\ \/ due' = [due EXCEPT ![t] = NotDue]
             \/ due' = [due EXCEPT ![t] = d] /\ RestartsIn(commands', t) # {}
      BY <1>0, <2>1, <2>2, RestartIs
    <2>4. /\ due' \in [SoftTimers -> Int] /\ \A u \in SoftTimers : due'[u] >= - Wrap
          /\ \A u \in SoftTimers : u # t => due'[u] = due[u]
      <3>1. PICK e \in Int : e >= - Wrap /\ due' = [due EXCEPT ![t] = e]
        BY <1>0, <1>6, <2>2, <2>3 DEF NotDue, SoftTypes
      <3>2. due \in [SoftTimers -> Int] /\ \A u \in SoftTimers : due[u] >= - Wrap
        BY <1>0 DEF SoftTypes
      <3>3. QED
        BY <3>1, <3>2
    <2>5. SoftTypes'
      BY <1>0, <1>1, <2>1, <2>3, <2>4 DEF SoftTypes
    <2>6. ListedInv'
      BY <1>0, <1>1, <1>4, <1>7, <2>1, <2>4 DEF ListedInv, Left, Meets
    <2>7. RestartInv'
      <3> SUFFICES ASSUME NEW u \in SoftTimers, mark[u] = "own", NEW i \in RestartsIn(commands', u)
                   PROVE  /\ GoesOn(u, commands[i].value)' /\ list[u] = Unlisted /\ message.timer # u
                          /\ \A j \in RestartsIn(commands', u) : i = j
        BY <1>1, <2>1 DEF RestartInv
      <3>1. CASE u # t
        <4>1. i \in RestartsIn(commands, u) /\ commands'[i] = commands[i]
          BY <2>3, <3>1 DEF RestartsIn
        <4>2. QED
          BY <1>0, <1>1, <2>3, <2>4, <3>1, <4>1 DEF RestartInv, GoesOn
      <3>2. CASE u = t
        <4>1. /\ due' = [due EXCEPT ![t] = d] /\ commands'[i].value = at
              /\ \A j \in RestartsIn(commands', t) : i = j
          BY <1>5, <2>3, <3>2
        <4>2. due'[t] = due[t]
          BY <1>0, <2>2, <4>1 DEF SoftTypes
        <4>3. Passed(at, tick) = IF at <= tick THEN tick - at ELSE tick - at + Wrap
          BY DEF Passed
        <4>4. gone + due[t] = left /\ due[t] > period[t] - Wrap
          BY <1>8, <1>14, <3>2
        <4>5. Passed(at, tick) + due[t] = period[t]
          <5>1. PICK p \in Int : p = period[t] /\ p >= 1 /\ p < Wrap
            BY <1>6
          <5>2. PICK e \in Int : e = due[t]
            BY <1>6
          <5>3. gone \in Int /\ gone + e = at + p - Wrap - lastTime /\ e > p - Wrap
            BY <1>6, <1>9, <4>4, <5>1, <5>2
          <5>4. at > tick
            BY <1>6, <1>9, <5>1, <5>2, <5>3
          <5>5. lastTime <= tick
            BY <1>6, <1>9, <5>1, <5>2, <5>3
          <5>6. Passed(at, tick) + e = p
            <6>1. Passed(at, tick) = tick - at + Wrap
              BY <1>6, <4>3, <5>4
            <6>2. gone = tick - lastTime
              BY <1>9, <5>5
            <6>3. tick \in Int /\ at \in Int /\ Wrap \in Int /\ lastTime \in Int
              BY <1>6
            <6>4. tick - at + Wrap + e = p
              BY <5>1, <5>2, <5>3, <6>2, <6>3
            <6>5. QED
              BY <6>1, <6>4
          <5>7. QED
            BY <5>1, <5>2, <5>6
        <4>6. QED
          BY <1>1, <1>4, <1>8, <1>14, <3>2, <4>1, <4>2, <4>5 DEF GoesOn
      <3>3. QED
        BY <3>1, <3>2
    <2>8. MessageInv'
      BY <1>0, <1>1, <1>4, <2>4, MessageIs DEF MessageInv, GoesOn
    <2>9. LagInv'
      BY <1>0, <1>1, <2>3 DEF LagInv
    <2>10. OnTheWayInv'
      <3> SUFFICES ASSUME NEW u \in SoftTimers, due'[u] # NotDue, list[u] = Unlisted
                   PROVE  message.timer = u \/ RestartsIn(commands', u) # {}
        BY <1>1, <2>1 DEF OnTheWayInv
      <3>1. CASE u # t
        BY <1>0, <1>1, <1>2, <2>3, <2>4, <3>1 DEF OnTheWayInv
      <3>2. CASE u = t
        BY <1>0, <2>3, <3>2 DEF SoftTypes
      <3>3. QED
        BY <3>1, <3>2
    <2>11. QED
      BY <1>1, <1>11, <2>5, <2>6, <2>7, <2>8, <2>9, <2>10
        DEF SoftInv, ReloadInv, SleepInv, NeverEarly, NoCallBack
  <1>15. QED
    BY <1>6, <1>10, <1>12, <1>13, <1>14 DEF Count

(* The lists are switched, and the timer task goes on where it was.        *)
LEMMA SwitchEndsKeeps ==
    ASSUME SoftInv, SwitchEnds
    PROVE  SoftInv'
  <1>0. SoftTypes /\ StageInv /\ ListedInv /\ ReloadInv /\ RestartInv /\ MessageInv /\ LagInv
        /\ OnTheWayInv
    BY DEF SoftInv
  <1>1. /\ daemon = "switch" /\ daemon' = back /\ back' = "commands" /\ called' = NoCallBack
        /\ In("current") = {}
        /\ list' = [t \in SoftTimers |->
                      IF list[t].in = "overflow" THEN [list[t] EXCEPT !.in = "current"] ELSE Unlisted]
        /\ tick' = tick /\ lastTime' = lastTime /\ period' = period /\ subject' = subject
        /\ wait' = wait /\ commands' = commands /\ message' = message /\ due' = due /\ mark' = mark
    BY DEF SwitchEnds, queue
  <1>2. back \in {"commands", "apply"} /\ daemon' \in {"commands", "apply"}
    BY <1>0, <1>1 DEF SoftTypes
  <1>3. ASSUME NEW t \in SoftTimers
        PROVE  /\ list[t] = Unlisted => list'[t] = Unlisted
               /\ list[t] # Unlisted => /\ list[t].in = "overflow" /\ list[t].at \in Count
                                        /\ list'[t] = [in |-> "current", at |-> list[t].at]
    <2>1. CASE list[t] = Unlisted
      BY <1>1, <2>1 DEF Unlisted
    <2>2. CASE list[t] # Unlisted
      <3>1. list[t] \in Spot
        BY <1>0, <2>2, TimerFacts
      <3>2. list[t].in = "overflow" /\ list[t].at \in Count
        BY <1>1, <3>1 DEF In, Spot
      <3>3. [list[t] EXCEPT !.in = "current"] = [in |-> "current", at |-> list[t].at]
        BY <3>1 DEF Spot
      <3>4. QED
        BY <1>1, <2>2, <3>2, <3>3
    <2>3. QED
      BY <2>1, <2>2
  <1>4. SoftTypes'
    <2>1. ASSUME NEW t \in SoftTimers PROVE list'[t] \in {Unlisted} \cup Spot
      <3>1. CASE list[t] = Unlisted
        BY <1>3, <3>1
      <3>2. CASE list[t] # Unlisted
        <4>1. PICK at \in Count : list'[t] = [in |-> "current", at |-> at]
          BY <1>3, <3>2
        <4>2. QED
          BY <4>1 DEF Spot
      <3>3. QED
        BY <3>1, <3>2
    <2>2. list' \in [SoftTimers -> {Unlisted} \cup Spot]
      BY <1>1, <2>1
    <2>3. QED
      BY <1>0, <1>1, <1>2, <2>2 DEF SoftTypes
  <1>5. StageInv'
    <2>1. message # NoOrder => list'[message.timer] = Unlisted
      BY <1>0, <1>3, MessageIs DEF StageInv
    <2>2. message # NoOrder <=> daemon' = "apply"
      BY <1>0, <1>1, <1>2 DEF StageInv, Applying
    <2>3. QED
      BY <1>1, <1>2, <2>1, <2>2 DEF StageInv, Applying
  <1>6. ListedInv'
    <2> SUFFICES ASSUME NEW t \in SoftTimers, list'[t] # Unlisted
                 PROVE  Left(t)' <= period[t] /\ Meets(t, Left(t))'
      BY <1>1 DEF ListedInv
    <2>1. /\ list[t] # Unlisted /\ list[t].in = "overflow" /\ list[t].at \in Count
          /\ list'[t] = [in |-> "current", at |-> list[t].at]
      BY <1>3
    <2>2. Shift = Wrap /\ Shift' = 0
      BY <1>1, <1>2 DEF Shift
    <2>3. Wrap \in Nat /\ list[t].at \in Nat /\ lastTime \in Nat
      BY <1>0, <2>1, TimerFacts DEF Count
    <2>4. Left(t)' = Left(t)
      BY <1>1, <2>1, <2>2, <2>3 DEF Left
    <2>5. QED
      BY <1>0, <1>1, <2>1, <2>4 DEF ListedInv, Meets
  <1>7. RestartInv'
    <2> SUFFICES ASSUME NEW t \in SoftTimers, mark[t] = "own", NEW i \in RestartsIn(commands, t)
                 PROVE  /\ GoesOn(t, commands[i].value)' /\ list'[t] = Unlisted /\ message.timer # t
                        /\ \A j \in RestartsIn(commands, t) : i = j
      BY <1>1, <1>2 DEF RestartInv
    <2>1. QED
      BY <1>0, <1>1, <1>3, ZenonT(30) DEF RestartInv, GoesOn
  <1>8. MessageInv' /\ LagInv'
    BY <1>0, <1>1, <1>2 DEF MessageInv, LagInv, GoesOn
  <1>9. OnTheWayInv'
    <2>1. ASSUME NEW t \in SoftTimers, list'[t] = Unlisted PROVE list[t] = Unlisted
      <3> SUFFICES ASSUME list[t] # Unlisted PROVE FALSE
        OBVIOUS
      <3>1. list'[t] = [in |-> "current", at |-> list[t].at]
        BY <1>3
      <3>2. list'[t].in = "current" /\ list'[t].in = "none"
        BY <2>1, <3>1 DEF Unlisted
      <3>3. QED
        BY <3>2
    <2>2. QED
      BY <1>0, <1>1, <2>1 DEF OnTheWayInv
  <1>10. ReloadInv' /\ SleepInv' /\ NeverEarly'
    BY <1>1, <1>2 DEF ReloadInv, SleepInv, NeverEarly, NoCallBack
  <1>11. QED
    BY <1>4, <1>5, <1>6, <1>7, <1>8, <1>9, <1>10 DEF SoftInv

(* A command is taken. A caller's comes before a restart of that timer     *)
(* that waits behind it, and that restart is then not the timer's own any  *)
(* more; no other command is between a timer and its restart.              *)
LEMMA TakeKeeps ==
    ASSUME SoftInv, TakeCommand
    PROVE  SoftInv'
  <1>0. SoftTypes /\ StageInv /\ ListedInv /\ ReloadInv /\ RestartInv /\ MessageInv /\ LagInv
        /\ OnTheWayInv
    BY DEF SoftInv
  <1>1. /\ commands \in Seq(Given) /\ commands # <<>> /\ daemon \in {"commands", "blocked"}
        /\ lastTime' = tick /\ wait' = 0 /\ called' = NoCallBack /\ message' = Head(commands)
        /\ commands' = Tail(commands) /\ list' = [list EXCEPT ![Head(commands).timer] = Unlisted]
        /\ mark' = Overtake(Head(commands), Tail(commands))
        /\ tick' = tick /\ period' = period /\ subject' = subject /\ due' = due
        /\ \/ tick < lastTime /\ daemon' = "switch" /\ back' = "apply"
           \/ tick >= lastTime /\ daemon' = "apply" /\ back' = back
    BY <1>0 DEF TakeCommand, SoftTypes
  <1>2. back = "commands" /\ message = NoOrder
    <2>1. back \in {"commands", "apply"}
      BY <1>0 DEF SoftTypes
    <2>2. QED
      BY <1>0, <1>1, <2>1 DEF StageInv, Applying
  <1>3. PICK c \in Given : c = Head(commands)
    BY <1>1, Taken
  <1>4. PICK t \in SoftTimers : t = c.timer
    BY CommandIs
  <1>5. /\ message' = c /\ c = commands[1] /\ 1 \in DOMAIN commands
        /\ commands' \in Seq(Given)
        /\ \A i \in DOMAIN commands' :
              i \in Nat /\ i + 1 \in DOMAIN commands /\ commands'[i] = commands[i + 1]
        /\ \A u : \A i \in RestartsIn(commands', u) :
              i \in Nat /\ i + 1 # 1 /\ i + 1 \in RestartsIn(commands, u)
                /\ commands'[i] = commands[i + 1]
        /\ \A u : \A i \in RestartsIn(commands, u) : i # 1 => i - 1 \in RestartsIn(commands', u)
    BY <1>1, <1>3, Taken
  <1>6. /\ list' = [list EXCEPT ![t] = Unlisted] /\ list'[t] = Unlisted
        /\ \A u \in SoftTimers : u # t => list'[u] = list[u] /\ mark'[u] = mark[u]
        /\ c.op = "restart" => mark' = mark
        /\ c.op # "restart" => (mark'[t] = "own" => RestartsIn(commands', t) = {})
    <2>1. mark' = IF c.op = "restart" THEN mark
                  ELSE [mark EXCEPT ![t] = IF \E i \in DOMAIN commands' :
                           commands'[i].op = "restart" /\ commands'[i].timer = t
                           THEN "overtaken" ELSE "own"]
      BY <1>1, <1>3, <1>4 DEF Overtake
    <2>2. list' = [list EXCEPT ![t] = Unlisted]
      BY <1>1, <1>3, <1>4
    <2>3. QED
      BY <1>0, <2>1, <2>2 DEF SoftTypes, RestartsIn
  <1>7. Turns
    BY <1>0, <1>1, SoftFacts DEF Turns, SoftTypes, Count
  <1>8. tick \in Count /\ Passed(tick, tick) = 0 /\ Lag \in Nat
        /\ \A v \in Count : Passed(v, tick) \in Nat
    <2>1. tick \in Count /\ tick \in Nat /\ Wrap \in Nat /\ Lag \in Nat
      BY <1>0, SoftFacts DEF SoftTypes, Count
    <2>2. \A v \in Count : Passed(v, tick) \in Count
      BY <1>0, RoundWords
    <2>3. Passed(tick, tick) = 0
      BY <2>1 DEF Passed
    <2>4. QED
      BY <2>1, <2>2, <2>3 DEF Count
  <1>9. SoftTypes'
    <2>1. list' \in [SoftTimers -> {Unlisted} \cup Spot]
      BY <1>0, <1>6 DEF SoftTypes
    <2>2. mark' \in [SoftTimers -> {"own", "overtaken", "revived"}]
      BY <1>0, <1>1, <1>3, <1>4 DEF Overtake, SoftTypes
    <2>3. wait' \in 0 .. Wrap
      BY <1>1, SoftFacts
    <2>4. QED
      BY <1>0, <1>1, <1>2, <1>5, <2>1, <2>2, <2>3 DEF SoftTypes
  <1>10. StageInv'
    <2>1. c # NoOrder
      BY CommandIs
    <2>2. QED
      BY <1>1, <1>2, <1>4, <1>5, <1>6, <2>1 DEF StageInv, Applying
  <1>11. ListedInv'
    <2> SUFFICES ASSUME NEW u \in SoftTimers, list'[u] # Unlisted
                 PROVE  Left(u)' <= period'[u] /\ Meets(u, Left(u))'
      BY DEF ListedInv
    <2>1. u # t /\ list'[u] = list[u] /\ mark'[u] = mark[u]
      BY <1>6
    <2>2. QED
      BY <1>0, <1>7, <2>1, TurnKeeps
  <1>12. RestartInv'
    <2> SUFFICES ASSUME NEW u \in SoftTimers, mark'[u] = "own", NEW i \in RestartsIn(commands', u)
                 PROVE  /\ GoesOn(u, commands[i].value)' /\ list'[u] = Unlisted /\ c.timer # u
                        /\ \A j \in RestartsIn(commands', u) : i = j
      <3>1. daemon' # "reload" /\ message' = c
        BY <1>1, <1>3
      <3>2. QED
        BY <3>1 DEF RestartInv
    <2>1. mark[u] = "own" /\ (u = t => c.op = "restart")
      BY <1>6
    <2>2. /\ i \in Nat /\ i + 1 # 1 /\ i + 1 \in RestartsIn(commands, u)
          /\ commands'[i] = commands[i + 1]
      BY <1>5
    <2>3. /\ GoesOn(u, commands[i + 1].value) /\ list[u] = Unlisted
          /\ \A j \in RestartsIn(commands, u) : i + 1 = j
      BY <1>0, <2>1, <2>2 DEF RestartInv
    <2>4. u # t
      <3>1. u = t => 1 \in RestartsIn(commands, u)
        BY <1>4, <1>5, <2>1 DEF RestartsIn
      <3>2. QED
        BY <2>2, <2>3, <3>1
    <2>5. ASSUME NEW j \in RestartsIn(commands', u) PROVE i = j
      <3>1. j \in Nat /\ j + 1 \in RestartsIn(commands, u)
        BY <1>5
      <3>2. QED
        BY <2>2, <2>3, <3>1
    <2>6. GoesOn(u, commands[i].value)'
      BY <1>1, <2>2, <2>3 DEF GoesOn
    <2>7. QED
      BY <1>4, <1>6, <2>3, <2>4, <2>5, <2>6
  <1>13. MessageInv'
    <2> SUFFICES ASSUME mark'[t] = "own", c.op = "restart"
                 PROVE  GoesOn(t, c.value)' /\ Passed(tick, tick) <= Passed(c.value, tick)
      BY <1>1, <1>4, <1>5 DEF MessageInv
    <2>1. mark[t] = "own" /\ 1 \in RestartsIn(commands, t)
      BY <1>4, <1>5, <1>6 DEF RestartsIn
    <2>2. GoesOn(t, c.value)
      BY <1>0, <1>5, <2>1 DEF RestartInv
    <2>3. c.value \in Count
      BY CommandIs
    <2>4. QED
      BY <1>1, <1>8, <2>2, <2>3 DEF GoesOn
  <1>14. LagInv'
    <2>1. c.op = "start" => Passed(c.value, tick) <= Lag /\ c.value \in Count
      BY <1>0, <1>5, CommandIs DEF LagInv
    <2>2. \A i \in DOMAIN commands' :
             commands'[i].op = "start" => Passed(commands'[i].value, tick) <= Lag
      BY <1>0, <1>5 DEF LagInv
    <2>3. QED
      BY <1>1, <1>5, <1>8, <2>1, <2>2 DEF LagInv
  <1>15. OnTheWayInv'
    <2> SUFFICES ASSUME NEW u \in SoftTimers, due[u] # NotDue, list'[u] = Unlisted, u # t
                 PROVE  RestartsIn(commands', u) # {}
      BY <1>1, <1>4, <1>5 DEF OnTheWayInv
    <2>1. list[u] = Unlisted /\ message.timer # u
      BY <1>2, <1>6, SoftFacts DEF NoOrder
    <2>2. PICK i \in RestartsIn(commands, u) : TRUE
      BY <1>0, <1>1, <2>1 DEF OnTheWayInv
    <2>3. i # 1
      BY <1>4, <1>5, <2>2 DEF RestartsIn
    <2>4. QED
      BY <1>5, <2>2, <2>3
  <1>16. ReloadInv' /\ SleepInv' /\ NeverEarly'
    BY <1>1 DEF ReloadInv, SleepInv, NeverEarly, NoCallBack
  <1>17. QED
    BY <1>9, <1>10, <1>11, <1>12, <1>13, <1>14, <1>15, <1>16 DEF SoftInv

(* While a command is carried out, every timer but the command's is as it  *)
(* was.                                                                    *)
Apart(t) ==
    /\ daemon \in {"apply", "restart"} /\ t = message.timer
    /\ daemon' \in {"restart", "commands"} /\ message' \in {message, NoOrder}
    /\ tick' = tick /\ lastTime' = lastTime
    /\ \A u \in SoftTimers : u # t =>
          /\ list'[u] = list[u] /\ due'[u] = due[u] /\ period'[u] = period[u] /\ mark'[u] = mark[u]
          /\ RestartsIn(commands', u) = RestartsIn(commands, u)
    /\ \A i \in DOMAIN commands : i \in DOMAIN commands' /\ commands'[i] = commands[i]

LEMMA ApartKeeps ==
    ASSUME SoftTypes, StageInv, ListedInv, RestartInv, OnTheWayInv,
           NEW t \in SoftTimers, Apart(t)
    PROVE  /\ Shift = 0 /\ Shift' = 0 /\ list[t] = Unlisted /\ back = "commands"
           /\ mark[t] = "own" => RestartsIn(commands, t) = {}
           /\ (list'[t] # Unlisted => Left(t)' <= period'[t] /\ Meets(t, Left(t))') => ListedInv'
           /\ (mark'[t] = "own" => \A i \in RestartsIn(commands', t) :
                  /\ GoesOn(t, commands[i].value)' /\ list'[t] = Unlisted /\ message'.timer # t
                  /\ \A j \in RestartsIn(commands', t) : i = j) => RestartInv'
           /\ (due'[t] # NotDue /\ list'[t] = Unlisted =>
                  message'.timer = t \/ RestartsIn(commands', t) # {}) => OnTheWayInv'
           /\ ReloadInv' /\ SleepInv'
  <1>1. Shift = 0 /\ Shift' = 0 /\ daemon' \notin {"switch", "reload", "blocked"}
    BY DEF Apart, Shift
  <1>2. list[t] = Unlisted /\ back = "commands"
    BY SoftFacts DEF Apart, StageInv, Applying, NoOrder, SoftTypes
  <1>3. mark[t] = "own" => RestartsIn(commands, t) = {}
    BY DEF Apart, RestartInv
  <1>4. ASSUME list'[t] # Unlisted => Left(t)' <= period'[t] /\ Meets(t, Left(t))'
        PROVE  ListedInv'
    <2> SUFFICES ASSUME NEW u \in SoftTimers, list'[u] # Unlisted, u # t
                 PROVE  Left(u)' <= period'[u] /\ Meets(u, Left(u))'
      BY <1>4 DEF ListedInv
    <2>1. Left(u)' = Left(u)
      BY <1>1 DEF Apart, Left
    <2>2. QED
      BY <2>1 DEF Apart, ListedInv, Meets
  <1>5. ASSUME mark'[t] = "own" => \A i \in RestartsIn(commands', t) :
                  /\ GoesOn(t, commands[i].value)' /\ list'[t] = Unlisted /\ message'.timer # t
                  /\ \A j \in RestartsIn(commands', t) : i = j
        PROVE  RestartInv'
    <2> SUFFICES ASSUME NEW u \in SoftTimers, mark'[u] = "own", NEW i \in RestartsIn(commands', u), u # t
                 PROVE  /\ GoesOn(u, commands[i].value)' /\ list'[u] = Unlisted /\ message'.timer # u
                        /\ \A j \in RestartsIn(commands', u) : i = j
      BY <1>1, <1>5 DEF RestartInv
    <2>1. i \in RestartsIn(commands, u) /\ commands'[i] = commands[i] /\ mark[u] = "own"
      BY DEF Apart, RestartsIn
    <2>2. message'.timer # u
      BY SoftFacts DEF Apart, NoOrder
    <2>3. QED
      BY <2>1, <2>2 DEF Apart, RestartInv, GoesOn
  <1>6. ASSUME due'[t] # NotDue /\ list'[t] = Unlisted =>
                  message'.timer = t \/ RestartsIn(commands', t) # {}
        PROVE  OnTheWayInv'
    <2> SUFFICES ASSUME NEW u \in SoftTimers, due'[u] # NotDue, list'[u] = Unlisted, u # t
                 PROVE  RestartsIn(commands', u) # {}
      BY <1>6 DEF OnTheWayInv
    <2>1. due[u] # NotDue /\ list[u] = Unlisted /\ message.timer # u /\ daemon # "reload"
      BY DEF Apart
    <2>2. QED
      BY <2>1 DEF Apart, OnTheWayInv
  <1>7. ReloadInv' /\ SleepInv'
    BY <1>1 DEF ReloadInv, SleepInv
  <1>8. QED
    BY <1>1, <1>2, <1>3, <1>4, <1>5, <1>6, <1>7

(* A stop.                                                                 *)
LEMMA StopKeeps ==
    ASSUME SoftInv, ApplyStop
    PROVE  SoftInv'
  <1>0. SoftTypes /\ StageInv /\ ListedInv /\ ReloadInv /\ RestartInv /\ MessageInv /\ LagInv
        /\ OnTheWayInv
    BY DEF SoftInv
  <1>1. /\ daemon = "apply" /\ message.op = "stop" /\ daemon' = "commands" /\ message' = NoOrder
        /\ due' = [due EXCEPT ![message.timer] = NotDue] /\ called' = NoCallBack
        /\ tick' = tick /\ lastTime' = lastTime /\ list' = list /\ period' = period /\ back' = back
        /\ subject' = subject /\ wait' = wait /\ commands' = commands /\ mark' = mark
    BY DEF ApplyStop, lists, place
  <1>2. PICK t \in SoftTimers : t = message.timer
    BY <1>0, <1>1, MessageIs
  <1>3. due' = [due EXCEPT ![t] = NotDue] /\ due'[t] = NotDue /\ due \in [SoftTimers -> Int]
    BY <1>0, <1>1, <1>2 DEF SoftTypes
  <1>4. Apart(t)
    BY <1>1, <1>2, <1>3 DEF Apart
  <1>5. list[t] = Unlisted /\ back = "commands" /\ (mark[t] = "own" => RestartsIn(commands, t) = {})
    BY <1>0, <1>4, ApartKeeps
  <1>6. SoftTypes'
    <2>1. due' \in [SoftTimers -> Int] /\ \A u \in SoftTimers : due'[u] >= - Wrap
      <3>1. NotDue \in Int /\ NotDue >= - Wrap
        BY SoftFacts DEF NotDue
      <3>2. \A u \in SoftTimers : due[u] >= - Wrap
        BY <1>0 DEF SoftTypes
      <3>3. QED
        BY <1>3, <3>1, <3>2
    <2>2. QED
      BY <1>0, <1>1, <2>1 DEF SoftTypes
  <1>7. StageInv' /\ MessageInv' /\ NeverEarly'
    BY <1>1, <1>5 DEF StageInv, Applying, MessageInv, NeverEarly, NoCallBack
  <1>8. ListedInv' /\ RestartInv' /\ OnTheWayInv' /\ ReloadInv' /\ SleepInv'
    BY <1>0, <1>1, <1>3, <1>4, <1>5, ApartKeeps
  <1>9. LagInv'
    BY <1>0, <1>1 DEF LagInv, NoOrder
  <1>10. QED
    BY <1>6, <1>7, <1>8, <1>9 DEF SoftInv

(* A new period, from now on.                                              *)
LEMMA PeriodKeeps ==
    ASSUME SoftInv, ApplyPeriod
    PROVE  SoftInv'
  <1>0. SoftTypes /\ StageInv /\ ListedInv /\ ReloadInv /\ RestartInv /\ MessageInv /\ LagInv
        /\ OnTheWayInv
    BY DEF SoftInv
  <1>1. /\ daemon = "apply" /\ message.op = "period" /\ daemon' = "commands" /\ message' = NoOrder
        /\ called' = NoCallBack /\ tick' = tick /\ lastTime' = lastTime /\ back' = back
        /\ subject' = subject /\ wait' = wait /\ commands' = commands /\ mark' = mark
    BY DEF ApplyPeriod, place
  <1>2. PICK t \in SoftTimers : t = message.timer
    BY <1>0, <1>1, MessageIs
  <1>3. PICK p \in Periods : p = message.value
    BY <1>0, <1>1, MessageIs, CommandIs
  <1> DEFINE next == Plus(lastTime, p)
             l == IF next <= lastTime THEN "overflow" ELSE "current"
             gone == Passed(lastTime, tick)
  <1>4. /\ period' = [period EXCEPT ![t] = p] /\ due' = [due EXCEPT ![t] = p - Since(lastTime)]
        /\ list' = [list EXCEPT ![t] = [in |-> l, at |-> next]]
    BY <1>1, <1>2, <1>3 DEF ApplyPeriod, Put
  <1>5. /\ Wrap \in Nat /\ Lag \in Nat /\ lastTime \in Count /\ lastTime \in Nat /\ lastTime < Wrap
        /\ p \in Nat /\ p >= 1 /\ p + Lag < Wrap /\ p \in 0 .. Wrap
    BY <1>0, SoftFacts DEF SoftTypes, Count
  <1>6. Since(lastTime) = gone /\ gone \in Nat /\ gone <= Lag
    BY <1>0, <1>1, <1>5, RoundWords DEF LagInv, Count
  <1>7. next \in Count /\ next = IF lastTime + p < Wrap THEN lastTime + p ELSE lastTime + p - Wrap
    BY <1>0, <1>5, RoundWords DEF Ahead
  <1> HIDE DEF next, gone
  <1>8. /\ list'[t] = [in |-> l, at |-> next] /\ list'[t] # Unlisted
        /\ due'[t] = p - gone /\ period'[t] = p
        /\ \A u \in SoftTimers : u # t =>
              list'[u] = list[u] /\ due'[u] = due[u] /\ period'[u] = period[u]
    BY <1>0, <1>4, <1>6 DEF SoftTypes, Unlisted
  <1>9. Apart(t)
    BY <1>1, <1>2, <1>8 DEF Apart
  <1>10. Shift' = 0 /\ back = "commands" /\ (mark[t] = "own" => RestartsIn(commands, t) = {})
    BY <1>0, <1>9, ApartKeeps
  <1>11. SoftTypes'
    <2>1. p - gone \in Int /\ p - gone >= - Wrap
      BY <1>5, <1>6
    <2>2. PICK d \in Int : d >= - Wrap /\ due' = [due EXCEPT ![t] = d]
      BY <1>4, <1>6, <2>1
    <2>3. due' \in [SoftTimers -> Int] /\ \A u \in SoftTimers : due'[u] >= - Wrap
      BY <1>0, <2>2 DEF SoftTypes
    <2>4. list' \in [SoftTimers -> {Unlisted} \cup Spot]
      BY <1>0, <1>4, <1>7 DEF SoftTypes, Spot
    <2>5. period' \in [SoftTimers -> Periods \cup Delays]
      BY <1>0, <1>4 DEF SoftTypes
    <2>6. QED
      BY <1>0, <1>1, <2>3, <2>4, <2>5 DEF SoftTypes
  <1>12. Left(t)' = p /\ Meets(t, Left(t))'
    <2>1. Left(t)' = p
      BY <1>1, <1>5, <1>7, <1>8, <1>10 DEF Left
    <2>2. due'[t] # NotDue /\ gone + due'[t] = p
      BY <1>5, <1>6, <1>8 DEF NotDue
    <2>3. gone = Passed(lastTime, tick)'
      BY <1>1 DEF gone
    <2>4. QED
      BY <1>5, <2>1, <2>2, <2>3 DEF Meets
  <1>13. StageInv' /\ MessageInv' /\ NeverEarly'
    BY <1>1, <1>10 DEF StageInv, Applying, MessageInv, NeverEarly, NoCallBack
  <1>14. ListedInv' /\ RestartInv' /\ OnTheWayInv' /\ ReloadInv' /\ SleepInv'
    <2>1. Left(t)' <= period'[t]
      BY <1>5, <1>8, <1>12
    <2>2. QED
      BY <1>0, <1>1, <1>8, <1>9, <1>10, <1>12, <2>1, ApartKeeps
  <1>15. LagInv'
    BY <1>0, <1>1 DEF LagInv, NoOrder
  <1>16. QED
    BY <1>11, <1>13, <1>14, <1>15 DEF SoftInv

(* A periodic timer that was late when it was started has been called      *)
(* back, and its restart is sent.                                          *)
LEMMA RestartsKeeps ==
    ASSUME SoftInv, ApplyRestarts
    PROVE  SoftInv'
  <1>0. SoftTypes /\ StageInv /\ ListedInv /\ ReloadInv /\ RestartInv /\ MessageInv /\ LagInv
        /\ OnTheWayInv
    BY DEF SoftInv
  <1>1. /\ daemon = "restart" /\ daemon' = "commands" /\ message' = NoOrder /\ called' = NoCallBack
        /\ tick' = tick /\ lastTime' = lastTime /\ list' = list /\ period' = period /\ back' = back
        /\ subject' = subject /\ wait' = wait /\ mark' = mark
    BY DEF ApplyRestarts, lists, place
  <1>2. message \in Given /\ message # NoOrder /\ message.op \in {"start", "restart"}
    BY <1>0, <1>1, MessageIs DEF StageInv, Applying
  <1>3. PICK t \in SoftTimers : t = message.timer
    BY <1>2, CommandIs
  <1>4. PICK v \in Count : v = Ahead(message.value, period[t])
    BY <1>0, <1>2, CommandIs, TimerFacts, RoundWords
  <1>5. Restart(t, v, due[t])
    <2>1. Plus(message.value, period[t]) = v
      BY <1>0, <1>2, <1>4, CommandIs, TimerFacts, RoundWords
    <2>2. QED
      BY <1>3, <2>1 DEF ApplyRestarts
  <1>6. PICK d \in Int : d = due[t]
    BY <1>0 DEF SoftTypes
  <1>7. /\ commands' \in Seq(Given)
        /\ \A i \in DOMAIN commands : i \in DOMAIN commands' /\ commands'[i] = commands[i]
        /\ \A i \in DOMAIN commands' : i \in DOMAIN commands
              \/ (commands'[i].op = "restart" /\ commands'[i].timer = t)
        /\ \A u \in SoftTimers : u # t => RestartsIn(commands', u) = RestartsIn(commands, u)
        /\ RestartsIn(commands, t) = {} =>
              \A i \in RestartsIn(commands', t) :
                 /\ due' = [due EXCEPT ![t] = d] /\ commands'[i].value = v
                 /\ \A j \in RestartsIn(commands', t) : i = j
        /\ \/ due' = [due EXCEPT ![t] = NotDue]
           \/ due' = [due EXCEPT ![t] = d] /\ RestartsIn(commands', t) # {}
    BY <1>0, <1>5, <1>6, RestartIs
  <1>8. /\ due' \in [SoftTimers -> Int] /\ \A u \in SoftTimers : due'[u] >= - Wrap
        /\ \A u \in SoftTimers : u # t => due'[u] = due[u]
    <2>1. Wrap \in Nat /\ due[t] >= - Wrap
      BY <1>0, TimerFacts
    <2>2. PICK e \in Int : e >= - Wrap /\ due' = [due EXCEPT ![t] = e]
      BY <1>6, <1>7, <2>1 DEF NotDue
    <2>3. due \in [SoftTimers -> Int] /\ \A u \in SoftTimers : due[u] >= - Wrap
      BY <1>0 DEF SoftTypes
    <2>4. QED
      BY <2>2, <2>3
  <1>9. Apart(t)
    BY <1>1, <1>3, <1>7, <1>8 DEF Apart
  <1>10. list[t] = Unlisted /\ back = "commands" /\ (mark[t] = "own" => RestartsIn(commands, t) = {})
    BY <1>0, <1>9, ApartKeeps
  <1>11. SoftTypes'
    BY <1>0, <1>1, <1>7, <1>8 DEF SoftTypes
  <1>12. ASSUME mark[t] = "own", NEW i \in RestartsIn(commands', t)
         PROVE  /\ GoesOn(t, commands[i].value)' /\ message'.timer # t
                /\ \A j \in RestartsIn(commands', t) : i = j
    <2>1. /\ due' = [due EXCEPT ![t] = d] /\ commands'[i].value = v
          /\ \A j \in RestartsIn(commands', t) : i = j
      BY <1>7, <1>10, <1>12
    <2>2. GoesOn(t, v)
      BY <1>0, <1>1, <1>2, <1>3, <1>4, <1>12 DEF MessageInv
    <2>3. due'[t] = due[t]
      BY <1>0, <1>6, <2>1 DEF SoftTypes
    <2>4. GoesOn(t, commands[i].value)'
      BY <1>1, <2>1, <2>2, <2>3 DEF GoesOn
    <2>5. QED
      BY <1>1, <2>1, <2>4, SoftFacts DEF NoOrder
  <1>13. due'[t] # NotDue => RestartsIn(commands', t) # {}
    BY <1>0, <1>7 DEF SoftTypes
  <1>14. ListedInv' /\ RestartInv' /\ OnTheWayInv' /\ ReloadInv' /\ SleepInv'
    BY <1>0, <1>1, <1>9, <1>10, <1>12, <1>13, ApartKeeps
  <1>15. StageInv' /\ MessageInv' /\ NeverEarly'
    BY <1>1, <1>10 DEF StageInv, Applying, MessageInv, NeverEarly, NoCallBack
  <1>16. LagInv'
    BY <1>0, <1>1, <1>7 DEF LagInv, NoOrder
  <1>17. QED
    BY <1>11, <1>14, <1>15, <1>16 DEF SoftInv

(* What a start or a restart from v leaves of the period, when the count   *)
(* was at lastTime and is at tick: it may have gone round since v only for *)
(* a restart that is not the timer's own any more.                         *)
LEMMA LeftIs ==
    ASSUME NEW v \in Count, NEW last \in Count, NEW now \in Count, NEW p \in Nat, p >= 1, p < Wrap
    PROVE  /\ p - Passed(v, now) \in Int /\ p - Passed(v, now) > - Wrap
           /\ Passed(last, now) + p - Passed(v, now)
                \in {p - Passed(v, last), p - Passed(v, last) + Wrap}
           /\ Passed(last, now) <= Passed(v, now) =>
                 /\ Passed(last, now) + p - Passed(v, now) = p - Passed(v, last)
                 /\ Passed(v, last) >= p =>
                       Passed(v, now) >= p /\ Passed(Ahead(v, p), now) = Passed(v, now) - p
  <1>1. /\ Wrap \in Nat /\ v \in Nat /\ v < Wrap /\ last \in Nat /\ last < Wrap
        /\ now \in Nat /\ now < Wrap
    BY SoftFacts DEF Count
  <1> DEFINE s == Passed(v, last)
             g == Passed(last, now)
             e == Passed(v, now)
  <1>2. /\ s = IF v <= last THEN last - v ELSE last - v + Wrap
        /\ g = IF last <= now THEN now - last ELSE now - last + Wrap
        /\ e = IF v <= now THEN now - v ELSE now - v + Wrap
    BY DEF Passed
  <1> HIDE DEF s, g, e
  <1>3. s \in Nat /\ s < Wrap /\ g \in Nat /\ g < Wrap /\ e \in Nat /\ e < Wrap
    BY <1>1, <1>2
  <1>4. e = s + g \/ (e = s + g - Wrap /\ e < g)
    BY <1>1, <1>2, <1>3
  <1>5. ASSUME g <= e, s >= p
        PROVE  e >= p /\ Passed(Ahead(v, p), now) = e - p
    <2>1. e >= p
      BY <1>3, <1>4, <1>5
    <2> DEFINE a == Ahead(v, p)
    <2>2. a = IF v + p < Wrap THEN v + p ELSE v + p - Wrap
      BY DEF Ahead
    <2>3. Passed(a, now) = IF a <= now THEN now - a ELSE now - a + Wrap
      BY DEF Passed
    <2> HIDE DEF a
    <2>4. Passed(a, now) = e - p
      BY <1>1, <1>2, <2>1, <2>2, <2>3
    <2>5. QED
      BY <2>1, <2>4 DEF a
  <1>6. /\ p - e \in Int /\ p - e > - Wrap /\ g + p - e \in {p - s, p - s + Wrap}
        /\ g <= e => g + p - e = p - s
    BY <1>1, <1>3, <1>4
  <1>7. QED
    BY <1>5, <1>6 DEF s, g, e

(* A start or a restart: put into a list, or called back at once.          *)
LEMMA StartKeeps ==
    ASSUME SoftInv, ApplyStart
    PROVE  SoftInv'
  <1>0. SoftTypes /\ StageInv /\ ListedInv /\ ReloadInv /\ RestartInv /\ MessageInv /\ LagInv
        /\ OnTheWayInv
    BY DEF SoftInv
  <1>1. /\ daemon = "apply" /\ message.op \in {"start", "restart"}
        /\ tick' = tick /\ lastTime' = lastTime /\ period' = period /\ back' = back
        /\ subject' = subject /\ wait' = wait /\ commands' = commands
    BY DEF ApplyStart, place
  <1>2. message \in Given /\ message # NoOrder
    BY <1>0, <1>1, MessageIs
  <1>3. PICK t \in SoftTimers : t = message.timer
    BY <1>2, CommandIs
  <1>4. PICK v \in Count : v = message.value
    BY <1>1, <1>2, CommandIs
  <1>5. /\ Wrap \in Nat /\ tick \in Count /\ lastTime \in Count /\ lastTime \in Nat
        /\ period[t] \in Nat /\ period[t] >= 1 /\ period[t] < Wrap
    BY <1>0, TimerFacts DEF Count
  <1> DEFINE p == period[t]
             s == Passed(v, lastTime)
             g == Passed(lastTime, tick)
             e == Passed(v, tick)
             next == Plus(v, period[t])
             l == ListFor(t, v)
  <1>6. Since(v) = e /\ s \in Nat /\ g \in Nat /\ e \in Nat
    <2>1. Since(v) = e /\ e \in Count /\ g \in Count
      BY <1>0, <1>5, RoundWords
    <2>2. s \in Count
      BY <1>5, RoundIs
    <2>3. QED
      BY <2>1, <2>2 DEF Count
  <1>7. mark[t] = "own" => g <= e /\ (message.op = "restart" => due[t] = p - e)
    <2>1. CASE message.op = "start"
      BY <1>0, <1>3, <1>4, <2>1 DEF LagInv
    <2>2. ASSUME message.op = "restart", mark[t] = "own" PROVE g <= e /\ due[t] = p - e
      <3>1. GoesOn(t, v) /\ g <= e
        BY <1>0, <1>1, <1>2, <1>3, <1>4, <2>2 DEF MessageInv
      <3>2. e + due[t] = p /\ due[t] \in Int
        BY <1>0, <3>1 DEF GoesOn, SoftTypes
      <3>3. QED
        BY <1>5, <1>6, <3>1, <3>2
    <2>3. QED
      BY <1>1, <2>1, <2>2
  <1> DEFINE d == IF message.op = "restart" /\ mark[t] = "own" THEN due[t]
                  ELSE period[t] - Since(v)
  <1>8. d = p - e
    BY <1>6, <1>7
  <1>9. /\ Put(t, l, next)
        /\ mark' = IF message.op = "restart" /\ mark[t] = "overtaken" /\ due[t] = NotDue
                   THEN [mark EXCEPT ![t] = "revived"] ELSE mark
        /\ \/ /\ l = "now" /\ CallBack(t, p - e, IF t \in AutoReload THEN "restart" ELSE "commands")
              /\ due' = [due EXCEPT ![t] = NextDue(t, p - e)]
              /\ message' = IF t \in AutoReload THEN message ELSE NoOrder
           \/ /\ l # "now" /\ daemon' = "commands" /\ due' = [due EXCEPT ![t] = p - e]
              /\ message' = NoOrder /\ called' = NoCallBack
    BY <1>3, <1>4, <1>8 DEF ApplyStart, ListFor
  <1>10. /\ next \in Count
         /\ \/ l = "now" /\ s >= p
            \/ l = "current" /\ s < p /\ next = lastTime + p - s
            \/ l = "overflow" /\ s < p /\ next = lastTime + p - s - Wrap
    BY <1>0, ListForIs
  <1>11. /\ p - e \in Int /\ p - e > - Wrap /\ g + p - e \in {p - s, p - s + Wrap}
         /\ g <= e => /\ g + p - e = p - s
                      /\ s >= p => e >= p /\ Passed(Ahead(v, p), tick) = e - p
    BY <1>5, LeftIs
  <1> HIDE DEF p, s, g, e, next, l, d
  <1>12. p = period[t] /\ p \in Nat /\ p >= 1 /\ p < Wrap
    BY <1>5 DEF p
  <1>13. list' = [list EXCEPT ![t] = IF l = "now" THEN Unlisted ELSE [in |-> l, at |-> next]]
    BY <1>9 DEF Put
  <1>14. /\ list'[t] = IF l = "now" THEN Unlisted ELSE [in |-> l, at |-> next]
         /\ due'[t] = IF l = "now" THEN NextDue(t, p - e) ELSE p - e
         /\ \A u \in SoftTimers : u # t => list'[u] = list[u] /\ due'[u] = due[u] /\ mark'[u] = mark[u]
         /\ mark'[t] = "own" => mark[t] = "own"
    BY <1>0, <1>9, <1>13 DEF SoftTypes
  <1>15. /\ daemon' = IF l = "now" /\ t \in AutoReload THEN "restart" ELSE "commands"
         /\ message' = IF l = "now" /\ t \in AutoReload THEN message ELSE NoOrder
         /\ called' = IF l = "now" THEN [timer |-> t, isDue |-> p - e <= 0] ELSE NoCallBack
    BY <1>9 DEF CallBack
  <1>16. NextDue(t, p - e) = (IF t \in AutoReload THEN p - e + p ELSE NotDue)
    BY <1>12 DEF NextDue
  <1>17. Apart(t)
    BY <1>1, <1>3, <1>14, <1>15 DEF Apart
  <1>18. /\ Shift' = 0 /\ list[t] = Unlisted /\ back = "commands"
         /\ mark[t] = "own" => RestartsIn(commands, t) = {}
    BY <1>0, <1>17, ApartKeeps
  <1>19. SoftTypes'
    <2>1. due' \in [SoftTimers -> Int] /\ \A u \in SoftTimers : due'[u] >= - Wrap
      <3>1. NextDue(t, p - e) \in Int /\ NextDue(t, p - e) >= - Wrap
        BY <1>5, <1>11, <1>12, <1>16 DEF NotDue
      <3>2. PICK x \in Int : x >= - Wrap /\ due' = [due EXCEPT ![t] = x]
        BY <1>5, <1>9, <1>11, <3>1
      <3>3. due \in [SoftTimers -> Int] /\ \A u \in SoftTimers : due[u] >= - Wrap
        BY <1>0 DEF SoftTypes
      <3>4. QED
        BY <3>2, <3>3
    <2>2. list' \in [SoftTimers -> {Unlisted} \cup Spot]
      <3>1. list'[t] \in {Unlisted} \cup Spot
        BY <1>10, <1>14 DEF Spot
      <3>2. QED
        BY <1>0, <1>13, <1>14, <3>1 DEF SoftTypes
    <2>3. mark' \in [SoftTimers -> {"own", "overtaken", "revived"}]
      BY <1>0, <1>9 DEF SoftTypes
    <2>4. daemon' \in {"restart", "commands"} /\ message' \in Given \cup {NoOrder}
      BY <1>2, <1>15
    <2>5. QED
      BY <1>0, <1>1, <2>1, <2>2, <2>3, <2>4 DEF SoftTypes
  <1>20. StageInv'
    BY <1>1, <1>2, <1>3, <1>14, <1>15, <1>18 DEF StageInv, Applying
  <1>21. list'[t] # Unlisted => Left(t)' <= period'[t] /\ Meets(t, Left(t))'
    <2> SUFFICES ASSUME l # "now"
                 PROVE  Left(t)' <= period'[t] /\ Meets(t, Left(t))'
      BY <1>14
    <2>1. /\ list'[t] = [in |-> l, at |-> next] /\ due'[t] = p - e /\ due'[t] # NotDue
      BY <1>5, <1>11, <1>14 DEF NotDue
    <2>2. Left(t)' = p - s
      BY <1>1, <1>5, <1>6, <1>10, <1>12, <1>18, <2>1 DEF Left, s
    <2>3. /\ g + due'[t] \in {p - s, p - s + Wrap} /\ (mark'[t] = "own" => g + due'[t] = p - s)
      BY <1>6, <1>7, <1>11, <1>12, <1>14, <2>1 DEF g, e, s
    <2>4. g = Passed(lastTime, tick)' /\ period'[t] = p
      BY <1>1 DEF g, p
    <2>5. p - s <= p
      BY <1>6, <1>12 DEF s
    <2>6. QED
      BY <2>1, <2>2, <2>3, <2>4, <2>5 DEF Meets
  <1>22. ListedInv' /\ RestartInv' /\ OnTheWayInv' /\ ReloadInv' /\ SleepInv'
    <2>1. due'[t] # NotDue /\ list'[t] = Unlisted =>
             message'.timer = t \/ RestartsIn(commands', t) # {}
      <3> SUFFICES ASSUME due'[t] # NotDue, list'[t] = Unlisted PROVE message'.timer = t
        OBVIOUS
      <3>1. l = "now"
        BY <1>10, <1>14 DEF Unlisted
      <3>2. QED
        BY <1>3, <1>14, <1>15, <1>16, <3>1
    <2>2. mark'[t] = "own" => RestartsIn(commands', t) = {}
      BY <1>1, <1>14, <1>18
    <2>3. QED
      BY <1>0, <1>17, <1>21, <2>1, <2>2, ApartKeeps
  <1>23. MessageInv'
    <2> SUFFICES ASSUME l = "now", t \in AutoReload, mark'[t] = "own"
                 PROVE  GoesOn(t, Ahead(v, period[t]))'
      BY <1>1, <1>3, <1>4, <1>15 DEF MessageInv
    <2>1. s >= p
      BY <1>10
    <2>2. g <= e /\ e >= p /\ Passed(Ahead(v, p), tick) = e - p
      BY <1>7, <1>11, <1>14, <2>1
    <2>3. due'[t] = p - e + p
      BY <1>14, <1>16
    <2>4. e \in Int
      BY <1>6 DEF e
    <2>5. due'[t] # NotDue /\ Passed(Ahead(v, p), tick) + due'[t] = p
      BY <1>5, <1>11, <1>12, <2>2, <2>3, <2>4 DEF NotDue
    <2>6. QED
      BY <1>1, <1>12, <2>5 DEF GoesOn
  <1>24. LagInv'
    BY <1>0, <1>1, <1>15 DEF LagInv, NoOrder
  <1>25. NeverEarly'
    <2> SUFFICES ASSUME l = "now", mark[t] = "own" PROVE p - e <= 0
      BY <1>14, <1>15 DEF NeverEarly, NoCallBack
    <2>1. e >= p
      BY <1>7, <1>10, <1>11
    <2>2. QED
      BY <1>6, <1>12, <2>1 DEF e
  <1>26. QED
    BY <1>19, <1>20, <1>22, <1>23, <1>24, <1>25 DEF SoftInv

LEMMA SoftInitHolds == WInit => SoftInv
  <1> SUFFICES ASSUME WInit PROVE SoftInv
    OBVIOUS
  <1>1. /\ tick \in Count /\ lastTime \in Count /\ list = [t \in SoftTimers |-> Unlisted]
        /\ period \in [SoftTimers -> Periods \cup Delays]
        /\ daemon = "commands" /\ back = "commands" /\ subject = NoTimer /\ wait = 0
        /\ commands = <<>> /\ message = NoOrder
        /\ due = [t \in SoftTimers |-> NotDue] /\ mark = [t \in SoftTimers |-> "own"]
        /\ called = NoCallBack
    BY DEF WInit, Count
  <1>2. \A t : RestartsIn(commands, t) = {}
    <2>1. commands = <<>>
      BY <1>1
    <2>2. QED
      BY <2>1 DEF RestartsIn
  <1>3. SoftTypes
    BY <1>1, SoftFacts DEF SoftTypes, NotDue
  <1>4. StageInv /\ ListedInv /\ ReloadInv /\ MessageInv /\ LagInv
    BY <1>1 DEF StageInv, Applying, ListedInv, ReloadInv, MessageInv, LagInv, NoOrder
  <1>5. RestartInv /\ OnTheWayInv /\ SleepInv /\ NeverEarly
    BY <1>1, <1>2 DEF RestartInv, OnTheWayInv, SleepInv, NeverEarly, NoCallBack
  <1>6. QED
    BY <1>3, <1>4, <1>5 DEF SoftInv

(* With no timer there is only the tick count.                             *)
LEMMA EmptyTickKeeps ==
    ASSUME SoftInv, Tick, SoftTimers = {}
    PROVE  SoftInv'
  <1>0. SoftTypes /\ StageInv
    BY DEF SoftInv
  <1>1. /\ tick' = Plus(tick, 1)
        /\ due' = [t \in SoftTimers |-> IF due[t] = NotDue THEN NotDue ELSE due[t] - 1]
        /\ wait' = IF wait \in {0, Forever} THEN wait ELSE wait - 1
        /\ called' = NoCallBack /\ lastTime' = lastTime /\ list' = list /\ period' = period
        /\ daemon' = daemon /\ back' = back /\ subject' = subject /\ commands' = commands
        /\ message' = message /\ mark' = mark
    BY DEF Tick, lists, place, queue
  <1>2. Given = {} /\ message = NoOrder
    BY <1>0 DEF Given, SoftTypes
  <1>3. \A i \in DOMAIN commands : FALSE
    <2>1. commands \in Seq(Given)
      BY <1>0 DEF SoftTypes
    <2>2. \A i \in DOMAIN commands : commands[i] \in Given
      BY <2>1
    <2>3. QED
      BY <1>2, <2>2
  <1>4. tick' \in Count
    <2>1. Wrap \in Nat /\ tick \in Nat /\ Wrap >= 1
      BY <1>0, SoftFacts DEF SoftTypes, Count
    <2>2. 1 \in 0 .. Wrap
      BY <2>1
    <2>3. QED
      BY <1>0, <1>1, <2>2, RoundWords DEF SoftTypes
  <1>5. wait' \in 0 .. Wrap
    BY <1>0, <1>1, SoftFacts DEF SoftTypes, Forever
  <1>6. SoftTypes'
    <2>1. due' \in [SoftTimers -> Int]
      BY <1>1
    <2>2. QED
      BY <1>0, <1>1, <1>4, <1>5, <2>1 DEF SoftTypes
  <1>7. StageInv'
    BY <1>0, <1>1 DEF StageInv, Applying
  <1>8. ListedInv' /\ RestartInv' /\ OnTheWayInv' /\ SleepInv'
    BY DEF ListedInv, RestartInv, OnTheWayInv, SleepInv
  <1>9. ReloadInv' /\ MessageInv' /\ NeverEarly'
    BY <1>1, <1>2, SoftFacts DEF ReloadInv, MessageInv, NeverEarly, NoCallBack
  <1>10. LagInv'
    BY <1>1, <1>2, <1>3 DEF LagInv, NoOrder
  <1>11. QED
    BY <1>6, <1>7, <1>8, <1>9, <1>10 DEF SoftInv

(* Every step keeps the invariant.                                         *)
LEMMA SoftStepKeeps == SoftInv /\ [WNext]_wvars => SoftInv'
  <1> SUFFICES ASSUME SoftInv, [WNext]_wvars PROVE SoftInv'
    OBVIOUS
  <1>1. ASSUME NEW t \in SoftTimers, xTimerGenericCommand(t) PROVE SoftInv'
    BY <1>1, CommandKeeps
  <1>2. CASE Tick
    BY <1>2, TickKeeps, EmptyTickKeeps
  <1>3. CASE NextSwitches \/ (\E t \in SoftTimers : NextExpired(t)) \/ NextBlocks
    BY <1>3, NextKeeps
  <1>4. CASE prvProcessExpiredTimer
    BY <1>4, ExpiredKeeps
  <1>5. ASSUME NEW t \in SoftTimers, SwitchFires(t) PROVE SoftInv'
    BY <1>5, SwitchFiresKeeps
  <1>6. CASE SwitchReloads
    BY <1>6, SwitchReloadsKeeps
  <1>7. CASE SwitchEnds
    BY <1>7, SwitchEndsKeeps
  <1>8. CASE TakeCommand
    BY <1>8, TakeKeeps
  <1>9. CASE ApplyStart
    BY <1>9, StartKeeps
  <1>10. CASE ApplyRestarts
    BY <1>10, RestartsKeeps
  <1>11. CASE ApplyStop
    BY <1>11, StopKeeps
  <1>12. CASE ApplyPeriod
    BY <1>12, PeriodKeeps
  <1>13. CASE UNCHANGED wvars
    BY <1>13 DEF wvars, lists, place, queue, ideal, SoftInv, SoftTypes, StageInv, Applying,
         ListedInv, Left, Shift, Meets, ReloadInv, RestartInv, GoesOn, MessageInv, LagInv,
         OnTheWayInv, SleepInv, NeverEarly
  <1>14. QED
    BY <1>1, <1>2, <1>3, <1>4, <1>5, <1>6, <1>7, <1>8, <1>9, <1>10, <1>11, <1>12, <1>13
      DEF WNext, TimerTask

LEMMA SoftHolds == WSpec => []SoftInv
  BY SoftInitHolds, SoftStepKeeps, PTL DEF WSpec

(* For any timers, periods, queue and tick count: a timer is not called    *)
(* back before it is due, nor twice for one time, wherever the tick count  *)
(* wraps (prvProcessExpiredTimer, prvSwitchTimerLists and                  *)
(* prvProcessReceivedCommands), but for a restart of its own that comes    *)
(* behind a caller's command.                                              *)
THEOREM TimersAreNeverEarly == WSpec => []NeverEarly
  <1>1. SoftInv => NeverEarly
    BY DEF SoftInv
  <1>2. QED
    BY <1>1, SoftHolds, PTL

(* For any timers, periods, queue and tick count: when the timer task      *)
(* sleeps with no command in its queue (prvProcessTimerOrBlockTask), each  *)
(* timer that is due is in a list, and the task wakes in time for it.      *)
THEOREM TaskWakesInTime == WSpec => []NeverSleepsPast
  <1>1. SoftInv => NeverSleepsPast
    BY DEF SoftInv, SleepInv, NeverSleepsPast
  <1>2. QED
    BY <1>1, SoftHolds, PTL
=============================================================================
