------------------------------ MODULE SoftTimer ------------------------------
(***************************************************************************)
(* The software timers of timers.c, which rtos_pub.c gives to the WiFi     *)
(* stack: callers put commands in a queue, and the timer task takes them,  *)
(* keeps the timers in two lists (those that expire before the tick count  *)
(* wraps and those that do after), sleeps until the first, and calls back. *)
(*                                                                         *)
(* Left out: delete, pended function calls, and waiting for room in the    *)
(* queue, for which a callback would wait for ever.                        *)
(***************************************************************************)
EXTENDS Integers, Sequences

CONSTANTS
    SoftTimers, AutoReload,     \* the timers; those that are periodic
    Periods, Delays,    \* the periods of these, and of the others, in ticks
    Wrap,           \* the tick count goes from 0 to Wrap - 1
    Lag,            \* how many ticks a command, or the timer task, may be late
    QueueLength,    \* configTIMER_QUEUE_LENGTH
    NoTimer

ASSUME SoftTimerAssumption ==
    /\ AutoReload \subseteq SoftTimers /\ NoTimer \notin SoftTimers
    /\ Periods \cup Delays \subseteq Nat \ {0} /\ Lag \in Nat /\ QueueLength \in Nat \ {0}
    /\ Wrap \in Nat /\ \A p \in Periods \cup Delays : p + Lag < Wrap

NotDue   == -Wrap       \* for due: the timer is not to expire
Forever  == Wrap        \* for wait: until a command comes
Unlisted == [in |-> "none", at |-> 0]
NoOrder  == [op |-> "none", timer |-> NoTimer, value |-> 0]
NoCallBack == [timer |-> NoTimer, isDue |-> TRUE]

VARIABLES
    tick, lastTime,     \* xTickCount; xLastTime, which is also the xTimeNow in use
    list, period,       \* the list each timer is in and its xItemValue; its period
    daemon, back,       \* where the timer task is, and where it goes on after it has
                        \* switched the lists
    subject,            \* the timer it is at, and when that expired
    wait,               \* how many ticks it still sleeps
    commands, message,  \* xTimerQueue, and the command that was taken
    due,                \* in how many ticks each timer is to expire, by the commands
    mark,               \* of each timer: "own", or what its own restarts did: see Overtake
    called              \* the callback of the last step, and whether it was due

lists == <<list, period>>
place == <<back, subject>>
queue == <<commands, message>>
ideal == <<due, mark, called>>
wvars == <<tick, lastTime, lists, daemon, place, wait, queue, ideal>>

Plus(v, n) == (v + n) % Wrap
Since(v)   == (tick - v) % Wrap
In(l)      == {t \in SoftTimers : list[t].in = l}
Heads(l)   == {t \in In(l) : \A o \in In(l) : list[t].at <= list[o].at}
HasRoom    == Len(commands) < QueueLength
Command(op, t, v) == [op |-> op, timer |-> t, value |-> v]

WInit ==
    /\ tick \in 0 .. Wrap - 1 /\ lastTime \in 0 .. Wrap - 1
    /\ list = [t \in SoftTimers |-> Unlisted]
    /\ period \in [SoftTimers -> Periods \cup Delays]
    /\ \A t \in SoftTimers : period[t] \in IF t \in AutoReload THEN Periods ELSE Delays
    /\ daemon = "commands" /\ back = "commands" /\ subject = NoTimer
    /\ wait = 0 /\ commands = <<>> /\ message = NoOrder
    /\ due = [t \in SoftTimers |-> NotDue] /\ mark = [t \in SoftTimers |-> "own"]
    /\ called = NoCallBack

(* The lists are switched with the scheduler suspended, unless it is while *)
(* a command is handled.                                                   *)
Suspended == daemon \in {"switch", "reload"} /\ back = "commands"
-----------------------------------------------------------------------------
(* A start or reset holds the tick count its caller has read, which a task *)
(* may have done some time before.  Periodic timers may change the period. *)
Orders(t) ==
    {Command("start", t, (tick - age) % Wrap) : age \in IF Suspended THEN {0} ELSE 0 .. Lag}
        \cup {Command("stop", t, 0)}
        \cup {Command("period", t, p) : p \in IF t \in AutoReload THEN Periods ELSE {}}

(* xTimerGenericCommand, from a task, an interrupt or a callback.          *)
xTimerGenericCommand(t) ==
    /\ HasRoom /\ \E c \in Orders(t) : commands' = Append(commands, c)
    /\ called' = NoCallBack
    /\ UNCHANGED <<tick, lastTime, lists, daemon, place, wait, message, due, mark>>

(* Nobody is later than Lag.                                               *)
InTime ==
    /\ \A t \in SoftTimers : due[t] # NotDue => due[t] > - Lag
    /\ \A c \in {message} \cup {commands[i] : i \in DOMAIN commands} :
          c.op = "start" => Since(c.value) < Lag
    /\ message.op = "period" => Since(lastTime) < Lag

Tick ==
    /\ ~ Suspended /\ InTime /\ tick' = Plus(tick, 1)
    /\ due' = [t \in SoftTimers |-> IF due[t] = NotDue THEN NotDue ELSE due[t] - 1]
    /\ wait' = IF wait \in {0, Forever} THEN wait ELSE wait - 1
    /\ called' = NoCallBack /\ UNCHANGED <<lastTime, lists, daemon, place, queue, mark>>
-----------------------------------------------------------------------------
(* Mutant: that the count has wrapped since the command is not considered. *)
prvInsertTimerInActiveList_plain(t, next, now, since) ==
    IF next <= now
    THEN IF (now - since) % Wrap >= period[t] THEN "now" ELSE "overflow"
    ELSE "current"

(* The list for a timer that is to expire at next, or "now".               *)
prvInsertTimerInActiveList(t, next, now, since) ==
    IF next <= now
    THEN IF (now - since) % Wrap >= period[t] THEN "now" ELSE "overflow"
    ELSE IF now < since /\ next >= since THEN "now" ELSE "current"

Put(t, l, next) ==
    list' = [list EXCEPT ![t] = IF l = "now" THEN Unlisted ELSE [in |-> l, at |-> next]]

(* A timer's own restart takes its turn behind the commands that wait.     *)
(* With no room it is lost, and the timer with it.                         *)
Restart(t, since, next) ==
    /\ commands' = IF HasRoom THEN Append(commands, Command("restart", t, since)) ELSE commands
    /\ due' = [due EXCEPT ![t] = IF HasRoom THEN next ELSE NotDue]

NextDue(t, d) == IF t \in AutoReload THEN d + period[t] ELSE NotDue

(* t is called back, and then the timer task goes on. (The commands of a   *)
(* callback are those of xTimerGenericCommand.)                            *)
CallBack(t, d, goOn) == daemon' = goOn /\ called' = [timer |-> t, isDue |-> d <= 0]
-----------------------------------------------------------------------------
(* The timer task runs, and there is no command for it.                    *)
Idle == commands = <<>> /\ (daemon = "commands" \/ (daemon = "blocked" /\ wait = 0))

(* prvTimerTask: prvProcessTimerOrBlockTask. When the count has wrapped,   *)
(* the lists are switched;                                                 *)
NextSwitches ==
    /\ Idle /\ tick < lastTime /\ lastTime' = tick
    /\ daemon' = "switch" /\ back' = "commands" /\ called' = NoCallBack
    /\ UNCHANGED <<tick, lists, subject, wait, queue, due, mark>>

(* a timer that has expired is processed;                                  *)
NextExpired(t) ==
    /\ Idle /\ tick >= lastTime /\ lastTime' = tick
    /\ t \in Heads("current") /\ list[t].at <= tick
    /\ daemon' = "expired" /\ subject' = [timer |-> t, at |-> list[t].at] /\ called' = NoCallBack
    /\ UNCHANGED <<tick, lists, back, wait, queue, due, mark>>

(* else it sleeps until the first expires, until the count wraps, or until *)
(* a command comes.                                                        *)
NextBlocks ==
    /\ Idle /\ tick >= lastTime /\ lastTime' = tick
    /\ \A t \in In("current") : list[t].at > tick
    /\ daemon' = "blocked" /\ called' = NoCallBack
    /\ \/ In("current") \cup In("overflow") = {} /\ wait' = Forever
       \/ In("current") = {} /\ In("overflow") # {} /\ wait' = (0 - tick) % Wrap
       \/ \E t \in Heads("current") : wait' = list[t].at - tick
    /\ UNCHANGED <<tick, lists, place, queue, due, mark>>

(* Out of its list, and if it is periodic into one again, or by a command  *)
(* when the next expiry has passed too; then it is called back.            *)
prvProcessExpiredTimer ==
    LET t == subject.timer
        next == Plus(subject.at, period[t])
        l == IF t \in AutoReload THEN prvInsertTimerInActiveList(t, next, lastTime, subject.at)
             ELSE "none"
    IN  /\ daemon = "expired" /\ CallBack(t, due[t], "commands")
        /\ IF l = "none" THEN list' = [list EXCEPT ![t] = Unlisted] ELSE Put(t, l, next)
        /\ IF l = "now" THEN Restart(t, subject.at, NextDue(t, due[t]))
           ELSE due' = [due EXCEPT ![t] = NextDue(t, due[t])] /\ UNCHANGED commands
        /\ subject' = NoTimer
        /\ UNCHANGED <<tick, lastTime, period, back, wait, message, mark>>
-----------------------------------------------------------------------------
(* prvSwitchTimerLists: all that are in the current list have expired.     *)
SwitchFires(t) ==
    /\ daemon = "switch" /\ t \in Heads("current")
    /\ list' = [list EXCEPT ![t] = Unlisted] /\ subject' = [timer |-> t, at |-> list[t].at]
    /\ CallBack(t, due[t], "reload") /\ due' = [due EXCEPT ![t] = NextDue(t, due[t])]
    /\ UNCHANGED <<tick, lastTime, period, back, wait, queue, mark>>

(* Mutant: it goes into the current list though the sum has wrapped.       *)
SwitchReloads_plain ==
    LET t == subject.timer
    IN  /\ daemon = "reload" /\ daemon' = "switch" /\ subject' = NoTimer
        /\ IF t \notin AutoReload THEN UNCHANGED list ELSE Put(t, "current", Plus(subject.at, period[t]))
        /\ called' = NoCallBack
        /\ UNCHANGED <<tick, lastTime, period, back, wait, queue, due, mark>>

(* A periodic timer goes back if it expires once more before the count     *)
(* wraps, else by a command.                                               *)
SwitchReloads ==
    LET t == subject.timer
        next == Plus(subject.at, period[t])
    IN  /\ daemon = "reload" /\ daemon' = "switch" /\ subject' = NoTimer
        /\ \/ t \notin AutoReload /\ UNCHANGED <<list, due, commands>>
           \/ /\ t \in AutoReload /\ next > subject.at
              /\ Put(t, "current", next) /\ UNCHANGED <<due, commands>>
           \/ /\ t \in AutoReload /\ next <= subject.at
              /\ Restart(t, subject.at, due[t]) /\ UNCHANGED list
        /\ called' = NoCallBack
        /\ UNCHANGED <<tick, lastTime, period, back, wait, message, mark>>

SwitchEnds ==
    /\ daemon = "switch" /\ In("current") = {} /\ daemon' = back
    /\ back' = "commands" /\ called' = NoCallBack
    /\ list' = [t \in SoftTimers |->
                    IF list[t].in = "overflow" THEN [list[t] EXCEPT !.in = "current"] ELSE Unlisted]
    /\ UNCHANGED <<tick, lastTime, period, subject, wait, queue, due, mark>>
-----------------------------------------------------------------------------
(* A caller's command is taken while a restart of that timer, which the    *)
(* task sent itself, waits behind it: the restart will undo the command.   *)
Overtake(c, rest) ==
    IF c.op = "restart" THEN mark
    ELSE [mark EXCEPT ![c.timer] =
             IF \E i \in DOMAIN rest : rest[i].op = "restart" /\ rest[i].timer = c.timer
             THEN "overtaken" ELSE "own"]

(* prvProcessReceivedCommands: the timer is taken out of its list,         *)
TakeCommand ==
    /\ daemon \in {"commands", "blocked"} /\ commands # <<>>
    /\ lastTime' = tick /\ wait' = 0 /\ called' = NoCallBack
    /\ message' = Head(commands) /\ commands' = Tail(commands)
    /\ list' = [list EXCEPT ![Head(commands).timer] = Unlisted]
    /\ mark' = Overtake(Head(commands), Tail(commands))
    /\ \/ tick < lastTime /\ daemon' = "switch" /\ back' = "apply"
       \/ tick >= lastTime /\ daemon' = "apply" /\ UNCHANGED back
    /\ UNCHANGED <<tick, period, subject, due>>

(* and, started, put into one, or called back when it has expired already. *)
(* (What it is to do by the commands: a start counts from when it was      *)
(* given; a restart goes on from where the timer was.)                     *)
ApplyStart ==
    LET t == message.timer
        next == Plus(message.value, period[t])
        l == prvInsertTimerInActiveList(t, next, lastTime, message.value)
        d == IF message.op = "restart" /\ mark[t] = "own" THEN due[t]
             ELSE period[t] - Since(message.value)
    IN  /\ daemon = "apply" /\ message.op \in {"start", "restart"}
        /\ mark' = IF message.op = "restart" /\ mark[t] = "overtaken" /\ due[t] = NotDue
                   THEN [mark EXCEPT ![t] = "revived"] ELSE mark
        /\ Put(t, l, next)
        /\ \/ /\ l = "now" /\ CallBack(t, d, IF t \in AutoReload THEN "restart" ELSE "commands")
              /\ due' = [due EXCEPT ![t] = NextDue(t, d)]
              /\ message' = IF t \in AutoReload THEN message ELSE NoOrder
           \/ /\ l # "now" /\ daemon' = "commands" /\ due' = [due EXCEPT ![t] = d]
              /\ message' = NoOrder /\ called' = NoCallBack
        /\ UNCHANGED <<tick, lastTime, period, place, wait, commands>>

ApplyRestarts ==
    LET t == message.timer
    IN  /\ daemon = "restart" /\ daemon' = "commands" /\ message' = NoOrder
        /\ Restart(t, Plus(message.value, period[t]), due[t]) /\ called' = NoCallBack
        /\ UNCHANGED <<tick, lastTime, lists, place, wait, mark>>

ApplyStop ==
    /\ daemon = "apply" /\ message.op = "stop" /\ daemon' = "commands" /\ message' = NoOrder
    /\ due' = [due EXCEPT ![message.timer] = NotDue] /\ called' = NoCallBack
    /\ UNCHANGED <<tick, lastTime, lists, place, wait, commands, mark>>

(* A new period counts from the time the command is processed.             *)
ApplyPeriod ==
    LET t == message.timer
        next == Plus(lastTime, message.value)
    IN  /\ daemon = "apply" /\ message.op = "period" /\ daemon' = "commands" /\ message' = NoOrder
        /\ period' = [period EXCEPT ![t] = message.value]
        /\ Put(t, IF next <= lastTime THEN "overflow" ELSE "current", next)
        /\ due' = [due EXCEPT ![t] = message.value - Since(lastTime)] /\ called' = NoCallBack
        /\ UNCHANGED <<tick, lastTime, place, wait, commands, mark>>
-----------------------------------------------------------------------------
TimerTask ==
    \/ NextSwitches \/ (\E t \in SoftTimers : NextExpired(t)) \/ NextBlocks
    \/ prvProcessExpiredTimer
    \/ (\E t \in SoftTimers : SwitchFires(t)) \/ SwitchReloads \/ SwitchEnds
    \/ TakeCommand \/ ApplyStart \/ ApplyRestarts \/ ApplyStop \/ ApplyPeriod

WNext == (\E t \in SoftTimers : xTimerGenericCommand(t)) \/ Tick \/ TimerTask

WSpec == WInit /\ [][WNext]_wvars
-----------------------------------------------------------------------------
(* No timer is called back before it is due, nor twice for one time,       *)
(* however late the timer task is and wherever the tick count wraps; but   *)
(* for a restart of its own that comes behind a caller's command.          *)
NeverEarly == called.timer # NoTimer /\ mark[called.timer] = "own" => called.isDue

(* The timer task never sleeps past a time at which a timer is due, and    *)
(* every timer that is due is in a list: none is forgotten between the     *)
(* lists, the queue and the wrap.                                          *)
NeverSleepsPast ==
    daemon = "blocked" /\ commands = <<>> =>
        \A t \in SoftTimers :
            due[t] # NotDue => list[t] # Unlisted /\ (wait = 0 \/ wait <= due[t])

(* "Stopping a timer ensures the timer is not in the active state"         *)
(* (timers.h:561): once its stop has been processed, it is not called back *)
(* until it is started again.                                              *)
StoppedStays == called.timer # NoTimer => mark[called.timer] # "revived"
=============================================================================
