------------------------------- MODULE HwTimer -------------------------------
(***************************************************************************)
(* The hardware timers of tkl_timer.c over bk_timer.c: timers 0 to 2 share *)
(* one control register and 3 to 5 another.  Each has there an enable bit, *)
(* and an expiry bit that is cleared by writing 1 to it.  Tasks start and  *)
(* stop timers by reading the register and later writing it; the interrupt *)
(* comes at once when an expiry bit is set, and runs to its end.           *)
(*                                                                         *)
(* Hardware is external: a timer that is enabled expires again and again.  *)
(* Whether it was set up for one expiry is not looked at by the code.      *)
(***************************************************************************)
EXTENDS Naturals, FiniteSetsExt

CONSTANTS
    Timers,     \* the driver's numbers of the timers in use
    TimerUsers  \* the tasks that start and stop them

ASSUME TimerAssumption == Timers \subseteq 0 .. 5

Register(t) == IF t < 3 THEN {n \in Timers : n < 3} ELSE {n \in Timers : n >= 3}
Ops    == {"start", "stop"}
NoCall == [op |-> "none"]

VARIABLES
    enabled, expired,   \* the enable and the expiry bits
    call,               \* each task's call that has read the register: what it does, to
                        \* which timer, and value, the enable bits it has read
    isr, status, toServe,   \* the register the interrupt is at, its status0 or status1,
                            \* and the callbacks still to be called
    asked,              \* the timers whose last call was a start
    overlapped,         \* a call wrote a register another had read and not yet written
    restarted           \* a callback started a timer

regs    == <<enabled, expired>>
irq     == <<isr, status, toServe>>
noted   == <<asked, overlapped, restarted>>
tvars   == <<regs, call, irq, noted>>

TInit ==
    /\ enabled = {} /\ expired = {}
    /\ call = [u \in TimerUsers |-> NoCall]
    /\ isr = "none" /\ status = {} /\ toServe = {}
    /\ asked = {} /\ overlapped = FALSE /\ restarted = FALSE

(* A task runs: the interrupt has nothing to do.                           *)
TaskRuns == isr = "none" /\ expired = {}

(* Mutant: a start writes its own bit and not the others it has read.      *)
WriteControl_alone(op, t, read) ==
    enabled' = (enabled \ Register(t)) \cup (IF op = "start" THEN {t} ELSE read \ {t})

(* The enable bits that are written are those that were read, but for t.   *)
WriteControl(op, t, read) ==
    enabled' = (enabled \ Register(t)) \cup (IF op = "start" THEN read \cup {t} ELSE read \ {t})

Asks(op, t, others) ==
    /\ asked' = IF op = "start" THEN asked \cup {t} ELSE asked \ {t}
    /\ overlapped' = (overlapped \/ \E v \in others : call[v] # NoCall /\ call[v].on \in Register(t))
-----------------------------------------------------------------------------
(* tkl_timer_start, tkl_timer_stop: read the control register,             *)
TimerRead(u) ==
    /\ TaskRuns /\ call[u] = NoCall
    /\ \E op \in Ops, t \in Timers :
          call' = [call EXCEPT ![u] = [op |-> op, on |-> t, value |-> enabled \cap Register(t)]]
    /\ UNCHANGED <<regs, irq, noted>>

(* change the copy and write it back.                                      *)
TimerWrite(u) ==
    /\ TaskRuns /\ call[u] # NoCall /\ call' = [call EXCEPT ![u] = NoCall]
    /\ WriteControl(call[u].op, call[u].on, call[u].value)
    /\ Asks(call[u].op, call[u].on, TimerUsers \ {u})
    /\ UNCHANGED <<expired, irq, restarted>>

Expire(t) ==
    /\ t \in enabled /\ expired' = expired \cup {t}
    /\ UNCHANGED <<enabled, call, irq, noted>>

(* bk_timer_isr: the status of the first register,                         *)
IsrEnter ==
    /\ isr = "none" /\ expired # {} /\ isr' = "first"
    /\ status' = {t \in expired : t < 3} /\ toServe' = status'
    /\ UNCHANGED <<regs, call, noted>>

(* the callbacks of those that had expired, in order; one may call start   *)
(* (which writes 1 to every expiry bit it reads as 1) or stop,             *)
IsrServe ==
    /\ isr # "none" /\ toServe # {} /\ toServe' = toServe \ {Min(toServe)}
    /\ \/ UNCHANGED <<regs, noted>>
       \/ \E op \in Ops, t \in Timers :
             /\ WriteControl(op, t, enabled \cap Register(t)) /\ Asks(op, t, TimerUsers)
             /\ expired' = expired \ (IF op = "start" THEN Register(t) ELSE {t})
             /\ restarted' = (restarted \/ op = "start")
    /\ UNCHANGED <<call, isr, status>>

(* Mutant: every expiry bit that is set is cleared.                        *)
IsrAck_all ==
    /\ isr # "none" /\ toServe = {}
    /\ expired' = {t \in expired : (isr = "first") # (t < 3)}
    /\ \/ isr = "first" /\ isr' = "second" /\ status' = {t \in expired' : t >= 3}
       \/ isr = "second" /\ isr' = "none" /\ status' = {}
    /\ toServe' = status'
    /\ UNCHANGED <<enabled, call, noted>>

(* and the expiry bits it has read are cleared, for as long as they come   *)
(* back; then the same for the second register.                            *)
IsrAck ==
    /\ isr # "none" /\ toServe = {}
    /\ expired' = expired \ status
    /\ \/ isr = "first" /\ isr' = "second" /\ status' = {t \in expired' : t >= 3}
       \/ isr = "second" /\ isr' = "none" /\ status' = {}
    /\ toServe' = status'
    /\ UNCHANGED <<enabled, call, noted>>

TNext ==
    \/ \E u \in TimerUsers : TimerRead(u) \/ TimerWrite(u)
    \/ \E t \in Timers : Expire(t)
    \/ IsrEnter \/ IsrServe \/ IsrAck

TSpec == TInit /\ [][TNext]_tvars
-----------------------------------------------------------------------------
(* A timer runs when it was started last and not when it was stopped, for  *)
(* as long as no two calls on one register overlap: the interrupt, calls   *)
(* on the other register, and calls before and after never change it.      *)
RunsAsAsked == ~ overlapped => enabled = asked

(* An expiry is not lost: until a callback starts a timer, an expiry bit   *)
(* is cleared only after the timer's callback in this interrupt, or by a   *)
(* stop of that timer.  (Two expiries in one interrupt count as one.)      *)
NoExpiryLost ==
    [][\A t \in expired \ expired' :
          restarted' \/ t \notin asked' \/ t \in status \ toServe]_tvars
=============================================================================
