------------------------------- MODULE OsFifo -------------------------------
(***************************************************************************)
(* What a queue or a semaphore promises to its callers: a bounded first in *)
(* first out store, each call of which takes effect at one moment, or, if  *)
(* it may give up, not at all.  A receive that gives up does so because    *)
(* there is nothing to receive; a timed send may give up even though room  *)
(* has appeared since.                                                     *)
(***************************************************************************)
EXTENDS Naturals, Sequences

CONSTANTS Tasks, Capacity, Idle, CallsOf, IsrSends

VARIABLES
    q,          \* the contents, the next to be received first
    pending     \* each task's unfinished call

Put(s, c) == IF c.op = "front" THEN <<c.item>> \o s ELSE Append(s, c.item)

Init == q = <<>> /\ pending = [t \in Tasks |-> Idle]

Call(t) ==
    /\ pending[t] = Idle
    /\ \E c \in CallsOf[t] : pending' = [pending EXCEPT ![t] = c]
    /\ UNCHANGED q

Return(t) == pending[t] # Idle /\ pending' = [pending EXCEPT ![t] = Idle]

Send(t) ==
    /\ Return(t) /\ pending[t].op # "recv" /\ Len(q) < Capacity
    /\ q' = Put(q, pending[t])

Receive(t) ==
    /\ Return(t) /\ pending[t].op = "recv" /\ q # <<>>
    /\ q' = Tail(q)

GiveUp(t) ==
    /\ Return(t) /\ pending[t].wait # "forever"
    /\ pending[t].op = "recv" => q = <<>>
    /\ pending[t].op # "recv" /\ pending[t].wait = "poll" => Len(q) = Capacity
    /\ UNCHANGED q

Interrupt ==
    /\ Len(q) < Capacity /\ UNCHANGED pending
    /\ \E c \in IsrSends : q' = Put(q, c)

Next ==
    \/ Interrupt
    \/ \E t \in Tasks : Call(t) \/ Send(t) \/ Receive(t) \/ GiveUp(t)

Spec == Init /\ [][Next]_<<q, pending>>
=============================================================================
