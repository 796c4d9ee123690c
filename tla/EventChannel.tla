----------------------------- MODULE EventChannel -----------------------------
(***************************************************************************)
(* What the trace pipeline promises to the analysis: from each allocating  *)
(* thread a bounded FIFO of events, from which one consumer takes events   *)
(* in order, each at most once. Every event a thread records enters the    *)
(* FIFO unless the FIFO is full at that moment; then it is dropped.        *)
(***************************************************************************)
EXTENDS Naturals, Sequences

CONSTANTS
    Threads,    \* producers
    Capacity    \* events a FIFO holds

VARIABLES
    queue,      \* events in transit from each thread
    decided,    \* events of each thread that have been sent or dropped
    log         \* the events delivered, in order; an event is <<thread, number>>

vars == <<queue, decided, log>>

Init ==
    /\ queue = [t \in Threads |-> <<>>]
    /\ decided = [t \in Threads |-> 0]
    /\ log = <<>>

\* Thread t's next event, whatever becomes of it.
Decide(t) == decided' = [decided EXCEPT ![t] = @ + 1]

\* The event enters t's FIFO ...
Send(t) ==
    /\ Len(queue[t]) < Capacity
    /\ Decide(t)
    /\ queue' = [queue EXCEPT ![t] = Append(@, <<t, decided[t] + 1>>)]
    /\ UNCHANGED log

\* ... unless the FIFO is full: the only way an event is lost.
Drop(t) ==
    /\ Len(queue[t]) = Capacity
    /\ Decide(t)
    /\ UNCHANGED <<queue, log>>

\* The consumer takes the oldest event of t's FIFO.
Deliver(t) ==
    /\ queue[t] # <<>>
    /\ log' = Append(log, Head(queue[t]))
    /\ queue' = [queue EXCEPT ![t] = Tail(@)]
    /\ UNCHANGED decided

Next == \E t \in Threads : Send(t) \/ Drop(t) \/ Deliver(t)

Spec == Init /\ [][Next]_vars
=============================================================================
