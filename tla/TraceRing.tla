------------------------------ MODULE TraceRing ------------------------------
(***************************************************************************)
(* The trace pipeline: each allocating thread records its events in a ring *)
(* of its own, allocated from the internal arena and linked into a global  *)
(* list at its first event; the background thread walks the list, drains   *)
(* the rings, writes the events to the trace file, and parks on a futex    *)
(* when it finds nothing; the destructor stops it and waits for it.        *)
(*                                                                         *)
(* Every action is one access to shared memory, with the private steps     *)
(* around it. An event is its thread and the number of the thread's record *)
(* call that made it. Memory is sequentially consistent.                   *)
(***************************************************************************)
EXTENDS Naturals, Sequences, FiniteSets, Functions

CONSTANTS
    Threads,       \* allocating threads, no more than the arena has rings for
    NoRing,        \* nullptr
    NoEvent,       \* an uninitialised slot
    Capacity,      \* RingBuffer::CAPACITY (1024)
    MaxEvents,     \* bound on the events of each thread
    Backoffs,      \* sleeps of background_loop before it parks (9)
    Overlap        \* TRUE: the first events of two threads may overlap, and then
                   \* the threads share a ring

ASSUME RingAssumption ==
    /\ Capacity \in Nat \ {0} /\ MaxEvents \in [Threads -> Nat] /\ Backoffs \in Nat
    /\ NoRing \notin Nat /\ NoEvent \notin Nat
    /\ Overlap \in BOOLEAN /\ IsFiniteSet(Threads)

Numbers == UNION {1..MaxEvents[t] : t \in Threads}
Events  == Threads \X Numbers
Rings   == 0..(Cardinality(Threads) - 1)   \* arena addresses, in ring sizes

VARIABLES
    cursor,        \* alloc: g_arena.cursor, in ring sizes
    tl_ring,       \* get_ring: the ring of each thread
    g_ring_head,   \* the list of rings
    next, head, tail, slots,   \* the fields of each RingBuffer
    pc,            \* where each thread stands in a record call
    sent,          \* record calls of each thread so far
    loaded,        \* a shared value a thread has read and not yet used
    pos,           \* push: the local h
    futex,         \* futex_word()
    g_running, g_shutting_down,
    bgpc,          \* where the background thread stands
    rb,            \* drain_all: the ring being drained
    ev,            \* pop: the event copied out
    found,         \* drain_all's result
    final,         \* this walk is the final drain
    backoff,       \* sleeps since the last event
    mainpc,        \* where the thread in tbjit_init, tbjit_fini stands
    log,           \* events processed, in order
    file           \* the trace file

listVars == <<cursor, tl_ring, g_ring_head, next>>
ringVars == <<head, tail, slots>>
recVars  == <<pc, sent, loaded, pos>>
bgVars   == <<bgpc, rb, ev, found, final, backoff>>
mainVars == <<g_running, g_shutting_down, mainpc>>
outVars  == <<log, file>>
vars == <<listVars, ringVars, recVars, bgVars, mainVars, outVars, futex>>

Header == <<"header", 0>>   \* the TraceHeader record

\* tbjit_init has started the background thread and is about to open the file.
Init ==
    /\ cursor = 0
    /\ tl_ring = [t \in Threads |-> NoRing]
    /\ g_ring_head = NoRing
    /\ next = [r \in Rings |-> NoRing]
    /\ head = [r \in Rings |-> 0]
    /\ tail = [r \in Rings |-> 0]
    /\ slots = [r \in Rings |-> [i \in 0..(Capacity - 1) |-> NoEvent]]
    /\ pc = [t \in Threads |-> "idle"]
    /\ sent = [t \in Threads |-> 0]
    /\ loaded = [t \in Threads |-> 0]
    /\ pos = [t \in Threads |-> 0]
    /\ futex = "AWAKE"
    /\ g_running = TRUE /\ g_shutting_down = FALSE
    /\ bgpc = "loop" /\ rb = NoRing /\ ev = NoEvent
    /\ found = FALSE /\ final = FALSE /\ backoff = 0
    /\ mainpc = "open"
    /\ log = <<>> /\ file = <<>>

-----------------------------------------------------------------------------
(* Allocating threads: record_alloc and record_free.                        *)

Goto(t, where) == pc' = [pc EXCEPT ![t] = where]

\* Faulty variant of Interposing: the initialisation gate is not checked.
InterposingEarly == ~g_shutting_down

\* The gates malloc and free check before they record anything.
Interposing == g_shutting_down = FALSE /\ mainpc \notin {"open", "header"}

Record(t) ==
    /\ pc[t] = "idle" /\ Interposing /\ sent[t] < MaxEvents[t]
    /\ sent' = [sent EXCEPT ![t] = @ + 1]
    /\ Goto(t, IF tl_ring[t] = NoRing THEN "alloc" ELSE "load")
    /\ UNCHANGED <<listVars, ringVars, loaded, pos, bgVars, mainVars, outVars, futex>>

\* alloc::alloc reads the arena cursor, without a lock ...
LoadCursor(t) ==
    /\ pc[t] = "alloc"
    /\ Overlap \/ \A u \in Threads : pc[u] # "carve"
    /\ loaded' = [loaded EXCEPT ![t] = cursor]
    /\ Goto(t, "carve")
    /\ UNCHANGED <<listVars, ringVars, sent, pos, bgVars, mainVars, outVars, futex>>

\* ... and stores it; the ring is constructed at the old cursor. The arena has
\* room for the rings of all threads.
StoreCursor(t) ==
    /\ pc[t] = "carve"
    /\ LET r == loaded[t]
       IN  /\ cursor' = r + 1
           /\ tl_ring' = [tl_ring EXCEPT ![t] = r]
           /\ next' = [next EXCEPT ![r] = NoRing]
           /\ head' = [head EXCEPT ![r] = 0]
           /\ tail' = [tail EXCEPT ![r] = 0]
    /\ loaded' = [loaded EXCEPT ![t] = 0]
    /\ Goto(t, "link")
    /\ UNCHANGED <<g_ring_head, slots, sent, pos, bgVars, mainVars, outVars, futex>>

\* The ring's next is the head of the list ...
LinkNext(t) ==
    /\ pc[t] = "link"
    /\ next' = [next EXCEPT ![tl_ring[t]] = g_ring_head]
    /\ loaded' = [loaded EXCEPT ![t] = g_ring_head]
    /\ Goto(t, "cas")
    /\ UNCHANGED <<cursor, tl_ring, g_ring_head, ringVars, sent, pos, bgVars,
                   mainVars, outVars, futex>>

\* ... if it still is when the ring becomes the head; else try again.
CasRingHead(t) ==
    /\ pc[t] = "cas"
    /\ \/ /\ g_ring_head = loaded[t]
          /\ g_ring_head' = tl_ring[t]
          /\ Goto(t, "load")
       \/ /\ g_ring_head # loaded[t]
          /\ Goto(t, "link")
          /\ UNCHANGED g_ring_head
    /\ loaded' = [loaded EXCEPT ![t] = 0]
    /\ UNCHANGED <<cursor, tl_ring, next, ringVars, sent, pos, bgVars, mainVars,
                   outVars, futex>>

\* Faulty variant of Full: one event more than there are slots.
FullOffByOne(h, t) == h - t > Capacity

\* Faulty variant of Full: one slot is never used.
FullEarly(h, t) == h - t >= Capacity - 1

\* push: h - t >= CAPACITY
Full(h, t) == h - t >= Capacity

\* push reads the indices; the event is dropped if the ring was full.
LoadIndices(t) ==
    /\ pc[t] = "load"
    /\ LET r == tl_ring[t]
       IN  IF Full(head[r], tail[r])
           THEN Goto(t, "idle") /\ UNCHANGED <<loaded, pos>>
           ELSE /\ Goto(t, "write")
                /\ pos' = [pos EXCEPT ![t] = head[r]]
                /\ loaded' = [loaded EXCEPT ![t] = tail[r]]
    /\ UNCHANGED <<listVars, ringVars, sent, bgVars, mainVars, outVars, futex>>

WriteSlot(t) ==
    /\ pc[t] = "write"
    /\ slots' = [slots EXCEPT ![tl_ring[t]][pos[t] % Capacity] = <<t, sent[t]>>]
    /\ Goto(t, "publish")
    /\ UNCHANGED <<listVars, head, tail, sent, loaded, pos, bgVars, mainVars,
                   outVars, futex>>

\* push's result: the ring was empty when the indices were read.
WasEmpty(t) == pos[t] = loaded[t]

StoreHead(t) ==
    /\ pc[t] = "publish"
    /\ head' = [head EXCEPT ![tl_ring[t]] = pos[t] + 1]
    /\ Goto(t, IF WasEmpty(t) THEN "notify" ELSE "idle")
    /\ loaded' = [loaded EXCEPT ![t] = 0]
    /\ pos' = [pos EXCEPT ![t] = 0]
    /\ UNCHANGED <<listVars, tail, slots, sent, bgVars, mainVars, outVars, futex>>

\* notify_if_sleeping
Notify(t) ==
    /\ pc[t] = "notify"
    /\ Goto(t, IF futex = "SLEEPING" THEN "store" ELSE "idle")
    /\ UNCHANGED <<listVars, ringVars, sent, loaded, pos, bgVars, mainVars,
                   outVars, futex>>

\* futex_wake: store AWAKE, then the system call.
WakeStore(t) ==
    /\ pc[t] = "store"
    /\ futex' = "AWAKE"
    /\ Goto(t, "wake")
    /\ UNCHANGED <<listVars, ringVars, sent, loaded, pos, bgVars, mainVars, outVars>>

\* FUTEX_WAKE: the waiter, if there is one, returns from FUTEX_WAIT.
FutexWake == bgpc' = IF bgpc = "asleep" THEN "awake" ELSE bgpc

WakeCall(t) ==
    /\ pc[t] = "wake"
    /\ FutexWake
    /\ Goto(t, "idle")
    /\ UNCHANGED <<listVars, ringVars, sent, loaded, pos, rb, ev, found, final,
                   backoff, mainVars, outVars, futex>>

\* The steps of a record call that has begun.
InRecord(t) ==
    \/ LoadCursor(t) \/ StoreCursor(t) \/ LinkNext(t) \/ CasRingHead(t)
    \/ LoadIndices(t) \/ WriteSlot(t) \/ StoreHead(t)
    \/ Notify(t) \/ WakeStore(t) \/ WakeCall(t)

-----------------------------------------------------------------------------
(* The background thread: background_loop and drain_all.                    *)

\* Faulty variant of AfterLoop: the thread ends without draining once more.
AfterLoopExit == "exited"

\* Where the loop goes once g_running is false: the final drain.
AfterLoop == "rings"

\* The loop's condition. drain_pending and reaper_sweep follow it (CodeCache,
\* SegmentHeap).
LoopTest ==
    /\ bgpc = "loop"
    /\ final' = ~g_running
    /\ bgpc' = IF g_running THEN "rings" ELSE AfterLoop
    /\ UNCHANGED <<listVars, ringVars, recVars, rb, ev, found, backoff, mainVars,
                   outVars, futex>>

\* drain_all starts at the head of the list ...
FirstRing ==
    /\ bgpc = "rings"
    /\ rb' = g_ring_head
    /\ found' = FALSE
    /\ bgpc' = "pop"
    /\ UNCHANGED <<listVars, ringVars, recVars, ev, final, backoff, mainVars,
                   outVars, futex>>

\* ... pops until the ring is empty, then follows next ...
PopTest ==
    /\ bgpc = "pop" /\ rb # NoRing
    /\ IF tail[rb] = head[rb]
       THEN rb' = next[rb] /\ UNCHANGED bgpc
       ELSE bgpc' = "copy" /\ UNCHANGED rb
    /\ UNCHANGED <<listVars, ringVars, recVars, ev, found, final, backoff,
                   mainVars, outVars, futex>>

PopCopy ==
    /\ bgpc = "copy"
    /\ ev' = slots[rb][tail[rb] % Capacity]
    /\ bgpc' = "advance"
    /\ UNCHANGED <<listVars, ringVars, recVars, rb, found, final, backoff,
                   mainVars, outVars, futex>>

\* The slot is released, the event is processed and written to the file.
PopStore ==
    /\ bgpc = "advance"
    /\ tail' = [tail EXCEPT ![rb] = @ + 1]
    /\ log' = Append(log, ev)
    /\ file' = IF mainpc \in {"open", "closed"} THEN file
               ELSE Append(file, ev)
    /\ ev' = NoEvent
    /\ found' = TRUE
    /\ bgpc' = "pop"
    /\ UNCHANGED <<listVars, head, slots, recVars, rb, final, backoff, mainVars,
                   futex>>

\* ... to the end of the list. Without an event the thread sleeps, longer each
\* time, and parks in the end.
WalkEnd ==
    /\ bgpc = "pop" /\ rb = NoRing
    /\ \/ final /\ bgpc' = "exited" /\ UNCHANGED backoff
       \/ ~final /\ found /\ backoff' = 0 /\ bgpc' = "loop"
       \/ ~final /\ ~found /\ backoff < Backoffs /\ backoff' = backoff + 1 /\ bgpc' = "loop"
       \/ ~final /\ ~found /\ backoff = Backoffs /\ bgpc' = "park" /\ UNCHANGED backoff
    /\ found' = FALSE
    /\ UNCHANGED <<listVars, ringVars, recVars, rb, ev, final, mainVars, outVars,
                   futex>>

\* Before it parks the thread looks at g_running again.
ParkTest ==
    /\ bgpc = "park"
    /\ final' = ~g_running
    /\ bgpc' = IF g_running THEN "announce" ELSE AfterLoop
    /\ UNCHANGED <<listVars, ringVars, recVars, rb, ev, found, backoff, mainVars,
                   outVars, futex>>

\* futex_wait: AWAKE becomes SLEEPING ...
ParkAnnounce ==
    /\ bgpc = "announce"
    /\ futex' = "SLEEPING"
    /\ bgpc' = "wait"
    /\ UNCHANGED <<listVars, ringVars, recVars, rb, ev, found, final, backoff,
                   mainVars, outVars>>

\* ... FUTEX_WAIT sleeps if it still is ...
FutexWait ==
    /\ bgpc = "wait"
    /\ bgpc' = IF futex = "SLEEPING" THEN "asleep" ELSE "awake"
    /\ UNCHANGED <<listVars, ringVars, recVars, rb, ev, found, final, backoff,
                   mainVars, outVars, futex>>

\* Faulty variant of FutexTimeout: FUTEX_WAIT without a timeout.
FutexTimeoutNever ==
    /\ bgpc = "asleep" /\ FALSE
    /\ UNCHANGED vars

\* ... for a second at most ...
FutexTimeout ==
    /\ bgpc = "asleep"
    /\ bgpc' = "awake"
    /\ UNCHANGED <<listVars, ringVars, recVars, rb, ev, found, final, backoff,
                   mainVars, outVars, futex>>

\* ... and the thread is back in its loop.
ParkEnd ==
    /\ bgpc = "awake"
    /\ futex' = "AWAKE"
    /\ bgpc' = "loop"
    /\ UNCHANGED <<listVars, ringVars, recVars, rb, ev, found, final, backoff,
                   mainVars, outVars>>

Background ==
    \/ LoopTest \/ FirstRing \/ PopTest \/ PopCopy \/ PopStore \/ WalkEnd
    \/ ParkTest \/ ParkAnnounce \/ FutexWait \/ FutexTimeout \/ ParkEnd

-----------------------------------------------------------------------------
(* tbjit_init and tbjit_fini.                                               *)

\* writer_open: the file is open before its header is written.
OpenFile ==
    /\ mainpc = "open"
    /\ mainpc' = "header"
    /\ UNCHANGED <<listVars, ringVars, recVars, bgVars, g_running,
                   g_shutting_down, outVars, futex>>

\* The header is written and interposition is switched on.
WriteHeader ==
    /\ mainpc = "header"
    /\ file' = Append(file, Header)
    /\ mainpc' = "up"
    /\ UNCHANGED <<listVars, ringVars, recVars, bgVars, g_running,
                   g_shutting_down, log, futex>>

\* The destructor closes the gate, then stops the background thread.
Fini ==
    /\ mainpc = "up"
    /\ g_shutting_down' = TRUE
    /\ mainpc' = "stop"
    /\ UNCHANGED <<listVars, ringVars, recVars, bgVars, g_running, outVars, futex>>

StopRunning ==
    /\ mainpc = "stop"
    /\ g_running' = FALSE
    /\ mainpc' = "store"
    /\ UNCHANGED <<listVars, ringVars, recVars, bgVars, g_shutting_down, outVars,
                   futex>>

StopWakeStore ==
    /\ mainpc = "store"
    /\ futex' = "AWAKE"
    /\ mainpc' = "wake"
    /\ UNCHANGED <<listVars, ringVars, recVars, bgVars, g_running,
                   g_shutting_down, outVars>>

StopWakeCall ==
    /\ mainpc = "wake"
    /\ FutexWake
    /\ mainpc' = "join"
    /\ UNCHANGED <<listVars, ringVars, recVars, rb, ev, found, final, backoff,
                   g_running, g_shutting_down, outVars, futex>>

\* pthread_join returns and writer_close closes the file.
JoinAndClose ==
    /\ mainpc = "join" /\ bgpc = "exited"
    /\ mainpc' = "closed"
    /\ UNCHANGED <<listVars, ringVars, recVars, bgVars, g_running,
                   g_shutting_down, outVars, futex>>

\* The constructor and the destructor run to their ends; nobody is obliged to
\* call exit.
Main == OpenFile \/ WriteHeader \/ StopRunning \/ StopWakeStore \/ StopWakeCall \/ JoinAndClose

Next ==
    \/ \E t \in Threads : Record(t) \/ InRecord(t)
    \/ Background
    \/ Main \/ Fini

Spec == Init /\ [][Next]_vars

\* Every thread is scheduled and the kernel's timer fires.
Fairness ==
    /\ \A t \in Threads : WF_vars(InRecord(t))
    /\ WF_vars(Background) /\ WF_vars(Main)

FairSpec == Spec /\ Fairness

-----------------------------------------------------------------------------
(* Properties.                                                              *)

\* The events in a thread's ring, oldest first.
Queue(t) ==
    IF tl_ring[t] = NoRing THEN <<>>
    ELSE LET r == tl_ring[t]
         IN  [i \in 1..(head[r] - tail[r]) |-> slots[r][(tail[r] + i - 1) % Capacity]]

\* Every variable holds a value of its C++ type, the arena has a ring for every
\* thread that asks, and no ring's indices are further apart than its slots.
TypeOK ==
    /\ cursor \in 0..Cardinality(Threads)
    /\ tl_ring \in [Threads -> Rings \cup {NoRing}]
    /\ g_ring_head \in Rings \cup {NoRing}
    /\ next \in [Rings -> Rings \cup {NoRing}]
    /\ head \in [Rings -> Nat] /\ tail \in [Rings -> Nat]
    /\ \A r \in Rings : head[r] >= tail[r] /\ head[r] - tail[r] <= Capacity
    /\ slots \in [Rings -> [0..(Capacity - 1) -> Events \cup {NoEvent}]]
    /\ pc \in [Threads -> {"idle", "alloc", "carve", "link", "cas", "load",
                           "write", "publish", "notify", "store", "wake"}]
    /\ sent \in [Threads -> Nat] /\ \A t \in Threads : sent[t] <= MaxEvents[t]
    /\ loaded \in [Threads -> Nat \cup {NoRing}]
    /\ pos \in [Threads -> Nat]
    /\ futex \in {"AWAKE", "SLEEPING"}
    /\ g_running \in BOOLEAN /\ g_shutting_down \in BOOLEAN
    /\ bgpc \in {"loop", "rings", "pop", "copy", "advance", "park", "announce",
                 "wait", "asleep", "awake", "exited"}
    /\ rb \in Rings \cup {NoRing}
    /\ ev \in Events \cup {NoEvent}
    /\ found \in BOOLEAN /\ final \in BOOLEAN /\ backoff \in 0..Backoffs
    /\ mainpc \in {"open", "header", "up", "stop", "store", "wake", "join", "closed"}
    /\ log \in Seq(Events)
    /\ file \in Seq(Events \cup {Header})

\* The record call has neither published its event yet nor dropped it.
Busy == {"alloc", "carve", "link", "cas", "load", "write", "publish"}

\* The number of t's last event that has been published or dropped.
Decided(t) == IF pc[t] \in Busy THEN sent[t] - 1 ELSE sent[t]

Channel == INSTANCE EventChannel
    WITH queue <- [t \in Threads |-> Queue(t)], decided <- [t \in Threads |-> Decided(t)]

\* The rings implement a bounded FIFO per thread: what the analysis sees of a
\* thread is what the thread recorded, in order, nothing twice, nothing read
\* from a slot that is being overwritten; and push drops an event only when the
\* ring is full at the moment it reads tail.
RefinesChannel == Channel!Spec

\* The trace file is a header followed by the events processed, in order:
\* events that arrive while tbjit_init opens the file do not get in front.
FileWellFormed ==
    mainpc \notin {"open", "header"} => file = <<Header>> \o log

\* When the destructor is done, a ring holds at most the one event of a record
\* call that had passed the shutdown gate when the gate closed: the final drain
\* got all the others.
FinalDrain == mainpc = "closed" => \A t \in Threads : Len(Queue(t)) <= 1

\* Nothing waits for good, although the wakeup of the parked thread can be
\* missed: events that reached a ring are processed, unless the program shuts
\* down first, and the destructor, once it has begun, ends, whatever the
\* background thread was doing.
NothingWaits ==
    (g_shutting_down \/ \E t \in Threads : Queue(t) # <<>>)
        ~> (mainpc = "closed" \/ (~g_shutting_down /\ \A t \in Threads : Queue(t) = <<>>))
=============================================================================
