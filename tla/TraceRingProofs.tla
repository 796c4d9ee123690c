--------------------------- MODULE TraceRingProofs ---------------------------
(***************************************************************************)
(* Proofs about TraceRing, for every number of threads and every capacity: *)
(* the trace file is well formed; and, when the first events of two        *)
(* threads do not overlap (Overlap = FALSE), each ring has one producer    *)
(* and one consumer, the rings implement the bounded FIFOs of              *)
(* EventChannel, and the final drain leaves at most one event behind in a  *)
(* ring.                                                                   *)
(***************************************************************************)
EXTENDS TraceRing, FiniteSetTheorems, SequenceTheorems, TLAPS

\* The rings that can be on the list; a set of rings that no link leaves.
Linked    == {r \in Rings : \E t \in Threads : tl_ring[t] = r /\ pc[t] \notin {"link", "cas"}}
Closed(S) == \A r \in S \cap Linked : next[r] \in S \cup {NoRing}

-----------------------------------------------------------------------------
(* The inductive invariant.                                                 *)

\* Every ring up to the arena cursor belongs to one thread.
OwnInv ==
    /\ cursor = Cardinality({t \in Threads : tl_ring[t] # NoRing})
    /\ \A r \in 0..(cursor - 1) : \E t \in Threads : tl_ring[t] = r
    /\ \A t \in Threads :
        /\ tl_ring[t] \in 0..(cursor - 1) \cup {NoRing}
        /\ pc[t] \in {"alloc", "carve"} => tl_ring[t] = NoRing
        /\ pc[t] \notin {"idle", "alloc", "carve"} => tl_ring[t] # NoRing
        /\ pc[t] = "carve" => loaded[t] = cursor
        /\ pc[t] # "idle" => sent[t] # 0
    /\ \A t, u \in Threads : tl_ring[t] = tl_ring[u] /\ tl_ring[t] # NoRing => t = u
    /\ \A t, u \in Threads : pc[t] = "carve" /\ pc[u] = "carve" => t = u

\* The list holds all the linked rings, and the consumer is on one of them.
ListInv ==
    /\ g_ring_head \in Linked \cup {NoRing} /\ rb \in Linked \cup {NoRing}
    /\ \A r \in Linked : next[r] \in Linked \cup {NoRing}
    /\ \A t \in Threads : pc[t] = "cas" => /\ next[tl_ring[t]] = loaded[t]
                                           /\ loaded[t] \in Linked \cup {NoRing}
    /\ \A S \in SUBSET Rings :
          Closed(S) /\ g_ring_head \in S \cup {NoRing} => Linked \subseteq S

\* What the producer has read of its ring still holds where it matters.
Producing(t) ==
    LET r == tl_ring[t]
    IN  /\ pc[t] \in {"link", "cas"} => head[r] = 0 /\ tail[r] = 0
        /\ pc[t] \in {"write", "publish"} =>
              /\ pos[t] = head[r] /\ loaded[t] \in Nat
              /\ loaded[t] <= tail[r] /\ head[r] < loaded[t] + Capacity
        /\ pc[t] = "publish" => slots[r][head[r] % Capacity] = <<t, sent[t]>>

ProducerInv == \A t \in Threads : Producing(t)

\* The ring of t holds events of t, in order, later than those in the log.
Ordered(t) ==
    tl_ring[t] # NoRing =>
        LET r == tl_ring[t]
        IN  \A i \in tail[r]..(head[r] - 1) :
                /\ slots[r][i % Capacity] \in {t} \X (1..Decided(t))
                /\ \A k \in DOMAIN log : log[k][1] = t => log[k][2] < slots[r][i % Capacity][2]
                /\ \A j \in tail[r]..(head[r] - 1) :
                      i < j => slots[r][i % Capacity][2] < slots[r][j % Capacity][2]

\* The log holds nothing that its thread has not published.
Logged(t) == \A k \in DOMAIN log : log[k][1] = t => log[k][2] <= Decided(t)

OrderInv == \A t \in Threads : Ordered(t) /\ Logged(t)

\* The consumer's copy is that of the oldest event in the ring.
ConsumerInv ==
    /\ bgpc \in {"copy", "advance"} => rb # NoRing /\ tail[rb] < head[rb]
    /\ bgpc = "advance" => ev = slots[rb][tail[rb] % Capacity]

\* tbjit_init and tbjit_fini go through their stages in order.
MainInv ==
    /\ mainpc \in {"open", "header"} =>
          /\ log = <<>> /\ file = <<>>
          /\ \A t \in Threads : pc[t] = "idle" /\ tl_ring[t] = NoRing
    /\ (g_shutting_down <=> mainpc \notin {"open", "header", "up"})
    /\ (g_running <=> mainpc \in {"open", "header", "up", "stop"})
    /\ mainpc = "closed" => bgpc = "exited"
    /\ final => ~g_running
    /\ final => bgpc \in {"rings", "pop", "copy", "advance", "exited"}
    /\ bgpc = "exited" => final /\ rb = NoRing

\* Events a thread has in its ring, or is going to put there.
Left(t) == (head[tl_ring[t]] - tail[tl_ring[t]]) + (IF pc[t] \in Busy THEN 1 ELSE 0)

\* A ring that the final walk has behind it gets one more event at most.
DrainInv ==
    final /\ bgpc # "rings" =>
        \A S \in SUBSET Rings :
            Closed(S) /\ rb \in S \cup {NoRing} =>
                \A t \in Threads : tl_ring[t] \notin S \cup {NoRing} => Left(t) <= 1

IInv == /\ TypeOK /\ OwnInv /\ ListInv /\ ProducerInv /\ OrderInv
        /\ ConsumerInv /\ MainInv /\ DrainInv

-----------------------------------------------------------------------------
(* Slots: indices less than the capacity apart do not share one.            *)

\* Multiples of C are C apart.
LEMMA Multiples ==
    ASSUME NEW C \in Nat, NEW p \in Int, NEW q \in Int, p < q
    PROVE  C * p + C <= C * q
<1>1. PICK d \in Nat : q = (p + 1) + d
  <2>1. q - (p + 1) \in Nat /\ q = (p + 1) + (q - (p + 1))
    OBVIOUS
  <2> QED
    BY <2>1
<1>2. C * q = C * p + C + C * d
  BY <1>1
<1>3. C * d \in Nat
  OBVIOUS
<1> QED
  BY <1>2, <1>3

\* Indices less than a lap apart are in different slots.
LEMMA SlotsDiffer ==
    ASSUME NEW i \in Nat, NEW j \in Nat, i < j, j < i + Capacity
    PROVE  i % Capacity # j % Capacity
<1> DEFINE p == i \div Capacity
           q == j \div Capacity
<1>0. Capacity \in Nat \ {0}
  BY RingAssumption
<1>1. /\ i = Capacity * p + (i % Capacity) /\ j = Capacity * q + (j % Capacity)
      /\ p \in Int /\ q \in Int /\ i % Capacity \in Int /\ j % Capacity \in Int
  BY <1>0
<1> HIDE DEF p, q
<1>2. Capacity * p \in Int /\ Capacity * q \in Int
  BY <1>0, <1>1
<1>3. CASE p < q
  BY <1>0, <1>1, <1>2, <1>3, Multiples
<1>4. CASE q < p
  BY <1>0, <1>1, <1>2, <1>4, Multiples
<1>5. CASE p = q
  BY <1>1, <1>5
<1> QED
  BY <1>1, <1>3, <1>4, <1>5

\* An index, reduced, is a slot.
LEMMA SlotInRing ==
    ASSUME NEW i \in Nat
    PROVE  i % Capacity \in 0..(Capacity - 1)
  BY RingAssumption

-----------------------------------------------------------------------------
(* Who owns what.                                                           *)

\* A thread's ring is a ring of the arena, below the cursor.
LEMMA OwnRing ==
    ASSUME TypeOK, OwnInv, NEW t \in Threads, tl_ring[t] # NoRing
    PROVE  /\ tl_ring[t] \in Rings /\ tl_ring[t] \in 0..(cursor - 1)
           /\ head[tl_ring[t]] \in Nat /\ tail[tl_ring[t]] \in Nat
           /\ tail[tl_ring[t]] <= head[tl_ring[t]]
           /\ head[tl_ring[t]] <= tail[tl_ring[t]] + Capacity
<1>1. tl_ring[t] \in Rings /\ tl_ring[t] \in 0..(cursor - 1)
  BY DEF TypeOK, OwnInv
<1> QED
  BY <1>1, RingAssumption DEF TypeOK

\* A thread that is about to carve a ring finds room for it.
LEMMA RoomInArena ==
    ASSUME TypeOK, OwnInv, NEW t \in Threads, tl_ring[t] = NoRing
    PROVE  cursor \in Rings
<1> DEFINE Have == {u \in Threads : tl_ring[u] # NoRing}
<1>1. Have \subseteq Threads /\ Have # Threads /\ IsFiniteSet(Threads)
  BY RingAssumption
<1>2. Cardinality(Have) < Cardinality(Threads) /\ Cardinality(Threads) \in Nat
  <2> HIDE DEF Have
  <2> QED
    BY <1>1, FS_Subset, FS_CardinalityType
<1>3. cursor = Cardinality(Have) /\ cursor \in Nat
  BY <1>2 DEF OwnInv, TypeOK
<1> QED
  BY <1>2, <1>3 DEF Rings

\* The event a record call makes.
LEMMA EventType ==
    ASSUME TypeOK, NEW t \in Threads, NEW n \in 1..sent[t]
    PROVE  <<t, n>> \in Events
<1>1. n \in 1..MaxEvents[t]
  BY RingAssumption DEF TypeOK
<1>2. n \in Numbers
  BY <1>1 DEF Numbers
<1> QED
  BY <1>2 DEF Events

\* The consumer's ring belongs to a thread, and the event it has copied is one.
LEMMA CopiedEvent ==
    ASSUME IInv, bgpc \in {"copy", "advance"}
    PROVE  \E t \in Threads : /\ tl_ring[t] = rb /\ rb # NoRing
                              /\ slots[rb][tail[rb] % Capacity] \in {t} \X (1..sent[t])
                              /\ slots[rb][tail[rb] % Capacity] \in Events
<1>1. rb # NoRing /\ rb \in Linked /\ tail[rb] < head[rb]
  BY DEF IInv, ConsumerInv, ListInv
<1>2. PICK t \in Threads : tl_ring[t] = rb
  BY <1>1 DEF Linked
<1>3. tail[rb] \in Nat /\ head[rb] \in Nat
  BY <1>1, <1>2, OwnRing DEF IInv
<1>4. tail[rb] \in tail[rb]..(head[rb] - 1)
  BY <1>1, <1>3
<1>5. slots[rb][tail[rb] % Capacity] \in {t} \X (1..Decided(t))
  BY <1>1, <1>2, <1>4 DEF IInv, OrderInv, Ordered
<1>6. sent[t] \in Nat /\ 1..Decided(t) \subseteq 1..sent[t]
  BY DEF IInv, TypeOK, Decided
<1>7. PICK n \in 1..sent[t] : slots[rb][tail[rb] % Capacity] = <<t, n>>
  BY <1>5, <1>6
<1> QED
  BY <1>1, <1>2, <1>7, EventType DEF IInv

-----------------------------------------------------------------------------
(* Type correctness is kept. The type invariant falls into the parts that   *)
(* an action changes or leaves alone as a whole.                            *)

ListTypes ==
    /\ cursor \in 0..Cardinality(Threads)
    /\ tl_ring \in [Threads -> Rings \cup {NoRing}]
    /\ g_ring_head \in Rings \cup {NoRing}
    /\ next \in [Rings -> Rings \cup {NoRing}]
IndexTypes ==
    /\ head \in [Rings -> Nat] /\ tail \in [Rings -> Nat]
    /\ \A r \in Rings : head[r] >= tail[r] /\ head[r] - tail[r] <= Capacity
SlotTypes == slots \in [Rings -> [0..(Capacity - 1) -> Events \cup {NoEvent}]]
PcLabels  == {"idle", "alloc", "carve", "link", "cas", "load", "write", "publish",
              "notify", "store", "wake"}
RecTypes ==
    /\ pc \in [Threads -> PcLabels]
    /\ sent \in [Threads -> Nat] /\ \A t \in Threads : sent[t] <= MaxEvents[t]
    /\ loaded \in [Threads -> Nat \cup {NoRing}]
    /\ pos \in [Threads -> Nat]
BgLabels == {"loop", "rings", "pop", "copy", "advance", "park", "announce", "wait",
             "asleep", "awake", "exited"}
BgTypes ==
    /\ bgpc \in BgLabels /\ rb \in Rings \cup {NoRing} /\ ev \in Events \cup {NoEvent}
    /\ found \in BOOLEAN /\ final \in BOOLEAN /\ backoff \in 0..Backoffs
MainTypes ==
    /\ g_running \in BOOLEAN /\ g_shutting_down \in BOOLEAN
    /\ mainpc \in {"open", "header", "up", "stop", "store", "wake", "join", "closed"}
FutexType == futex \in {"AWAKE", "SLEEPING"}
OutTypes == log \in Seq(Events) /\ file \in Seq(Events \cup {Header})

\* TypeOK, by groups of variables.
LEMMA TypeParts ==
    TypeOK <=> /\ ListTypes /\ IndexTypes /\ SlotTypes /\ RecTypes /\ BgTypes /\ MainTypes
               /\ OutTypes /\ FutexType
  BY DEF TypeOK, ListTypes, IndexTypes, SlotTypes, PcLabels, RecTypes, BgLabels, BgTypes,
         MainTypes, OutTypes, FutexType

\* The same after a step.
LEMMA TypePartsPrimed ==
    TypeOK' <=> /\ ListTypes' /\ IndexTypes' /\ SlotTypes' /\ RecTypes' /\ BgTypes' /\ MainTypes'
                /\ OutTypes' /\ FutexType'
  BY TypeParts, PTL

\* What is left alone keeps its type.
LEMMA TypeFrame ==
    ASSUME TypeOK
    PROVE  /\ UNCHANGED listVars => ListTypes'
           /\ UNCHANGED <<head, tail>> => IndexTypes'
           /\ UNCHANGED ringVars => IndexTypes' /\ SlotTypes'
           /\ UNCHANGED slots => SlotTypes'
           /\ UNCHANGED recVars => RecTypes'
           /\ UNCHANGED bgVars => BgTypes'
           /\ UNCHANGED mainVars => MainTypes'
           /\ UNCHANGED outVars => OutTypes'
           /\ UNCHANGED futex => FutexType'
<1>0. /\ ListTypes /\ IndexTypes /\ SlotTypes /\ RecTypes /\ BgTypes /\ MainTypes
      /\ OutTypes /\ FutexType
  BY TypeParts
<1>1. UNCHANGED listVars => ListTypes'
  BY <1>0 DEF listVars, ListTypes
<1>2. UNCHANGED <<head, tail>> => IndexTypes'
  BY <1>0 DEF IndexTypes
<1>3. UNCHANGED slots => SlotTypes'
  BY <1>0 DEF SlotTypes
<1>4. UNCHANGED recVars => RecTypes'
  BY <1>0 DEF recVars, RecTypes
<1>5. UNCHANGED bgVars => BgTypes'
  BY <1>0 DEF bgVars, BgTypes
<1>6. UNCHANGED mainVars => MainTypes'
  BY <1>0 DEF mainVars, MainTypes
<1>7. UNCHANGED outVars => OutTypes'
  BY <1>0 DEF outVars, OutTypes
<1>8. UNCHANGED futex => FutexType'
  BY <1>0 DEF FutexType
<1>9. UNCHANGED ringVars => UNCHANGED <<head, tail>> /\ UNCHANGED slots
  BY DEF ringVars
<1> QED
  BY <1>1, <1>2, <1>3, <1>4, <1>5, <1>6, <1>7, <1>8, <1>9

\* TypeOK holds initially.
LEMMA TypeInit == Init => TypeOK
<1> SUFFICES ASSUME Init PROVE TypeOK
  OBVIOUS
<1>1. Cardinality(Threads) \in Nat
  BY RingAssumption, FS_CardinalityType
<1>2. OutTypes /\ FutexType
  BY DEF Init, OutTypes, FutexType
<1>3. ListTypes
  BY <1>1 DEF Init, ListTypes
<1>4. IndexTypes
  BY RingAssumption DEF Init, IndexTypes
<1>5. SlotTypes
  BY DEF Init, SlotTypes
<1>6. RecTypes
  BY RingAssumption DEF Init, RecTypes, PcLabels
<1>7. BgTypes
  <2>1. 0 \in 0..Backoffs
    BY RingAssumption
  <2> QED
    BY <2>1 DEF Init, BgTypes, BgLabels
<1>8. MainTypes
  BY DEF Init, MainTypes
<1> QED
  BY <1>2, <1>3, <1>4, <1>5, <1>6, <1>7, <1>8, TypeParts

\* A record call.
LEMMA TypeRecord ==
    ASSUME IInv, NEW t \in Threads, Record(t) \/ InRecord(t)
    PROVE  TypeOK'
<1>0. TypeOK /\ OwnInv /\ ListInv /\ ProducerInv
  BY DEF IInv
<1>a. ListTypes /\ IndexTypes /\ SlotTypes /\ RecTypes /\ BgTypes
  BY <1>0, TypeParts
<1>b. Cardinality(Threads) \in Nat
  BY RingAssumption, FS_CardinalityType
<1>1. CASE Record(t)
  <2>1. /\ sent' = [sent EXCEPT ![t] = sent[t] + 1] /\ sent[t] < MaxEvents[t]
        /\ pc' \in {[pc EXCEPT ![t] = l] : l \in {"alloc", "load"}}
        /\ UNCHANGED <<loaded, pos>>
    BY <1>1 DEF Record, Goto
  <2>2. sent[t] + 1 \in Nat /\ sent[t] + 1 <= MaxEvents[t]
    <3>1. sent[t] \in Nat /\ MaxEvents[t] \in Nat
      BY <1>a, RingAssumption DEF RecTypes
    <3> QED
      BY <2>1, <3>1
  <2>3. RecTypes'
    BY <1>a, <2>1, <2>2 DEF RecTypes, PcLabels
  <2> QED
    BY <1>0, <1>1, <2>3, TypeFrame, TypePartsPrimed DEF Record
<1>2. CASE LoadCursor(t)
  <2>1. cursor \in Nat
    BY <1>a, <1>b DEF ListTypes
  <2>2. RecTypes'
    BY <1>a, <1>2, <2>1 DEF LoadCursor, Goto, RecTypes, PcLabels
  <2> QED
    BY <1>0, <1>2, <2>2, TypeFrame, TypePartsPrimed DEF LoadCursor
<1>3. CASE StoreCursor(t)
  <2>1. loaded[t] = cursor /\ cursor \in Rings
    BY <1>0, <1>3, RoomInArena DEF StoreCursor, OwnInv
  <2>2. cursor + 1 \in 0..Cardinality(Threads)
    BY <1>b, <2>1 DEF Rings
  <2>3. /\ cursor' = cursor + 1 /\ tl_ring' = [tl_ring EXCEPT ![t] = cursor]
        /\ next' = [next EXCEPT ![cursor] = NoRing]
        /\ head' = [head EXCEPT ![cursor] = 0] /\ tail' = [tail EXCEPT ![cursor] = 0]
        /\ loaded' = [loaded EXCEPT ![t] = 0] /\ pc' = [pc EXCEPT ![t] = "link"]
        /\ UNCHANGED <<g_ring_head, slots, sent, pos, bgVars, mainVars, outVars, futex>>
    BY <1>3, <2>1 DEF StoreCursor, Goto
  <2>4. ListTypes'
    BY <1>a, <2>1, <2>2, <2>3 DEF ListTypes
  <2>5. IndexTypes'
    BY <1>a, <2>1, <2>3, RingAssumption DEF IndexTypes
  <2>6. RecTypes'
    BY <1>a, <2>3 DEF RecTypes, PcLabels
  <2> QED
    BY <1>0, <2>3, <2>4, <2>5, <2>6, TypeFrame, TypePartsPrimed
<1>4. CASE LinkNext(t)
  <2>1. g_ring_head \in Nat \cup {NoRing}
    BY <1>a DEF ListTypes, Rings
  <2>2. ListTypes'
    BY <1>a, <1>4 DEF LinkNext, ListTypes
  <2>3. RecTypes'
    BY <1>a, <1>4, <2>1 DEF LinkNext, Goto, RecTypes, PcLabels
  <2> QED
    BY <1>0, <1>4, <2>2, <2>3, TypeFrame, TypePartsPrimed DEF LinkNext
<1>5. CASE CasRingHead(t)
  <2>1. tl_ring[t] \in Rings
    BY <1>0, <1>5, OwnRing DEF CasRingHead, OwnInv
  <2>2. ListTypes'
    BY <1>a, <1>5, <2>1 DEF CasRingHead, ListTypes
  <2>3. /\ pc' \in {[pc EXCEPT ![t] = l] : l \in {"load", "link"}}
        /\ loaded' = [loaded EXCEPT ![t] = 0] /\ UNCHANGED <<sent, pos>>
    BY <1>5 DEF CasRingHead, Goto
  <2>4. RecTypes'
    BY <1>a, <2>3 DEF RecTypes, PcLabels
  <2> QED
    BY <1>0, <1>5, <2>2, <2>4, TypeFrame, TypePartsPrimed DEF CasRingHead
<1>6. CASE LoadIndices(t)
  <2>1. head[tl_ring[t]] \in Nat /\ tail[tl_ring[t]] \in Nat
    BY <1>0, <1>6, OwnRing DEF LoadIndices, OwnInv
  <2>2. RecTypes'
    BY <1>a, <1>6, <2>1 DEF LoadIndices, Goto, RecTypes, PcLabels
  <2> QED
    BY <1>0, <1>6, <2>2, TypeFrame, TypePartsPrimed DEF LoadIndices
<1>7. CASE WriteSlot(t)
  <2>1. <<t, sent[t]>> \in Events
    BY <1>0, <1>a, <1>7, EventType DEF WriteSlot, OwnInv, RecTypes
  <2>2. SlotTypes'
    BY <1>a, <1>7, <2>1 DEF WriteSlot, SlotTypes
  <2>3. RecTypes'
    BY <1>a, <1>7 DEF WriteSlot, Goto, RecTypes, PcLabels
  <2> QED
    BY <1>0, <1>7, <2>2, <2>3, TypeFrame, TypePartsPrimed DEF WriteSlot
<1>8. CASE StoreHead(t)
  <2>1. /\ head' = [head EXCEPT ![tl_ring[t]] = pos[t] + 1] /\ pc[t] = "publish"
        /\ pc' \in {[pc EXCEPT ![t] = l] : l \in {"notify", "idle"}}
        /\ loaded' = [loaded EXCEPT ![t] = 0] /\ pos' = [pos EXCEPT ![t] = 0]
        /\ UNCHANGED <<tail, sent>>
    BY <1>8 DEF StoreHead, Goto
  <2>2. /\ tl_ring[t] \in Rings /\ tail[tl_ring[t]] \in Nat /\ head[tl_ring[t]] \in Nat
        /\ tail[tl_ring[t]] <= head[tl_ring[t]]
    BY <1>0, <2>1, OwnRing DEF OwnInv
  <2>3. /\ pos[t] = head[tl_ring[t]] /\ loaded[t] \in Nat /\ loaded[t] <= tail[tl_ring[t]]
        /\ head[tl_ring[t]] < loaded[t] + Capacity
    BY <1>0, <2>1 DEF ProducerInv, Producing
  <2>4. /\ pos[t] + 1 \in Nat /\ pos[t] + 1 >= tail[tl_ring[t]]
        /\ (pos[t] + 1) - tail[tl_ring[t]] <= Capacity
    BY <2>2, <2>3, RingAssumption
  <2>5. IndexTypes'
    BY <1>a, <2>1, <2>2, <2>4 DEF IndexTypes
  <2>6. RecTypes'
    BY <1>a, <2>1 DEF RecTypes, PcLabels
  <2> QED
    BY <1>0, <1>8, <2>5, <2>6, TypeFrame, TypePartsPrimed DEF StoreHead
<1>9. CASE Notify(t) \/ WakeStore(t)
  <2>1. RecTypes' /\ FutexType'
    BY <1>0, <1>a, <1>9 DEF Notify, WakeStore, Goto, RecTypes, PcLabels, TypeOK, FutexType
  <2> QED
    BY <1>0, <1>9, <2>1, TypeFrame, TypePartsPrimed DEF Notify, WakeStore
<1>10. CASE WakeCall(t)
  <2>1. RecTypes'
    BY <1>a, <1>10 DEF WakeCall, Goto, RecTypes, PcLabels
  <2>2. BgTypes'
    BY <1>a, <1>10 DEF WakeCall, FutexWake, BgTypes, BgLabels
  <2> QED
    BY <1>0, <1>10, <2>1, <2>2, TypeFrame, TypePartsPrimed DEF WakeCall
<1> QED
  BY <1>1, <1>2, <1>3, <1>4, <1>5, <1>6, <1>7, <1>8, <1>9, <1>10 DEF InRecord

\* The background thread.
LEMMA TypeBackground ==
    ASSUME IInv, Background
    PROVE  TypeOK'
<1>0. TypeOK
  BY DEF IInv
<1>a. /\ ListTypes /\ IndexTypes /\ SlotTypes /\ RecTypes /\ BgTypes /\ MainTypes /\ OutTypes
      /\ FutexType
  BY <1>0, TypeParts
<1>1. CASE LoopTest \/ ParkTest
  <2>1. /\ final' \in BOOLEAN /\ bgpc' \in BgLabels
        /\ UNCHANGED <<rb, ev, found, backoff>>
    BY <1>a, <1>1 DEF LoopTest, ParkTest, AfterLoop, BgLabels, MainTypes
  <2>2. BgTypes'
    BY <1>a, <2>1 DEF BgTypes
  <2> QED
    BY <1>0, <1>1, <2>2, TypeFrame, TypePartsPrimed DEF LoopTest, ParkTest
<1>2. CASE FirstRing
  <2>1. BgTypes'
    BY <1>a, <1>2 DEF FirstRing, BgTypes, BgLabels, ListTypes
  <2> QED
    BY <1>0, <1>2, <2>1, TypeFrame, TypePartsPrimed DEF FirstRing
<1>3. CASE PopTest
  <2>1. next[rb] \in Rings \cup {NoRing}
    BY <1>a, <1>3 DEF PopTest, ListTypes, BgTypes
  <2>2. BgTypes'
    BY <1>a, <1>3, <2>1 DEF PopTest, BgTypes, BgLabels
  <2> QED
    BY <1>0, <1>3, <2>2, TypeFrame, TypePartsPrimed DEF PopTest
<1>4. CASE PopCopy
  <2>1. slots[rb][tail[rb] % Capacity] \in Events
    BY <1>4, CopiedEvent DEF PopCopy
  <2>2. BgTypes'
    BY <1>a, <1>4, <2>1 DEF PopCopy, BgTypes, BgLabels
  <2> QED
    BY <1>0, <1>4, <2>2, TypeFrame, TypePartsPrimed DEF PopCopy
<1>5. CASE PopStore
  <2>1. ev \in Events
    BY <1>5, CopiedEvent DEF PopStore, IInv, ConsumerInv
  <2>2. rb \in Rings /\ tail[rb] < head[rb]
    BY <1>5 DEF PopStore, IInv, ConsumerInv, ListInv, Linked
  <2>3. /\ tail' = [tail EXCEPT ![rb] = tail[rb] + 1] /\ log' = Append(log, ev)
        /\ file' = file \/ file' = Append(file, ev)
        /\ UNCHANGED head
    BY <1>5 DEF PopStore
  <2>4. OutTypes'
    <3>1. log \in Seq(Events) /\ file \in Seq(Events \cup {Header})
      BY <1>a DEF OutTypes
    <3>2. Append(log, ev) \in Seq(Events) /\ Append(file, ev) \in Seq(Events \cup {Header})
      BY <2>1, <3>1
    <3> QED
      BY <2>3, <3>1, <3>2 DEF OutTypes
  <2>5. IndexTypes'
    BY <1>a, <2>2, <2>3, RingAssumption DEF IndexTypes
  <2>6. BgTypes'
    BY <1>a, <1>5 DEF PopStore, BgTypes, BgLabels
  <2> QED
    BY <1>0, <1>5, <2>4, <2>5, <2>6, TypeFrame, TypePartsPrimed DEF PopStore
<1>6. CASE WalkEnd
  <2>1. backoff' \in 0..Backoffs
    BY <1>a, <1>6, RingAssumption DEF WalkEnd, BgTypes
  <2>2. BgTypes'
    BY <1>a, <1>6, <2>1 DEF WalkEnd, BgTypes, BgLabels
  <2> QED
    BY <1>0, <1>6, <2>2, TypeFrame, TypePartsPrimed DEF WalkEnd
<1>7. CASE ParkAnnounce \/ FutexWait \/ FutexTimeout \/ ParkEnd
  <2>1. bgpc' \in BgLabels /\ UNCHANGED <<rb, ev, found, final, backoff>>
    BY <1>7 DEF ParkAnnounce, FutexWait, FutexTimeout, ParkEnd, BgLabels
  <2>2. BgTypes' /\ FutexType'
    BY <1>a, <1>7, <2>1 DEF ParkAnnounce, FutexWait, FutexTimeout, ParkEnd, BgTypes,
                               FutexType
  <2> QED
    BY <1>0, <1>7, <2>2, TypeFrame, TypePartsPrimed
       DEF ParkAnnounce, FutexWait, FutexTimeout, ParkEnd
<1> QED
  BY <1>1, <1>2, <1>3, <1>4, <1>5, <1>6, <1>7 DEF Background

\* The constructor and the destructor.
LEMMA TypeMain ==
    ASSUME IInv, Main \/ Fini
    PROVE  TypeOK'
<1>0. TypeOK
  BY DEF IInv
<1>a. BgTypes /\ MainTypes /\ OutTypes /\ FutexType
  BY <1>0, TypeParts
<1>1. MainTypes'
  BY <1>a DEF Main, OpenFile, WriteHeader, StopRunning, StopWakeStore, StopWakeCall,
              JoinAndClose, Fini, MainTypes
<1>2. OutTypes' /\ FutexType'
  BY <1>a DEF Main, OpenFile, WriteHeader, StopRunning, StopWakeStore, StopWakeCall,
              JoinAndClose, Fini, OutTypes, FutexType, outVars
<1>3. /\ UNCHANGED <<rb, ev, found, final, backoff>>
      /\ bgpc' \in {bgpc, "awake"}
  BY DEF Main, OpenFile, WriteHeader, StopRunning, StopWakeStore, StopWakeCall, FutexWake,
         JoinAndClose, Fini, bgVars
<1>4. BgTypes'
  BY <1>a, <1>3 DEF BgTypes, BgLabels
<1>5. UNCHANGED <<listVars, ringVars, recVars>>
  BY DEF Main, OpenFile, WriteHeader, StopRunning, StopWakeStore, StopWakeCall,
         JoinAndClose, Fini
<1> QED
  BY <1>0, <1>1, <1>2, <1>4, <1>5, TypeFrame, TypePartsPrimed

-----------------------------------------------------------------------------
(* Rings and their owners. First what steps leave alone.                    *)

\* The background and main threads leave what recording threads write alone.
LEMMA OthersLeave ==
    ASSUME Background \/ Main \/ Fini
    PROVE  UNCHANGED <<cursor, tl_ring, g_ring_head, next, head, slots, pc, sent, loaded, pos>>
<1>1. UNCHANGED <<listVars, head, slots, recVars>>
  BY DEF Background, LoopTest, FirstRing, PopTest, PopCopy, PopStore, WalkEnd, ParkTest,
         ParkAnnounce, FutexWait, FutexTimeout, ParkEnd, Main, OpenFile, WriteHeader,
         StopRunning, StopWakeStore, StopWakeCall, JoinAndClose, Fini, ringVars
<1> QED
  BY <1>1 DEF listVars, recVars

\* The steps of a record call once the thread has its ring.
WithRing(t) ==
    \/ LinkNext(t) \/ CasRingHead(t) \/ LoadIndices(t) \/ WriteSlot(t) \/ StoreHead(t)
    \/ Notify(t) \/ WakeStore(t) \/ WakeCall(t)

\* A thread that has its ring leaves the arena and the list alone.
LEMMA WithRingLeaves ==
    ASSUME TypeOK, NEW t \in Threads, WithRing(t)
    PROVE  /\ pc[t] \notin {"idle", "alloc", "carve"}
           /\ pc'[t] \notin {"alloc", "carve"}
           /\ \A u \in Threads \ {t} : /\ pc'[u] = pc[u] /\ loaded'[u] = loaded[u]
                                       /\ pos'[u] = pos[u]
           /\ UNCHANGED <<cursor, tl_ring, tail, sent, log, file>>
<1>0. /\ pc \in [Threads -> PcLabels] /\ pos \in [Threads -> Nat]
      /\ loaded \in [Threads -> Nat \cup {NoRing}]
  BY TypeParts DEF RecTypes
<1>1. UNCHANGED <<cursor, tl_ring, tail, sent, log, file>> /\ pc[t] \notin {"idle", "alloc", "carve"}
  BY DEF WithRing, LinkNext, CasRingHead, LoadIndices, WriteSlot, StoreHead, Notify,
         WakeStore, WakeCall, listVars, ringVars, outVars
<1>2. \E l \in PcLabels \ {"alloc", "carve"} : pc' = [pc EXCEPT ![t] = l]
  BY DEF WithRing, LinkNext, CasRingHead, LoadIndices, WriteSlot, StoreHead, Notify,
         WakeStore, WakeCall, Goto, PcLabels
<1>3. UNCHANGED loaded \/ \E x : loaded' = [loaded EXCEPT ![t] = x]
  BY DEF WithRing, LinkNext, CasRingHead, LoadIndices, WriteSlot, StoreHead, Notify,
         WakeStore, WakeCall
<1>4. UNCHANGED pos \/ \E x : pos' = [pos EXCEPT ![t] = x]
  BY DEF WithRing, LinkNext, CasRingHead, LoadIndices, WriteSlot, StoreHead, Notify,
         WakeStore, WakeCall
<1> QED
  BY <1>0, <1>1, <1>2, <1>3, <1>4

\* Carving a ring: what StoreCursor does, when the cursor has not moved.
LEMMA Carves ==
    ASSUME IInv, NEW t \in Threads, StoreCursor(t)
    PROVE  /\ pc[t] = "carve" /\ tl_ring[t] = NoRing /\ cursor \in Rings /\ cursor \in Nat
           /\ \A u \in Threads : tl_ring[u] # cursor
           /\ cursor' = cursor + 1 /\ tl_ring' = [tl_ring EXCEPT ![t] = cursor]
           /\ next' = [next EXCEPT ![cursor] = NoRing]
           /\ head' = [head EXCEPT ![cursor] = 0] /\ tail' = [tail EXCEPT ![cursor] = 0]
           /\ loaded' = [loaded EXCEPT ![t] = 0] /\ pc' = [pc EXCEPT ![t] = "link"]
           /\ UNCHANGED <<g_ring_head, slots, sent, pos, bgVars, mainVars, outVars, futex>>
<1>1. pc[t] = "carve" /\ tl_ring[t] = NoRing /\ loaded[t] = cursor /\ TypeOK /\ OwnInv
  BY DEF StoreCursor, IInv, OwnInv
<1>2. cursor \in Rings /\ cursor \in Nat
  BY <1>1, RoomInArena DEF Rings
<1>3. \A u \in Threads : tl_ring[u] # cursor
  BY <1>1, <1>2, RingAssumption DEF OwnInv
<1> QED
  BY <1>1, <1>2, <1>3 DEF StoreCursor, Goto

\* Every step keeps OwnInv: a ring has one producer, as long as two threads do not carve at once.
LEMMA OwnStep ==
    ASSUME Overlap = FALSE, IInv, [Next]_vars
    PROVE  OwnInv'
<1>0. TypeOK /\ OwnInv
  BY DEF IInv
<1>a. /\ pc \in [Threads -> PcLabels] /\ sent \in [Threads -> Nat]
      /\ loaded \in [Threads -> Nat \cup {NoRing}] /\ tl_ring \in [Threads -> Rings \cup {NoRing}]
  BY <1>0, TypeParts DEF RecTypes, ListTypes
<1>1. CASE (Background \/ Main \/ Fini) \/ UNCHANGED vars
  <2>1. UNCHANGED <<cursor, tl_ring, pc, loaded, sent>>
    BY <1>1, OthersLeave DEF vars, listVars, recVars
  <2> QED
    BY <1>0, <2>1 DEF OwnInv
<1>2. ASSUME NEW t \in Threads, Record(t) PROVE OwnInv'
  <2>1. /\ pc[t] = "idle" /\ sent' = [sent EXCEPT ![t] = sent[t] + 1]
        /\ pc' = [pc EXCEPT ![t] = IF tl_ring[t] = NoRing THEN "alloc" ELSE "load"]
        /\ UNCHANGED <<cursor, tl_ring, loaded>>
    BY <1>2 DEF Record, Goto, listVars
  <2>2. sent'[t] # 0 /\ pc'[t] = IF tl_ring[t] = NoRing THEN "alloc" ELSE "load"
    BY <1>a, <2>1
  <2>3. \A u \in Threads \ {t} : sent'[u] = sent[u] /\ pc'[u] = pc[u]
    BY <1>a, <2>1
  <2> QED
    BY <1>0, <2>1, <2>2, <2>3 DEF OwnInv
<1>3. ASSUME NEW t \in Threads, LoadCursor(t) PROVE OwnInv'
  <2>1. /\ pc[t] = "alloc" /\ \A u \in Threads : pc[u] # "carve"
        /\ pc' = [pc EXCEPT ![t] = "carve"] /\ loaded' = [loaded EXCEPT ![t] = cursor]
        /\ UNCHANGED <<cursor, tl_ring, sent>>
    BY <1>3 DEF LoadCursor, Goto, listVars
  <2>2. /\ pc'[t] = "carve" /\ loaded'[t] = cursor
        /\ \A u \in Threads \ {t} : pc'[u] = pc[u] /\ pc'[u] # "carve"
    BY <1>a, <2>1
  <2> QED
    BY <1>0, <2>1, <2>2 DEF OwnInv
<1>4. ASSUME NEW t \in Threads, StoreCursor(t) PROVE OwnInv'
  <2>1. /\ pc[t] = "carve" /\ tl_ring[t] = NoRing /\ cursor \in Nat /\ cursor # NoRing
        /\ cursor' = cursor + 1 /\ tl_ring' = [tl_ring EXCEPT ![t] = cursor]
        /\ loaded' = [loaded EXCEPT ![t] = 0] /\ pc' = [pc EXCEPT ![t] = "link"]
        /\ sent' = sent
        /\ \A u \in Threads : tl_ring[u] # cursor
    BY <1>4, Carves, RingAssumption
  <2>2. /\ tl_ring'[t] = cursor /\ pc'[t] = "link"
        /\ \A u \in Threads \ {t} : /\ tl_ring'[u] = tl_ring[u] /\ pc'[u] = pc[u]
                                    /\ loaded'[u] = loaded[u]
    BY <1>a, <2>1
  <2>3. cursor' = Cardinality({u \in Threads : tl_ring'[u] # NoRing})
    <3> DEFINE Have == {u \in Threads : tl_ring[u] # NoRing}
    <3>1. {u \in Threads : tl_ring'[u] # NoRing} = Have \cup {t} /\ t \notin Have
      BY <2>1, <2>2
    <3>2. IsFiniteSet(Have) /\ Cardinality(Have) = cursor
      <4>1. Have \subseteq Threads /\ Cardinality(Have) = cursor
        BY <1>0 DEF OwnInv
      <4> HIDE DEF Have
      <4> QED
        BY <4>1, RingAssumption, FS_Subset
    <3> HIDE DEF Have
    <3>3. Cardinality(Have \cup {t}) = cursor + 1
      BY <3>1, <3>2, FS_AddElement
    <3> QED
      BY <2>1, <3>1, <3>3
  <2>4. \A r \in 0..(cursor' - 1) : \E u \in Threads : tl_ring'[u] = r
    <3> SUFFICES ASSUME NEW r \in 0..(cursor' - 1) PROVE \E u \in Threads : tl_ring'[u] = r
      OBVIOUS
    <3>1. CASE r = cursor
      BY <2>2, <3>1
    <3>2. CASE r # cursor
      <4>1. r \in 0..(cursor - 1) /\ r # NoRing
        BY <2>1, <3>2, RingAssumption
      <4>2. PICK u \in Threads : tl_ring[u] = r
        BY <1>0, <4>1 DEF OwnInv
      <4>3. u # t
        BY <2>1, <4>1, <4>2
      <4> QED
        BY <2>2, <4>2, <4>3
    <3> QED
      BY <3>1, <3>2
  <2>5. \A u \in Threads : tl_ring'[u] \in 0..(cursor' - 1) \cup {NoRing}
    <3>1. 0..(cursor - 1) \subseteq 0..(cursor' - 1) /\ cursor \in 0..(cursor' - 1)
      BY <2>1
    <3> QED
      BY <1>0, <2>2, <3>1 DEF OwnInv
  <2>6. \A u \in Threads \ {t} : pc[u] # "carve"
    BY <1>0, <2>1 DEF OwnInv
  <2>7. \A u, v \in Threads : tl_ring'[u] = tl_ring'[v] /\ tl_ring'[u] # NoRing => u = v
    BY <1>0, <2>1, <2>2 DEF OwnInv
  <2>8. \A u \in Threads :
           /\ pc'[u] \in {"alloc", "carve"} => tl_ring'[u] = NoRing
           /\ pc'[u] \notin {"idle", "alloc", "carve"} => tl_ring'[u] # NoRing
           /\ pc'[u] # "carve" /\ (pc'[u] # "idle" => sent'[u] # 0)
    BY <1>0, <2>1, <2>2, <2>6 DEF OwnInv
  <2> QED
    BY <2>3, <2>4, <2>5, <2>7, <2>8 DEF OwnInv
<1>5. ASSUME NEW t \in Threads, WithRing(t) PROVE OwnInv'
  <2>1. /\ pc[t] \notin {"idle", "alloc", "carve"} /\ pc'[t] \notin {"alloc", "carve"}
        /\ \A u \in Threads \ {t} : pc'[u] = pc[u] /\ loaded'[u] = loaded[u]
        /\ UNCHANGED <<cursor, tl_ring, sent>>
    BY <1>0, <1>5, WithRingLeaves
  <2> QED
    BY <1>0, <2>1 DEF OwnInv
<1> QED
  BY <1>1, <1>2, <1>3, <1>4, <1>5 DEF Next, InRecord, WithRing

-----------------------------------------------------------------------------
(* The list of rings.                                                       *)

\* Which rings are on the list.
LEMMA LinkedStays ==
    ASSUME UNCHANGED tl_ring,
           \A u \in Threads : pc'[u] \in {"link", "cas"} <=> pc[u] \in {"link", "cas"}
    PROVE  Linked' = Linked
  BY DEF Linked

\* A ring is not on the list until its thread has put it there.
LEMMA Unlinked ==
    ASSUME TypeOK, OwnInv, NEW t \in Threads, pc[t] \in {"link", "cas"}
    PROVE  tl_ring[t] \in Rings /\ tl_ring[t] # NoRing /\ tl_ring[t] \notin Linked
<1>1. tl_ring[t] # NoRing
  BY DEF OwnInv
<1>2. tl_ring[t] \in Rings
  BY <1>1, OwnRing
<1> QED
  BY <1>1, <1>2 DEF Linked, OwnInv

\* Which rings StoreCursor and CasRingHead link.
LEMMA CarveLinks ==
    ASSUME IInv, NEW t \in Threads, StoreCursor(t)
    PROVE  Linked' = Linked /\ cursor \notin Linked
<1>0. /\ pc \in [Threads -> PcLabels] /\ tl_ring \in [Threads -> Rings \cup {NoRing}]
      /\ NoRing \notin Rings
  BY TypeParts, RingAssumption DEF IInv, RecTypes, ListTypes, Rings
<1>1. /\ tl_ring[t] = NoRing /\ \A u \in Threads : tl_ring[u] # cursor
      /\ tl_ring' = [tl_ring EXCEPT ![t] = cursor] /\ pc' = [pc EXCEPT ![t] = "link"]
  BY Carves
<1>2. \A u \in Threads \ {t} : tl_ring'[u] = tl_ring[u] /\ pc'[u] = pc[u]
  BY <1>0, <1>1
<1>3. tl_ring'[t] = cursor /\ pc'[t] = "link"
  BY <1>0, <1>1
<1>4. ASSUME NEW r \in Rings PROVE r \in Linked' <=> r \in Linked
  BY <1>0, <1>1, <1>2, <1>3 DEF Linked
<1>5. Linked' \subseteq Rings /\ Linked \subseteq Rings
  BY DEF Linked
<1> QED
  BY <1>1, <1>4, <1>5 DEF Linked

\* A successful compare-and-swap puts the ring on the list.
LEMMA CasLinks ==
    ASSUME IInv, NEW t \in Threads, CasRingHead(t), g_ring_head = loaded[t]
    PROVE  Linked' = Linked \cup {tl_ring[t]}
<1>0. pc \in [Threads -> PcLabels] /\ TypeOK /\ OwnInv
  BY TypeParts DEF IInv, RecTypes
<1>1. pc[t] = "cas" /\ pc' = [pc EXCEPT ![t] = "load"] /\ UNCHANGED tl_ring
  BY DEF CasRingHead, Goto
<1>2. tl_ring[t] \in Rings
  BY <1>0, <1>1, Unlinked
<1>3. pc'[t] = "load" /\ \A u \in Threads \ {t} : pc'[u] = pc[u]
  BY <1>0, <1>1
<1> QED
  BY <1>1, <1>2, <1>3 DEF Linked

\* The list survives steps that leave it alone.
LEMMA ListFrame ==
    ASSUME ListInv, Linked' = Linked, UNCHANGED g_ring_head,
           \A r \in Linked : next'[r] = next[r],
           rb' \in Linked \cup {NoRing},
           \A t \in Threads : pc'[t] = "cas" => /\ next'[tl_ring'[t]] = loaded'[t]
                                                /\ loaded'[t] \in Linked \cup {NoRing}
    PROVE  ListInv'
<1>1. \A S : Closed(S)' <=> Closed(S)
  BY DEF Closed
<1> QED
  BY <1>1 DEF ListInv

\* Every step keeps ListInv.
LEMMA ListStep ==
    ASSUME IInv, [Next]_vars
    PROVE  ListInv'
<1>0. TypeOK /\ OwnInv /\ ListInv
  BY DEF IInv
<1>a. /\ pc \in [Threads -> PcLabels] /\ loaded \in [Threads -> Nat \cup {NoRing}]
      /\ tl_ring \in [Threads -> Rings \cup {NoRing}] /\ NoRing \notin Rings
      /\ next \in [Rings -> Rings \cup {NoRing}]
  BY <1>0, TypeParts, RingAssumption DEF RecTypes, ListTypes, Rings
<1>1. CASE (Background \/ Main \/ Fini) \/ UNCHANGED vars
  <2>1. UNCHANGED <<tl_ring, g_ring_head, next, pc, loaded>>
    BY <1>1, OthersLeave DEF vars, listVars, recVars
  <2>2. rb' = rb \/ rb' = g_ring_head \/ (rb # NoRing /\ rb' = next[rb])
    BY <1>1 DEF vars, bgVars, Background, LoopTest, FirstRing, PopTest, PopCopy, PopStore,
                WalkEnd, ParkTest, ParkAnnounce, FutexWait, FutexTimeout, ParkEnd, Main,
                OpenFile, WriteHeader, StopRunning, StopWakeStore, StopWakeCall,
                JoinAndClose, Fini
  <2>3. rb' \in Linked \cup {NoRing}
    BY <1>0, <2>2 DEF ListInv
  <2>4. Linked' = Linked
    BY <2>1, LinkedStays
  <2> QED
    BY <1>0, <2>1, <2>3, <2>4, ListFrame DEF ListInv
<1>2. ASSUME NEW t \in Threads, Record(t) \/ LoadCursor(t) PROVE ListInv'
  <2>1. /\ pc[t] \notin {"link", "cas"} /\ UNCHANGED <<tl_ring, g_ring_head, next, rb>>
        /\ \E l \in PcLabels \ {"link", "cas"} : pc' = [pc EXCEPT ![t] = l]
    BY <1>2 DEF Record, LoadCursor, Goto, PcLabels, listVars, bgVars
  <2>2. \A u \in Threads \ {t} : pc'[u] = pc[u] /\ loaded'[u] = loaded[u]
    BY <1>2, <1>a, <2>1 DEF Record, LoadCursor
  <2>3. pc'[t] \notin {"link", "cas"}
    BY <1>a, <2>1
  <2>4. Linked' = Linked
    BY <2>1, <2>2, <2>3, LinkedStays
  <2> QED
    BY <1>0, <2>1, <2>2, <2>3, <2>4, ListFrame DEF ListInv
<1>3. ASSUME NEW t \in Threads, StoreCursor(t) PROVE ListInv'
  <2>1. /\ cursor \in Rings /\ tl_ring' = [tl_ring EXCEPT ![t] = cursor]
        /\ \A u \in Threads : tl_ring[u] # cursor
        /\ next' = [next EXCEPT ![cursor] = NoRing]
        /\ loaded' = [loaded EXCEPT ![t] = 0] /\ pc' = [pc EXCEPT ![t] = "link"]
        /\ UNCHANGED <<g_ring_head, rb>>
    BY <1>3, Carves DEF bgVars
  <2>2. Linked' = Linked /\ cursor \notin Linked
    BY <1>3, CarveLinks
  <2>3. \A r \in Rings : r # cursor => next'[r] = next[r]
    BY <1>a, <2>1
  <2>4. /\ \A u \in Threads \ {t} : /\ pc'[u] = pc[u] /\ loaded'[u] = loaded[u]
                                    /\ tl_ring'[u] = tl_ring[u]
        /\ pc'[t] = "link"
    BY <1>a, <2>1
  <2>5. \A u \in Threads : pc[u] = "cas" => tl_ring[u] \in Rings
    BY <1>0, <1>a DEF OwnInv
  <2>6. \A u \in Threads : pc'[u] = "cas" => /\ next'[tl_ring'[u]] = loaded'[u]
                                             /\ loaded'[u] \in Linked \cup {NoRing}
    BY <1>0, <2>1, <2>3, <2>4, <2>5 DEF ListInv
  <2>7. \A r \in Linked : next'[r] = next[r]
    BY <2>2, <2>3 DEF Linked
  <2> QED
    BY <1>0, <2>1, <2>2, <2>6, <2>7, ListFrame DEF ListInv
<1>4. ASSUME NEW t \in Threads, LinkNext(t) PROVE ListInv'
  <2>1. /\ pc[t] = "link" /\ next' = [next EXCEPT ![tl_ring[t]] = g_ring_head]
        /\ loaded' = [loaded EXCEPT ![t] = g_ring_head] /\ pc' = [pc EXCEPT ![t] = "cas"]
        /\ UNCHANGED <<tl_ring, g_ring_head, rb>>
    BY <1>4 DEF LinkNext, Goto, bgVars
  <2>2. tl_ring[t] \in Rings /\ tl_ring[t] \notin Linked
    BY <1>0, <2>1, Unlinked
  <2>3. /\ \A u \in Threads \ {t} : pc'[u] = pc[u] /\ loaded'[u] = loaded[u]
        /\ pc'[t] = "cas" /\ loaded'[t] = g_ring_head
    BY <1>a, <2>1
  <2>4. Linked' = Linked
    BY <2>1, <2>3, LinkedStays
  <2>5. next'[tl_ring[t]] = g_ring_head /\ \A r \in Rings : r # tl_ring[t] => next'[r] = next[r]
    BY <1>a, <2>1, <2>2
  <2>6. \A u \in Threads \ {t} : pc[u] = "cas" => tl_ring[u] \in Rings /\ tl_ring[u] # tl_ring[t]
    BY <1>0, <1>a, <2>2 DEF OwnInv
  <2>7. \A u \in Threads : pc'[u] = "cas" => /\ next'[tl_ring'[u]] = loaded'[u]
                                             /\ loaded'[u] \in Linked \cup {NoRing}
    BY <1>0, <2>1, <2>3, <2>5, <2>6 DEF ListInv
  <2>8. \A r \in Linked : next'[r] = next[r]
    BY <2>2, <2>5 DEF Linked
  <2> QED
    BY <1>0, <2>1, <2>4, <2>7, <2>8, ListFrame DEF ListInv
<1>5. ASSUME NEW t \in Threads, CasRingHead(t), g_ring_head = loaded[t] PROVE ListInv'
  <2>1. /\ pc[t] = "cas" /\ g_ring_head' = tl_ring[t] /\ pc' = [pc EXCEPT ![t] = "load"]
        /\ loaded' = [loaded EXCEPT ![t] = 0] /\ UNCHANGED <<tl_ring, next, rb>>
    BY <1>5 DEF CasRingHead, Goto, bgVars
  <2>2. Linked' = Linked \cup {tl_ring[t]}
    BY <1>5, CasLinks
  <2>3. tl_ring[t] \in Rings /\ tl_ring[t] # NoRing /\ next[tl_ring[t]] = g_ring_head
    BY <1>0, <1>5, <2>1, Unlinked DEF ListInv
  <2>4. ASSUME NEW S \in SUBSET Rings, Closed(S)', g_ring_head' \in S \cup {NoRing}
        PROVE  Linked' \subseteq S
    <3>1. tl_ring[t] \in S /\ g_ring_head \in S \cup {NoRing}
      BY <2>1, <2>2, <2>3, <2>4 DEF Closed
    <3>2. Closed(S)
      BY <2>1, <2>2, <2>4 DEF Closed
    <3> QED
      BY <1>0, <2>2, <3>1, <3>2 DEF ListInv
  <2>5. /\ \A u \in Threads \ {t} : pc'[u] = pc[u] /\ loaded'[u] = loaded[u]
        /\ pc'[t] = "load"
    BY <1>a, <2>1
  <2>6. \A u \in Threads : pc'[u] = "cas" => /\ next'[tl_ring'[u]] = loaded'[u]
                                             /\ loaded'[u] \in Linked' \cup {NoRing}
    BY <1>0, <2>1, <2>2, <2>5 DEF ListInv
  <2>7. /\ g_ring_head' \in Linked' \cup {NoRing} /\ rb' \in Linked' \cup {NoRing}
        /\ \A r \in Linked' : next'[r] \in Linked' \cup {NoRing}
    BY <1>0, <2>1, <2>2, <2>3 DEF ListInv
  <2> QED
    BY <2>4, <2>6, <2>7 DEF ListInv
<1>6. ASSUME NEW t \in Threads,
             \/ CasRingHead(t) /\ g_ring_head # loaded[t]
             \/ LoadIndices(t) \/ WriteSlot(t) \/ StoreHead(t)
             \/ Notify(t) \/ WakeStore(t) \/ WakeCall(t)
      PROVE  ListInv'
  <2>1. /\ UNCHANGED <<g_ring_head, next, rb>>
        /\ \/ pc[t] = "cas" /\ pc' = [pc EXCEPT ![t] = "link"]
           \/ pc[t] \notin {"link", "cas"} /\ \E l \in PcLabels \ {"link", "cas"} :
                                                 pc' = [pc EXCEPT ![t] = l]
    BY <1>6 DEF CasRingHead, LoadIndices, WriteSlot, StoreHead, Notify, WakeStore, WakeCall,
                Goto, PcLabels, listVars, bgVars
  <2>2. /\ \A u \in Threads \ {t} : pc'[u] = pc[u] /\ loaded'[u] = loaded[u]
        /\ UNCHANGED tl_ring
    BY <1>0, <1>6, WithRingLeaves DEF WithRing
  <2>3. pc'[t] # "cas" /\ (pc'[t] \in {"link", "cas"} <=> pc[t] \in {"link", "cas"})
    BY <1>a, <2>1
  <2>4. Linked' = Linked
    BY <2>2, <2>3, LinkedStays
  <2> QED
    BY <1>0, <2>1, <2>2, <2>3, <2>4, ListFrame DEF ListInv
<1> QED
  BY <1>1, <1>2, <1>3, <1>4, <1>5, <1>6 DEF Next, InRecord

-----------------------------------------------------------------------------
(* Producer and consumer.                                                   *)

\* A record call touches its own thread and its own ring only.
Untouched(u) ==
    /\ tl_ring'[u] = tl_ring[u] /\ pc'[u] = pc[u] /\ sent'[u] = sent[u]
    /\ pos'[u] = pos[u] /\ loaded'[u] = loaded[u]
    /\ tl_ring[u] # NoRing => /\ head'[tl_ring[u]] = head[tl_ring[u]]
                              /\ tail'[tl_ring[u]] = tail[tl_ring[u]]
                              /\ slots'[tl_ring[u]] = slots[tl_ring[u]]

\* A recording thread leaves what belongs to another alone.
LEMMA OthersUntouched ==
    ASSUME IInv, NEW t \in Threads, NEW u \in Threads, u # t, Record(t) \/ InRecord(t)
    PROVE  Untouched(u)
<1>0. TypeOK /\ OwnInv
  BY DEF IInv
<1>a. /\ pc \in [Threads -> PcLabels] /\ sent \in [Threads -> Nat] /\ pos \in [Threads -> Nat]
      /\ loaded \in [Threads -> Nat \cup {NoRing}] /\ tl_ring \in [Threads -> Rings \cup {NoRing}]
      /\ head \in [Rings -> Nat] /\ tail \in [Rings -> Nat]
      /\ slots \in [Rings -> [0..(Capacity - 1) -> Events \cup {NoEvent}]]
  BY <1>0, TypeParts DEF RecTypes, ListTypes, IndexTypes, SlotTypes
<1>b. tl_ring[u] # NoRing => tl_ring[u] \in Rings /\ tl_ring[u] # tl_ring[t]
  BY <1>0, <1>a DEF OwnInv
<1>1. CASE Record(t) \/ LoadCursor(t)
  BY <1>a, <1>1 DEF Record, LoadCursor, Goto, Untouched, listVars, ringVars
<1>2. CASE StoreCursor(t)
  <2>1. /\ \A v \in Threads : tl_ring[v] # cursor
        /\ tl_ring' = [tl_ring EXCEPT ![t] = cursor]
        /\ head' = [head EXCEPT ![cursor] = 0] /\ tail' = [tail EXCEPT ![cursor] = 0]
        /\ loaded' = [loaded EXCEPT ![t] = 0] /\ pc' = [pc EXCEPT ![t] = "link"]
        /\ UNCHANGED <<slots, sent, pos>>
    BY <1>2, Carves
  <2> QED
    BY <1>a, <1>b, <2>1 DEF Untouched
<1>3. CASE WithRing(t)
  <2>1. /\ pc'[u] = pc[u] /\ loaded'[u] = loaded[u] /\ pos'[u] = pos[u]
        /\ UNCHANGED <<tl_ring, tail, sent>>
    BY <1>0, <1>3, WithRingLeaves
  <2>2. UNCHANGED head \/ \E x : head' = [head EXCEPT ![tl_ring[t]] = x]
    BY <1>3 DEF WithRing, LinkNext, CasRingHead, LoadIndices, WriteSlot, StoreHead, Notify,
                WakeStore, WakeCall, ringVars
  <2>3. UNCHANGED slots \/ \E i, x : slots' = [slots EXCEPT ![tl_ring[t]][i] = x]
    BY <1>3 DEF WithRing, LinkNext, CasRingHead, LoadIndices, WriteSlot, StoreHead, Notify,
                WakeStore, WakeCall, ringVars
  <2>4. tl_ring[u] # NoRing => head'[tl_ring[u]] = head[tl_ring[u]]
    BY <1>a, <1>b, <2>2
  <2>5. tl_ring[u] # NoRing => slots'[tl_ring[u]] = slots[tl_ring[u]]
    BY <1>a, <1>b, <2>3
  <2> QED
    BY <2>1, <2>4, <2>5 DEF Untouched
<1> QED
  BY <1>1, <1>2, <1>3 DEF InRecord, WithRing

\* PopStore: the ring that shrinks, and its owner.
LEMMA Pops ==
    ASSUME IInv, PopStore
    PROVE  /\ rb \in Linked /\ tail[rb] \in Nat /\ head[rb] \in Nat /\ tail[rb] < head[rb]
           /\ tail'[rb] = tail[rb] + 1 /\ \A r \in Rings \ {rb} : tail'[r] = tail[r]
           /\ log' = Append(log, ev) /\ ev = slots[rb][tail[rb] % Capacity]
           /\ UNCHANGED <<rb, final>> /\ bgpc' = "pop"
<1>1. rb \in Linked /\ tail[rb] < head[rb] /\ ev = slots[rb][tail[rb] % Capacity]
  BY DEF IInv, PopStore, ConsumerInv, ListInv
<1>2. rb \in Rings /\ tail \in [Rings -> Nat] /\ head \in [Rings -> Nat]
  BY <1>1, TypeParts DEF IInv, IndexTypes, Linked
<1> QED
  BY <1>1, <1>2 DEF PopStore

\* The consumer and main never write a slot, and only PopStore moves a tail.
LEMMA TailLeft ==
    ASSUME (Background /\ ~PopStore) \/ Main \/ Fini
    PROVE  UNCHANGED <<tail, log>>
  BY DEF Background, LoopTest, FirstRing, PopTest, PopCopy, WalkEnd, ParkTest, ParkAnnounce,
         FutexWait, FutexTimeout, ParkEnd, Main, OpenFile, WriteHeader, StopRunning,
         StopWakeStore, StopWakeCall, JoinAndClose, Fini, ringVars, outVars

\* Every step keeps ProducerInv.
LEMMA ProducerStep ==
    ASSUME IInv, [Next]_vars
    PROVE  ProducerInv'
<1>0. TypeOK /\ OwnInv /\ ListInv /\ ProducerInv
  BY DEF IInv
<1>a. /\ pc \in [Threads -> PcLabels] /\ sent \in [Threads -> Nat] /\ pos \in [Threads -> Nat]
      /\ loaded \in [Threads -> Nat \cup {NoRing}] /\ tl_ring \in [Threads -> Rings \cup {NoRing}]
      /\ head \in [Rings -> Nat] /\ tail \in [Rings -> Nat]
      /\ slots \in [Rings -> [0..(Capacity - 1) -> Events \cup {NoEvent}]]
  BY <1>0, TypeParts DEF RecTypes, ListTypes, IndexTypes, SlotTypes
<1>1. CASE (Background /\ ~PopStore) \/ Main \/ Fini \/ UNCHANGED vars
  <2>1. UNCHANGED <<tl_ring, pc, head, tail, slots, pos, loaded, sent>>
    BY <1>1, OthersLeave, TailLeft DEF vars, listVars, ringVars, recVars
  <2> QED
    BY <1>0, <2>1 DEF ProducerInv, Producing
<1>2. CASE PopStore
  <2>1. UNCHANGED <<tl_ring, pc, head, slots, pos, loaded, sent>>
    BY <1>2, OthersLeave DEF Background
  <2>2. /\ rb \in Linked /\ tail[rb] \in Nat /\ tail'[rb] = tail[rb] + 1
        /\ \A r \in Rings \ {rb} : tail'[r] = tail[r]
    BY <1>2, Pops
  <2>3. ASSUME NEW u \in Threads PROVE Producing(u)'
    <3>1. CASE pc[u] \in {"link", "cas"}
      <4>1. tl_ring[u] \in Rings \ {rb}
        BY <1>0, <2>2, <3>1, Unlinked
      <4> QED
        BY <1>0, <2>1, <2>2, <3>1, <4>1 DEF ProducerInv, Producing
    <3>2. CASE pc[u] \in {"write", "publish"}
      <4>1. tl_ring[u] \in Rings /\ tail[tl_ring[u]] \in Nat
        BY <1>0, <3>2, OwnRing DEF OwnInv
      <4>2. tail'[tl_ring[u]] \in {tail[tl_ring[u]], tail[tl_ring[u]] + 1}
        BY <2>2, <4>1
      <4> QED
        BY <1>0, <2>1, <3>2, <4>1, <4>2, RingAssumption DEF ProducerInv, Producing
    <3> QED
      BY <2>1, <3>1, <3>2 DEF Producing
  <2> QED
    BY <2>3 DEF ProducerInv
<1>3. ASSUME NEW t \in Threads, Record(t) \/ InRecord(t) PROVE ProducerInv'
  <2>1. ASSUME NEW u \in Threads, u # t PROVE Producing(u)'
    <3>1. Untouched(u) /\ Producing(u)
      BY <1>0, <1>3, <2>1, OthersUntouched DEF ProducerInv
    <3>2. pc[u] \notin {"idle", "alloc", "carve"} => tl_ring[u] # NoRing
      BY <1>0 DEF OwnInv
    <3> QED
      BY <3>1, <3>2 DEF Untouched, Producing
  <2>2. Producing(t)
    BY <1>0 DEF ProducerInv
  <2>3. CASE Record(t) \/ LoadCursor(t) \/ Notify(t) \/ WakeStore(t) \/ WakeCall(t)
    <3>1. \E l \in {"alloc", "load", "carve", "idle", "store", "wake"} : pc' = [pc EXCEPT ![t] = l]
      BY <2>3 DEF Record, LoadCursor, Notify, WakeStore, WakeCall, Goto
    <3>2. pc'[t] \in {"alloc", "load", "carve", "idle", "store", "wake"}
      BY <1>a, <3>1
    <3> QED
      BY <2>1, <3>2 DEF ProducerInv, Producing
  <2>4. CASE StoreCursor(t)
    <3>1. /\ cursor \in Rings /\ tl_ring' = [tl_ring EXCEPT ![t] = cursor]
          /\ head' = [head EXCEPT ![cursor] = 0] /\ tail' = [tail EXCEPT ![cursor] = 0]
          /\ pc' = [pc EXCEPT ![t] = "link"]
      BY <2>4, Carves
    <3>2. Producing(t)'
      BY <1>a, <3>1 DEF Producing
    <3> QED
      BY <2>1, <3>2 DEF ProducerInv
  <2>5. CASE LinkNext(t) \/ CasRingHead(t)
    <3>1. /\ \E l \in {"load", "link", "cas"} : pc' = [pc EXCEPT ![t] = l]
          /\ pc[t] \in {"link", "cas"} /\ UNCHANGED <<tl_ring, head, tail>>
      BY <2>5 DEF LinkNext, CasRingHead, Goto, ringVars
    <3>2. pc'[t] \in {"load", "link", "cas"}
      BY <1>a, <3>1
    <3>3. Producing(t)'
      BY <2>2, <3>1, <3>2 DEF Producing
    <3> QED
      BY <2>1, <3>3 DEF ProducerInv
  <2>6. CASE LoadIndices(t)
    <3> DEFINE r == tl_ring[t]
    <3>1. pc[t] = "load" /\ UNCHANGED <<tl_ring, head, tail, slots>>
      BY <2>6 DEF LoadIndices, listVars, ringVars
    <3>2. r \in Rings /\ head[r] \in Nat /\ tail[r] \in Nat
      BY <1>0, <3>1, OwnRing DEF OwnInv
    <3>3. CASE Full(head[r], tail[r])
      <4>1. pc'[t] = "idle"
        BY <1>a, <2>6, <3>3 DEF LoadIndices, Goto
      <4> QED
        BY <2>1, <4>1 DEF ProducerInv, Producing
    <3>4. CASE ~Full(head[r], tail[r])
      <4>1. pc'[t] = "write" /\ pos'[t] = head[r] /\ loaded'[t] = tail[r]
        BY <1>a, <2>6, <3>4 DEF LoadIndices, Goto
      <4>2. head[r] < tail[r] + Capacity
        BY <3>2, <3>4, RingAssumption DEF Full
      <4>3. Producing(t)'
        BY <3>1, <3>2, <4>1, <4>2 DEF Producing
      <4> QED
        BY <2>1, <4>3 DEF ProducerInv
    <3> QED
      BY <3>3, <3>4
  <2>7. CASE WriteSlot(t)
    <3> DEFINE r == tl_ring[t]
    <3>1. /\ pc[t] = "write" /\ pc' = [pc EXCEPT ![t] = "publish"]
          /\ slots' = [slots EXCEPT ![r][pos[t] % Capacity] = <<t, sent[t]>>]
          /\ UNCHANGED <<tl_ring, head, tail, sent, loaded, pos>>
      BY <2>7 DEF WriteSlot, Goto, listVars
    <3>2. r \in Rings /\ head[r] \in Nat /\ pos[t] = head[r]
      BY <1>0, <2>2, <3>1, OwnRing DEF OwnInv, Producing
    <3>3. head[r] % Capacity \in 0..(Capacity - 1)
      BY <3>2, SlotInRing
    <3>4. slots'[r][head[r] % Capacity] = <<t, sent[t]>>
      BY <1>a, <3>1, <3>2, <3>3
    <3>5. pc'[t] = "publish"
      BY <1>a, <3>1
    <3>6. Producing(t)'
      BY <2>2, <3>1, <3>4, <3>5 DEF Producing
    <3> QED
      BY <2>1, <3>6 DEF ProducerInv
  <2>8. CASE StoreHead(t)
    <3>1. pc'[t] \in {"notify", "idle"}
      BY <1>a, <2>8 DEF StoreHead, Goto
    <3> QED
      BY <2>1, <3>1 DEF ProducerInv, Producing
  <2> QED
    BY <1>3, <2>3, <2>4, <2>5, <2>6, <2>7, <2>8 DEF InRecord
<1> QED
  BY <1>1, <1>2, <1>3 DEF Next


-----------------------------------------------------------------------------
(* The order of events.                                                     *)

\* The producer's slot is not one of those that hold events.
LEMMA SlotFree ==
    ASSUME IInv, NEW t \in Threads, pc[t] \in {"write", "publish"},
           NEW i \in tail[tl_ring[t]]..(head[tl_ring[t]] - 1)
    PROVE  i \in Nat /\ i % Capacity # head[tl_ring[t]] % Capacity
<1> DEFINE r == tl_ring[t]
<1>1. head[r] \in Nat /\ tail[r] \in Nat
  BY OwnRing DEF IInv, OwnInv
<1>2. loaded[t] \in Nat /\ loaded[t] <= tail[r] /\ head[r] < loaded[t] + Capacity
  BY DEF IInv, ProducerInv, Producing
<1>3. i \in Nat /\ i < head[r] /\ head[r] < i + Capacity
  BY <1>1, <1>2, RingAssumption
<1> QED
  BY <1>1, <1>3, SlotsDiffer

\* Records carry natural numbers.
LEMMA LogNumbers ==
    ASSUME TypeOK
    PROVE  \A k \in DOMAIN log : log[k][2] \in Nat
<1>1. Numbers \subseteq Nat
  BY DEF Numbers
<1>2. \A e \in Events : e[2] \in Nat
  BY <1>1 DEF Events
<1>3. log \in Seq(Events)
  BY DEF TypeOK
<1> QED
  BY <1>2, <1>3

\* A thread's order survives steps that leave its ring and the log alone.
LEMMA OrderFrame ==
    ASSUME TypeOK, NEW u \in Threads, Ordered(u), Logged(u), UNCHANGED log,
           tl_ring'[u] = tl_ring[u],
           Decided(u) \in Int, Decided(u)' \in Int, Decided(u) <= Decided(u)',
           tl_ring[u] # NoRing =>
               /\ head'[tl_ring[u]] = head[tl_ring[u]] /\ tail'[tl_ring[u]] = tail[tl_ring[u]]
               /\ \A i \in tail[tl_ring[u]]..(head[tl_ring[u]] - 1) :
                     slots'[tl_ring[u]][i % Capacity] = slots[tl_ring[u]][i % Capacity]
    PROVE  Ordered(u)' /\ Logged(u)'
<1>1. 1..Decided(u) \subseteq 1..Decided(u)'
  OBVIOUS
<1>2. \A k \in DOMAIN log : log[k][2] \in Nat
  BY LogNumbers
<1>3. Logged(u)'
  BY <1>2 DEF Logged
<1>4. Ordered(u)'
  BY <1>1 DEF Ordered
<1> QED
  BY <1>3, <1>4

\* The number of events a thread has recorded is a number.
LEMMA DecidedType ==
    ASSUME TypeOK, NEW u \in Threads
    PROVE  Decided(u) \in Int
  BY DEF TypeOK, Decided

\* Every step keeps OrderInv.
LEMMA OrderStep ==
    ASSUME IInv, TypeOK', [Next]_vars
    PROVE  OrderInv'
<1>0. TypeOK /\ OwnInv /\ ListInv /\ ProducerInv /\ OrderInv
  BY DEF IInv
<1>a. /\ pc \in [Threads -> PcLabels] /\ sent \in [Threads -> Nat] /\ pos \in [Threads -> Nat]
      /\ tl_ring \in [Threads -> Rings \cup {NoRing}]
      /\ head \in [Rings -> Nat] /\ tail \in [Rings -> Nat]
      /\ slots \in [Rings -> [0..(Capacity - 1) -> Events \cup {NoEvent}]]
  BY <1>0, TypeParts DEF RecTypes, ListTypes, IndexTypes, SlotTypes
<1>b. \A u \in Threads : Decided(u) \in Int /\ Decided(u)' \in Int
  <2>1. \A u \in Threads : Decided(u) \in Int
    BY <1>0, DecidedType
  <2>2. \A u \in Threads : sent'[u] \in Nat
    BY DEF TypeOK
  <2> QED
    BY <2>1, <2>2 DEF Decided
<1>1. CASE (Background /\ ~PopStore) \/ Main \/ Fini \/ UNCHANGED vars
  <2>1. UNCHANGED <<tl_ring, pc, head, tail, slots, sent, log>>
    BY <1>1, OthersLeave, TailLeft DEF vars, listVars, ringVars, recVars, outVars
  <2> QED
    BY <1>0, <2>1 DEF OrderInv, Ordered, Logged, Decided
<1>2. CASE PopStore
  <2>1. UNCHANGED <<tl_ring, pc, head, slots, sent>>
    BY <1>2, OthersLeave DEF Background
  <2>2. /\ rb \in Linked /\ tail[rb] \in Nat /\ head[rb] \in Nat /\ tail[rb] < head[rb]
        /\ tail'[rb] = tail[rb] + 1 /\ \A r \in Rings \ {rb} : tail'[r] = tail[r]
        /\ log' = Append(log, ev) /\ ev = slots[rb][tail[rb] % Capacity]
    BY <1>2, Pops
  <2>3. PICK t \in Threads : tl_ring[t] = rb
    BY <2>2 DEF Linked
  <2>4. rb # NoRing /\ rb \in Rings
    BY <2>2, RingAssumption DEF Linked, Rings
  <2>5. tail[rb] \in tail[rb]..(head[rb] - 1)
    BY <2>2
  <2>6. ev \in {t} \X (1..Decided(t))
    BY <1>0, <2>2, <2>3, <2>4, <2>5 DEF OrderInv, Ordered
  <2>7. /\ ev[1] = t /\ ev[2] \in Int /\ ev[2] <= Decided(t)
    BY <1>b, <2>6
  <2>8. log \in Seq(Events) /\ ev \in Events
    BY <1>0, <1>2, CopiedEvent DEF TypeOK, PopStore, IInv, ConsumerInv
  <2>9. ASSUME NEW k \in DOMAIN log' PROVE (k \in DOMAIN log /\ log'[k] = log[k]) \/ log'[k] = ev
    BY <2>2, <2>8, <2>9
  <2>10. ASSUME NEW u \in Threads, u # t PROVE Ordered(u)' /\ Logged(u)'
    <3>1. Ordered(u) /\ Logged(u) /\ Decided(u)' = Decided(u)
      BY <1>0, <2>1 DEF OrderInv, Decided
    <3>2. \A k \in DOMAIN log' : log'[k][1] = u => k \in DOMAIN log /\ log'[k] = log[k]
      BY <2>7, <2>9, <2>10
    <3>3. tl_ring[u] # NoRing => tail'[tl_ring[u]] = tail[tl_ring[u]]
      BY <1>0, <1>a, <2>2, <2>3, <2>4, <2>10 DEF OwnInv
    <3>4. Logged(u)'
      BY <3>1, <3>2 DEF Logged
    <3>5. Ordered(u)'
      BY <2>1, <3>1, <3>2, <3>3 DEF Ordered
    <3> QED
      BY <3>4, <3>5
  <2>11. Ordered(t)' /\ Logged(t)'
    <3>1. Ordered(t) /\ Logged(t) /\ Decided(t)' = Decided(t)
      BY <1>0, <2>1 DEF OrderInv, Decided
    <3>2. Logged(t)'
      BY <2>7, <2>9, <3>1 DEF Logged
    <3>3. ASSUME NEW i \in tail'[rb]..(head[rb] - 1)
          PROVE  i \in tail[rb]..(head[rb] - 1) /\ tail[rb] < i
      BY <2>2
    <3>4. \A i \in tail'[rb]..(head[rb] - 1) :
             ev[2] < slots[rb][i % Capacity][2]
      BY <2>2, <2>3, <2>4, <2>5, <3>1, <3>3 DEF Ordered
    <3>5. ASSUME NEW i \in tail'[rb]..(head[rb] - 1)
          PROVE  /\ slots[rb][i % Capacity] \in {t} \X (1..Decided(t))
                 /\ \A k \in DOMAIN log : log[k][1] = t => log[k][2] < slots[rb][i % Capacity][2]
                 /\ \A j \in tail'[rb]..(head[rb] - 1) :
                       i < j => slots[rb][i % Capacity][2] < slots[rb][j % Capacity][2]
      BY <2>3, <2>4, <3>1, <3>3 DEF Ordered
    <3>6. ASSUME NEW i \in tail'[rb]..(head[rb] - 1), NEW k \in DOMAIN log', log'[k][1] = t
          PROVE  log'[k][2] < slots[rb][i % Capacity][2]
      BY <2>9, <3>4, <3>5, <3>6
    <3>7. Ordered(t)'
      BY <2>1, <2>3, <3>1, <3>5, <3>6 DEF Ordered
    <3> QED
      BY <3>2, <3>7
  <2> QED
    BY <2>10, <2>11 DEF OrderInv
<1>3. ASSUME NEW t \in Threads, Record(t) \/ InRecord(t) PROVE OrderInv'
  <2>0. UNCHANGED log
    BY <1>3 DEF Record, InRecord, LoadCursor, StoreCursor, LinkNext, CasRingHead, LoadIndices,
                WriteSlot, StoreHead, Notify, WakeStore, WakeCall, outVars
  <2>1. ASSUME NEW u \in Threads, u # t PROVE Ordered(u)' /\ Logged(u)'
    <3>1. Untouched(u) /\ Ordered(u) /\ Logged(u)
      BY <1>0, <1>3, <2>1, OthersUntouched DEF OrderInv
    <3>2. Decided(u)' = Decided(u)
      BY <3>1 DEF Untouched, Decided
    <3> QED
      BY <1>0, <1>b, <2>0, <3>1, <3>2, OrderFrame DEF Untouched
  <2>2. Ordered(t) /\ Logged(t) /\ Decided(t) \in Int /\ Decided(t)' \in Int
    BY <1>0, <1>b DEF OrderInv
  <2>3. CASE \/ Record(t) \/ LoadCursor(t) \/ LinkNext(t) \/ CasRingHead(t) \/ LoadIndices(t)
             \/ Notify(t) \/ WakeStore(t) \/ WakeCall(t)
    <3>1. UNCHANGED <<tl_ring, head, tail, slots>>
      BY <2>3 DEF Record, LoadCursor, LinkNext, CasRingHead, LoadIndices, Notify, WakeStore,
                  WakeCall, listVars, ringVars
    <3>2. Decided(t) <= Decided(t)'
      <4>1. CASE Record(t)
        <5>1. pc[t] = "idle" /\ sent'[t] = sent[t] + 1 /\ pc'[t] \in {"alloc", "load"}
          BY <1>a, <4>1 DEF Record, Goto
        <5> QED
          BY <1>a, <5>1 DEF Decided, Busy
      <4>2. CASE LoadCursor(t) \/ LinkNext(t) \/ CasRingHead(t) \/ LoadIndices(t)
        <5>1. /\ pc[t] \in Busy /\ UNCHANGED sent
          BY <4>2 DEF LoadCursor, LinkNext, CasRingHead, LoadIndices, Busy
        <5> QED
          BY <1>a, <5>1 DEF Decided
      <4>3. CASE Notify(t) \/ WakeStore(t) \/ WakeCall(t)
        <5>1. /\ \E l \in {"store", "wake", "idle"} : pc' = [pc EXCEPT ![t] = l]
              /\ UNCHANGED sent
          BY <4>3 DEF Notify, WakeStore, WakeCall, Goto
        <5>2. pc'[t] \notin Busy
          BY <1>a, <5>1 DEF Busy
        <5> QED
          BY <1>a, <5>1, <5>2 DEF Decided
      <4> QED
        BY <2>3, <4>1, <4>2, <4>3
    <3>3. Ordered(t)' /\ Logged(t)'
      BY <1>0, <2>0, <2>2, <3>1, <3>2, OrderFrame
    <3> QED
      BY <2>1, <3>3 DEF OrderInv
  <2>4. CASE StoreCursor(t)
    <3>1. /\ pc[t] = "carve" /\ cursor \in Rings /\ tl_ring' = [tl_ring EXCEPT ![t] = cursor]
          /\ head' = [head EXCEPT ![cursor] = 0] /\ tail' = [tail EXCEPT ![cursor] = 0]
          /\ pc' = [pc EXCEPT ![t] = "link"] /\ UNCHANGED sent
      BY <2>4, Carves
    <3>2. tl_ring'[t] = cursor /\ head'[cursor] = 0 /\ tail'[cursor] = 0 /\ pc'[t] = "link"
      BY <1>a, <3>1
    <3>3. Decided(t)' = Decided(t)
      BY <3>1, <3>2 DEF Decided, Busy
    <3>4. Ordered(t)' /\ Logged(t)'
      BY <2>0, <2>2, <3>2, <3>3 DEF Ordered, Logged
    <3> QED
      BY <2>1, <3>4 DEF OrderInv
  <2>5. CASE WriteSlot(t)
    <3> DEFINE r == tl_ring[t]
    <3>1. /\ pc[t] = "write" /\ pc' = [pc EXCEPT ![t] = "publish"]
          /\ slots' = [slots EXCEPT ![r][pos[t] % Capacity] = <<t, sent[t]>>]
          /\ UNCHANGED <<tl_ring, head, tail, sent>>
      BY <2>5 DEF WriteSlot, Goto, listVars
    <3>2. r \in Rings /\ pos[t] = head[r]
      BY <1>0, <3>1, OwnRing DEF OwnInv, ProducerInv, Producing
    <3>3. ASSUME NEW i \in tail[r]..(head[r] - 1)
          PROVE  slots'[r][i % Capacity] = slots[r][i % Capacity]
      <4>1. i \in Nat /\ i % Capacity # head[r] % Capacity
        BY <3>1, SlotFree
      <4>2. i % Capacity \in 0..(Capacity - 1)
        BY <4>1, SlotInRing
      <4> QED
        BY <1>a, <3>1, <3>2, <4>1, <4>2
    <3>4. pc'[t] = "publish"
      BY <1>a, <3>1
    <3>5. Decided(t)' = Decided(t)
      BY <3>1, <3>4 DEF Decided, Busy
    <3>6. Ordered(t)' /\ Logged(t)'
      BY <1>0, <2>0, <2>2, <3>1, <3>3, <3>5, OrderFrame
    <3> QED
      BY <2>1, <3>6 DEF OrderInv
  <2>6. CASE StoreHead(t)
    <3> DEFINE r == tl_ring[t]
    <3>1. /\ pc[t] = "publish" /\ head' = [head EXCEPT ![r] = pos[t] + 1]
          /\ \E l \in {"notify", "idle"} : pc' = [pc EXCEPT ![t] = l]
          /\ UNCHANGED <<tl_ring, tail, slots, sent>>
      BY <2>6 DEF StoreHead, Goto, listVars
    <3>2. r \in Rings /\ pos[t] = head[r] /\ head[r] \in Nat /\ tail[r] \in Nat /\ r # NoRing
      BY <1>0, <3>1, OwnRing DEF OwnInv, ProducerInv, Producing
    <3>3. slots[r][head[r] % Capacity] = <<t, sent[t]>>
      BY <1>0, <3>1 DEF ProducerInv, Producing
    <3>4. head'[r] = head[r] + 1 /\ pc'[t] \notin Busy
      BY <1>a, <3>1, <3>2 DEF Busy
    <3>5. /\ Decided(t) = sent[t] - 1 /\ Decided(t)' = sent[t] /\ sent[t] \in Nat
          /\ sent[t] \in 1..sent[t]
      <4>1. sent[t] \in Nat /\ sent[t] # 0
        BY <1>0, <1>a, <3>1 DEF OwnInv
      <4> QED
        BY <3>1, <3>4, <4>1 DEF Decided, Busy
    <3>6. \A k \in DOMAIN log : log[k][1] = t => log[k][2] \in Nat /\ log[k][2] < sent[t]
      <4>1. \A k \in DOMAIN log : log[k][2] \in Nat
        BY <1>0, LogNumbers
      <4> QED
        BY <2>2, <3>5, <4>1 DEF Logged
    <3>7. ASSUME NEW i \in tail'[r]..(head'[r] - 1)
          PROVE  i \in tail[r]..(head[r] - 1) \/ i = head[r]
      BY <3>1, <3>2, <3>4
    <3>8. \A i \in tail[r]..(head[r] - 1) :
             /\ slots[r][i % Capacity] \in {t} \X (1..sent[t])
             /\ slots[r][i % Capacity][2] < sent[t]
      BY <2>2, <3>2, <3>5 DEF Ordered
    <3>9. ASSUME NEW i \in tail'[r]..(head'[r] - 1)
          PROVE  /\ slots[r][i % Capacity] \in {t} \X (1..sent[t])
                 /\ \A k \in DOMAIN log : log[k][1] = t => log[k][2] < slots[r][i % Capacity][2]
      <4>1. CASE i = head[r]
        <5>1. slots[r][i % Capacity] = <<t, sent[t]>> /\ slots[r][i % Capacity][2] = sent[t]
          BY <3>3, <4>1
        <5> QED
          BY <3>5, <3>6, <5>1
      <4>2. CASE i \in tail[r]..(head[r] - 1)
        BY <2>2, <3>2, <3>8, <4>2 DEF Ordered
      <4> QED
        BY <3>7, <4>1, <4>2
    <3>10. ASSUME NEW i \in tail'[r]..(head'[r] - 1), NEW j \in tail'[r]..(head'[r] - 1), i < j
           PROVE  slots[r][i % Capacity][2] < slots[r][j % Capacity][2]
      <4>1. i \in tail[r]..(head[r] - 1)
        BY <3>1, <3>2, <3>4, <3>10
      <4>2. CASE j = head[r]
        BY <3>3, <3>8, <4>1, <4>2
      <4>3. CASE j \in tail[r]..(head[r] - 1)
        BY <2>2, <3>2, <3>10, <4>1, <4>3 DEF Ordered
      <4> QED
        BY <3>7, <4>2, <4>3
    <3>11. Ordered(t)'
      BY <2>0, <3>1, <3>5, <3>9, <3>10 DEF Ordered
    <3>12. Logged(t)'
      BY <2>0, <3>5, <3>6 DEF Logged
    <3> QED
      BY <2>1, <3>11, <3>12 DEF OrderInv
  <2> QED
    BY <1>3, <2>3, <2>4, <2>5, <2>6 DEF InRecord
<1> QED
  BY <1>1, <1>2, <1>3 DEF Next




-----------------------------------------------------------------------------
(* The consumer, the destructor and the final drain.                        *)

\* Every step keeps ConsumerInv.
LEMMA ConsumerStep ==
    ASSUME IInv, [Next]_vars
    PROVE  ConsumerInv'
<1>0. TypeOK /\ OwnInv /\ ListInv /\ ProducerInv /\ ConsumerInv
  BY DEF IInv
<1>a. /\ pc \in [Threads -> PcLabels] /\ pos \in [Threads -> Nat]
      /\ tl_ring \in [Threads -> Rings \cup {NoRing}]
      /\ head \in [Rings -> Nat] /\ tail \in [Rings -> Nat]
      /\ \A r \in Rings : head[r] >= tail[r]
      /\ slots \in [Rings -> [0..(Capacity - 1) -> Events \cup {NoEvent}]]
      /\ rb \in Rings \cup {NoRing}
  BY <1>0, TypeParts DEF RecTypes, ListTypes, IndexTypes, SlotTypes, BgTypes
<1>1. CASE PopTest
  <2>1. /\ rb # NoRing /\ UNCHANGED <<tail, head>>
        /\ \/ tail[rb] = head[rb] /\ bgpc' = "pop"
           \/ tail[rb] # head[rb] /\ bgpc' = "copy" /\ rb' = rb
    BY <1>1 DEF PopTest, ringVars
  <2>2. rb \in Rings
    BY <1>a, <2>1
  <2> QED
    BY <1>a, <2>1, <2>2 DEF ConsumerInv
<1>2. CASE PopCopy
  BY <1>0, <1>2 DEF PopCopy, ConsumerInv, ringVars
<1>3. CASE /\ Background /\ ~PopTest /\ ~PopCopy
  <2>1. bgpc' \notin {"copy", "advance"}
    BY <1>3 DEF Background, LoopTest, FirstRing, PopStore, WalkEnd, ParkTest, ParkAnnounce,
                FutexWait, FutexTimeout, ParkEnd, AfterLoop
  <2> QED
    BY <2>1 DEF ConsumerInv
<1>4. CASE Main \/ Fini \/ UNCHANGED vars
  <2>1. UNCHANGED <<head, tail, slots>>
    BY <1>4, OthersLeave, TailLeft DEF vars, ringVars
  <2>2. UNCHANGED <<rb, ev>> /\ bgpc' \in {bgpc, "awake"}
    BY <1>4 DEF Main, OpenFile, WriteHeader, StopRunning, StopWakeStore, StopWakeCall,
                JoinAndClose, FutexWake, Fini, vars, bgVars
  <2> QED
    BY <1>0, <2>1, <2>2 DEF ConsumerInv
<1>5. ASSUME NEW t \in Threads, Record(t) \/ InRecord(t) PROVE ConsumerInv'
  <2>1. UNCHANGED <<rb, ev>> /\ bgpc' \in {bgpc, "awake"}
    BY <1>5 DEF Record, InRecord, LoadCursor, StoreCursor, LinkNext, CasRingHead, LoadIndices,
                WriteSlot, StoreHead, Notify, WakeStore, WakeCall, FutexWake, bgVars
  <2>2. CASE bgpc' \notin {"copy", "advance"}
    BY <2>2 DEF ConsumerInv
  <2>3. CASE bgpc \in {"copy", "advance"}
    <3>1. rb # NoRing /\ tail[rb] < head[rb] /\ (bgpc = "advance" => ev = slots[rb][tail[rb] % Capacity])
      BY <1>0, <2>3 DEF ConsumerInv
    <3>2. rb \in Rings /\ rb \in Linked /\ tail[rb] \in Nat /\ head[rb] \in Nat
      BY <1>0, <1>a, <3>1 DEF ListInv
    <3>3. PICK u \in Threads : tl_ring[u] = rb /\ pc[u] \notin {"link", "cas"}
      BY <3>2 DEF Linked
    <3>4. /\ tail'[rb] = tail[rb] /\ head[rb] <= head'[rb] /\ head'[rb] \in Nat
          /\ slots'[rb][tail[rb] % Capacity] = slots[rb][tail[rb] % Capacity]
      <4>1. CASE u # t
        <5>1. Untouched(u)
          BY <1>5, <4>1, OthersUntouched
        <5> QED
          BY <3>1, <3>2, <3>3, <5>1 DEF Untouched
      <4>2. CASE u = t /\ StoreCursor(t)
        BY <3>1, <3>3, <4>2, Carves
      <4>3. CASE u = t /\ WriteSlot(t)
        <5>1. /\ slots' = [slots EXCEPT ![rb][pos[t] % Capacity] = <<t, sent[t]>>]
              /\ pc[t] = "write" /\ UNCHANGED <<head, tail>>
          BY <3>3, <4>3 DEF WriteSlot
        <5>2. pos[t] = head[rb] /\ tail[rb] \in tail[rb]..(head[rb] - 1)
          BY <1>0, <3>1, <3>2, <3>3, <4>3, <5>1 DEF ProducerInv, Producing
        <5>3. tail[rb] % Capacity # head[rb] % Capacity
          BY <3>3, <4>3, <5>1, <5>2, SlotFree
        <5>4. tail[rb] % Capacity \in 0..(Capacity - 1)
          BY <3>2, SlotInRing
        <5> QED
          BY <1>a, <3>2, <5>1, <5>2, <5>3, <5>4
      <4>4. CASE u = t /\ StoreHead(t)
        <5>1. /\ head' = [head EXCEPT ![rb] = pos[t] + 1] /\ pc[t] = "publish"
              /\ UNCHANGED <<tail, slots>>
          BY <3>3, <4>4 DEF StoreHead
        <5>2. pos[t] = head[rb]
          BY <1>0, <3>3, <4>4, <5>1 DEF ProducerInv, Producing
        <5> QED
          BY <1>a, <3>2, <5>1, <5>2
      <4>5. CASE UNCHANGED <<head, tail, slots>>
        BY <3>2, <4>5
      <4> QED
        BY <1>5, <4>1, <4>2, <4>3, <4>4, <4>5
           DEF InRecord, Record, LoadCursor, LinkNext, CasRingHead, LoadIndices, Notify,
               WakeStore, WakeCall, ringVars
    <3> QED
      BY <2>1, <3>1, <3>2, <3>4 DEF ConsumerInv
  <2> QED
    BY <2>1, <2>2, <2>3
<1> QED
  BY <1>1, <1>2, <1>3, <1>4, <1>5 DEF Next

\* While the file is being opened there are no events.
LEMMA NoEventsYet ==
    ASSUME IInv, mainpc \in {"open", "header"}
    PROVE  ~PopStore /\ \A t \in Threads : ~Record(t) /\ ~InRecord(t)
<1>1. \A t \in Threads : pc[t] = "idle" /\ tl_ring[t] = NoRing
  BY DEF IInv, MainInv
<1>2. Linked = {}
  BY <1>1, RingAssumption DEF Linked, Rings
<1>3. ~PopStore
  BY <1>2, Pops
<1>4. \A t \in Threads : ~Record(t) /\ ~InRecord(t)
  BY <1>1 DEF Record, Interposing, InRecord, LoadCursor, StoreCursor, LinkNext, CasRingHead,
              LoadIndices, WriteSlot, StoreHead, Notify, WakeStore, WakeCall
<1> QED
  BY <1>3, <1>4

\* Every step keeps MainInv.
LEMMA MainStep ==
    ASSUME IInv, [Next]_vars
    PROVE  MainInv'
<1>0. TypeOK /\ MainInv
  BY DEF IInv
<1>a. g_running \in BOOLEAN /\ g_shutting_down \in BOOLEAN /\ final \in BOOLEAN
  BY <1>0 DEF TypeOK
<1>1. ASSUME NEW t \in Threads, Record(t) \/ InRecord(t) PROVE MainInv'
  <2>1. mainpc \notin {"open", "header"}
    BY <1>1, NoEventsYet
  <2>2. /\ UNCHANGED <<mainpc, g_running, g_shutting_down, final, rb>>
        /\ bgpc' = bgpc \/ (bgpc = "asleep" /\ bgpc' = "awake")
    BY <1>1 DEF Record, InRecord, LoadCursor, StoreCursor, LinkNext, CasRingHead, LoadIndices,
                WriteSlot, StoreHead, Notify, WakeStore, WakeCall, FutexWake, bgVars, mainVars
  <2> QED
    BY <1>0, <2>1, <2>2 DEF MainInv
<1>2. CASE Background
  <2>1. UNCHANGED <<mainpc, g_running, g_shutting_down, pc, tl_ring>>
    <3>1. UNCHANGED mainVars
      BY <1>2 DEF Background, LoopTest, FirstRing, PopTest, PopCopy, PopStore, WalkEnd,
                  ParkTest, ParkAnnounce, FutexWait, FutexTimeout, ParkEnd
    <3> QED
      BY <1>2, <3>1, OthersLeave DEF mainVars
  <2>2. mainpc \in {"open", "header"} => UNCHANGED <<log, file>>
    BY <1>2, NoEventsYet
       DEF Background, LoopTest, FirstRing, PopTest, PopCopy, WalkEnd, ParkTest, ParkAnnounce,
           FutexWait, FutexTimeout, ParkEnd, outVars
  <2>3. mainpc # "closed"
    BY <1>0, <1>2
       DEF MainInv, Background, LoopTest, FirstRing, PopTest, PopCopy, PopStore, WalkEnd,
           ParkTest, ParkAnnounce, FutexWait, FutexTimeout, ParkEnd
  <2>4. /\ final' => ~g_running
        /\ final' => bgpc' \in {"rings", "pop", "copy", "advance", "exited"}
        /\ bgpc' = "exited" => final' /\ rb' = NoRing
    <3>1. CASE LoopTest \/ ParkTest
      BY <1>a, <3>1 DEF LoopTest, ParkTest, AfterLoop
    <3>2. CASE FirstRing \/ PopTest \/ PopCopy \/ PopStore
      BY <1>0, <3>2 DEF FirstRing, PopTest, PopCopy, PopStore, MainInv
    <3>3. CASE WalkEnd
      BY <1>0, <3>3 DEF WalkEnd, MainInv
    <3>4. CASE ParkAnnounce \/ FutexWait \/ FutexTimeout \/ ParkEnd
      BY <1>0, <3>4 DEF ParkAnnounce, FutexWait, FutexTimeout, ParkEnd, MainInv
    <3> QED
      BY <1>2, <3>1, <3>2, <3>3, <3>4 DEF Background
  <2>5. mainpc \in {"open", "header"} =>
           /\ log' = <<>> /\ file' = <<>>
           /\ \A t \in Threads : pc'[t] = "idle" /\ tl_ring'[t] = NoRing
    BY <1>0, <2>1, <2>2 DEF MainInv
  <2>6. /\ (g_shutting_down' <=> mainpc' \notin {"open", "header", "up"})
        /\ (g_running' <=> mainpc' \in {"open", "header", "up", "stop"})
    BY <1>0, <2>1 DEF MainInv
  <2> QED
    BY <2>1, <2>3, <2>4, <2>5, <2>6 DEF MainInv
<1>3. CASE Main \/ Fini
  <2>1. UNCHANGED <<pc, tl_ring, final, rb>> /\ (bgpc' = bgpc \/ (bgpc = "asleep" /\ bgpc' = "awake"))
    <3>1. UNCHANGED <<pc, tl_ring>>
      BY <1>3, OthersLeave
    <3>2. UNCHANGED <<final, rb>> /\ (bgpc' = bgpc \/ (bgpc = "asleep" /\ bgpc' = "awake"))
      BY <1>3 DEF Main, OpenFile, WriteHeader, StopRunning, StopWakeStore, StopWakeCall,
                  JoinAndClose, FutexWake, Fini, bgVars
    <3> QED
      BY <3>1, <3>2
  <2>2. mainpc' \in {"open", "header"} =>
           /\ log' = <<>> /\ file' = <<>>
           /\ \A t \in Threads : pc'[t] = "idle" /\ tl_ring'[t] = NoRing
    <3>1. mainpc' \in {"open", "header"} => UNCHANGED <<log, file>> /\ mainpc \in {"open", "header"}
      BY <1>3 DEF Main, OpenFile, WriteHeader, StopRunning, StopWakeStore, StopWakeCall,
                  JoinAndClose, Fini, outVars
    <3> QED
      BY <1>0, <2>1, <3>1 DEF MainInv
  <2>3. g_shutting_down' <=> (mainpc' \notin {"open", "header", "up"})
    BY <1>0, <1>3 DEF MainInv, Main, OpenFile, WriteHeader, StopRunning, StopWakeStore,
                      StopWakeCall, JoinAndClose, Fini
  <2>4. g_running' <=> (mainpc' \in {"open", "header", "up", "stop"})
    <3>1. \/ g_running' = FALSE /\ mainpc' = "store"
          \/ /\ g_running' = g_running
             /\ mainpc' \in {"open", "header", "up", "stop"} <=>
                   mainpc \in {"open", "header", "up", "stop"}
      BY <1>3 DEF Main, OpenFile, WriteHeader, StopRunning, StopWakeStore, StopWakeCall,
                  JoinAndClose, Fini
    <3>2. g_running <=> (mainpc \in {"open", "header", "up", "stop"})
      BY <1>0 DEF MainInv
    <3>3. CASE g_running' = FALSE /\ mainpc' = "store"
      BY <3>3
    <3>4. CASE /\ g_running' = g_running
               /\ mainpc' \in {"open", "header", "up", "stop"} <=>
                     mainpc \in {"open", "header", "up", "stop"}
      BY <3>2, <3>4
    <3> QED
      BY <3>1, <3>3, <3>4
  <2>5. mainpc' = "closed" => bgpc = "exited"
    BY <1>3 DEF Main, OpenFile, WriteHeader, StopRunning, StopWakeStore, StopWakeCall,
                JoinAndClose, Fini
  <2>6. ~g_running => ~g_running'
    BY <1>3 DEF Main, OpenFile, WriteHeader, StopRunning, StopWakeStore, StopWakeCall,
                JoinAndClose, Fini
  <2>7. /\ mainpc' = "closed" => bgpc' = "exited"
        /\ final' => ~g_running'
        /\ final' => bgpc' \in {"rings", "pop", "copy", "advance", "exited"}
        /\ bgpc' = "exited" => final' /\ rb' = NoRing
    BY <1>0, <2>1, <2>5, <2>6 DEF MainInv
  <2> QED
    BY <2>2, <2>3, <2>4, <2>7 DEF MainInv
<1>4. CASE UNCHANGED vars
  BY <1>0, <1>4 DEF MainInv, vars, listVars, recVars, bgVars, mainVars, outVars
<1> QED
  BY <1>1, <1>2, <1>3, <1>4 DEF Next

\* The list only grows: a set that is closed after a step of a record call was
\* closed before it.
LEMMA ClosedBefore ==
    ASSUME IInv, NEW t \in Threads, InRecord(t), NEW S \in SUBSET Rings, Closed(S)'
    PROVE  Closed(S)
<1>0. TypeOK /\ OwnInv /\ next \in [Rings -> Rings \cup {NoRing}] /\ pc \in [Threads -> PcLabels]
  BY TypeParts DEF IInv, ListTypes, RecTypes
<1>1. Linked \subseteq Linked' /\ \A r \in Linked : next'[r] = next[r]
  <2>1. CASE StoreCursor(t)
    <3>1. Linked' = Linked /\ cursor \notin Linked
      BY <2>1, CarveLinks
    <3>2. next' = [next EXCEPT ![cursor] = NoRing]
      BY <2>1, Carves
    <3> QED
      BY <1>0, <3>1, <3>2 DEF Linked
  <2>2. CASE LinkNext(t)
    <3>1. /\ pc[t] = "link" /\ next' = [next EXCEPT ![tl_ring[t]] = g_ring_head]
          /\ pc' = [pc EXCEPT ![t] = "cas"] /\ UNCHANGED tl_ring
      BY <2>2 DEF LinkNext, Goto
    <3>2. tl_ring[t] \notin Linked
      BY <1>0, <3>1, Unlinked
    <3>3. \A u \in Threads : pc'[u] \in {"link", "cas"} <=> pc[u] \in {"link", "cas"}
      BY <1>0, <3>1
    <3> QED
      BY <1>0, <3>1, <3>2, <3>3, LinkedStays DEF Linked
  <2>3. CASE /\ ~StoreCursor(t) /\ ~LinkNext(t)
    <3>1. /\ UNCHANGED <<tl_ring, next>>
          /\ \/ pc[t] \in {"link", "cas"}
             \/ \E l \in PcLabels \ {"link", "cas"} : pc' = [pc EXCEPT ![t] = l]
      BY <2>3 DEF InRecord, LoadCursor, CasRingHead, LoadIndices, WriteSlot, StoreHead, Notify,
                  WakeStore, WakeCall, Goto, PcLabels, listVars
    <3>2. \A u \in Threads \ {t} : pc'[u] = pc[u]
      BY OthersUntouched DEF Untouched
    <3>3. pc[t] \in {"link", "cas"} \/ pc'[t] \notin {"link", "cas"}
      BY <1>0, <3>1
    <3> QED
      BY <3>1, <3>2, <3>3 DEF Linked
  <2> QED
    BY <2>1, <2>2, <2>3
<1> QED
  BY <1>1 DEF Closed

\* A record call that goes on adds to a ring at most the event it began with.
LEMMA LeftShrinks ==
    ASSUME IInv, NEW t \in Threads, InRecord(t)
    PROVE  IF tl_ring[t] = NoRing THEN tl_ring'[t] # NoRing => Left(t)' = 1
           ELSE tl_ring'[t] = tl_ring[t] /\ Left(t) \in Int /\ Left(t)' \in Int /\ Left(t)' <= Left(t)
<1>0. TypeOK /\ OwnInv /\ ProducerInv
  BY DEF IInv
<1>a. /\ pc \in [Threads -> PcLabels] /\ tl_ring \in [Threads -> Rings \cup {NoRing}]
      /\ head \in [Rings -> Nat] /\ tail \in [Rings -> Nat]
  BY <1>0, TypeParts DEF RecTypes, ListTypes, IndexTypes
<1>1. CASE LoadCursor(t)
  BY <1>0, <1>1 DEF LoadCursor, OwnInv, listVars
<1>2. CASE StoreCursor(t)
  <2>1. /\ tl_ring[t] = NoRing /\ cursor \in Rings /\ tl_ring' = [tl_ring EXCEPT ![t] = cursor]
        /\ head' = [head EXCEPT ![cursor] = 0] /\ tail' = [tail EXCEPT ![cursor] = 0]
        /\ pc' = [pc EXCEPT ![t] = "link"]
    BY <1>2, Carves
  <2>2. tl_ring'[t] = cursor /\ head'[cursor] = 0 /\ tail'[cursor] = 0 /\ pc'[t] = "link"
    BY <1>a, <2>1
  <2> QED
    BY <2>1, <2>2 DEF Left, Busy
<1>3. CASE WithRing(t)
  <2> DEFINE r == tl_ring[t]
  <2>1. r # NoRing /\ UNCHANGED <<tl_ring, tail>>
    BY <1>0, <1>3, WithRingLeaves DEF OwnInv
  <2>2. r \in Rings /\ head[r] \in Nat /\ tail[r] \in Nat
    BY <1>0, <2>1, OwnRing
  <2>3. CASE StoreHead(t)
    <3>1. /\ pc[t] = "publish" /\ head' = [head EXCEPT ![r] = pos[t] + 1]
          /\ \E l \in {"notify", "idle"} : pc' = [pc EXCEPT ![t] = l]
      BY <2>3 DEF StoreHead, Goto
    <3>2. pos[t] = head[r]
      BY <1>0, <3>1 DEF ProducerInv, Producing
    <3>3. head'[r] = head[r] + 1 /\ pc'[t] \notin Busy /\ pc[t] \in Busy
      BY <1>a, <2>2, <3>1, <3>2 DEF Busy
    <3> QED
      BY <2>1, <2>2, <3>3 DEF Left
  <2>4. CASE ~StoreHead(t)
    <3>1. UNCHANGED head
      BY <1>3, <2>4 DEF WithRing, LinkNext, CasRingHead, LoadIndices, WriteSlot, Notify,
                        WakeStore, WakeCall, ringVars
    <3>2. \/ pc[t] \in Busy
          \/ \E l \in PcLabels \ Busy : pc' = [pc EXCEPT ![t] = l]
      BY <1>3, <2>4 DEF WithRing, LinkNext, CasRingHead, LoadIndices, WriteSlot, Notify,
                        WakeStore, WakeCall, Goto, Busy, PcLabels
    <3>3. pc[t] \in Busy \/ pc'[t] \notin Busy
      BY <1>a, <3>2
    <3> QED
      BY <2>1, <2>2, <3>1, <3>3 DEF Left
  <2> QED
    BY <2>3, <2>4
<1> QED
  BY <1>1, <1>2, <1>3 DEF InRecord, WithRing

\* Every step keeps DrainInv.
LEMMA DrainStep ==
    ASSUME IInv, [Next]_vars
    PROVE  DrainInv'
<1>0. TypeOK /\ OwnInv /\ ListInv /\ ProducerInv /\ MainInv /\ DrainInv
  BY DEF IInv
<1>a. /\ tl_ring \in [Threads -> Rings \cup {NoRing}] /\ NoRing \notin Rings
      /\ head \in [Rings -> Nat] /\ tail \in [Rings -> Nat]
  BY <1>0, TypeParts, RingAssumption DEF ListTypes, IndexTypes, Rings
<1>b. ASSUME NEW u \in Threads, tl_ring[u] # NoRing PROVE Left(u) \in Int
  BY <1>0, <1>b, OwnRing DEF Left
<1> SUFFICES ASSUME final', bgpc' # "rings", NEW S \in SUBSET Rings,
                    Closed(S)', rb' \in S \cup {NoRing},
                    NEW u \in Threads, tl_ring'[u] \notin S \cup {NoRing}
             PROVE  Left(u)' <= 1
  BY DEF DrainInv
<1>1. ASSUME NEW t \in Threads, Record(t) PROVE FALSE
  <2>1. g_shutting_down = FALSE /\ final' = final
    BY <1>1 DEF Record, Interposing, bgVars
  <2> QED
    BY <1>0, <2>1 DEF MainInv
<1>2. ASSUME NEW t \in Threads, InRecord(t) PROVE Left(u)' <= 1
  <2>1. UNCHANGED <<rb, final>> /\ bgpc' \in {bgpc, "awake"} /\ (bgpc' # bgpc => bgpc = "asleep")
    BY <1>2 DEF InRecord, LoadCursor, StoreCursor, LinkNext, CasRingHead, LoadIndices,
                WriteSlot, StoreHead, Notify, WakeStore, WakeCall, FutexWake, bgVars
  <2>2. final /\ bgpc # "rings"
    BY <1>0, <2>1 DEF MainInv
  <2>3. Closed(S) /\ rb \in S \cup {NoRing}
    BY <1>2, <2>1, ClosedBefore
  <2>4. \A v \in Threads : tl_ring[v] \notin S \cup {NoRing} => Left(v) <= 1
    BY <1>0, <2>2, <2>3 DEF DrainInv
  <2>5. CASE u # t
    <3>1. Untouched(u)
      BY <1>2, <2>5, OthersUntouched
    <3>2. Left(u)' = Left(u) /\ tl_ring'[u] = tl_ring[u]
      BY <3>1 DEF Untouched, Left
    <3> QED
      BY <2>4, <3>2
  <2>6. CASE u = t
    BY <1>2, <2>4, <2>6, LeftShrinks
  <2> QED
    BY <2>5, <2>6
<1>3. CASE Background \/ Main \/ Fini \/ UNCHANGED vars
  <2>0. UNCHANGED <<tl_ring, pc, next, head, g_ring_head>>
    BY <1>3, OthersLeave DEF vars, listVars, ringVars, recVars
  <2>1. Linked' = Linked /\ tl_ring[u] \notin S \cup {NoRing}
    BY <2>0, LinkedStays
  <2>2. Closed(S)
    BY <2>0, <2>1 DEF Closed
  <2>3. tl_ring[u] \in Rings
    BY <1>a, <2>1
  <2>4. CASE FirstRing
    <3>1. rb' = g_ring_head /\ UNCHANGED tail
      BY <2>4 DEF FirstRing, ringVars
    <3>2. Linked \subseteq S
      BY <1>0, <2>2, <3>1 DEF ListInv
    <3>3. pc[u] \in {"link", "cas"}
      BY <2>1, <2>3, <3>2 DEF Linked
    <3>4. head[tl_ring[u]] = 0 /\ tail[tl_ring[u]] = 0
      BY <1>0, <3>3 DEF ProducerInv, Producing
    <3> QED
      BY <2>0, <3>1, <3>4 DEF Left
  <2>5. CASE PopTest /\ tail[rb] = head[rb]
    <3>1. bgpc = "pop" /\ rb # NoRing /\ rb' = next[rb] /\ UNCHANGED <<final, tail>>
      BY <2>5 DEF PopTest, ringVars
    <3>2. rb \in Rings /\ next[rb] \in S \cup {NoRing}
      BY <1>0, <3>1 DEF ListInv, Linked
    <3>3. S \cup {rb} \in SUBSET Rings /\ Closed(S \cup {rb})
      BY <2>2, <3>2 DEF Closed
    <3>4. \A v \in Threads : tl_ring[v] \notin (S \cup {rb}) \cup {NoRing} => Left(v) <= 1
      BY <1>0, <3>1, <3>3 DEF DrainInv
    <3>5. Left(u)' = Left(u)
      BY <2>0, <3>1 DEF Left
    <3>6. CASE tl_ring[u] = rb
      BY <1>a, <2>3, <2>5, <3>5, <3>6 DEF Left
    <3>7. CASE tl_ring[u] # rb
      BY <2>1, <3>4, <3>5, <3>7
    <3> QED
      BY <3>6, <3>7
  <2>6. CASE PopStore
    <3>1. /\ rb \in Rings /\ tail'[rb] = tail[rb] + 1 /\ \A r \in Rings \ {rb} : tail'[r] = tail[r]
          /\ UNCHANGED <<rb, final>> /\ bgpc = "advance"
      BY <2>6, Pops DEF Linked, PopStore
    <3>2. Left(u) <= 1
      BY <1>0, <2>1, <2>2, <3>1 DEF DrainInv
    <3>3. tail'[tl_ring[u]] \in {tail[tl_ring[u]], tail[tl_ring[u]] + 1}
      BY <2>3, <3>1
    <3>4. head[tl_ring[u]] \in Nat /\ tail[tl_ring[u]] \in Nat
      BY <1>a, <2>3
    <3> QED
      BY <2>0, <3>2, <3>3, <3>4 DEF Left
  <2>7. CASE LoopTest \/ ParkTest
    <3>1. bgpc' = "rings"
      BY <1>0, <2>7 DEF LoopTest, ParkTest, AfterLoop, TypeOK
    <3> QED
      BY <3>1
  <2>8. CASE \/ PopTest /\ tail[rb] # head[rb]
             \/ PopCopy \/ WalkEnd \/ ParkAnnounce \/ FutexWait \/ FutexTimeout \/ ParkEnd
             \/ Main \/ Fini \/ UNCHANGED vars
    <3>1. UNCHANGED <<rb, final>> /\ (bgpc = "rings" => bgpc' = "rings")
      BY <2>8 DEF PopTest, PopCopy, WalkEnd, ParkAnnounce, FutexWait, FutexTimeout, ParkEnd,
                  Main, OpenFile, WriteHeader, StopRunning, StopWakeStore, StopWakeCall,
                  JoinAndClose, FutexWake, Fini, vars, bgVars
    <3>2. UNCHANGED tail
      BY <2>8 DEF PopTest, PopCopy, WalkEnd, ParkAnnounce, FutexWait, FutexTimeout, ParkEnd,
                  Main, OpenFile, WriteHeader, StopRunning, StopWakeStore, StopWakeCall,
                  JoinAndClose, Fini, vars, ringVars
    <3>3. Left(u)' = Left(u)
      BY <2>0, <3>2 DEF Left
    <3> QED
      BY <1>0, <2>1, <2>2, <3>1, <3>3 DEF DrainInv
  <2> QED
    BY <1>3, <2>4, <2>5, <2>6, <2>7, <2>8 DEF Background
<1> QED
  BY <1>1, <1>2, <1>3 DEF Next

-----------------------------------------------------------------------------
(* The invariant, and what follows from it.                                 *)

\* IInv holds initially.
LEMMA InvInit == Init => IInv
<1> SUFFICES ASSUME Init PROVE IInv
  OBVIOUS
<1>1. TypeOK
  BY TypeInit
<1>2. {t \in Threads : tl_ring[t] # NoRing} = {} /\ cursor = 0
  BY DEF Init
<1>3. OwnInv
  <2>1. cursor = Cardinality({t \in Threads : tl_ring[t] # NoRing})
    BY <1>2, FS_EmptySet
  <2>2. 0..(cursor - 1) = {}
    BY <1>2
  <2> QED
    BY <2>1, <2>2 DEF Init, OwnInv
<1>4. Linked = {}
  BY RingAssumption DEF Init, Linked, Rings
<1>5. ListInv
  BY <1>4 DEF Init, ListInv
<1>6. ProducerInv /\ ConsumerInv
  BY DEF Init, ProducerInv, Producing, ConsumerInv
<1>7. OrderInv
  BY DEF Init, OrderInv, Ordered, Logged
<1>8. MainInv
  BY DEF Init, MainInv
<1>9. DrainInv
  BY DEF Init, DrainInv
<1> QED
  BY <1>1, <1>3, <1>5, <1>6, <1>7, <1>8, <1>9 DEF IInv

\* Every step keeps IInv.
LEMMA InvStep ==
    ASSUME Overlap = FALSE
    PROVE  IInv /\ [Next]_vars => IInv'
<1> SUFFICES ASSUME IInv, [Next]_vars PROVE IInv'
  OBVIOUS
<1>1. TypeOK'
  <2>1. CASE UNCHANGED vars
    BY <2>1, TypeFrame, TypePartsPrimed DEF IInv, vars
  <2> QED
    BY <2>1, TypeRecord, TypeBackground, TypeMain DEF Next
<1>2. OwnInv' /\ ListInv' /\ ProducerInv' /\ ConsumerInv' /\ MainInv' /\ DrainInv'
  BY OwnStep, ListStep, ProducerStep, ConsumerStep, MainStep, DrainStep
<1>3. OrderInv'
  BY <1>1, OrderStep
<1> QED
  BY <1>1, <1>2, <1>3 DEF IInv

\* If the first events of two threads do not overlap, the arena has a ring for
\* every thread that asks, and no ring ever holds more events than slots.
THEOREM TypeCorrect ==
    ASSUME Overlap = FALSE
    PROVE  Spec => []TypeOK
<1>1. IInv => TypeOK
  BY DEF IInv
<1> QED
  BY <1>1, InvInit, InvStep, PTL DEF Spec

\* What FileWellFormed rests on: nothing is recorded before the header has been
\* written, and the background thread has ended when the file is closed.
FileInv ==
    /\ \E S : log \in Seq(S)
    /\ mainpc \in {"open", "header"} =>
          /\ log = <<>> /\ file = <<>> /\ g_ring_head = NoRing /\ rb = NoRing
          /\ bgpc \notin {"copy", "advance"} /\ \A t \in Threads : pc[t] = "idle"
    /\ mainpc = "closed" => bgpc = "exited"
    /\ FileWellFormed

\* Two steps write the log or the file.
LEMMA WhoWrites ==
    ASSUME FileInv, Next, ~PopStore, ~WriteHeader
    PROVE  /\ UNCHANGED <<log, file>>
           /\ mainpc' \in {"open", "header"} <=> mainpc \in {"open", "header"}
           /\ mainpc' = "closed" => bgpc' = "exited"
           /\ mainpc \in {"open", "header"} =>
                 /\ UNCHANGED g_ring_head /\ rb' = NoRing /\ bgpc' \notin {"copy", "advance"}
                 /\ \A t \in Threads : pc'[t] = "idle"
<1>1. ASSUME NEW t \in Threads, Record(t) \/ InRecord(t)
      PROVE  /\ UNCHANGED <<log, file, mainpc>> /\ (bgpc = "exited" => bgpc' = "exited")
             /\ mainpc \notin {"open", "header"}
  <2>1. UNCHANGED <<log, file, mainpc>> /\ (bgpc = "exited" => bgpc' = "exited")
    BY <1>1 DEF Record, InRecord, LoadCursor, StoreCursor, LinkNext, CasRingHead, LoadIndices,
                WriteSlot, StoreHead, Notify, WakeStore, WakeCall, FutexWake, bgVars, mainVars, outVars
  <2>2. Record(t) => mainpc \notin {"open", "header"}
    BY DEF Record, Interposing
  <2>3. InRecord(t) => pc[t] # "idle"
    BY DEF InRecord, LoadCursor, StoreCursor, LinkNext, CasRingHead, LoadIndices,
           WriteSlot, StoreHead, Notify, WakeStore, WakeCall
  <2> QED
    BY <1>1, <2>1, <2>2, <2>3 DEF FileInv
<1>2. CASE Background
  <2>1. /\ UNCHANGED <<log, file, mainpc, g_ring_head, pc>> /\ bgpc # "exited"
        /\ rb = NoRing /\ g_ring_head = NoRing /\ bgpc \notin {"copy", "advance"} =>
              rb' = NoRing /\ bgpc' \notin {"copy", "advance"}
    BY <1>2 DEF Background, LoopTest, FirstRing, PopTest, PopCopy, WalkEnd, ParkTest, AfterLoop,
                ParkAnnounce, FutexWait, FutexTimeout, ParkEnd, mainVars, outVars, listVars, recVars
  <2> QED
    BY <2>1 DEF FileInv
<1>3. CASE Main \/ Fini
  BY <1>3 DEF Main, OpenFile, StopRunning, StopWakeStore, StopWakeCall, JoinAndClose, Fini,
              FutexWake, FileInv, listVars, recVars, bgVars, outVars
<1> QED
  BY <1>1, <1>2, <1>3 DEF Next, FileInv

\* The trace file is a header followed by the events processed, in order,
\* however the opening of the file, the background thread and the allocating
\* threads interleave, and even when two threads were given the same ring.
THEOREM FileAlwaysWellFormed == Spec => []FileWellFormed
<1>1. Init => FileInv
  <2>1. Init => log \in Seq({})
    BY DEF Init
  <2> QED
    BY <2>1 DEF Init, FileInv, FileWellFormed
<1>2. FileInv /\ [Next]_vars => FileInv'
  <2> SUFFICES ASSUME FileInv, Next PROVE FileInv'
    BY DEF FileInv, FileWellFormed, vars, listVars, bgVars, recVars, mainVars, outVars
  <2>0. PICK S : log \in Seq(S)
    BY DEF FileInv
  <2>1. CASE PopStore
    <3>1. /\ bgpc = "advance" /\ log' = Append(log, ev) /\ UNCHANGED mainpc
          /\ file' = IF mainpc \in {"open", "closed"} THEN file ELSE Append(file, ev)
      BY <2>1 DEF PopStore, mainVars
    <3>2. mainpc \notin {"open", "header", "closed"}
      BY <3>1 DEF FileInv
    <3>3. file = <<Header>> \o log /\ file' = Append(file, ev)
      BY <3>1, <3>2 DEF FileInv, FileWellFormed
    <3> DEFINE V == S \cup {ev, Header}
    <3>4. log \in Seq(V) /\ ev \in V /\ <<Header>> \in Seq(V)
      BY <2>0
    <3> HIDE DEF V
    <3>5. Append(<<Header>> \o log, ev) = <<Header>> \o Append(log, ev)
      BY <3>4
    <3>6. log' \in Seq(V)
      BY <3>1, <3>4
    <3>7. FileWellFormed'
      BY <3>1, <3>3, <3>5 DEF FileWellFormed
    <3> QED
      BY <3>1, <3>2, <3>6, <3>7 DEF FileInv
  <2>2. CASE WriteHeader
    <3>1. /\ log = <<>> /\ file = <<>> /\ file' = Append(file, Header) /\ log' = log /\ mainpc' = "up"
      BY <2>2 DEF WriteHeader, FileInv
    <3>2. file' = <<Header>> \o log'
      BY <3>1
    <3> QED
      BY <2>0, <3>1, <3>2 DEF FileInv, FileWellFormed
  <2>3. CASE ~PopStore /\ ~WriteHeader
    BY <2>0, <2>3, WhoWrites DEF FileInv, FileWellFormed
  <2> QED
    BY <2>1, <2>2, <2>3
<1>3. FileInv => FileWellFormed
  BY DEF FileInv
<1> QED
  BY <1>1, <1>2, <1>3, PTL DEF Spec

\* When the destructor is done, a ring holds at most the one event of a record
\* call that had passed the shutdown gate when the gate closed.
THEOREM FinalDrainComplete ==
    ASSUME Overlap = FALSE
    PROVE  Spec => []FinalDrain
<1>1. IInv => FinalDrain
  <2> SUFFICES ASSUME IInv, mainpc = "closed", NEW t \in Threads
               PROVE  Len(Queue(t)) <= 1
    BY DEF FinalDrain
  <2>1. CASE tl_ring[t] = NoRing
    BY <2>1 DEF Queue
  <2>2. CASE tl_ring[t] # NoRing
    <3> DEFINE r == tl_ring[t]
    <3>1. bgpc = "exited" /\ final /\ rb = NoRing
      BY DEF IInv, MainInv
    <3>2. {} \in SUBSET Rings /\ Closed({})
      BY DEF Closed
    <3>3. Left(t) <= 1
      BY <2>2, <3>1, <3>2 DEF IInv, DrainInv
    <3>4. head[r] \in Nat /\ tail[r] \in Nat /\ tail[r] <= head[r]
      BY <2>2, OwnRing DEF IInv
    <3>5. head[r] - tail[r] \in Nat /\ head[r] - tail[r] <= 1
      BY <3>3, <3>4 DEF Left
    <3>6. Len(Queue(t)) = head[r] - tail[r]
      BY <2>2, <3>5 DEF Queue
    <3> QED
      BY <3>5, <3>6
  <2> QED
    BY <2>1, <2>2
<1> QED
  BY <1>1, InvInit, InvStep, PTL DEF Spec

-----------------------------------------------------------------------------
(* The rings implement FIFOs.                                               *)

\* What a thread's queue is.
LEMMA QueueIs ==
    ASSUME IInv, NEW t \in Threads, tl_ring[t] # NoRing
    PROVE  LET r == tl_ring[t]
           IN  /\ Queue(t) \in Seq(Events) /\ Len(Queue(t)) = head[r] - tail[r]
               /\ head[r] - tail[r] \in Nat
               /\ \A i \in 1..(head[r] - tail[r]) :
                     /\ Queue(t)[i] = slots[r][(tail[r] + (i - 1)) % Capacity]
                     /\ tail[r] + (i - 1) \in tail[r]..(head[r] - 1)
<1> DEFINE r == tl_ring[t]
           n == head[r] - tail[r]
<1>0. head[r] \in Nat /\ tail[r] \in Nat /\ tail[r] <= head[r]
  BY OwnRing DEF IInv
<1>1. n \in Nat /\ \A i \in 1..n : tail[r] + (i - 1) \in tail[r]..(head[r] - 1)
  BY <1>0
<1>2. Queue(t) = [i \in 1..n |-> slots[r][(tail[r] + (i - 1)) % Capacity]]
  BY DEF Queue
<1>3. ASSUME NEW j \in tail[r]..(head[r] - 1) PROVE slots[r][j % Capacity] \in Events
  <2>1. slots[r][j % Capacity] \in {t} \X (1..Decided(t))
    BY DEF IInv, OrderInv, Ordered
  <2>2. sent[t] \in Nat /\ 1..Decided(t) \subseteq 1..sent[t]
    BY DEF IInv, TypeOK, Decided
  <2>3. PICK k \in 1..sent[t] : slots[r][j % Capacity] = <<t, k>>
    BY <2>1, <2>2
  <2> QED
    BY <2>3, EventType DEF IInv
<1>4. Queue(t) \in Seq(Events) /\ Len(Queue(t)) = n
  <2> HIDE DEF n
  <2> QED
    BY <1>1, <1>2, <1>3
<1>5. \A i \in 1..n : Queue(t)[i] = slots[r][(tail[r] + (i - 1)) % Capacity]
  BY <1>2
<1> QED
  BY <1>1, <1>4, <1>5

\* The same as one state formula, to be used of the next state as well.
QueuesAre ==
    \A u \in Threads : tl_ring[u] # NoRing =>
        LET r == tl_ring[u]
        IN  /\ Queue(u) \in Seq(Events) /\ Len(Queue(u)) = head[r] - tail[r]
            /\ head[r] - tail[r] \in Nat
            /\ \A i \in 1..(head[r] - tail[r]) :
                  /\ Queue(u)[i] = slots[r][(tail[r] + (i - 1)) % Capacity]
                  /\ tail[r] + (i - 1) \in tail[r]..(head[r] - 1)

\* The queue of the abstract channel, read off the ring, for every thread ...
LEMMA QueuesKnown == IInv => QueuesAre
  BY QueueIs DEF QueuesAre

\* ... and after a step ...
LEMMA QueuesKnownNext == IInv' => QueuesAre'
  BY QueuesKnown, PTL

\* ... and for one thread after a step.
LEMMA QueueIsPrimed ==
    ASSUME IInv', NEW t \in Threads, tl_ring'[t] # NoRing
    PROVE  LET r == tl_ring'[t]
           IN  /\ Queue(t)' \in Seq(Events) /\ Len(Queue(t)') = head'[r] - tail'[r]
               /\ head'[r] - tail'[r] \in Nat
               /\ \A i \in 1..(head'[r] - tail'[r]) :
                     /\ Queue(t)'[i] = slots'[r][(tail'[r] + (i - 1)) % Capacity]
                     /\ tail'[r] + (i - 1) \in tail'[r]..(head'[r] - 1)
  BY QueuesKnownNext DEF QueuesAre

\* Sequences with the same elements are the same.
LEMMA SameQueue ==
    ASSUME NEW V, NEW p \in Seq(V), NEW q \in Seq(V), Len(p) = Len(q),
           \A i \in 1..Len(q) : p[i] = q[i]
    PROVE  p = q
  OBVIOUS

\* A step that leaves a thread's ring alone leaves its queue alone.
LEMMA QueueStays ==
    ASSUME IInv, IInv', NEW u \in Threads, tl_ring'[u] = tl_ring[u],
           tl_ring[u] # NoRing =>
               /\ head'[tl_ring[u]] = head[tl_ring[u]] /\ tail'[tl_ring[u]] = tail[tl_ring[u]]
               /\ \A i \in tail[tl_ring[u]]..(head[tl_ring[u]] - 1) :
                     slots'[tl_ring[u]][i % Capacity] = slots[tl_ring[u]][i % Capacity]
    PROVE  Queue(u)' = Queue(u)
<1>1. CASE tl_ring[u] = NoRing
  BY <1>1 DEF Queue
<1>2. CASE tl_ring[u] # NoRing
  <2> DEFINE r == tl_ring[u]
             n == head[r] - tail[r]
  <2>1. /\ Queue(u) \in Seq(Events) /\ Len(Queue(u)) = n /\ n \in Nat
        /\ \A i \in 1..n : /\ Queue(u)[i] = slots[r][(tail[r] + (i - 1)) % Capacity]
                           /\ tail[r] + (i - 1) \in tail[r]..(head[r] - 1)
    BY <1>2, QueueIs
  <2>2. /\ Queue(u)' \in Seq(Events) /\ Len(Queue(u)') = n
        /\ \A i \in 1..n : Queue(u)'[i] = slots'[r][(tail[r] + (i - 1)) % Capacity]
    BY <1>2, QueueIsPrimed
  <2>3. \A i \in 1..n : Queue(u)'[i] = Queue(u)[i]
    BY <1>2, <2>1, <2>2
  <2> QED
    BY <2>1, <2>2, <2>3, SameQueue
<1> QED
  BY <1>1, <1>2

\* Publishing an event appends it to the queue.
LEMMA Sends ==
    ASSUME IInv, IInv', NEW t \in Threads, StoreHead(t)
    PROVE  Channel!Send(t)
<1> DEFINE r == tl_ring[t]
           n == head[r] - tail[r]
           e == <<t, sent[t]>>
<1>0. TypeOK /\ OwnInv /\ ProducerInv /\ OrderInv
  BY DEF IInv
<1>a. /\ pc \in [Threads -> PcLabels] /\ sent \in [Threads -> Nat]
      /\ head \in [Rings -> Nat] /\ tail \in [Rings -> Nat]
  BY <1>0, TypeParts DEF RecTypes, IndexTypes
<1>1. /\ pc[t] = "publish" /\ head' = [head EXCEPT ![r] = pos[t] + 1]
      /\ UNCHANGED <<tl_ring, tail, slots, sent, log>>
  BY DEF StoreHead, listVars, outVars
<1>2. /\ r \in Rings /\ r # NoRing /\ head[r] \in Nat /\ tail[r] \in Nat /\ pos[t] = head[r]
      /\ loaded[t] \in Nat /\ loaded[t] <= tail[r] /\ head[r] < loaded[t] + Capacity
      /\ slots[r][head[r] % Capacity] = e
  BY <1>0, <1>1, OwnRing DEF OwnInv, ProducerInv, Producing
<1>3. head'[r] = head[r] + 1 /\ head[r] - tail[r] < Capacity
  BY <1>a, <1>1, <1>2, RingAssumption
<1>4. /\ Queue(t) \in Seq(Events) /\ Len(Queue(t)) = n /\ n \in Nat
      /\ \A i \in 1..n : /\ Queue(t)[i] = slots[r][(tail[r] + (i - 1)) % Capacity]
                         /\ tail[r] + (i - 1) \in tail[r]..(head[r] - 1)
  BY <1>2, QueueIs
<1>5. /\ Queue(t)' \in Seq(Events) /\ Len(Queue(t)') = n + 1
      /\ \A i \in 1..(n + 1) : Queue(t)'[i] = slots[r][(tail[r] + (i - 1)) % Capacity]
  <2>1. head'[r] - tail[r] = n + 1
    BY <1>2, <1>3
  <2> QED
    BY <1>1, <1>2, <2>1, QueueIsPrimed
<1>6. sent[t] \in 1..sent[t] /\ e \in Events /\ sent[t] \in Numbers
  <2>1. sent[t] \in 1..sent[t]
    BY <1>0, <1>a, <1>1 DEF OwnInv
  <2>2. e \in Events
    BY <1>0, <2>1, EventType
  <2> QED
    BY <2>1, <2>2 DEF Events
<1>7. Queue(t)'[n + 1] = e
  <2>1. tail[r] + ((n + 1) - 1) = head[r] /\ n + 1 \in 1..(n + 1)
    BY <1>2, <1>4
  <2> QED
    BY <1>2, <1>5, <2>1
<1>8. Queue(t)' = Append(Queue(t), e)
  <2> DEFINE q == Append(Queue(t), e)
  <2>1. q \in Seq(Events) /\ Len(q) = n + 1 /\ q[n + 1] = e /\ \A i \in 1..n : q[i] = Queue(t)[i]
    BY <1>4, <1>6
  <2> HIDE DEF q
  <2>2. \A i \in 1..(n + 1) : Queue(t)'[i] = q[i]
    <3>1. ASSUME NEW i \in 1..(n + 1) PROVE i = n + 1 \/ i \in 1..n
      BY <1>4
    <3> QED
      BY <1>4, <1>5, <1>7, <2>1, <3>1
  <2>3. Queue(t)' = q
    BY <1>5, <2>1, <2>2, SameQueue
  <2> QED
    BY <2>3 DEF q
<1>9. \A u \in Threads \ {t} : Queue(u)' = Queue(u)
  <2> SUFFICES ASSUME NEW u \in Threads \ {t} PROVE Queue(u)' = Queue(u)
    OBVIOUS
  <2>1. Untouched(u)
    BY OthersUntouched DEF InRecord
  <2> QED
    BY <2>1, QueueStays DEF Untouched
<1> DEFINE Q == [u \in Threads |-> Queue(u)]
           D == [u \in Threads |-> Decided(u)]
<1>10. Len(Q[t]) < Capacity /\ Q' = [Q EXCEPT ![t] = Append(Q[t], e)]
  BY <1>3, <1>4, <1>8, <1>9
<1>11. D[t] + 1 = sent[t] /\ D' = [D EXCEPT ![t] = @ + 1]
  <2>1. pc'[t] \notin Busy /\ \A u \in Threads \ {t} : pc'[u] = pc[u]
    BY <1>a DEF StoreHead, Goto, Busy
  <2>2. D[t] = sent[t] - 1 /\ Decided(t)' = sent[t] /\ sent[t] \in Nat
    BY <1>a, <1>1, <2>1 DEF Decided, Busy
  <2>3. \A u \in Threads \ {t} : Decided(u)' = Decided(u)
    BY <1>1, <2>1 DEF Decided
  <2>4. D[t] + 1 = sent[t]
    BY <2>2
  <2> QED
    BY <2>2, <2>3, <2>4
<1> QED
  BY <1>1, <1>10, <1>11 DEF Channel!Send, Channel!Decide

\* Finding the ring full drops the event.
LEMMA Drops ==
    ASSUME IInv, IInv', NEW t \in Threads, LoadIndices(t),
           Full(head[tl_ring[t]], tail[tl_ring[t]])
    PROVE  Channel!Drop(t)
<1> DEFINE r == tl_ring[t]
           Q == [u \in Threads |-> Queue(u)]
           D == [u \in Threads |-> Decided(u)]
<1>1. /\ pc[t] = "load" /\ pc' = [pc EXCEPT ![t] = "idle"]
      /\ UNCHANGED <<tl_ring, head, tail, slots, sent, log>>
  BY DEF LoadIndices, Goto, listVars, ringVars, outVars
<1>2. /\ r \in Rings /\ r # NoRing /\ head[r] \in Nat /\ tail[r] \in Nat
      /\ head[r] <= tail[r] + Capacity
  BY <1>1, OwnRing DEF IInv, OwnInv
<1>3. head[r] - tail[r] = Capacity
  BY <1>2, RingAssumption DEF Full
<1>4. Len(Q[t]) = Capacity
  BY <1>2, <1>3, QueueIs
<1>5. Q' = Q
  BY <1>1, QueueStays
<1>6. D' = [D EXCEPT ![t] = @ + 1]
  <2>1. pc \in [Threads -> PcLabels] /\ sent \in [Threads -> Nat]
    BY TypeParts DEF IInv, RecTypes
  <2>2. pc[t] \in Busy /\ pc'[t] \notin Busy /\ \A u \in Threads \ {t} : pc'[u] = pc[u]
    BY <1>1, <2>1 DEF Busy
  <2>3. D[t] = sent[t] - 1 /\ Decided(t)' = sent[t] /\ sent[t] \in Nat
    BY <1>1, <2>1, <2>2 DEF Decided
  <2>4. \A u \in Threads \ {t} : Decided(u)' = Decided(u)
    BY <1>1, <2>2 DEF Decided
  <2>5. Decided(t)' = D[t] + 1
    BY <2>3
  <2> QED
    BY <2>4, <2>5
<1> QED
  BY <1>1, <1>4, <1>5, <1>6 DEF Channel!Drop, Channel!Decide

\* Popping an event takes the oldest one from its queue.
LEMMA Delivers ==
    ASSUME IInv, IInv', PopStore
    PROVE  \E t \in Threads : Channel!Deliver(t)
<1>0. UNCHANGED <<pc, sent>>
  BY DEF PopStore, recVars
<1>1. /\ rb \in Linked /\ tail[rb] \in Nat /\ head[rb] \in Nat /\ tail[rb] < head[rb]
      /\ tail'[rb] = tail[rb] + 1 /\ \A r \in Rings \ {rb} : tail'[r] = tail[r]
      /\ log' = Append(log, ev) /\ ev = slots[rb][tail[rb] % Capacity]
  BY Pops
<1>2. PICK t \in Threads : tl_ring[t] = rb
  BY <1>1 DEF Linked
<1>3. UNCHANGED <<tl_ring, head, slots>> /\ rb \in Rings /\ rb # NoRing
  BY <1>1, OthersLeave, RingAssumption DEF Background, Linked, Rings
<1> DEFINE n == head[rb] - tail[rb]
<1>4. /\ Queue(t) \in Seq(Events) /\ Len(Queue(t)) = n /\ n \in Nat
      /\ \A i \in 1..n : Queue(t)[i] = slots[rb][(tail[rb] + (i - 1)) % Capacity]
  BY <1>2, <1>3, QueueIs
<1>5. /\ Queue(t)' \in Seq(Events) /\ Len(Queue(t)') = n - 1
      /\ \A i \in 1..(n - 1) : Queue(t)'[i] = slots[rb][((tail[rb] + 1) + (i - 1)) % Capacity]
  <2>1. head[rb] - (tail[rb] + 1) = n - 1
    BY <1>1
  <2>2. /\ Queue(t)' \in Seq(Events) /\ Len(Queue(t)') = head[rb] - tail'[rb]
        /\ \A i \in 1..(head[rb] - tail'[rb]) :
              Queue(t)'[i] = slots[rb][(tail'[rb] + (i - 1)) % Capacity]
    BY <1>2, <1>3, QueueIsPrimed
  <2> QED
    BY <1>1, <2>1, <2>2
<1>6. n >= 1 /\ Queue(t) # <<>>
  BY <1>1, <1>4
<1>7. Head(Queue(t)) = ev
  <2>1. tail[rb] + (1 - 1) = tail[rb] /\ 1 \in 1..n
    BY <1>1, <1>4, <1>6
  <2>2. Queue(t)[1] = ev
    BY <1>1, <1>4, <2>1
  <2> QED
    BY <2>2
<1>8. Queue(t)' = Tail(Queue(t))
  <2> DEFINE q == Tail(Queue(t))
  <2>1. q \in Seq(Events) /\ Len(q) = n - 1 /\ \A i \in 1..(n - 1) : q[i] = Queue(t)[i + 1]
    BY <1>4, <1>6
  <2> HIDE DEF q
  <2>2. ASSUME NEW i \in 1..(n - 1) PROVE Queue(t)'[i] = q[i]
    <3>1. (tail[rb] + 1) + (i - 1) = tail[rb] + ((i + 1) - 1)
      BY <1>1
    <3>2. i + 1 \in 1..n
      <4>1. n \in Nat
        BY <1>4
      <4> HIDE DEF n
      <4> QED
        BY <4>1
    <3>3. Queue(t)[i + 1] = slots[rb][(tail[rb] + ((i + 1) - 1)) % Capacity]
      BY <1>4, <3>2
    <3>4. Queue(t)'[i] = slots[rb][((tail[rb] + 1) + (i - 1)) % Capacity]
      BY <1>5
    <3> QED
      BY <2>1, <3>1, <3>3, <3>4
  <2>3. Queue(t)' = q
    BY <1>5, <2>1, <2>2, SameQueue
  <2> QED
    BY <2>3 DEF q
<1>9. \A u \in Threads \ {t} : Queue(u)' = Queue(u)
  <2> SUFFICES ASSUME NEW u \in Threads \ {t} PROVE Queue(u)' = Queue(u)
    OBVIOUS
  <2>1. tl_ring[u] # NoRing => tl_ring[u] \in Rings \ {rb}
    BY <1>2, <1>3 DEF IInv, OwnInv, TypeOK
  <2> QED
    BY <1>1, <1>3, <2>1, QueueStays
<1> DEFINE Q == [u \in Threads |-> Queue(u)]
<1>10. Q[t] # <<>> /\ log' = Append(log, Head(Q[t])) /\ Q' = [Q EXCEPT ![t] = Tail(Q[t])]
  BY <1>1, <1>6, <1>7, <1>8, <1>9
<1>11. [u \in Threads |-> Decided(u)]' = [u \in Threads |-> Decided(u)]
  BY <1>0 DEF Decided
<1> QED
  BY <1>10, <1>11 DEF Channel!Deliver

\* push finds its ring full.
Discards(t) == LoadIndices(t) /\ Full(head[tl_ring[t]], tail[tl_ring[t]])

\* All other steps leave the queues, the events decided and the log as they are.
LEMMA ChannelStutters ==
    ASSUME IInv, IInv', [Next]_vars, ~PopStore,
           \A t \in Threads : ~StoreHead(t) /\ ~Discards(t)
    PROVE  UNCHANGED Channel!vars
<1>1. ASSUME NEW u \in Threads PROVE Queue(u)' = Queue(u)
  <2>1. ASSUME NEW t \in Threads, Record(t) \/ InRecord(t) PROVE Queue(u)' = Queue(u)
    <3>1. CASE u # t
      <4>1. Untouched(u)
        BY <2>1, <3>1, OthersUntouched
      <4> QED
        BY <4>1, QueueStays DEF Untouched
    <3>2. CASE u = t /\ StoreCursor(t)
      <4>1. /\ tl_ring[t] = NoRing /\ cursor \in Rings /\ tl_ring' = [tl_ring EXCEPT ![t] = cursor]
            /\ head' = [head EXCEPT ![cursor] = 0] /\ tail' = [tail EXCEPT ![cursor] = 0]
        BY <3>2, Carves
      <4>2. /\ tl_ring \in [Threads -> Rings \cup {NoRing}] /\ NoRing \notin Rings
            /\ head \in [Rings -> Nat] /\ tail \in [Rings -> Nat]
        BY TypeParts, RingAssumption DEF IInv, ListTypes, IndexTypes, Rings
      <4>3. tl_ring'[t] = cursor /\ head'[cursor] = 0 /\ tail'[cursor] = 0 /\ cursor # NoRing
        BY <4>1, <4>2
      <4>4. Queue(t)' \in Seq(Events) /\ Len(Queue(t)') = 0
        BY <4>3, QueueIsPrimed
      <4>5. Queue(t) = <<>>
        BY <4>1 DEF Queue
      <4> QED
        BY <3>2, <4>4, <4>5
    <3>3. CASE u = t /\ WriteSlot(t)
      <4> DEFINE r == tl_ring[t]
      <4>1. /\ pc[t] = "write" /\ UNCHANGED <<tl_ring, head, tail>>
            /\ slots' = [slots EXCEPT ![r][pos[t] % Capacity] = <<t, sent[t]>>]
        BY <3>3 DEF WriteSlot, listVars
      <4>2. r \in Rings /\ pos[t] = head[r]
        BY <4>1, OwnRing DEF IInv, OwnInv, ProducerInv, Producing
      <4>3. ASSUME NEW i \in tail[r]..(head[r] - 1)
            PROVE  slots'[r][i % Capacity] = slots[r][i % Capacity]
        <5>1. i \in Nat /\ i % Capacity # head[r] % Capacity
          BY <4>1, SlotFree
        <5>2. i % Capacity \in 0..(Capacity - 1)
          BY <5>1, SlotInRing
        <5> QED
          BY <4>1, <4>2, <5>1, <5>2 DEF IInv, TypeOK
      <4> QED
        BY <3>3, <4>1, <4>3, QueueStays
    <3>4. CASE UNCHANGED <<tl_ring, head, tail, slots>>
      BY <3>4, QueueStays
    <3> QED
      BY <2>1, <3>1, <3>2, <3>3, <3>4
         DEF Record, InRecord, LoadCursor, LinkNext, CasRingHead, LoadIndices, Notify,
             WakeStore, WakeCall, listVars, ringVars
  <2>2. CASE (Background /\ ~PopStore) \/ Main \/ Fini \/ UNCHANGED vars
    <3>1. UNCHANGED <<tl_ring, head, tail, slots>>
      BY <2>2, OthersLeave, TailLeft DEF vars, listVars, ringVars
    <3> QED
      BY <3>1, QueueStays
  <2> QED
    BY <2>1, <2>2 DEF Next
<1>2. UNCHANGED log
  <2>1. ASSUME NEW t \in Threads, Record(t) \/ InRecord(t) PROVE UNCHANGED log
    BY <2>1 DEF Record, InRecord, LoadCursor, StoreCursor, LinkNext, CasRingHead, LoadIndices,
                WriteSlot, StoreHead, Notify, WakeStore, WakeCall, outVars
  <2> QED
    BY <2>1, TailLeft DEF Next, vars, outVars
<1>3. ASSUME NEW u \in Threads PROVE Decided(u)' = Decided(u)
  <2>1. pc \in [Threads -> PcLabels] /\ sent \in [Threads -> Nat]
    BY TypeParts DEF IInv, RecTypes
  <2>2. ASSUME NEW t \in Threads, Record(t) \/ InRecord(t) PROVE Decided(u)' = Decided(u)
    <3>1. CASE Record(t)
      BY <2>1, <3>1 DEF Record, Goto, Decided, Busy
    <3>2. CASE LoadIndices(t)
      BY <2>1, <3>2 DEF Discards, LoadIndices, Goto, Decided, Busy
    <3>3. CASE InRecord(t) /\ ~LoadIndices(t)
      BY <2>1, <3>3 DEF InRecord, LoadCursor, StoreCursor, LinkNext, CasRingHead, WriteSlot,
                        Notify, WakeStore, WakeCall, Goto, Decided, Busy
    <3> QED
      BY <2>2, <3>1, <3>2, <3>3
  <2>3. CASE Background \/ Main \/ Fini \/ UNCHANGED vars
    <3>1. UNCHANGED <<pc, sent>>
      BY <2>3 DEF Background, LoopTest, FirstRing, PopTest, PopCopy, PopStore, WalkEnd, ParkTest,
                  ParkAnnounce, FutexWait, FutexTimeout, ParkEnd, Main, OpenFile, WriteHeader,
                  StopRunning, StopWakeStore, StopWakeCall, JoinAndClose, Fini, recVars, vars
    <3> QED
      BY <3>1 DEF Decided
  <2> QED
    BY <2>2, <2>3 DEF Next
<1> QED
  BY <1>1, <1>2, <1>3 DEF Channel!vars

\* The rings implement one bounded FIFO per thread: the analysis gets each
\* event at most once, in the order its thread recorded them, and it gets all of
\* them but those for which push found the ring full.
THEOREM RingsRefineChannel ==
    ASSUME Overlap = FALSE
    PROVE  Spec => RefinesChannel
<1>1. Init => Channel!Init
  BY DEF Init, Channel!Init, Queue, Decided, Busy
<1>2. IInv /\ IInv' /\ [Next]_vars => [Channel!Next]_(Channel!vars)
  <2> SUFFICES ASSUME IInv, IInv', [Next]_vars PROVE [Channel!Next]_(Channel!vars)
    OBVIOUS
  <2>1. CASE PopStore
    BY <2>1, Delivers DEF Channel!Next
  <2>2. ASSUME NEW t \in Threads, StoreHead(t) PROVE Channel!Next
    BY <2>2, Sends DEF Channel!Next
  <2>3. ASSUME NEW t \in Threads, Discards(t) PROVE Channel!Next
    BY <2>3, Drops DEF Discards, Channel!Next
  <2>4. CASE ~PopStore /\ \A t \in Threads : ~StoreHead(t) /\ ~Discards(t)
    BY <2>4, ChannelStutters
  <2> QED
    BY <2>1, <2>2, <2>3, <2>4
<1> QED
  BY <1>1, <1>2, InvInit, InvStep, PTL DEF Spec, RefinesChannel, Channel!Spec
=============================================================================
