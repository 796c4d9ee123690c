------------------------- MODULE SharedTablesProofs -------------------------
(***************************************************************************)
(* Proofs about SharedTables, for every value of its constants: the table  *)
(* is sound and implements a map, and the scan of the thread list is       *)
(* complete and ends.                                                      *)
(***************************************************************************)
EXTENDS SharedTables, FiniteSetTheorems, WellFoundedInduction, TLAPS

-----------------------------------------------------------------------------
(* Type correctness. The home slot is only defined for real sites, so the   *)
(* type of what a probe reads rests on the search having been begun.        *)

ThreadLabels == {"idle", "find", "check", "load", "call", "rfind", "rcheck", "rstore",
                 "rbump", "link", "cas"}
BgLabels     == {"idle", "ifind", "id", "fn", "bump", "scan"}
Keyed        == Labels \ {"idle", "link", "cas", "scan"}

\* Each actor runs its own code, a search is for a site, and only a running
\* thread makes calls.
Placed ==
    /\ pc["bg"] \in BgLabels
    /\ pc["bg"] \in Keyed => key["bg"] \in Hot
    /\ \A t \in Threads :
        /\ pc[t] \in ThreadLabels
        /\ pc[t] \in Keyed => key[t] \in Sites
        /\ pc[t] # "idle" => block[t] # NoBlock

TypeInv == TypeOK /\ Placed

\* Probing stays inside the table.
LEMMA ProbeInTable ==
    ASSUME NEW s \in Sites, NEW n \in Nat
    PROVE  Probe(s, n) \in Slots
  BY SharedTablesAssumption DEF Probe, Slots

\* A probe stays within the table.
LEMMA SlotInTable ==
    ASSUME TypeInv, NEW a \in Actors, key[a] \in Sites
    PROVE  Slot(a) \in Slots
<1>1. step[a] \in Nat
  BY SharedTablesAssumption DEF TypeInv, TypeOK, Slots
<1> QED
  BY <1>1, ProbeInTable DEF Slot

\* A store to one field of one slot leaves a table.
LEMMA StoreType ==
    ASSUME TypeInv, NEW i, NEW s \in Sites \cup {NoSite}, NEW r \in Routines \cup {NoRoutine}
    PROVE  LET Tables == [Slots -> [id : Sites \cup {NoSite}, fn : Routines \cup {NoRoutine}]]
           IN  /\ [g_table EXCEPT ![i].id = s] \in Tables
               /\ [g_table EXCEPT ![i].fn = r] \in Tables
  BY DEF TypeInv, TypeOK

\* What readers may see of a site has its type.
LEMMA ShowType ==
    ASSUME TypeInv, NEW s, NEW r \in Routines \cup {NoRoutine}, Show(s, r)
    PROVE  seen' \in [Threads -> SUBSET (Routines \cup {NoRoutine})]
  BY DEF TypeInv, TypeOK, Show

\* A lookup that finds nothing.
LEMMA NoRoutineReturned ==
    ASSUME TypeInv, NEW t \in Threads, Returns(t, NoRoutine),
           UNCHANGED <<tableVars, listVars, threadVars, scanVars, new>>
    PROVE  TypeInv'
<1>1. 0 \in Slots
  BY SharedTablesAssumption DEF Slots
<1>2. /\ pc' = [pc EXCEPT ![t] = "idle"] /\ key' = [key EXCEPT ![t] = NoSite]
      /\ step' = [step EXCEPT ![t] = 0] /\ fn' = [fn EXCEPT ![t] = NoRoutine]
      /\ seen' = [seen EXCEPT ![t] = {}]
  BY DEF Returns, Goto
<1> QED
  BY <1>1, <1>2, SharedTablesAssumption
     DEF TypeInv, TypeOK, Placed, Actors, Labels, ThreadLabels, BgLabels, Keyed,
         tableVars, listVars, threadVars, scanVars

\* TypeInv holds initially.
LEMMA TypeInit == Init => TypeInv
<1> SUFFICES ASSUME Init PROVE TypeInv
  OBVIOUS
<1>1. 0 \in Slots
  BY SharedTablesAssumption DEF Slots
<1>2. TypeOK
  BY <1>1 DEF Init, TypeOK, Labels
<1>3. Placed
  BY SharedTablesAssumption DEF Init, Placed, Actors, BgLabels, ThreadLabels, Keyed, Labels
<1> QED
  BY <1>2, <1>3 DEF TypeInv

\* Every step keeps TypeInv.
LEMMA TypeStep == TypeInv /\ [Next]_vars => TypeInv'
<1> SUFFICES ASSUME TypeInv, [Next]_vars PROVE TypeInv'
  OBVIOUS
<1> USE SharedTablesAssumption
        DEF TypeInv, TypeOK, Placed, Actors, Labels, ThreadLabels, BgLabels, Keyed,
            tableVars, listVars, threadVars, findVars, scanVars, Goto
<1>0. 0 \in Slots /\ \A n \in Slots : n + 1 < TABLE_SIZE => n + 1 \in Slots
  BY DEF Slots
<1>1. ASSUME NEW t \in Threads, Thread(t) PROVE TypeInv'
  <2>0. t \in Actors /\ t # "bg"
    OBVIOUS
  <2>1. CASE EndThread(t)
    BY <2>1 DEF EndThread
  <2>2. CASE RegisterLoad(t)
    BY <2>2 DEF RegisterLoad
  <2>3. CASE RegisterLink(t)
    BY <2>3 DEF RegisterLink
  <2>4. CASE RegisterCas(t)
    <3>1. /\ pc[t] = "cas" /\ block[t] \in Blocks
          /\ UNCHANGED <<tableVars, next, block, used, findVars, scanVars, fn, new, seen>>
      BY <2>4 DEF RegisterCas
    <3>2. CASE g_thread_list = head[t]
      <4>1. /\ g_thread_list' = block[t] /\ registered' = registered \cup {block[t]}
            /\ head' = [head EXCEPT ![t] = NoBlock] /\ pc' = [pc EXCEPT ![t] = "idle"]
        BY <2>4, <3>2 DEF RegisterCas
      <4> QED
        BY <3>1, <4>1
    <3>3. CASE g_thread_list # head[t]
      <4>1. /\ head' = [head EXCEPT ![t] = g_thread_list] /\ pc' = [pc EXCEPT ![t] = "link"]
            /\ UNCHANGED <<g_thread_list, registered>>
        BY <2>4, <3>3 DEF RegisterCas
      <4> QED
        BY <3>1, <4>1
    <3> QED
      BY <3>2, <3>3
  <2>5. CASE LookupProbe(t)
    <3>1. CASE Passes(t)
      BY <1>0, <2>5, <3>1 DEF LookupProbe, Passes, Exhausts, Returns
    <3>2. CASE Finds(t, "check")
      BY <2>5, <3>2 DEF LookupProbe, Finds, Exhausts, Returns
    <3>3. CASE Exhausts(t) /\ Returns(t, NoRoutine)
      BY <2>5, <3>3, NoRoutineReturned DEF LookupProbe
    <3> QED
      BY <2>5, <3>1, <3>2, <3>3 DEF LookupProbe
  <2>6. CASE LookupCheck(t)
    <3>1. CASE g_table[Slot(t)].id = key[t]
      BY <2>6, <3>1 DEF LookupCheck
    <3>2. CASE g_table[Slot(t)].id # key[t]
      BY <2>6, <3>2, NoRoutineReturned DEF LookupCheck
    <3> QED
      BY <3>1, <3>2
  <2>7. CASE LookupLoad(t)
    <3>0. Slot(t) \in Slots
      BY <2>7, SlotInTable DEF LookupLoad
    <3>1. g_table[Slot(t)].fn \in Routines \cup {NoRoutine}
      BY <3>0
    <3> QED
      BY <1>0, <2>7, <3>1 DEF LookupLoad, Returns
  <2>8. CASE CallReturns(t)
    BY <2>8 DEF CallReturns
  <2>9. CASE CallDeopts(t)
    BY <1>0, <2>9 DEF CallDeopts, Find
  <2>10. CASE RevertProbe(t)
    <3>1. CASE Passes(t)
      BY <1>0, <2>10, <3>1 DEF RevertProbe, Passes
    <3>2. CASE Finds(t, "rcheck")
      BY <2>10, <3>2 DEF RevertProbe, Finds
    <3> QED
      BY <2>10, <3>1, <3>2 DEF RevertProbe
  <2>11. CASE RevertCheck(t)
    <3>1. CASE g_table[Slot(t)].id = key[t]
      BY <2>11, <3>1 DEF RevertCheck
    <3>2. CASE g_table[Slot(t)].id # key[t]
      <4>1. /\ pc' = [pc EXCEPT ![t] = "idle"] /\ key' = [key EXCEPT ![t] = NoSite]
            /\ step' = [step EXCEPT ![t] = 0]
            /\ UNCHANGED <<tableVars, listVars, threadVars, scanVars, fn, new, seen>>
        BY <2>11, <3>2 DEF RevertCheck, RevertEnds
      <4> QED
        BY <1>0, <4>1
    <3> QED
      BY <3>1, <3>2
  <2>12. CASE RevertStore(t)
    <3>1. g_table' \in [Slots -> [id : Sites \cup {NoSite}, fn : Routines \cup {NoRoutine}]]
      BY <2>12, StoreType DEF RevertStore
    <3>2. seen' \in [Threads -> SUBSET (Routines \cup {NoRoutine})]
      BY <2>12, ShowType DEF RevertStore
    <3> QED
      BY <2>12, <3>1, <3>2 DEF RevertStore
  <2>13. CASE RevertBump(t)
    BY <1>0, <2>13 DEF RevertBump, RevertEnds
  <2>14. ASSUME NEW b \in Blocks, StartThread(t, b) PROVE TypeInv'
    BY <2>14 DEF StartThread
  <2>15. ASSUME NEW s \in Sites, Lookup(t, s) PROVE TypeInv'
    <3>1. Installed[s] \in Routines \cup {NoRoutine}
      BY DEF Installed
    <3> QED
      BY <1>0, <2>15, <3>1 DEF Lookup, Find
  <2> QED
    BY <1>1, <2>1, <2>2, <2>3, <2>4, <2>5, <2>6, <2>7, <2>8, <2>9, <2>10, <2>11,
       <2>12, <2>13, <2>14, <2>15 DEF Thread
<1>2. CASE Background
  <2>1. CASE InstallProbe
    BY <1>0, <2>1 DEF InstallProbe, Passes, Finds
  <2>2. CASE InstallId
    <3>1. g_table' \in [Slots -> [id : Sites \cup {NoSite}, fn : Routines \cup {NoRoutine}]]
      BY <2>2, StoreType DEF InstallId
    <3> QED
      BY <2>2, <3>1 DEF InstallId
  <2>3. CASE InstallFn
    <3>1. g_table' \in [Slots -> [id : Sites \cup {NoSite}, fn : Routines \cup {NoRoutine}]]
      BY <2>3, StoreType DEF InstallFn
    <3>2. seen' \in [Threads -> SUBSET (Routines \cup {NoRoutine})]
      BY <2>3, ShowType DEF InstallFn
    <3> QED
      BY <2>3, <3>1, <3>2 DEF InstallFn
  <2>4. CASE InstallBump
    BY <1>0, <2>4 DEF InstallBump
  <2>5. CASE ScanBegin
    BY <2>5 DEF ScanBegin, Live
  <2>6. CASE ScanRead
    BY <2>6 DEF ScanRead
  <2>7. CASE ScanEnd
    BY <2>7 DEF ScanEnd
  <2>8. ASSUME NEW s \in Hot, NEW r \in Routines, InstallBegin(s, r) PROVE TypeInv'
    BY <1>0, <2>8 DEF InstallBegin, Find
  <2> QED
    BY <1>2, <2>1, <2>2, <2>3, <2>4, <2>5, <2>6, <2>7, <2>8 DEF Background
<1>3. CASE UNCHANGED vars
  BY <1>3 DEF vars
<1> QED
  BY <1>1, <1>2, <1>3 DEF Next

\* Type correctness: in particular a search never leaves the table.
THEOREM TypeCorrect == Spec => []TypeOK
<1>1. TypeInv => TypeOK
  BY DEF TypeInv
<1> QED
  BY <1>1, TypeInit, TypeStep, PTL DEF Spec

-----------------------------------------------------------------------------
(* The dispatch table. An id is never taken out of its slot again, so what  *)
(* a search has passed stays passed.                                        *)

Searching == {"find", "check", "load", "rfind", "rcheck", "rstore", "ifind", "id", "fn"}

\* The slot that a search for s sees after n others belongs to another site.
Taken(s, n) == g_table[Probe(s, n)].id \notin {NoSite, s}

\* What actor a knows of the table from the search it is in or has done.
Knows(a) ==
    /\ pc[a] \in Searching => \A m \in 0..(step[a] - 1) : Taken(key[a], m)
    /\ pc[a] \in {"load", "rcheck", "rstore", "fn"} => g_table[Slot(a)].id = key[a]
    /\ pc[a] \in {"call", "rfind"} => \E i \in Slots : g_table[i].id = key[a]
    /\ pc[a] = "id" => g_table[Slot(a)].id \in {key[a], NoSite}

TableInv ==
    /\ \A i \in Slots : g_table[i].id \in Hot \cup {NoSite}
    /\ \A i \in Slots : g_table[i].id # NoSite => Reached(i)
    /\ \A a \in Actors : Knows(a)

\* TableInv holds initially.
LEMMA TableInit == Init => TableInv
<1> SUFFICES ASSUME Init PROVE TableInv
  OBVIOUS
<1>1. \A i \in Slots : g_table[i].id = NoSite
  BY DEF Init
<1>2. \A a \in Actors : pc[a] = "idle"
  BY DEF Init
<1>3. \A a \in Actors : Knows(a)
  BY <1>2 DEF Knows, Searching
<1> QED
  BY <1>1, <1>3 DEF TableInv

\* The remainder of a number below twice the divisor.
LEMMA WrapsOnce ==
    ASSUME NEW n \in Nat \ {0}, NEW x \in Nat, x < n + n
    PROVE  x % n = IF x < n THEN x ELSE x - n
<1>1. CASE x < n
  BY <1>1
<1>2. CASE n <= x
  BY <1>2
<1> QED
  BY <1>1, <1>2

\* The probes of one search are at different slots.
LEMMA ProbeInjective ==
    ASSUME NEW s \in Sites, NEW m \in Slots, NEW n \in Slots, Probe(s, m) = Probe(s, n)
    PROVE  m = n
<1>1. Home[s] \in Slots /\ TABLE_SIZE \in Nat \ {0}
  BY SharedTablesAssumption
<1>2. ASSUME NEW k \in Slots
      PROVE  Probe(s, k) = IF Home[s] + k < TABLE_SIZE THEN Home[s] + k
                           ELSE (Home[s] + k) - TABLE_SIZE
  <2> DEFINE x == Home[s] + k
  <2>1. x \in Nat /\ x < TABLE_SIZE + TABLE_SIZE
    BY <1>1 DEF Slots
  <2>2. Probe(s, k) = x % TABLE_SIZE
    BY DEF Probe
  <2>3. Probe(s, k) = IF x < TABLE_SIZE THEN x ELSE x - TABLE_SIZE
    <3> HIDE DEF x
    <3> QED
      BY <1>1, <2>1, <2>2, WrapsOnce
  <2> QED
    BY <2>3
<1> QED
  BY <1>1, <1>2 DEF Slots

\* No site has two slots.
LEMMA OneSlot ==
    ASSUME TypeInv, TableInv, NEW i \in Slots, NEW j \in Slots,
           g_table[i].id = g_table[j].id, g_table[i].id # NoSite
    PROVE  i = j
<1> DEFINE s == g_table[i].id
<1>1. PICK m \in Slots : Probe(s, m) = i /\ \A k \in 0..(m - 1) : Taken(s, k)
  BY DEF TableInv, Reached, Taken
<1>2. PICK n \in Slots : Probe(s, n) = j /\ \A k \in 0..(n - 1) : Taken(s, k)
  BY DEF TableInv, Reached, Taken
<1>3. ~Taken(s, m) /\ ~Taken(s, n)
  BY <1>1, <1>2 DEF Taken
<1>4. m = n
  BY <1>1, <1>2, <1>3 DEF Slots
<1> QED
  BY <1>1, <1>2, <1>4

\* The search for a site that has a slot has not passed that slot, and passes
\* none but taken slots before it.
LEMMA SlotAhead ==
    ASSUME TypeInv, TableInv, NEW a \in Actors, pc[a] \in Searching, key[a] \in Sites,
           \E i \in Slots : g_table[i].id = key[a]
    PROVE  \E n \in Slots : /\ step[a] <= n /\ g_table[Probe(key[a], n)].id = key[a]
                            /\ \A m \in 0..(n - 1) : Taken(key[a], m)
<1>1. PICK i \in Slots : g_table[i].id = key[a]
  OBVIOUS
<1>2. key[a] # NoSite
  BY SharedTablesAssumption
<1>3. PICK n \in Slots : Probe(key[a], n) = i /\ \A m \in 0..(n - 1) : Taken(key[a], m)
  BY <1>1, <1>2 DEF TableInv, Reached, Taken
<1>4. ~Taken(key[a], n)
  BY <1>1, <1>3 DEF Taken
<1>5. step[a] <= n
  BY <1>4 DEF TableInv, Knows, TypeInv, TypeOK, Slots
<1> QED
  BY <1>1, <1>3, <1>5

\* A search that comes to a free slot, or to the end, is for a site that has
\* no slot.
LEMMA SearchEnds ==
    ASSUME TypeInv, TableInv, NEW a \in Actors, pc[a] \in Searching, key[a] \in Sites,
           g_table[Slot(a)].id = NoSite \/ Exhausts(a)
    PROVE  \A i \in Slots : g_table[i].id # key[a]
<1> SUFFICES ASSUME \E i \in Slots : g_table[i].id = key[a] PROVE FALSE
  OBVIOUS
<1>1. step[a] \in Slots /\ key[a] # NoSite
  BY SharedTablesAssumption DEF TypeInv, TypeOK
<1>2. PICK n \in Slots : /\ step[a] <= n /\ g_table[Probe(key[a], n)].id = key[a]
                        /\ \A m \in 0..(n - 1) : Taken(key[a], m)
  BY SlotAhead
<1>3. CASE step[a] < n
  <2>1. Taken(key[a], step[a])
    BY <1>1, <1>2, <1>3 DEF Slots
  <2> QED
    BY <1>1, <1>3, <2>1, SharedTablesAssumption DEF Exhausts, Slot, Taken, Slots
<1>4. CASE step[a] = n
  BY <1>1, <1>2, <1>4 DEF Exhausts, Slot
<1> QED
  BY <1>1, <1>2, <1>3, <1>4 DEF Slots

\* revert finds the slot of its site.
LEMMA RevertFinds ==
    ASSUME TypeInv, TableInv, NEW t \in Threads, pc[t] = "rfind"
    PROVE  /\ ~Exhausts(t)
           /\ g_table[Slot(t)].id \in {key[t], NoSite} => g_table[Slot(t)].id = key[t]
<1>1. t \in Actors /\ key[t] \in Sites /\ pc[t] \in Searching
  BY DEF TypeInv, TypeOK, Placed, Keyed, Labels, Actors, Searching
<1>2. \E i \in Slots : g_table[i].id = key[t]
  BY <1>1 DEF TableInv, Knows
<1> QED
  BY <1>1, <1>2, SearchEnds

\* install finds a slot: there are not enough other sites to fill the table.
LEMMA InstallFinds ==
    ASSUME TypeInv, TableInv, pc["bg"] = "ifind"
    PROVE  ~Exhausts("bg")
<1> DEFINE s == key["bg"]
           f == [m \in Slots |-> g_table[Probe(s, m)].id]
<1> SUFFICES ASSUME Exhausts("bg") PROVE FALSE
  OBVIOUS
<1>1. s \in Hot /\ s \in Sites /\ step["bg"] \in Slots /\ "bg" \in Actors
  BY SharedTablesAssumption DEF TypeInv, TypeOK, Placed, Keyed, Labels, Actors
<1>2. \A m \in 0..(step["bg"] - 1) : Taken(s, m)
  BY <1>1 DEF TableInv, Knows, Searching
<1>3. Taken(s, step["bg"]) /\ step["bg"] = TABLE_SIZE - 1
  BY <1>1, SharedTablesAssumption DEF Exhausts, Taken, Slot, Slots
<1>4. \A m \in Slots : Taken(s, m)
  BY <1>1, <1>2, <1>3 DEF Slots
<1>5. \A m \in Slots : Probe(s, m) \in Slots
  BY <1>1, ProbeInTable DEF Slots
<1>6. f \in [Slots -> Hot \ {s}]
  BY <1>4, <1>5 DEF TableInv, Taken
<1>7. IsFiniteSet(Slots) /\ Cardinality(Slots) = TABLE_SIZE
  BY FS_Interval, SharedTablesAssumption DEF Slots
<1>8. /\ IsFiniteSet(Hot \ {s}) /\ Cardinality(Hot \ {s}) = Cardinality(Hot) - 1
      /\ Cardinality(Hot) \in Nat
  BY <1>1, FS_RemoveElement, FS_CardinalityType, SharedTablesAssumption
<1>9. Cardinality(Hot \ {s}) < Cardinality(Slots)
  BY <1>7, <1>8, SharedTablesAssumption
<1>10. PICK m \in Slots, n \in Slots : m # n /\ f[m] = f[n]
  <2> HIDE DEF f
  <2> QED
    BY <1>6, <1>7, <1>8, <1>9, FS_PigeonHole
<1>11. Probe(s, m) = Probe(s, n)
  <2>1. /\ g_table[Probe(s, m)].id = g_table[Probe(s, n)].id
        /\ g_table[Probe(s, m)].id # NoSite
    BY <1>4, <1>10 DEF Taken
  <2> QED
    BY <1>5, <2>1, OneSlot
<1> QED
  BY <1>1, <1>10, <1>11, ProbeInjective

\* What an actor knows stays true while ids are only added, as long as it does
\* not move; install's free slot has to stay as it is.
LEMMA KnowsStays ==
    ASSUME TypeInv, TypeInv', TableInv,
           \A i \in Slots : g_table[i].id # NoSite => g_table'[i].id = g_table[i].id,
           NEW a \in Actors, pc'[a] = pc[a], key'[a] = key[a], step'[a] = step[a],
           pc[a] = "id" => \A i \in Slots : g_table'[i].id = g_table[i].id
    PROVE  Knows(a)'
<1>0. /\ Knows(a) /\ step[a] \in Slots
      /\ pc[a] \in Searching \cup {"call"} => key[a] \in Sites /\ key[a] # NoSite
  BY SharedTablesAssumption
     DEF TableInv, TypeInv, TypeOK, Placed, Searching, Keyed, Labels, Actors
<1>1. ASSUME pc[a] \in Searching, NEW m \in 0..(step[a] - 1)
      PROVE  g_table'[Probe(key[a], m)].id \notin {NoSite, key[a]}
  <2>1. Probe(key[a], m) \in Slots
    BY <1>0, <1>1, ProbeInTable DEF Slots
  <2> QED
    BY <1>0, <1>1, <2>1 DEF Knows, Taken
<1>2. ASSUME pc[a] \in {"load", "rcheck", "rstore", "fn"}
      PROVE  g_table'[Slot(a)].id = key[a]
  <2>1. Slot(a) \in Slots
    BY <1>0, <1>2, SlotInTable DEF Searching
  <2> QED
    BY <1>0, <1>2, <2>1 DEF Knows, Searching
<1>3. ASSUME pc[a] \in {"call", "rfind"}
      PROVE  \E i \in Slots : g_table'[i].id = key[a]
  BY <1>0, <1>3 DEF Knows, Searching
<1>4. ASSUME pc[a] = "id"
      PROVE  g_table'[Slot(a)].id \in {key[a], NoSite}
  <2>1. Slot(a) \in Slots
    BY <1>0, <1>4, SlotInTable DEF Searching
  <2> QED
    BY <1>0, <1>4, <2>1 DEF Knows
<1>5. Slot(a)' = Slot(a)
  BY DEF Slot, Probe
<1> QED
  BY <1>1, <1>2, <1>3, <1>4, <1>5 DEF Knows, Taken, Probe, Slots

\* Slots keep being found as ids are added.
LEMMA ReachedStays ==
    ASSUME TypeInv, TypeInv', NEW i \in Slots, g_table[i].id # NoSite, Reached(i),
           \A j \in Slots : g_table[j].id # NoSite => g_table'[j].id = g_table[j].id
    PROVE  Reached(i)'
<1> DEFINE s == g_table[i].id
<1>1. s \in Sites /\ g_table'[i].id = s
  BY DEF TypeInv, TypeOK
<1>2. PICK n \in Slots : /\ Probe(s, n) = i
                        /\ \A m \in 0..(n - 1) : g_table[Probe(s, m)].id \notin {NoSite, s}
  BY DEF Reached
<1>3. ASSUME NEW m \in 0..(n - 1)
      PROVE  g_table'[Probe(s, m)].id \notin {NoSite, s}
  <2>1. Probe(s, m) \in Slots
    BY <1>1, ProbeInTable DEF Slots
  <2> QED
    BY <1>2, <2>1
<1> QED
  BY <1>1, <1>2, <1>3 DEF Reached, Probe, Slots

\* A step of actor a that writes no id.
LEMMA TableFrame ==
    ASSUME TypeInv, TypeInv', TableInv,
           \A i \in Slots : g_table'[i].id = g_table[i].id,
           NEW a \in Actors, Knows(a)',
           \A b \in Actors \ {a} : pc'[b] = pc[b] /\ key'[b] = key[b] /\ step'[b] = step[b]
    PROVE  TableInv'
<1>1. \A b \in Actors \ {a} : Knows(b)'
  BY KnowsStays
<1>2. \A i \in Slots : g_table'[i].id # NoSite => Reached(i)'
  BY ReachedStays DEF TableInv
<1>3. \A b \in Actors : Knows(b)'
  BY <1>1
<1> QED
  BY <1>2, <1>3 DEF TableInv, Actors, Slots

\* Reading one slot more.
LEMMA PassesKnows ==
    ASSUME TypeInv, TypeInv', NEW a \in Actors, Knows(a), Passes(a), pc[a] \in Searching,
           UNCHANGED <<g_table, key>>, pc[a] \in {"find", "rfind", "ifind"}
    PROVE  Knows(a)'
<1>1. /\ step[a] \in Slots /\ step'[a] = step[a] + 1 /\ pc' = pc
      /\ Taken(key[a], step[a])
  BY DEF Passes, TypeInv, TypeOK, Taken, Slot
<1>2. \A m \in 0..(step'[a] - 1) : Taken(key[a], m)
  BY <1>1 DEF Knows, Slots
<1> QED
  BY <1>1, <1>2 DEF Knows, Taken, Probe

\* Every step keeps TableInv.
LEMMA TableStep == TypeInv /\ TypeInv' /\ TableInv /\ [Next]_vars => TableInv'
<1> SUFFICES ASSUME TypeInv, TypeInv', TableInv, [Next]_vars PROVE TableInv'
  OBVIOUS
<1> USE DEF tableVars, listVars, threadVars, findVars, scanVars, Goto
<1>0. /\ pc \in [Actors -> Labels] /\ key \in [Actors -> Sites \cup {NoSite}]
      /\ step \in [Actors -> Slots]
      /\ g_table \in [Slots -> [id : Sites \cup {NoSite}, fn : Routines \cup {NoRoutine}]]
  BY DEF TypeInv, TypeOK
<1>1. ASSUME NEW t \in Threads, Thread(t) PROVE TableInv'
  <2>0. t \in Actors /\ Knows(t)
    BY DEF Actors, TableInv
  <2>1. CASE EndThread(t) \/ \E b \in Blocks : StartThread(t, b)
    BY <2>0, <2>1, KnowsStays, TableFrame DEF EndThread, StartThread
  <2>2. CASE RegisterLoad(t) \/ RegisterLink(t) \/ RegisterCas(t)
    <3>1. /\ UNCHANGED <<g_table, key, step>>
          /\ pc' \in {[pc EXCEPT ![t] = l] : l \in {"link", "cas", "idle"}}
      BY <2>2 DEF RegisterLoad, RegisterLink, RegisterCas
    <3>2. Knows(t)'
      BY <1>0, <2>0, <3>1 DEF Knows, Searching
    <3> QED
      BY <1>0, <2>0, <3>1, <3>2, TableFrame
  <2>3. CASE LookupProbe(t)
    <3>1. CASE Passes(t) /\ UNCHANGED key
      <4>1. pc[t] = "find" /\ UNCHANGED g_table
        BY <2>3 DEF LookupProbe
      <4>2. Knows(t)'
        BY <2>0, <3>1, <4>1, PassesKnows DEF Searching
      <4> QED
        BY <1>0, <2>0, <3>1, <4>1, <4>2, TableFrame DEF Passes
    <3>2. CASE Finds(t, "check") /\ UNCHANGED key
      <4>1. pc[t] = "find" /\ UNCHANGED <<g_table, step>> /\ pc' = [pc EXCEPT ![t] = "check"]
        BY <2>3, <3>2 DEF LookupProbe, Finds
      <4>2. Knows(t)'
        BY <1>0, <2>0, <3>2, <4>1 DEF Knows, Searching, Taken, Probe
      <4> QED
        BY <1>0, <2>0, <3>2, <4>1, <4>2, TableFrame
    <3>3. CASE Returns(t, NoRoutine)
      <4>1. /\ pc' = [pc EXCEPT ![t] = "idle"] /\ key' = [key EXCEPT ![t] = NoSite]
            /\ step' = [step EXCEPT ![t] = 0] /\ UNCHANGED g_table
        BY <2>3, <3>3 DEF LookupProbe, Returns
      <4>2. Knows(t)'
        BY <1>0, <2>0, <4>1 DEF Knows, Searching
      <4> QED
        BY <1>0, <2>0, <4>1, <4>2, TableFrame
    <3> QED
      BY <2>3, <3>1, <3>2, <3>3 DEF LookupProbe
  <2>4. CASE LookupCheck(t)
    <3>1. CASE g_table[Slot(t)].id = key[t]
      <4>1. /\ pc[t] = "check" /\ UNCHANGED <<g_table, step, key>>
            /\ pc' = [pc EXCEPT ![t] = "load"]
        BY <2>4, <3>1 DEF LookupCheck
      <4>2. Knows(t)'
        BY <1>0, <2>0, <3>1, <4>1 DEF Knows, Searching, Taken, Probe, Slot
      <4> QED
        BY <1>0, <2>0, <4>1, <4>2, TableFrame
    <3>2. CASE g_table[Slot(t)].id # key[t]
      <4>1. /\ pc' = [pc EXCEPT ![t] = "idle"] /\ key' = [key EXCEPT ![t] = NoSite]
            /\ step' = [step EXCEPT ![t] = 0] /\ UNCHANGED g_table
        BY <2>4, <3>2 DEF LookupCheck, Returns
      <4>2. Knows(t)'
        BY <1>0, <2>0, <4>1 DEF Knows, Searching
      <4> QED
        BY <1>0, <2>0, <4>1, <4>2, TableFrame
    <3> QED
      BY <3>1, <3>2
  <2>5. CASE LookupLoad(t)
    <3>1. /\ pc[t] = "load" /\ UNCHANGED g_table
          /\ \/ pc' = [pc EXCEPT ![t] = "idle"] /\ key' = [key EXCEPT ![t] = NoSite]
             \/ pc' = [pc EXCEPT ![t] = "call"] /\ key' = [key EXCEPT ![t] = @]
          /\ step' = [step EXCEPT ![t] = 0]
      BY <2>5 DEF LookupLoad, Returns
    <3>2. Slot(t) \in Slots /\ g_table[Slot(t)].id = key[t]
      BY <2>0, <3>1, SlotInTable DEF Knows, TypeInv, Placed, Keyed, Labels
    <3>3. Knows(t)'
      BY <1>0, <2>0, <3>1, <3>2 DEF Knows, Searching
    <3> QED
      BY <1>0, <2>0, <3>1, <3>3, TableFrame
  <2>6. CASE CallReturns(t)
    <3>1. /\ pc' = [pc EXCEPT ![t] = "idle"] /\ key' = [key EXCEPT ![t] = NoSite]
          /\ UNCHANGED <<g_table, step>>
      BY <2>6 DEF CallReturns
    <3>2. Knows(t)'
      BY <1>0, <2>0, <3>1 DEF Knows, Searching
    <3> QED
      BY <1>0, <2>0, <3>1, <3>2, TableFrame
  <2>7. CASE CallDeopts(t)
    <3>1. /\ pc[t] = "call" /\ UNCHANGED g_table
          /\ pc' = [pc EXCEPT ![t] = "rfind"] /\ key' = [key EXCEPT ![t] = key[t]]
          /\ step' = [step EXCEPT ![t] = 0]
      BY <2>7 DEF CallDeopts, Find
    <3>2. Knows(t)'
      BY <1>0, <2>0, <3>1 DEF Knows, Searching
    <3> QED
      BY <1>0, <2>0, <3>1, <3>2, TableFrame
  <2>8. CASE RevertProbe(t)
    <3>1. pc[t] = "rfind" /\ UNCHANGED <<g_table, key>>
      BY <2>8 DEF RevertProbe
    <3>2. CASE Passes(t)
      <4>1. Knows(t)'
        BY <2>0, <3>1, <3>2, PassesKnows DEF Searching
      <4> QED
        BY <1>0, <2>0, <3>1, <3>2, <4>1, TableFrame DEF Passes
    <3>3. CASE Finds(t, "rcheck")
      <4>1. pc' = [pc EXCEPT ![t] = "rcheck"] /\ UNCHANGED step
        BY <3>3 DEF Finds
      <4>2. g_table[Slot(t)].id = key[t]
        BY <3>1, <3>3, RevertFinds DEF Finds
      <4>3. Knows(t)'
        BY <1>0, <2>0, <3>1, <4>1, <4>2 DEF Knows, Searching, Taken, Probe, Slot
      <4> QED
        BY <1>0, <2>0, <3>1, <4>1, <4>3, TableFrame
    <3> QED
      BY <2>8, <3>2, <3>3 DEF RevertProbe
  <2>9. CASE RevertCheck(t)
    <3>1. /\ pc[t] = "rcheck" /\ g_table[Slot(t)].id = key[t]
          /\ pc' = [pc EXCEPT ![t] = "rstore"] /\ UNCHANGED <<g_table, key, step>>
      BY <2>0, <2>9 DEF RevertCheck, Knows
    <3>2. Knows(t)'
      BY <1>0, <2>0, <3>1 DEF Knows, Searching, Taken, Probe, Slot
    <3> QED
      BY <1>0, <2>0, <3>1, <3>2, TableFrame
  <2>10. CASE RevertStore(t)
    <3>1. /\ pc' = [pc EXCEPT ![t] = "rbump"] /\ UNCHANGED <<key, step>>
          /\ g_table' = [g_table EXCEPT ![Slot(t)].fn = NoRoutine]
      BY <2>10 DEF RevertStore
    <3>2. \A i \in Slots : g_table'[i].id = g_table[i].id
      BY <1>0, <3>1
    <3>3. Knows(t)'
      BY <1>0, <2>0, <3>1 DEF Knows, Searching
    <3> QED
      BY <1>0, <2>0, <3>1, <3>2, <3>3, TableFrame
  <2>11. CASE RevertBump(t)
    <3>1. /\ pc' = [pc EXCEPT ![t] = "idle"] /\ key' = [key EXCEPT ![t] = NoSite]
          /\ step' = [step EXCEPT ![t] = 0] /\ UNCHANGED g_table
      BY <2>11 DEF RevertBump, RevertEnds
    <3>2. Knows(t)'
      BY <1>0, <2>0, <3>1 DEF Knows, Searching
    <3> QED
      BY <1>0, <2>0, <3>1, <3>2, TableFrame
  <2>12. ASSUME NEW s \in Sites, Lookup(t, s) PROVE TableInv'
    <3>1. /\ pc' = [pc EXCEPT ![t] = "find"] /\ key' = [key EXCEPT ![t] = s]
          /\ step' = [step EXCEPT ![t] = 0] /\ UNCHANGED g_table
      BY <2>12 DEF Lookup, Find
    <3>2. Knows(t)'
      BY <1>0, <2>0, <3>1 DEF Knows, Searching
    <3> QED
      BY <1>0, <2>0, <3>1, <3>2, TableFrame
  <2> QED
    BY <1>1, <2>1, <2>2, <2>3, <2>4, <2>5, <2>6, <2>7, <2>8, <2>9, <2>10, <2>11,
       <2>12 DEF Thread
<1>2. CASE Background
  <2>0. "bg" \in Actors /\ Knows("bg")
    BY DEF Actors, TableInv
  <2>1. CASE InstallProbe
    <3>1. pc["bg"] = "ifind" /\ UNCHANGED <<g_table, key>>
      BY <2>1 DEF InstallProbe
    <3>2. CASE Passes("bg")
      <4>1. Knows("bg")'
        BY <2>0, <3>1, <3>2, PassesKnows DEF Searching
      <4> QED
        BY <1>0, <2>0, <3>1, <3>2, <4>1, TableFrame DEF Passes
    <3>3. CASE Finds("bg", "id")
      <4>1. /\ pc' = [pc EXCEPT !["bg"] = "id"] /\ UNCHANGED step
            /\ g_table[Slot("bg")].id \in {key["bg"], NoSite}
        BY <3>3 DEF Finds
      <4>2. Knows("bg")'
        BY <1>0, <2>0, <3>1, <4>1 DEF Knows, Searching, Taken, Probe, Slot
      <4> QED
        BY <1>0, <2>0, <3>1, <4>1, <4>2, TableFrame
    <3> QED
      BY <2>1, <3>2, <3>3 DEF InstallProbe
  <2>2. CASE InstallId
    <3> DEFINE s == key["bg"]
               j == Slot("bg")
    <3>1. /\ pc["bg"] = "id" /\ pc' = [pc EXCEPT !["bg"] = "fn"] /\ UNCHANGED <<key, step>>
          /\ g_table' = [g_table EXCEPT ![j].id = s]
      BY <2>2 DEF InstallId
    <3>2. s \in Hot /\ s \in Sites /\ s # NoSite /\ j \in Slots
      BY <2>0, <3>1, SlotInTable, SharedTablesAssumption DEF TypeInv, Placed, Keyed, Labels
    <3>3. /\ g_table[j].id \in {s, NoSite} /\ g_table'[j].id = s
          /\ \A i \in Slots \ {j} : g_table'[i].id = g_table[i].id
      BY <1>0, <2>0, <3>1, <3>2 DEF Knows
    <3>4. \A i \in Slots : g_table[i].id # NoSite => g_table'[i].id = g_table[i].id
      BY <3>3
    <3>5. \A m \in 0..(step["bg"] - 1) : Taken(s, m)
      BY <2>0, <3>1 DEF Knows, Searching
    <3>6. \A m \in 0..(step["bg"] - 1) : g_table'[Probe(s, m)].id \notin {NoSite, s}
      <4> SUFFICES ASSUME NEW m \in 0..(step["bg"] - 1)
                   PROVE  g_table'[Probe(s, m)].id \notin {NoSite, s}
        OBVIOUS
      <4>1. Probe(s, m) \in Slots
        BY <1>0, <2>0, <3>2, ProbeInTable DEF Slots
      <4> QED
        BY <3>4, <3>5, <4>1 DEF Taken
    <3>7. Knows("bg")'
      BY <1>0, <2>0, <3>1, <3>3, <3>6 DEF Knows, Searching, Taken, Probe, Slot
    <3>8. \A a \in Actors \ {"bg"} : Knows(a)'
      <4> SUFFICES ASSUME NEW a \in Actors, a # "bg" PROVE Knows(a)'
        OBVIOUS
      <4>1. /\ pc'[a] = pc[a] /\ key'[a] = key[a] /\ step'[a] = step[a]
            /\ pc[a] # "id"
        BY <1>0, <3>1 DEF TypeInv, Placed, ThreadLabels, Actors
      <4> QED
        BY <3>4, <4>1, KnowsStays
    <3>9. ASSUME NEW i \in Slots, i = j PROVE Reached(i)'
      <4>1. step["bg"] \in Slots /\ Probe(s, step["bg"]) = j
        BY <1>0, <2>0 DEF Slot
      <4> QED
        BY <3>3, <3>6, <3>9, <4>1 DEF Reached, Probe, Slots
    <3>10. \A i \in Slots : g_table'[i].id # NoSite => Reached(i)'
      <4> SUFFICES ASSUME NEW i \in Slots, g_table'[i].id # NoSite, i # j PROVE Reached(i)'
        BY <3>9
      <4> QED
        BY <3>3, <3>4, ReachedStays DEF TableInv
    <3>11. \A a \in Actors : Knows(a)'
      BY <3>7, <3>8
    <3>12. \A i \in Slots : g_table'[i].id \in Hot \cup {NoSite}
      BY <3>2, <3>3 DEF TableInv
    <3> QED
      BY <3>10, <3>11, <3>12 DEF TableInv, Actors, Slots
  <2>3. CASE InstallFn
    <3>1. /\ pc' = [pc EXCEPT !["bg"] = "bump"] /\ UNCHANGED <<key, step>>
          /\ g_table' = [g_table EXCEPT ![Slot("bg")].fn = new]
      BY <2>3 DEF InstallFn
    <3>2. \A i \in Slots : g_table'[i].id = g_table[i].id
      BY <1>0, <3>1
    <3>3. Knows("bg")'
      BY <1>0, <2>0, <3>1 DEF Knows, Searching
    <3> QED
      BY <1>0, <2>0, <3>1, <3>2, <3>3, TableFrame
  <2>4. CASE InstallBump
    <3>1. /\ pc' = [pc EXCEPT !["bg"] = "idle"] /\ key' = [key EXCEPT !["bg"] = NoSite]
          /\ step' = [step EXCEPT !["bg"] = 0] /\ UNCHANGED g_table
      BY <2>4 DEF InstallBump
    <3>2. Knows("bg")'
      BY <1>0, <2>0, <3>1 DEF Knows, Searching
    <3> QED
      BY <1>0, <2>0, <3>1, <3>2, TableFrame
  <2>5. CASE ScanBegin \/ ScanRead \/ ScanEnd
    <3>1. /\ UNCHANGED <<g_table, key, step>> /\ pc'["bg"] \in {"idle", "scan"}
          /\ \A a \in Actors \ {"bg"} : pc'[a] = pc[a]
      BY <1>0, <2>0, <2>5 DEF ScanBegin, ScanRead, ScanEnd
    <3>2. Knows("bg")'
      BY <3>1 DEF Knows, Searching
    <3> QED
      BY <2>0, <3>1, <3>2, TableFrame
  <2>6. ASSUME NEW s \in Hot, NEW r \in Routines, InstallBegin(s, r) PROVE TableInv'
    <3>1. /\ pc' = [pc EXCEPT !["bg"] = "ifind"] /\ key' = [key EXCEPT !["bg"] = s]
          /\ step' = [step EXCEPT !["bg"] = 0] /\ UNCHANGED g_table
      BY <2>6 DEF InstallBegin, Find
    <3>2. Knows("bg")'
      BY <1>0, <2>0, <3>1 DEF Knows, Searching
    <3> QED
      BY <1>0, <2>0, <3>1, <3>2, TableFrame
  <2> QED
    BY <1>2, <2>1, <2>2, <2>3, <2>4, <2>5, <2>6 DEF Background
<1>3. CASE UNCHANGED vars
  <2>1. "bg" \in Actors /\ UNCHANGED <<g_table, pc, key, step>>
    BY <1>3 DEF vars, Actors
  <2>2. Knows("bg")'
    BY <2>1, KnowsStays
  <2> QED
    BY <2>1, <2>2, TableFrame
<1> QED
  BY <1>1, <1>2, <1>3 DEF Next

\* However installs, reverts and lookups interleave, each site has one slot,
\* every search finds it, and install and revert never run out of slots.
THEOREM TableAlwaysSound == Spec => []TableSound
<1>1. TypeInv /\ TableInv => TableSound
  <2> SUFFICES ASSUME TypeInv, TableInv PROVE TableSound
    OBVIOUS
  <2>1. \A a \in Actors : pc[a] \in {"ifind", "rfind"} => ~Exhausts(a)
    BY RevertFinds, InstallFinds DEF TypeInv, Placed, ThreadLabels, BgLabels, Actors
  <2>2. \A t \in Threads : pc[t] \in {"rcheck", "rstore"} => g_table[Slot(t)].id = key[t]
    BY DEF TableInv, Knows, Actors
  <2> QED
    BY <2>1, <2>2 DEF TableInv, TableSound
<1> QED
  BY <1>1, TypeInit, TypeStep, TableInit, TableStep, PTL DEF Spec

-----------------------------------------------------------------------------
(* The table implements a map. The map of the refinement is Installed; a    *)
(* lookup may return what it has seen its site to have.                     *)

\* A free slot holds no routine, and what a lookup can still return is among
\* the routines its site has had; one that came to a free slot has seen the
\* site without a routine, whoever takes that slot before it looks again.
MapInv ==
    /\ \A i \in Slots : g_table[i].id = NoSite => g_table[i].fn = NoRoutine
    /\ \A t \in Threads :
        /\ pc[t] \in {"find", "check", "load"} => Installed[key[t]] \in seen[t]
        /\ pc[t] = "check" /\ g_table[Slot(t)].id # key[t] => NoRoutine \in seen[t]

\* Installed speaks of the one slot a site has.
InstalledFacts ==
    \A s \in Sites :
        /\ \A i \in Slots : g_table[i].id = s => Installed[s] = g_table[i].fn
        /\ (\A i \in Slots : g_table[i].id # s) => Installed[s] = NoRoutine

\* The abstract map, read off the table.
LEMMA InstalledIs == TypeInv /\ TableInv => InstalledFacts
<1> SUFFICES ASSUME TypeInv, TableInv, NEW s \in Sites
             PROVE  /\ \A i \in Slots : g_table[i].id = s => Installed[s] = g_table[i].fn
                    /\ (\A i \in Slots : g_table[i].id # s) => Installed[s] = NoRoutine
  BY DEF InstalledFacts
<1> DEFINE mine == {i \in Slots : g_table[i].id = s}
<1>1. Installed[s] = IF mine = {} THEN NoRoutine ELSE g_table[CHOOSE i \in mine : TRUE].fn
  BY DEF Installed
<1>2. ASSUME NEW i \in Slots, g_table[i].id = s PROVE Installed[s] = g_table[i].fn
  <2>1. s # NoSite
    BY SharedTablesAssumption
  <2>2. mine = {i}
    BY <1>2, <2>1, OneSlot
  <2>3. (CHOOSE j \in mine : TRUE) = i
    BY <2>2
  <2> QED
    BY <1>1, <2>2, <2>3
<1> QED
  BY <1>1, <1>2

\* The same after a step.
LEMMA InstalledIsPrimed == TypeInv' /\ TableInv' => InstalledFacts'
  BY InstalledIs, PTL

\* Storing a routine in the slot of a site changes the map at that site.
LEMMA StoreSets ==
    ASSUME TypeInv, TypeInv', TableInv, TableInv', NEW a \in Actors, key[a] \in Sites,
           g_table[Slot(a)].id = key[a], NEW r \in Routines \cup {NoRoutine},
           g_table' = [g_table EXCEPT ![Slot(a)].fn = r]
    PROVE  /\ Installed' = [Installed EXCEPT ![key[a]] = r]
           /\ \A i \in Slots : g_table'[i].id = g_table[i].id
<1> DEFINE j == Slot(a)
<1>1. j \in Slots
  BY SlotInTable
<1>2. /\ \A i \in Slots : g_table'[i].id = g_table[i].id
      /\ \A i \in Slots \ {j} : g_table'[i].fn = g_table[i].fn
      /\ g_table'[j].fn = r
  BY <1>1 DEF TypeInv, TypeOK
<1>3. InstalledFacts /\ InstalledFacts'
  BY InstalledIs, InstalledIsPrimed
<1>4. Installed'[key[a]] = r
  BY <1>1, <1>2, <1>3 DEF InstalledFacts, Slots
<1>5. \A s \in Sites \ {key[a]} : Installed'[s] = Installed[s]
  <2> SUFFICES ASSUME NEW s \in Sites, s # key[a] PROVE Installed'[s] = Installed[s]
    OBVIOUS
  <2>1. CASE \E i \in Slots : g_table[i].id = s
    <3>1. PICK i \in Slots : g_table[i].id = s
      BY <2>1
    <3>2. i # j
      BY <3>1
    <3> QED
      BY <1>2, <1>3, <3>1, <3>2 DEF InstalledFacts, Slots
  <2>2. CASE ~\E i \in Slots : g_table[i].id = s
    BY <1>2, <1>3, <2>2 DEF InstalledFacts, Slots
  <2> QED
    BY <2>1, <2>2
<1>6. /\ Installed = [s \in Sites |-> Installed[s]]
      /\ Installed' = [s \in Sites |-> Installed'[s]]
  BY DEF Installed
<1>7. Installed' = [Installed EXCEPT ![key[a]] = r]
  BY <1>4, <1>5, <1>6
<1> QED
  BY <1>2, <1>7

Lookups == {"find", "check", "load"}

\* The initial states implement those of the map.
LEMMA MapInit == Init => MapInv /\ Map!Init
<1> SUFFICES ASSUME Init PROVE MapInv /\ Map!Init
  OBVIOUS
<1>1. MapInv
  BY DEF Init, MapInv, Actors
<1>2. Installed = [s \in Sites |-> NoRoutine]
  <2>1. \A s \in Sites : {i \in Slots : g_table[i].id = s} = {}
    BY SharedTablesAssumption DEF Init
  <2> QED
    BY <2>1 DEF Installed
<1>3. Asked = [t \in Threads |-> NoSite]
  BY DEF Init, Asked, Actors
<1> QED
  BY <1>1, <1>2, <1>3 DEF Map!Init, Init

\* A step that is not about the map.
LEMMA MapStutter ==
    ASSUME TypeInv, TypeInv', MapInv, UNCHANGED <<g_table, seen, fn>>,
           \A u \in Threads : \/ pc'[u] = pc[u] /\ key'[u] = key[u] /\ step'[u] = step[u]
                              \/ pc[u] \notin Lookups /\ pc'[u] \notin Lookups
    PROVE  MapInv' /\ [Map!Next]_(Map!vars)
<1>1. Installed' = Installed
  BY DEF Installed
<1>2. Asked' = Asked
  BY DEF Asked, Lookups
<1>3. MapInv'
  BY <1>1 DEF MapInv, Lookups, Slot, Probe
<1> QED
  BY <1>1, <1>2, <1>3 DEF Map!vars

\* A lookup returns one of the routines it has seen.
LEMMA MapAnswers ==
    ASSUME TypeInv, TypeInv', MapInv, NEW t \in Threads, pc[t] \in Lookups,
           NEW r \in seen[t], Returns(t, r), UNCHANGED g_table
    PROVE  MapInv' /\ [Map!Next]_(Map!vars)
<1>1. /\ fn' = [fn EXCEPT ![t] = r] /\ seen' = [seen EXCEPT ![t] = {}]
      /\ pc' = [pc EXCEPT ![t] = IF r = NoRoutine THEN "idle" ELSE "call"]
      /\ \A u \in Threads \ {t} : pc'[u] = pc[u] /\ key'[u] = key[u] /\ step'[u] = step[u]
      /\ pc'[t] \notin Lookups
  BY DEF Returns, Goto, TypeInv, TypeOK, Actors, Lookups
<1>2. Installed' = Installed
  BY DEF Installed
<1>3. Asked[t] # NoSite /\ Asked' = [Asked EXCEPT ![t] = NoSite]
  BY <1>1, SharedTablesAssumption DEF Asked, Lookups, TypeInv, Placed, Keyed, Labels
<1>4. Map!Answer(t)
  BY <1>1, <1>2, <1>3 DEF Map!Answer
<1>5. MapInv'
  BY <1>1, <1>2 DEF MapInv, Lookups, Slot, Probe, TypeInv, TypeOK
<1> QED
  BY <1>4, <1>5 DEF Map!Next

\* A store to the routine of a site's slot, seen by the lookups of the site.
LEMMA MapSets ==
    ASSUME TypeInv, TypeInv', TableInv, TableInv', MapInv,
           NEW a \in Actors, pc[a] \notin Lookups, pc'[a] \notin Lookups,
           key[a] \in Sites, g_table[Slot(a)].id = key[a],
           NEW r \in Routines \cup {NoRoutine},
           g_table' = [g_table EXCEPT ![Slot(a)].fn = r], Show(key[a], r),
           UNCHANGED <<key, step, fn>>, \A b \in Actors \ {a} : pc'[b] = pc[b]
    PROVE  MapInv' /\ [Map!Next]_(Map!vars)
<1>0. Installed = [s \in Sites |-> Installed[s]]
  BY DEF Installed
<1>1. /\ Installed' = [Installed EXCEPT ![key[a]] = r]
      /\ \A i \in Slots : g_table'[i].id = g_table[i].id
  BY StoreSets
<1>2. Asked' = Asked
  BY DEF Asked, Lookups, Actors
<1>3. key[a] # NoSite
  BY SharedTablesAssumption
<1>4. seen' = [t \in Threads |-> IF Asked[t] = key[a] THEN seen[t] \cup {r} ELSE seen[t]]
  BY <1>3 DEF Show, Asked
<1>5. Map!Set(key[a], r)
  BY <1>1, <1>2, <1>4 DEF Map!Set
<1>6. ASSUME NEW t \in Threads, pc'[t] \in Lookups
      PROVE  /\ Installed'[key'[t]] \in seen'[t]
             /\ pc'[t] = "check" /\ g_table'[Slot(t)'].id # key'[t] => NoRoutine \in seen'[t]
  <2>1. /\ pc[t] \in Lookups /\ pc'[t] = pc[t] /\ key[t] \in Sites /\ Slot(t)' = Slot(t)
        /\ t \in Actors
    BY <1>6 DEF Actors, TypeInv, Placed, Keyed, Labels, Lookups, Slot, Probe
  <2>2. Installed[key[t]] \in seen[t] /\ seen[t] \subseteq seen'[t]
    BY <2>1 DEF MapInv, Lookups, Show
  <2>3. Installed'[key[t]] \in seen'[t]
    <3>1. CASE key[t] = key[a]
      <4>1. r \in seen'[t]
        BY <2>1, <3>1 DEF Show, Lookups
      <4>2. Installed'[key[t]] = r
        BY <1>0, <1>1, <2>1, <3>1
      <4> QED
        BY <4>1, <4>2
    <3>2. CASE key[t] # key[a]
      <4>1. Installed'[key[t]] = Installed[key[t]]
        BY <1>0, <1>1, <2>1, <3>2
      <4> QED
        BY <2>2, <4>1
    <3> QED
      BY <3>1, <3>2
  <2>4. Slot(t) \in Slots
    BY <2>1, SlotInTable
  <2> QED
    BY <1>1, <2>1, <2>2, <2>3, <2>4 DEF MapInv
<1>7. \A i \in Slots : g_table'[i].id = NoSite => g_table'[i].fn = NoRoutine
  <2>1. Slot(a) \in Slots
    BY SlotInTable
  <2> QED
    BY <1>1, <1>3, <2>1 DEF MapInv, TypeInv, TypeOK
<1>8. MapInv'
  BY <1>6, <1>7 DEF MapInv, Lookups, Slots
<1> QED
  BY <1>5, <1>8 DEF Map!Next

\* One of the two steps of install that write to the table leaves the map as
\* it is: the slot that gets an id has no routine.
LEMMA MapKeepsId ==
    ASSUME TypeInv, TypeInv', TableInv, TableInv', MapInv, InstallId
    PROVE  MapInv' /\ [Map!Next]_(Map!vars)
<1> DEFINE s == key["bg"]
           j == Slot("bg")
<1>0. "bg" \in Actors /\ Knows("bg")
  BY DEF Actors, TableInv
<1>1. /\ pc["bg"] = "id" /\ pc' = [pc EXCEPT !["bg"] = "fn"] /\ UNCHANGED <<key, step, seen, fn>>
      /\ g_table' = [g_table EXCEPT ![j].id = s]
  BY DEF InstallId, Goto, findVars
<1>2. s \in Sites /\ s # NoSite /\ j \in Slots
  BY <1>0, <1>1, SlotInTable, SharedTablesAssumption DEF TypeInv, Placed, Keyed, Labels
<1>3. /\ g_table[j].id \in {s, NoSite} /\ g_table'[j].id = s
      /\ \A i \in Slots \ {j} : g_table'[i].id = g_table[i].id
      /\ \A i \in Slots : g_table'[i].fn = g_table[i].fn
  BY <1>0, <1>1, <1>2 DEF Knows, TypeInv, TypeOK
<1>4. InstalledFacts /\ InstalledFacts'
  BY InstalledIs, InstalledIsPrimed
<1>5. ASSUME NEW x \in Sites PROVE Installed'[x] = Installed[x]
  <2>1. CASE \E i \in Slots : g_table[i].id = x
    <3>1. PICK i \in Slots : g_table[i].id = x
      BY <2>1
    <3>2. g_table'[i].id = x
      BY <1>3, <3>1, SharedTablesAssumption
    <3> QED
      BY <1>3, <1>4, <3>1, <3>2 DEF InstalledFacts, Slots
  <2>2. CASE (\A i \in Slots : g_table[i].id # x) /\ x # s
    <3>1. \A i \in Slots : g_table'[i].id # x
      BY <1>3, <2>2
    <3> QED
      BY <1>4, <2>2, <3>1 DEF InstalledFacts, Slots
  <2>3. CASE (\A i \in Slots : g_table[i].id # x) /\ x = s
    <3>1. g_table[j].id = NoSite /\ Installed[x] = NoRoutine
      BY <1>2, <1>3, <1>4, <2>3 DEF InstalledFacts
    <3>2. Installed'[x] = g_table'[j].fn
      BY <1>2, <1>3, <1>4, <2>3 DEF InstalledFacts, Slots
    <3> QED
      BY <1>2, <1>3, <3>1, <3>2 DEF MapInv
  <2> QED
    BY <2>1, <2>2, <2>3
<1>6. Installed' = Installed
  <2>1. /\ Installed = [x \in Sites |-> Installed[x]]
        /\ Installed' = [x \in Sites |-> Installed'[x]]
    BY DEF Installed
  <2> QED
    BY <1>5, <2>1
<1>7. \A t \in Threads : pc'[t] = pc[t]
  BY <1>1, SharedTablesAssumption DEF TypeInv, TypeOK, Actors
<1>8. Asked' = Asked
  BY <1>1, <1>7 DEF Asked
<1>9. ASSUME NEW t \in Threads, pc[t] = "check", g_table'[Slot(t)].id # key[t]
      PROVE  NoRoutine \in seen[t]
  <2>1. Slot(t) \in Slots /\ key[t] # NoSite
    BY <1>9, SlotInTable, SharedTablesAssumption DEF TypeInv, Placed, Keyed, Labels, Actors
  <2>2. g_table[Slot(t)].id # key[t]
    BY <1>3, <1>9, <2>1
  <2> QED
    BY <1>9, <2>2 DEF MapInv
<1>10. \A t \in Threads : Slot(t)' = Slot(t)
  BY <1>1 DEF Slot, Probe
<1>11. \A i \in Slots : g_table'[i].id = NoSite => g_table'[i].fn = NoRoutine
  BY <1>2, <1>3 DEF MapInv
<1>12. MapInv'
  BY <1>1, <1>6, <1>7, <1>9, <1>10, <1>11 DEF MapInv, Slots
<1> QED
  BY <1>1, <1>6, <1>8, <1>12 DEF Map!vars

\* Every step implements a step of the map, or none.
LEMMA MapStep ==
    TypeInv /\ TypeInv' /\ TableInv /\ TableInv' /\ MapInv /\ [Next]_vars
        => MapInv' /\ [Map!Next]_(Map!vars)
<1> SUFFICES ASSUME TypeInv, TypeInv', TableInv, TableInv', MapInv, [Next]_vars
             PROVE  MapInv' /\ [Map!Next]_(Map!vars)
  OBVIOUS
<1> USE DEF tableVars, listVars, threadVars, findVars, scanVars, Goto
<1>0. /\ pc \in [Actors -> Labels] /\ key \in [Actors -> Sites \cup {NoSite}]
      /\ step \in [Actors -> Slots]
      /\ fn \in [Threads -> Routines \cup {NoRoutine}]
      /\ seen \in [Threads -> SUBSET (Routines \cup {NoRoutine})]
  BY DEF TypeInv, TypeOK
<1>1. ASSUME NEW t \in Threads, Thread(t) PROVE MapInv' /\ [Map!Next]_(Map!vars)
  <2>0. t \in Actors /\ Knows(t) /\ Threads \subseteq Actors
    BY DEF Actors, TableInv
  <2>1. CASE EndThread(t) \/ \E b \in Blocks : StartThread(t, b)
    BY <2>1, MapStutter DEF EndThread, StartThread
  <2>2. CASE RegisterLoad(t) \/ RegisterLink(t) \/ RegisterCas(t)
    <3>1. /\ UNCHANGED <<g_table, seen, fn, key, step>> /\ pc[t] \notin Lookups
          /\ pc' \in {[pc EXCEPT ![t] = l] : l \in {"link", "cas", "idle"}}
      BY <2>2 DEF RegisterLoad, RegisterLink, RegisterCas, Lookups
    <3>2. pc'[t] \notin Lookups /\ \A u \in Threads \ {t} : pc'[u] = pc[u]
      BY <1>0, <2>0, <3>1 DEF Lookups
    <3> QED
      BY <3>1, <3>2, MapStutter
  <2>3. CASE LookupProbe(t)
    <3>1. /\ pc[t] = "find" /\ UNCHANGED g_table /\ key[t] \in Sites
          /\ Installed[key[t]] \in seen[t]
      BY <2>3 DEF LookupProbe, TypeInv, Placed, Keyed, Labels, MapInv
    <3>2. CASE Passes(t) /\ UNCHANGED <<key, fn, seen>>
      <4>1. pc' = pc /\ Installed' = Installed /\ Asked' = Asked
        BY <3>1, <3>2 DEF Passes, Installed, Asked
      <4>2. \A u \in Threads \ {t} : step'[u] = step[u] /\ Slot(u)' = Slot(u)
        BY <1>0, <2>0, <3>2 DEF Passes, Slot, Probe
      <4>3. MapInv'
        BY <3>1, <3>2, <4>1, <4>2 DEF MapInv
      <4> QED
        BY <3>2, <4>1, <4>3 DEF Map!vars
    <3>3. CASE Finds(t, "check") /\ UNCHANGED <<key, fn, seen>>
      <4>1. /\ pc' = [pc EXCEPT ![t] = "check"] /\ UNCHANGED step
            /\ g_table[Slot(t)].id \in {key[t], NoSite}
        BY <3>3 DEF Finds
      <4>2. Installed' = Installed /\ Asked' = Asked
        BY <1>0, <2>0, <3>1, <3>3, <4>1 DEF Installed, Asked
      <4>3. g_table[Slot(t)].id # key[t] => NoRoutine \in seen[t]
        <5> SUFFICES ASSUME g_table[Slot(t)].id = NoSite PROVE NoRoutine \in seen[t]
          BY <4>1
        <5>1. \A i \in Slots : g_table[i].id # key[t]
          BY <2>0, <3>1, SearchEnds DEF Searching
        <5>2. Installed[key[t]] = NoRoutine
          BY <3>1, <5>1, InstalledIs DEF InstalledFacts
        <5> QED
          BY <3>1, <5>2
      <4>4. \A u \in Threads : Slot(u)' = Slot(u) /\ (u # t => pc'[u] = pc[u])
        BY <1>0, <2>0, <3>3, <4>1 DEF Slot, Probe
      <4>5. MapInv'
        BY <3>1, <3>3, <4>1, <4>2, <4>3, <4>4 DEF MapInv
      <4> QED
        BY <3>3, <4>2, <4>5 DEF Map!vars
    <3>4. CASE Exhausts(t) /\ Returns(t, NoRoutine)
      <4>1. \A i \in Slots : g_table[i].id # key[t]
        BY <2>0, <3>1, <3>4, SearchEnds DEF Searching
      <4>2. NoRoutine \in seen[t]
        BY <3>1, <4>1, InstalledIs DEF InstalledFacts
      <4> QED
        BY <3>1, <3>4, <4>2, MapAnswers DEF Lookups
    <3> QED
      BY <2>3, <3>2, <3>3, <3>4 DEF LookupProbe
  <2>4. CASE LookupCheck(t)
    <3>1. pc[t] = "check" /\ UNCHANGED g_table
      BY <2>4 DEF LookupCheck
    <3>2. CASE g_table[Slot(t)].id = key[t]
      <4>1. pc' = [pc EXCEPT ![t] = "load"] /\ UNCHANGED <<key, step, fn, seen>>
        BY <2>4, <3>2 DEF LookupCheck
      <4>2. Installed' = Installed /\ Asked' = Asked
        BY <1>0, <2>0, <3>1, <4>1 DEF Installed, Asked
      <4>3. \A u \in Threads : Slot(u)' = Slot(u) /\ (u # t => pc'[u] = pc[u])
        BY <1>0, <2>0, <4>1 DEF Slot, Probe
      <4>4. MapInv'
        BY <1>0, <2>0, <3>1, <4>1, <4>2, <4>3 DEF MapInv
      <4> QED
        BY <4>1, <4>2, <4>4 DEF Map!vars
    <3>3. CASE g_table[Slot(t)].id # key[t]
      <4>1. NoRoutine \in seen[t] /\ Returns(t, NoRoutine)
        BY <2>4, <3>1, <3>3 DEF MapInv, LookupCheck
      <4> QED
        BY <3>1, <4>1, MapAnswers DEF Lookups
    <3> QED
      BY <3>2, <3>3
  <2>5. CASE LookupLoad(t)
    <3>1. /\ pc[t] = "load" /\ UNCHANGED g_table /\ key[t] \in Sites
          /\ g_table[Slot(t)].id = key[t] /\ Returns(t, g_table[Slot(t)].fn)
          /\ Installed[key[t]] \in seen[t]
      BY <2>0, <2>5 DEF LookupLoad, Knows, TypeInv, Placed, Keyed, Labels, MapInv
    <3>2. Slot(t) \in Slots
      BY <2>0, <3>1, SlotInTable
    <3>3. g_table[Slot(t)].fn \in seen[t]
      BY <3>1, <3>2, InstalledIs DEF InstalledFacts
    <3> QED
      BY <3>1, <3>3, MapAnswers DEF Lookups
  <2>6. CASE CallReturns(t) \/ CallDeopts(t)
    <3>1. /\ pc[t] = "call" /\ pc' \in {[pc EXCEPT ![t] = l] : l \in {"idle", "rfind"}}
          /\ fn' = [fn EXCEPT ![t] = NoRoutine] /\ UNCHANGED <<g_table, seen>>
      BY <2>6 DEF CallReturns, CallDeopts, Find
    <3>2. /\ pc'[t] \notin Lookups /\ pc[t] \notin Lookups
          /\ \A u \in Threads \ {t} : pc'[u] = pc[u]
      BY <1>0, <2>0, <3>1 DEF Lookups
    <3>3. \A u \in Threads \ {t} : key'[u] = key[u] /\ step'[u] = step[u]
      BY <1>0, <2>0, <2>6 DEF CallReturns, CallDeopts, Find
    <3>4. Installed' = Installed /\ Asked' = Asked /\ Asked[t] = NoSite
      BY <3>1, <3>2, <3>3 DEF Installed, Asked, Lookups
    <3>5. Map!Forget(t)
      BY <3>1, <3>4 DEF Map!Forget
    <3>6. MapInv'
      BY <3>1, <3>2, <3>3, <3>4 DEF MapInv, Lookups, Slot, Probe
    <3> QED
      BY <3>5, <3>6 DEF Map!Next
  <2>7. CASE RevertProbe(t)
    <3>1. /\ pc[t] = "rfind" /\ UNCHANGED <<g_table, seen, fn, key>>
          /\ pc'[t] \in {"rfind", "rcheck"}
          /\ \A u \in Threads \ {t} : pc'[u] = pc[u] /\ step'[u] = step[u]
      BY <1>0, <2>0, <2>7 DEF RevertProbe, Passes, Finds
    <3> QED
      BY <3>1, MapStutter DEF Lookups
  <2>8. CASE RevertCheck(t)
    <3>1. /\ pc[t] = "rcheck" /\ g_table[Slot(t)].id = key[t]
          /\ pc' = [pc EXCEPT ![t] = "rstore"] /\ UNCHANGED <<g_table, seen, fn, key, step>>
      BY <2>0, <2>8 DEF RevertCheck, Knows
    <3> QED
      BY <1>0, <2>0, <3>1, MapStutter DEF Lookups
  <2>9. CASE RevertStore(t)
    <3>1. /\ pc[t] = "rstore" /\ pc' = [pc EXCEPT ![t] = "rbump"]
          /\ g_table' = [g_table EXCEPT ![Slot(t)].fn = NoRoutine]
          /\ Show(key[t], NoRoutine) /\ UNCHANGED <<key, step, fn>>
      BY <2>9 DEF RevertStore
    <3>2. /\ key[t] \in Sites /\ g_table[Slot(t)].id = key[t]
          /\ pc[t] \notin Lookups /\ pc'[t] \notin Lookups
          /\ \A u \in Actors \ {t} : pc'[u] = pc[u]
      BY <1>0, <2>0, <3>1 DEF Knows, TypeInv, Placed, Keyed, Labels, Lookups
    <3> QED
      BY <2>0, <3>1, <3>2, MapSets
  <2>10. CASE RevertBump(t)
    <3>1. /\ pc[t] = "rbump" /\ pc' = [pc EXCEPT ![t] = "idle"]
          /\ key' = [key EXCEPT ![t] = NoSite] /\ step' = [step EXCEPT ![t] = 0]
          /\ UNCHANGED <<g_table, seen, fn>>
      BY <2>10 DEF RevertBump, RevertEnds
    <3> QED
      BY <1>0, <2>0, <3>1, MapStutter DEF Lookups
  <2>11. ASSUME NEW s \in Sites, Lookup(t, s) PROVE MapInv' /\ [Map!Next]_(Map!vars)
    <3>1. /\ pc[t] = "idle" /\ pc' = [pc EXCEPT ![t] = "find"]
          /\ key' = [key EXCEPT ![t] = s] /\ step' = [step EXCEPT ![t] = 0]
          /\ seen' = [seen EXCEPT ![t] = {Installed[s]}] /\ UNCHANGED <<g_table, fn>>
      BY <2>11 DEF Lookup, Find
    <3>2. /\ Installed' = Installed /\ Asked[t] = NoSite
          /\ Asked' = [Asked EXCEPT ![t] = s]
      <4>1. Installed' = Installed
        BY <3>1 DEF Installed
      <4>2. Asked[t] = NoSite
        BY <3>1 DEF Asked
      <4>3. \A u \in Threads : Asked'[u] = IF u = t THEN s ELSE Asked[u]
        BY <1>0, <2>0, <3>1 DEF Asked
      <4>4. Asked' = [u \in Threads |-> Asked'[u]] /\ Asked = [u \in Threads |-> Asked[u]]
        BY DEF Asked
      <4> HIDE DEF Asked
      <4>5. Asked' = [Asked EXCEPT ![t] = s]
        BY <4>3, <4>4
      <4> QED
        BY <4>1, <4>2, <4>5
    <3>3. Map!Ask(t, s)
      BY <3>1, <3>2 DEF Map!Ask
    <3>4. \A u \in Threads \ {t} : /\ pc'[u] = pc[u] /\ key'[u] = key[u]
                                   /\ seen'[u] = seen[u] /\ Slot(u)' = Slot(u)
      BY <1>0, <2>0, <3>1 DEF Slot, Probe
    <3>5. pc'[t] = "find" /\ Installed'[key'[t]] \in seen'[t]
      BY <1>0, <2>0, <3>1, <3>2
    <3>6. MapInv'
      BY <3>1, <3>2, <3>4, <3>5 DEF MapInv
    <3> QED
      BY <3>3, <3>6 DEF Map!Next
  <2> QED
    BY <1>1, <2>1, <2>2, <2>3, <2>4, <2>5, <2>6, <2>7, <2>8, <2>9, <2>10, <2>11 DEF Thread
<1>2. CASE Background
  <2>0. /\ "bg" \in Actors /\ Knows("bg") /\ \A t \in Threads : t \in Actors /\ t # "bg"
    BY SharedTablesAssumption DEF Actors, TableInv
  <2>1. CASE InstallId
    BY <2>1, MapKeepsId
  <2>2. CASE InstallFn
    <3>1. /\ pc["bg"] = "fn" /\ pc' = [pc EXCEPT !["bg"] = "bump"]
          /\ g_table' = [g_table EXCEPT ![Slot("bg")].fn = new]
          /\ Show(key["bg"], new) /\ UNCHANGED <<key, step, fn>>
      BY <2>2 DEF InstallFn
    <3>2. /\ key["bg"] \in Sites /\ g_table[Slot("bg")].id = key["bg"]
          /\ pc["bg"] \notin Lookups /\ pc'["bg"] \notin Lookups
          /\ \A u \in Actors \ {"bg"} : pc'[u] = pc[u]
          /\ new \in Routines \cup {NoRoutine}
      BY <1>0, <2>0, <3>1, SharedTablesAssumption
         DEF Knows, TypeInv, TypeOK, Placed, Keyed, Labels, Lookups
    <3> QED
      BY <2>0, <3>1, <3>2, MapSets
  <2>3. CASE \/ InstallProbe \/ InstallBump \/ ScanBegin \/ ScanRead \/ ScanEnd
             \/ \E s \in Hot, r \in Routines : InstallBegin(s, r)
    <3>1. /\ UNCHANGED <<g_table, seen, fn>>
          /\ \A t \in Threads : pc'[t] = pc[t] /\ key'[t] = key[t] /\ step'[t] = step[t]
      BY <1>0, <2>0, <2>3 DEF InstallProbe, Passes, Finds, InstallBump, ScanBegin, ScanRead,
                              ScanEnd, InstallBegin, Find
    <3> QED
      BY <3>1, MapStutter
  <2> QED
    BY <1>2, <2>1, <2>2, <2>3 DEF Background
<1>3. CASE UNCHANGED vars
  BY <1>3, MapStutter DEF vars
<1> QED
  BY <1>1, <1>2, <1>3 DEF Next

\* The dispatch table implements a map, for any table size, hash function and
\* number of threads and sites, as long as there is a slot for every site that
\* is ever compiled.
THEOREM TableRefinesMap == Spec => RefinesMap
  BY TypeInit, TypeStep, TableInit, TableStep, MapInit, MapStep, PTL
     DEF Spec, RefinesMap, Map!Spec

-----------------------------------------------------------------------------
(* The list of threads, when no block of thread-local storage is used twice. *)
(* Where the links lead is said with sets: S is closed if no link leaves it. *)

Listed == registered \cup {NoBlock}

Closed(S) == \A b \in S \cap registered : next[b] \in S \cup {NoBlock}

\* Blocks belong to one thread, and a block that is being put on the list is
\* linked to what its thread took for the head.
Owned ==
    /\ registered \subseteq used
    /\ \A t \in Threads : block[t] \in used \cup {NoBlock}
    /\ \A t, u \in Threads : block[t] = block[u] /\ block[t] # NoBlock => t = u
    /\ \A t \in Threads :
        /\ head[t] \in Listed
        /\ pc[t] \in {"link", "cas"} => block[t] \notin registered
        /\ pc[t] = "cas" => next[block[t]] = head[t]

\* The list is made of the registered blocks, all of them, and has no cycle.
Linked ==
    /\ g_thread_list \in Listed /\ \A b \in registered : next[b] \in Listed
    /\ \A S \in SUBSET Blocks :
          Closed(S) /\ g_thread_list \in S \cup {NoBlock} => registered \subseteq S
    /\ \A S \in SUBSET registered : S # {} => \E b \in S : next[b] \notin S

\* What the scan has not visited lies ahead of it.
Ahead ==
    /\ cursor \in Listed
    /\ pc["bg"] = "scan" =>
          \A S \in SUBSET Blocks :
              Closed(S) /\ cursor \in S \cup {NoBlock} => due \subseteq visited \cup S

ListInv == Owned /\ Linked /\ Ahead

\* ListInv holds initially.
LEMMA ListInit == Init => ListInv
<1> SUFFICES ASSUME Init PROVE ListInv
  OBVIOUS
<1>1. Owned
  BY DEF Init, Owned, Listed, Actors
<1>2. Linked
  BY DEF Init, Linked, Listed, Closed
<1>3. Ahead
  BY DEF Init, Ahead, Listed, Actors
<1> QED
  BY <1>1, <1>2, <1>3 DEF ListInv

\* Searches do not touch the list.
LEMMA ListFrame ==
    ASSUME ListInv, UNCHANGED <<listVars, threadVars, scanVars>>,
           pc'["bg"] = "scan" => pc["bg"] = "scan",
           \A t \in Threads : pc'[t] \in {"link", "cas"} => pc'[t] = pc[t]
    PROVE  ListInv'
<1>1. UNCHANGED <<g_thread_list, next, registered, block, used, head, cursor, due, visited>>
  BY DEF listVars, threadVars, scanVars
<1>2. Owned'
  BY <1>1 DEF ListInv, Owned, Listed
<1>3. Linked'
  BY <1>1 DEF ListInv, Linked, Listed, Closed
<1>4. Ahead'
  BY <1>1 DEF ListInv, Ahead, Listed, Closed
<1> QED
  BY <1>2, <1>3, <1>4 DEF ListInv

\* A step that links blocks that are not on the list changes no path.
LEMMA PathsStay ==
    ASSUME Linked, Ahead,
           UNCHANGED <<g_thread_list, registered, cursor, due, visited>>,
           \A b \in registered : next'[b] = next[b],
           pc'["bg"] = pc["bg"]
    PROVE  Linked' /\ Ahead'
<1>1. \A S : Closed(S)' <=> Closed(S)
  BY DEF Closed
<1>2. Linked'
  BY <1>1 DEF Linked, Listed
<1>3. Ahead'
  BY <1>1 DEF Ahead, Listed
<1> QED
  BY <1>2, <1>3

\* The new block points to the list as it is: nothing is lost and nothing is
\* reached twice.
LEMMA RegisterLinked ==
    ASSUME TypeInv, ListInv, NEW t \in Threads,
           pc[t] = "cas", g_thread_list = head[t],
           g_thread_list' = block[t], registered' = registered \cup {block[t]},
           UNCHANGED <<next, scanVars>>, pc'["bg"] = pc["bg"]
    PROVE  Linked' /\ Ahead'
<1> DEFINE b == block[t]
<1>1. /\ b \in Blocks /\ b \notin registered /\ b # NoBlock
      /\ next[b] = g_thread_list /\ registered \subseteq Blocks
  BY DEF TypeInv, TypeOK, Placed, ListInv, Owned
<1>2. \A S \in SUBSET Blocks : Closed(S)' => Closed(S)
  BY DEF Closed
<1>3. ASSUME NEW S \in SUBSET Blocks, Closed(S)', g_thread_list' \in S \cup {NoBlock}
      PROVE  registered' \subseteq S
  <2>1. b \in S /\ next[b] \in S \cup {NoBlock}
    BY <1>1, <1>3 DEF Closed
  <2> QED
    BY <1>1, <1>2, <1>3, <2>1 DEF ListInv, Linked
<1>4. ASSUME NEW S \in SUBSET registered', S # {}
      PROVE  \E c \in S : next'[c] \notin S
  <2>1. CASE S \ {b} = {}
    BY <1>1, <1>4, <2>1 DEF ListInv, Linked, Listed
  <2>2. CASE S \ {b} # {}
    <3>1. S \ {b} \in SUBSET registered
      BY <1>4
    <3>2. PICK c \in S \ {b} : next[c] \notin S \ {b}
      BY <2>2, <3>1 DEF ListInv, Linked
    <3>3. next[c] # b
      BY <1>1, <3>1 DEF ListInv, Linked, Listed
    <3> QED
      BY <3>2, <3>3
  <2> QED
    BY <2>1, <2>2
<1>5. g_thread_list' \in Listed' /\ \A c \in registered' : next'[c] \in Listed'
  BY <1>1 DEF ListInv, Linked, Listed
<1>6. Linked'
  BY <1>3, <1>4, <1>5 DEF Linked
<1>7. Ahead'
  BY <1>2 DEF ListInv, Ahead, Listed, scanVars
<1> QED
  BY <1>6, <1>7

\* Every step keeps ListInv, as long as blocks of thread-local storage are not reused.
LEMMA ListStep ==
    ASSUME ReuseBlocks = FALSE
    PROVE  TypeInv /\ ListInv /\ [Next]_vars => ListInv'
<1> SUFFICES ASSUME TypeInv, ListInv, [Next]_vars PROVE ListInv'
  OBVIOUS
<1>0. /\ pc \in [Actors -> Labels] /\ block \in [Threads -> Blocks \cup {NoBlock}]
      /\ head \in [Threads -> Blocks \cup {NoBlock}] /\ registered \subseteq Blocks
      /\ next \in [Blocks -> Blocks \cup {NoBlock}] /\ used \subseteq Blocks
  BY DEF TypeInv, TypeOK
<1>a. Owned /\ Linked /\ Ahead
  BY DEF ListInv
<1>1. ASSUME NEW t \in Threads, Thread(t) PROVE ListInv'
  <2>0. t \in Actors /\ "bg" \in Actors /\ t # "bg" /\ Threads \subseteq Actors
    BY SharedTablesAssumption DEF Actors
  <2>1. CASE EndThread(t)
    <3>1. /\ block' = [block EXCEPT ![t] = NoBlock] /\ pc[t] = "idle"
          /\ UNCHANGED <<g_thread_list, next, registered, used, head, cursor, due, visited, pc>>
      BY <2>1 DEF EndThread, listVars, scanVars
    <3>2. Owned'
      BY <1>0, <1>a, <3>1 DEF Owned, Listed
    <3> QED
      BY <1>a, <3>1, <3>2, PathsStay DEF ListInv
  <2>2. ASSUME NEW b \in Blocks, StartThread(t, b) PROVE ListInv'
    <3>1. /\ block[t] = NoBlock /\ b \notin used /\ b # NoBlock /\ b \notin registered
          /\ block' = [block EXCEPT ![t] = b] /\ used' = used \cup {b}
          /\ next' = [next EXCEPT ![b] = NoBlock] /\ registered' = registered
          /\ UNCHANGED <<g_thread_list, head, cursor, due, visited, pc>>
      BY <1>a, <2>2, SharedTablesAssumption DEF StartThread, scanVars, Owned
    <3>2. pc[t] = "idle"
      BY <3>1 DEF TypeInv, Placed
    <3>3. \A u \in Threads \ {t} : block'[u] = block[u] /\ block'[u] # b
      BY <1>0, <1>a, <3>1 DEF Owned
    <3>4. block'[t] = b /\ \A c \in Blocks \ {b} : next'[c] = next[c]
      BY <1>0, <3>1
    <3>5. \A u \in Threads : pc[u] = "cas" => block[u] \in Blocks
      BY <1>0 DEF TypeInv, Placed
    <3>6. Owned'
      BY <1>0, <1>a, <3>1, <3>2, <3>3, <3>4, <3>5 DEF Owned, Listed
    <3>7. \A c \in registered : next'[c] = next[c]
      BY <1>0, <3>1, <3>4
    <3> QED
      BY <1>a, <3>1, <3>6, <3>7, PathsStay DEF ListInv
  <2>3. CASE RegisterLoad(t)
    <3>1. /\ head' = [head EXCEPT ![t] = g_thread_list] /\ pc' = [pc EXCEPT ![t] = "link"]
          /\ block[t] \notin registered
          /\ UNCHANGED <<g_thread_list, next, registered, block, used, cursor, due, visited>>
      BY <2>3 DEF RegisterLoad, Goto, listVars, scanVars
    <3>2. Owned'
      BY <1>0, <1>a, <2>0, <3>1 DEF Owned, Linked, Listed
    <3>3. pc'["bg"] = pc["bg"]
      BY <1>0, <2>0, <3>1
    <3> QED
      BY <1>a, <3>1, <3>2, <3>3, PathsStay DEF ListInv
  <2>4. CASE RegisterLink(t)
    <3>1. /\ pc[t] = "link" /\ pc' = [pc EXCEPT ![t] = "cas"]
          /\ next' = [next EXCEPT ![block[t]] = head[t]]
          /\ UNCHANGED <<g_thread_list, registered, block, used, head, cursor, due, visited>>
      BY <2>4 DEF RegisterLink, Goto, threadVars, scanVars
    <3>2. block[t] \in Blocks /\ block[t] \notin registered /\ block[t] # NoBlock
      BY <1>0, <1>a, <3>1 DEF TypeInv, Placed, Owned
    <3>3. /\ next'[block[t]] = head[t]
          /\ \A c \in Blocks : c # block[t] => next'[c] = next[c]
      BY <1>0, <3>1, <3>2
    <3>4. \A u \in Threads : pc[u] = "cas" => block[u] \in Blocks
      BY <1>0 DEF TypeInv, Placed
    <3>5. Owned'
      BY <1>0, <1>a, <2>0, <3>1, <3>2, <3>3, <3>4 DEF Owned, Listed
    <3>6. pc'["bg"] = pc["bg"] /\ \A c \in registered : next'[c] = next[c]
      BY <1>0, <2>0, <3>1, <3>2, <3>3
    <3> QED
      BY <1>a, <3>1, <3>5, <3>6, PathsStay DEF ListInv
  <2>5. CASE RegisterCas(t) /\ g_thread_list = head[t]
    <3>1. /\ pc[t] = "cas" /\ g_thread_list' = block[t]
          /\ registered' = registered \cup {block[t]}
          /\ head' = [head EXCEPT ![t] = NoBlock] /\ pc' = [pc EXCEPT ![t] = "idle"]
          /\ UNCHANGED <<next, block, used, scanVars>>
      BY <2>5 DEF RegisterCas, Goto
    <3>2. pc'["bg"] = pc["bg"] /\ block[t] # NoBlock
      BY <1>0, <2>0, <3>1 DEF TypeInv, Placed
    <3>3. \A u \in Threads \ {t} : /\ block[u] # block[t] /\ pc'[u] = pc[u]
                                   /\ head'[u] = head[u]
      BY <1>0, <1>a, <2>0, <3>1, <3>2 DEF Owned
    <3>4. pc'[t] = "idle" /\ head'[t] = NoBlock
      BY <1>0, <2>0, <3>1
    <3>5. Owned'
      BY <1>0, <1>a, <3>1, <3>2, <3>3, <3>4 DEF Owned, Listed
    <3> QED
      BY <2>5, <3>1, <3>2, <3>5, RegisterLinked DEF ListInv
  <2>6. CASE RegisterCas(t) /\ g_thread_list # head[t]
    <3>1. /\ pc[t] = "cas" /\ pc' = [pc EXCEPT ![t] = "link"]
          /\ head' = [head EXCEPT ![t] = g_thread_list]
          /\ UNCHANGED <<g_thread_list, registered, next, block, used, cursor, due, visited>>
      BY <2>6 DEF RegisterCas, Goto, scanVars
    <3>2. Owned'
      BY <1>0, <1>a, <2>0, <3>1 DEF Owned, Linked, Listed
    <3>3. pc'["bg"] = pc["bg"]
      BY <1>0, <2>0, <3>1
    <3> QED
      BY <1>a, <3>1, <3>2, <3>3, PathsStay DEF ListInv
  <2>7. CASE \/ LookupProbe(t) \/ LookupCheck(t) \/ LookupLoad(t)
             \/ CallReturns(t) \/ CallDeopts(t)
             \/ RevertProbe(t) \/ RevertCheck(t) \/ RevertStore(t) \/ RevertBump(t)
             \/ \E s \in Sites : Lookup(t, s)
    <3>1. UNCHANGED <<listVars, threadVars, scanVars>>
      BY <2>7 DEF LookupProbe, LookupCheck, LookupLoad, CallReturns, CallDeopts, RevertProbe,
                  RevertCheck, RevertStore, RevertBump, Lookup
    <3>2. \/ UNCHANGED pc
          \/ \E l \in Labels \ {"link", "cas", "scan"} : pc' = [pc EXCEPT ![t] = l]
      BY <2>7 DEF LookupProbe, LookupCheck, LookupLoad, CallReturns, CallDeopts, RevertProbe,
                  RevertCheck, RevertStore, RevertBump, Lookup, Passes, Finds, Returns,
                  Find, RevertEnds, Goto, Labels
    <3>3. /\ pc'["bg"] = pc["bg"]
          /\ \A u \in Threads : pc'[u] \in {"link", "cas"} => pc'[u] = pc[u]
      BY <1>0, <2>0, <3>2 DEF Labels
    <3> QED
      BY <3>1, <3>3, ListFrame
  <2> QED
    BY <1>1, <2>1, <2>2, <2>3, <2>4, <2>5, <2>6, <2>7 DEF Thread
<1>2. CASE Background
  <2>0. "bg" \in Actors /\ \A u \in Threads : u \in Actors /\ u # "bg"
    BY SharedTablesAssumption DEF Actors
  <2>1. CASE \/ InstallProbe \/ InstallId \/ InstallFn \/ InstallBump
             \/ \E s \in Hot, r \in Routines : InstallBegin(s, r)
    <3>1. UNCHANGED <<listVars, threadVars, scanVars>>
      BY <2>1 DEF InstallProbe, InstallId, InstallFn, InstallBump, InstallBegin
    <3>2. \/ UNCHANGED pc
          \/ \E l \in Labels \ {"link", "cas", "scan"} : pc' = [pc EXCEPT !["bg"] = l]
      BY <2>1 DEF InstallProbe, InstallId, InstallFn, InstallBump, InstallBegin, Passes, Finds,
                  Find, Goto, Labels
    <3>3. /\ pc'["bg"] = "scan" => pc["bg"] = "scan"
          /\ \A u \in Threads : pc'[u] \in {"link", "cas"} => pc'[u] = pc[u]
      BY <1>0, <2>0, <3>2 DEF Labels
    <3> QED
      BY <3>1, <3>3, ListFrame
  <2>2. CASE ScanBegin
    <3>1. /\ cursor' = g_thread_list /\ due' = Live \cap registered
          /\ pc' = [pc EXCEPT !["bg"] = "scan"]
          /\ UNCHANGED <<g_thread_list, next, registered, block, used, head>>
      BY <2>2 DEF ScanBegin, Goto, listVars, threadVars
    <3>2. Owned' /\ Linked'
      BY <1>0, <1>a, <2>0, <3>1 DEF Owned, Linked, Listed, Closed
    <3>3. Ahead'
      BY <1>a, <3>1 DEF Linked, Ahead, Listed, Closed
    <3> QED
      BY <3>2, <3>3 DEF ListInv
  <2>3. CASE ScanRead
    <3>1. /\ pc["bg"] = "scan" /\ cursor # NoBlock
          /\ visited' = visited \cup {cursor} /\ cursor' = next[cursor]
          /\ UNCHANGED <<g_thread_list, next, registered, block, used, head, due, pc>>
      BY <2>3 DEF ScanRead, listVars, threadVars
    <3>2. Owned' /\ Linked'
      BY <1>a, <3>1 DEF Owned, Linked, Listed, Closed
    <3>3. cursor \in registered /\ cursor' \in Listed
      BY <1>a, <3>1 DEF Ahead, Linked, Listed
    <3>4. ASSUME NEW S \in SUBSET Blocks, Closed(S), cursor' \in S \cup {NoBlock}
          PROVE  due' \subseteq visited' \cup S
      <4>1. S \cup {cursor} \in SUBSET Blocks /\ Closed(S \cup {cursor})
        BY <1>0, <3>1, <3>3, <3>4 DEF Closed
      <4>2. due \subseteq visited \cup (S \cup {cursor})
        BY <1>a, <3>1, <4>1 DEF Ahead
      <4> QED
        BY <3>1, <4>2
    <3>5. Ahead'
      BY <3>1, <3>3, <3>4 DEF Ahead, Listed, Closed
    <3> QED
      BY <3>2, <3>5 DEF ListInv
  <2>4. CASE ScanEnd
    <3>1. /\ pc' = [pc EXCEPT !["bg"] = "idle"]
          /\ UNCHANGED <<g_thread_list, next, registered, block, used, head, cursor>>
      BY <2>4 DEF ScanEnd, Goto, listVars, threadVars
    <3>2. Owned' /\ Linked'
      BY <1>0, <1>a, <2>0, <3>1 DEF Owned, Linked, Listed, Closed
    <3>3. Ahead'
      BY <1>0, <1>a, <2>0, <3>1 DEF Ahead, Listed
    <3> QED
      BY <3>2, <3>3 DEF ListInv
  <2> QED
    BY <1>2, <2>1, <2>2, <2>3, <2>4 DEF Background
<1>3. CASE UNCHANGED vars
  BY <1>3, ListFrame DEF vars
<1> QED
  BY <1>1, <1>2, <1>3 DEF Next

\* A scan asks every thread that was registered when it began and is running,
\* whatever other threads do to the list meanwhile, as long as no thread gets
\* the thread-local storage of one that has ended (when one does, the scan may
\* miss threads: the tls_reuse run).
THEOREM ScansComplete ==
    ASSUME ReuseBlocks = FALSE
    PROVE  Spec => []ScanComplete
<1>1. TypeInv /\ ListInv => ScanComplete
  <2> SUFFICES ASSUME TypeInv, ListInv, pc["bg"] = "scan", cursor = NoBlock
               PROVE  due \subseteq visited
    BY DEF ScanComplete
  <2>1. {} \in SUBSET Blocks /\ Closed({})
    BY DEF Closed
  <2>2. due \subseteq visited \cup {}
    BY <2>1 DEF ListInv, Ahead
  <2> QED
    BY <2>2
<1> QED
  BY <1>1, TypeInit, TypeStep, ListInit, ListStep, PTL DEF Spec

-----------------------------------------------------------------------------
(* The list ends. Nth is defined by recursion; that there is such a function *)
(* follows from the least-number principle.                                  *)

\* A set of natural numbers that is not empty has a least element.
LEMMA LeastNatural ==
    ASSUME NEW T \in SUBSET Nat, T # {}
    PROVE  \E x \in T : \A y \in T : x <= y
<1>1. PICK x \in T : \A y \in T : ~(<<y, x>> \in OpToRel(<, Nat))
  BY WFMin, NatLessThanWellFounded
<1>2. \A y \in T : ~(y < x)
  BY <1>1 DEF OpToRel
<1> QED
  BY <1>2

\* Following F from x0 for n steps, for every n.
LEMMA IterationExists ==
    ASSUME NEW S, NEW x0 \in S, NEW F \in [S -> S]
    PROVE  \E f : f = [n \in Nat |-> IF n = 0 THEN x0 ELSE F[f[n - 1]]]
<1> DEFINE Walks(n) == {g \in [0..n -> S] : /\ g[0] = x0
                                            /\ \A k \in 1..n : g[k] = F[g[k - 1]]}
<1>1. \A n \in Nat : Walks(n) # {}
  <2>1. SUFFICES ASSUME NEW m \in Nat, Walks(m) = {},
                        \A k \in Nat : Walks(k) = {} => m <= k
                 PROVE  FALSE
    <3> DEFINE T == {n \in Nat : Walks(n) = {}}
    <3>1. CASE T = {}
      BY <3>1
    <3>2. CASE T # {}
      <4>1. PICK m \in T : \A k \in T : m <= k
        <5> HIDE DEF T
        <5>1. T \in SUBSET Nat
          BY DEF T
        <5> QED
          BY <3>2, <5>1, LeastNatural
      <4>2. m \in Nat /\ Walks(m) = {} /\ \A k \in Nat : Walks(k) = {} => m <= k
        BY <4>1
      <4> HIDE DEF Walks
      <4> QED
        BY <2>1, <4>2
    <3> QED
      BY <3>1, <3>2
  <2>2. CASE m = 0
    <3>1. [k \in 0..0 |-> x0] \in Walks(0)
      OBVIOUS
    <3> QED
      BY <2>1, <2>2, <3>1
  <2>3. CASE m # 0
    <3>1. m - 1 \in Nat /\ ~(m <= m - 1)
      BY <2>3
    <3>2. PICK g : g \in Walks(m - 1)
      BY <2>1, <3>1
    <3> DEFINE h == [k \in 0..m |-> IF k = m THEN F[g[m - 1]] ELSE g[k]]
    <3>3. h \in Walks(m)
      <4>1. g \in [0..(m - 1) -> S] /\ g[0] = x0 /\ \A k \in 1..(m - 1) : g[k] = F[g[k - 1]]
        BY <3>2
      <4>2. h \in [0..m -> S]
        BY <3>1, <4>1
      <4>3. h[0] = x0
        BY <2>3, <4>1
      <4>4. ASSUME NEW k \in 1..m PROVE h[k] = F[h[k - 1]]
        <5>1. h[k - 1] = g[k - 1]
          BY <3>1
        <5>2. CASE k = m
          BY <5>1, <5>2
        <5>3. CASE k # m
          BY <4>1, <5>1, <5>3
        <5> QED
          BY <5>2, <5>3
      <4> QED
        BY <4>2, <4>3, <4>4
    <3> QED
      BY <2>1, <3>3
  <2> QED
    BY <2>2, <2>3
<1>2. ASSUME NEW n \in Nat, NEW m \in 0..n, NEW g \in Walks(n), NEW h \in Walks(m)
      PROVE  g[m] = h[m]
  <2>1. /\ g \in [0..n -> S] /\ g[0] = x0 /\ \A k \in 1..n : g[k] = F[g[k - 1]]
        /\ h \in [0..m -> S] /\ h[0] = x0 /\ \A k \in 1..m : h[k] = F[h[k - 1]]
    OBVIOUS
  <2> DEFINE T == {k \in 0..m : g[k] # h[k]}
  <2>2. CASE T = {}
    BY <2>2
  <2>3. CASE T # {}
    <3>1. PICK k \in T : \A j \in T : k <= j
      <4> HIDE DEF T
      <4>1. T \in SUBSET Nat
        BY DEF T
      <4> QED
        BY <2>3, <4>1, LeastNatural
    <3>2. k # 0
      BY <2>1, <3>1
    <3>3. k - 1 \in 0..m /\ k - 1 \notin T
      BY <3>1, <3>2
    <3>4. g[k - 1] = h[k - 1]
      BY <3>3
    <3> QED
      BY <2>1, <3>1, <3>2, <3>4
  <2> QED
    BY <2>2, <2>3
<1> DEFINE W == [n \in Nat |-> CHOOSE g : g \in Walks(n)]
           f == [n \in Nat |-> W[n][n]]
<1>3. \A n \in Nat : W[n] \in Walks(n)
  BY <1>1
<1> HIDE DEF W
<1>4. ASSUME NEW n \in Nat PROVE f[n] = IF n = 0 THEN x0 ELSE F[f[n - 1]]
  <2>1. CASE n = 0
    BY <1>3, <2>1
  <2>2. CASE n # 0
    <3>1. n - 1 \in 0..n /\ n - 1 \in Nat /\ n \in 1..n
      BY <2>2
    <3>2. W[n] \in Walks(n) /\ W[n - 1] \in Walks(n - 1)
      BY <1>3, <3>1
    <3>3. W[n][n] = F[W[n][n - 1]]
      BY <3>1, <3>2
    <3>4. W[n][n - 1] = W[n - 1][n - 1]
      <4> HIDE DEF Walks
      <4> QED
        BY <1>2, <3>1, <3>2
    <3> QED
      BY <2>2, <3>1, <3>3, <3>4
  <2> QED
    BY <2>1, <2>2
<1>5. f = [n \in Nat |-> IF n = 0 THEN x0 ELSE F[f[n - 1]]]
  <2>1. f = [n \in Nat |-> f[n]]
    OBVIOUS
  <2> HIDE DEF f
  <2> QED
    BY <1>4, <2>1
<1> QED
  BY <1>5

\* Nth is what its definition says.
LEMMA NthIs ==
    ASSUME TypeInv
    PROVE  \A n \in Nat : Nth[n] = IF n = 0 THEN g_thread_list
                                   ELSE IF Nth[n - 1] = NoBlock THEN NoBlock
                                   ELSE next[Nth[n - 1]]
<1> DEFINE S == Blocks \cup {NoBlock}
           F == [x \in S |-> IF x = NoBlock THEN NoBlock ELSE next[x]]
           Follows(f) == f = [n \in Nat |-> IF n = 0 THEN g_thread_list
                                            ELSE IF f[n - 1] = NoBlock THEN NoBlock
                                            ELSE next[f[n - 1]]]
<1>1. F \in [S -> S] /\ g_thread_list \in S
  BY SharedTablesAssumption DEF TypeInv, TypeOK
<1>2. PICK f : f = [n \in Nat |-> IF n = 0 THEN g_thread_list ELSE F[f[n - 1]]]
  <2> HIDE DEF S, F
  <2> QED
    BY <1>1, IterationExists
<1>3. f \in [Nat -> S]
  <2> DEFINE T == {n \in Nat : f[n] \notin S}
  <2>1. CASE T = {}
    BY <1>2, <2>1
  <2>2. CASE T # {}
    <3>1. PICK m \in T : \A k \in T : m <= k
      <4> HIDE DEF T
      <4>1. T \in SUBSET Nat
        BY DEF T
      <4> QED
        BY <2>2, <4>1, LeastNatural
    <3>2. m # 0
      BY <1>1, <1>2, <3>1
    <3>3. m - 1 \in Nat /\ m - 1 \notin T
      BY <3>1, <3>2
    <3>4. f[m] = F[f[m - 1]] /\ f[m - 1] \in S
      BY <1>2, <3>1, <3>2, <3>3
    <3> QED
      BY <1>1, <3>1, <3>4
  <2> QED
    BY <2>1, <2>2
<1>4. Follows(f)
  <2>1. \A n \in Nat \ {0} : F[f[n - 1]] = IF f[n - 1] = NoBlock THEN NoBlock ELSE next[f[n - 1]]
    BY <1>3
  <2> HIDE DEF F, S
  <2> QED
    BY <1>2, <2>1
<1>5. Nth = CHOOSE g : Follows(g)
  BY DEF Nth
<1>6. Follows(Nth)
  <2> HIDE DEF Follows
  <2> QED
    BY <1>4, <1>5
<1> QED
  BY <1>6

\* The list comes to an end after as many records as there are blocks at most.
THEOREM ListAlwaysEnds ==
    ASSUME ReuseBlocks = FALSE
    PROVE  Spec => []ListEnds
<1>1. TypeInv /\ ListInv => ListEnds
  <2> SUFFICES ASSUME TypeInv, ListInv, Nth[Cardinality(Blocks)] # NoBlock
               PROVE  FALSE
    BY DEF ListEnds
  <2> DEFINE N == Cardinality(Blocks)
  <2>0. N \in Nat /\ IsFiniteSet(Blocks) /\ NoBlock \notin Blocks
    BY FS_CardinalityType, SharedTablesAssumption
  <2> HIDE DEF N
  <2>1. \A n \in Nat : Nth[n] = IF n = 0 THEN g_thread_list
                                ELSE IF Nth[n - 1] = NoBlock THEN NoBlock
                                ELSE next[Nth[n - 1]]
    BY NthIs
  <2>2. \A n \in 0..N : Nth[n] # NoBlock
    <3> DEFINE T == {k \in Nat : k <= N /\ Nth[N - k] = NoBlock}
    <3>1. CASE T = {}
      <4>1. ASSUME NEW n \in 0..N PROVE Nth[n] # NoBlock
        <5>1. N - n \in Nat /\ N - n <= N /\ N - (N - n) = n
          BY <2>0
        <5> QED
          BY <3>1, <5>1
      <4> QED
        BY <4>1
    <3>2. CASE T # {}
      <4>1. PICK k \in T : \A j \in T : k <= j
        <5> HIDE DEF T
        <5>1. T \in SUBSET Nat
          BY DEF T
        <5> QED
          BY <3>2, <5>1, LeastNatural
      <4>2. k # 0
        BY <2>0, <4>1 DEF N
      <4>3. /\ k - 1 \in Nat /\ k - 1 <= N /\ k - 1 \notin T
            /\ N - (k - 1) \in Nat \ {0} /\ (N - (k - 1)) - 1 = N - k
        BY <2>0, <4>1, <4>2
      <4>4. Nth[N - (k - 1)] # NoBlock
        BY <4>3
      <4> QED
        BY <2>1, <4>1, <4>3, <4>4
    <3> QED
      BY <3>1, <3>2
  <2>3. \A n \in 0..N : Nth[n] \in registered
    <3> DEFINE T == {n \in 0..N : Nth[n] \notin registered}
    <3>1. CASE T = {}
      BY <3>1
    <3>2. CASE T # {}
      <4>1. PICK m \in T : \A k \in T : m <= k
        <5> HIDE DEF T
        <5>1. T \in SUBSET Nat
          BY <2>0 DEF T
        <5> QED
          BY <3>2, <5>1, LeastNatural
      <4>2. CASE m = 0
        BY <2>0, <2>1, <2>2, <4>1, <4>2 DEF ListInv, Linked, Listed
      <4>3. CASE m # 0
        <5>1. m - 1 \in 0..N /\ m - 1 \notin T /\ m \in Nat
          BY <2>0, <4>1, <4>3
        <5>2. Nth[m] = next[Nth[m - 1]]
          BY <2>1, <2>2, <4>3, <5>1
        <5> QED
          BY <2>2, <4>1, <5>1, <5>2 DEF ListInv, Linked, Listed
      <4> QED
        BY <4>2, <4>3
    <3> QED
      BY <3>1, <3>2
  <2>4. PICK i, j \in 0..N : i < j /\ Nth[i] = Nth[j]
    <3> DEFINE g == [n \in 0..N |-> Nth[n]]
    <3>1. g \in [0..N -> Blocks]
      BY <2>3 DEF TypeInv, TypeOK
    <3>2. IsFiniteSet(0..N) /\ Cardinality(0..N) = N + 1
      BY <2>0, FS_Interval
    <3>3. Cardinality(Blocks) < Cardinality(0..N)
      BY <2>0, <3>2 DEF N
    <3>4. PICK x, y \in 0..N : x # y /\ g[x] = g[y]
      <4> HIDE DEF g
      <4> QED
        BY <2>0, <3>1, <3>2, <3>3, FS_PigeonHole
    <3>5. Nth[x] = Nth[y] /\ (x < y \/ y < x)
      BY <2>0, <3>4
    <3> QED
      BY <3>5
  <2> DEFINE C == {Nth[k] : k \in i..(j - 1)}
  <2>5. C \in SUBSET registered /\ C # {}
    BY <2>0, <2>3, <2>4
  <2>6. ASSUME NEW b \in C PROVE next[b] \in C
    <3>1. PICK k \in i..(j - 1) : b = Nth[k]
      OBVIOUS
    <3>2. k \in 0..N /\ k + 1 \in Nat \ {0} /\ (k + 1) - 1 = k /\ k + 1 \in 0..N
      BY <2>0, <2>4, <3>1
    <3>3. Nth[k + 1] = next[b]
      BY <2>1, <2>2, <3>1, <3>2
    <3>4. CASE k + 1 = j
      BY <2>0, <2>4, <3>3, <3>4
    <3>5. CASE k + 1 # j
      BY <2>0, <3>1, <3>3, <3>5
    <3> QED
      BY <3>4, <3>5
  <2> QED
    BY <2>5, <2>6 DEF ListInv, Linked
<1> QED
  BY <1>1, TypeInit, TypeStep, ListInit, ListStep, PTL DEF Spec
=============================================================================
