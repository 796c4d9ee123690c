---------------------------- MODULE SharedTables ----------------------------
(***************************************************************************)
(* The two structures that allocating threads and the background thread    *)
(* share without a lock, access by access: the dispatch table, which is    *)
(* searched while it is written, and the list of registered threads, which *)
(* is scanned while threads start, put themselves on it and end. CodeCache *)
(* takes the first for a map and the second for a set.                     *)
(*                                                                         *)
(* The records of the list are thread-local variables: they lie in a block *)
(* of memory that belongs to the thread, is initialised when it starts and *)
(* is never taken off the list. Entry::id is not atomic; as an aligned     *)
(* word it is read old or new.                                             *)
(***************************************************************************)
EXTENDS Naturals, FiniteSets

CONSTANTS
    Threads,
    Blocks,        \* blocks of thread-local storage
    NoBlock,       \* nullptr
    ReuseBlocks,   \* a thread may get the block of one that has ended
    Sites, NoSite, \* call-site ids; id 0, taken to be nobody's hash
    Hot,           \* the sites that are compiled sooner or later
    Routines, NoRoutine,
    TABLE_SIZE,    \* slots of the dispatch table (4096)
    Home,          \* id & (TABLE_SIZE - 1), for each site
    MaxGeneration  \* nothing is installed beyond this value of g_generation

Slots == 0..(TABLE_SIZE - 1)

\* There are no more compile slots (MAX_COMPILED_SITES) than slots here.
ASSUME SharedTablesAssumption ==
    /\ NoSite \notin Sites /\ NoRoutine \notin Routines /\ NoBlock \notin Blocks
    /\ "bg" \notin Threads /\ IsFiniteSet(Blocks)
    /\ TABLE_SIZE \in Nat \ {0} /\ Home \in [Sites -> Slots]
    /\ Hot \subseteq Sites /\ IsFiniteSet(Hot) /\ Cardinality(Hot) <= TABLE_SIZE
    /\ MaxGeneration \in Nat /\ ReuseBlocks \in BOOLEAN

VARIABLES
    g_table,         \* the dispatch table: an id and a routine in each slot
    g_generation,
    g_thread_list,   \* the block at the head of the list
    next,            \* tl_thread_epoch.next, in each block
    registered,      \* the blocks in which tl_registered is set
    block,           \* the block of each thread that is running
    used,            \* blocks that some thread has had
    pc,              \* where each actor stands: the threads and "bg"
    key,             \* the site an actor's find is about
    step,            \* the slots find has passed
    fn,              \* malloc: the routine found
    head,            \* register_thread: head
    new,             \* install: the routine
    cursor,          \* drain_pending: the record to read next
    seen,            \* routines of key[t] since the lookup of t began
    due, visited     \* blocks the scan has to visit, and has visited

Actors == Threads \cup {"bg"}
Live   == {b \in Blocks : \E t \in Threads : block[t] = b}

tableVars  == <<g_table, g_generation>>
listVars   == <<g_thread_list, next, registered>>
threadVars == <<block, used, head>>
findVars   == <<key, step>>
scanVars   == <<cursor, due, visited>>
vars == <<tableVars, listVars, threadVars, findVars, scanVars, pc, fn, new, seen>>

Init ==
    /\ g_table = [i \in Slots |-> [id |-> NoSite, fn |-> NoRoutine]]
    /\ g_generation = 1
    /\ g_thread_list = NoBlock
    /\ next = [b \in Blocks |-> NoBlock] /\ registered = {}
    /\ block = [t \in Threads |-> NoBlock] /\ used = {}
    /\ head = [t \in Threads |-> NoBlock]
    /\ pc = [a \in Actors |-> "idle"]
    /\ key = [a \in Actors |-> NoSite] /\ step = [a \in Actors |-> 0]
    /\ fn = [t \in Threads |-> NoRoutine] /\ new = NoRoutine
    /\ cursor = NoBlock /\ due = {} /\ visited = {}
    /\ seen = [t \in Threads |-> {}]

Goto(a, label) == pc' = [pc EXCEPT ![a] = label]

-----------------------------------------------------------------------------
(* find, which lookup, revert and install begin with.                       *)

Probe(s, n) == (Home[s] + n) % TABLE_SIZE
Slot(a)     == Probe(key[a], step[a])

\* Begins a search for s, whose probes are at label.
Find(a, s, label) ==
    /\ Goto(a, label)
    /\ key' = [key EXCEPT ![a] = s]
    /\ step' = [step EXCEPT ![a] = 0]

\* Faulty variant of Passes: one slot too many.
PassesOffByOne(a) ==
    /\ g_table[Slot(a)].id \notin {key[a], NoSite}
    /\ step[a] < TABLE_SIZE
    /\ step' = [step EXCEPT ![a] = @ + 1]
    /\ UNCHANGED pc

\* Reads the id of one slot: not the site's, and not free.
Passes(a) ==
    /\ g_table[Slot(a)].id \notin {key[a], NoSite}
    /\ step[a] + 1 < TABLE_SIZE
    /\ step' = [step EXCEPT ![a] = @ + 1]
    /\ UNCHANGED pc

\* The site's slot, or the first one that is free.
Finds(a, label) == /\ g_table[Slot(a)].id \in {key[a], NoSite}
                   /\ Goto(a, label)
                   /\ UNCHANGED step

Exhausts(a) == /\ g_table[Slot(a)].id \notin {key[a], NoSite}
               /\ step[a] + 1 = TABLE_SIZE

\* The routine of each site, wherever find would look for it.
Installed ==
    [s \in Sites |->
        LET mine == {i \in Slots : g_table[i].id = s}
        IN  IF mine = {} THEN NoRoutine ELSE g_table[CHOOSE i \in mine : TRUE].fn]

\* Lookups in progress see the routine r of site s.
Show(s, r) ==
    seen' = [t \in Threads |->
                IF pc[t] \in {"find", "check", "load"} /\ key[t] = s
                THEN seen[t] \cup {r} ELSE seen[t]]

-----------------------------------------------------------------------------
(* lookup, in malloc.                                                       *)

Lookup(t, s) ==
    /\ pc[t] = "idle" /\ block[t] # NoBlock
    /\ Find(t, s, "find")
    /\ seen' = [seen EXCEPT ![t] = {Installed[s]}]
    /\ UNCHANGED <<tableVars, listVars, threadVars, scanVars, fn, new>>

\* The lookup returns r; a routine that was found is called.
Returns(t, r) ==
    /\ fn' = [fn EXCEPT ![t] = r]
    /\ Goto(t, IF r = NoRoutine THEN "idle" ELSE "call")
    /\ key' = [key EXCEPT ![t] = IF r = NoRoutine THEN NoSite ELSE @]
    /\ step' = [step EXCEPT ![t] = 0]
    /\ seen' = [seen EXCEPT ![t] = {}]

LookupProbe(t) ==
    /\ pc[t] = "find"
    /\ \/ (Passes(t) \/ Finds(t, "check")) /\ UNCHANGED <<key, fn, seen>>
       \/ Exhausts(t) /\ Returns(t, NoRoutine)
    /\ UNCHANGED <<tableVars, listVars, threadVars, scanVars, new>>

\* Faulty variant of LookupCheck: the id is not read a second time.
LookupCheckTrusts(t) ==
    /\ pc[t] = "check"
    /\ Goto(t, "load")
    /\ UNCHANGED <<tableVars, listVars, threadVars, scanVars, findVars, fn, new, seen>>

\* The id is read a second time: the slot may have been free, and taken since.
LookupCheck(t) ==
    /\ pc[t] = "check"
    /\ IF g_table[Slot(t)].id = key[t]
       THEN Goto(t, "load") /\ UNCHANGED <<findVars, fn, seen>>
       ELSE Returns(t, NoRoutine)
    /\ UNCHANGED <<tableVars, listVars, threadVars, scanVars, new>>

LookupLoad(t) ==
    /\ pc[t] = "load"
    /\ Returns(t, g_table[Slot(t)].fn)
    /\ UNCHANGED <<tableVars, listVars, threadVars, scanVars, new>>

\* The routine returns a chunk ...
CallReturns(t) ==
    /\ pc[t] = "call"
    /\ Goto(t, "idle")
    /\ key' = [key EXCEPT ![t] = NoSite]
    /\ fn' = [fn EXCEPT ![t] = NoRoutine]
    /\ UNCHANGED <<tableVars, listVars, threadVars, scanVars, step, new, seen>>

-----------------------------------------------------------------------------
(* revert, when a guard of the routine fails.                               *)

CallDeopts(t) ==
    /\ pc[t] = "call"
    /\ Find(t, key[t], "rfind")
    /\ fn' = [fn EXCEPT ![t] = NoRoutine]
    /\ UNCHANGED <<tableVars, listVars, threadVars, scanVars, new, seen>>

RevertEnds(t) ==
    /\ Goto(t, "idle")
    /\ key' = [key EXCEPT ![t] = NoSite]
    /\ step' = [step EXCEPT ![t] = 0]

\* The site had a routine, so there is a slot: Exhausts is not an option.
RevertProbe(t) ==
    /\ pc[t] = "rfind"
    /\ Passes(t) \/ Finds(t, "rcheck")
    /\ UNCHANGED <<tableVars, listVars, threadVars, scanVars, key, fn, new, seen>>

RevertCheck(t) ==
    /\ pc[t] = "rcheck"
    /\ IF g_table[Slot(t)].id = key[t] THEN Goto(t, "rstore") /\ UNCHANGED findVars
       ELSE RevertEnds(t)
    /\ UNCHANGED <<tableVars, listVars, threadVars, scanVars, fn, new, seen>>

\* Faulty variant of RevertStore: the slot is freed, too.
RevertStoreFrees(t) ==
    /\ pc[t] = "rstore"
    /\ g_table' = [g_table EXCEPT ![Slot(t)] = [id |-> NoSite, fn |-> NoRoutine]]
    /\ Show(key[t], NoRoutine)
    /\ Goto(t, "rbump")
    /\ UNCHANGED <<g_generation, listVars, threadVars, scanVars, findVars, fn, new>>

RevertStore(t) ==
    /\ pc[t] = "rstore"
    /\ g_table' = [g_table EXCEPT ![Slot(t)].fn = NoRoutine]
    /\ Show(key[t], NoRoutine)
    /\ Goto(t, "rbump")
    /\ UNCHANGED <<g_generation, listVars, threadVars, scanVars, findVars, fn, new>>

RevertBump(t) ==
    /\ pc[t] = "rbump"
    /\ g_generation' = g_generation + 1
    /\ RevertEnds(t)
    /\ UNCHANGED <<g_table, listVars, threadVars, scanVars, fn, new, seen>>

-----------------------------------------------------------------------------
(* install, by the background thread.                                       *)

InstallBegin(s, r) ==
    /\ pc["bg"] = "idle" /\ g_generation < MaxGeneration
    /\ Find("bg", s, "ifind")
    /\ new' = r
    /\ UNCHANGED <<tableVars, listVars, threadVars, scanVars, fn, seen>>

\* assert(e): there is always a slot.
InstallProbe ==
    /\ pc["bg"] = "ifind"
    /\ Passes("bg") \/ Finds("bg", "id")
    /\ UNCHANGED <<tableVars, listVars, threadVars, scanVars, key, fn, new, seen>>

InstallId ==
    /\ pc["bg"] = "id"
    /\ g_table' = [g_table EXCEPT ![Slot("bg")].id = key["bg"]]
    /\ Goto("bg", "fn")
    /\ UNCHANGED <<g_generation, listVars, threadVars, scanVars, findVars, fn, new, seen>>

InstallFn ==
    /\ pc["bg"] = "fn"
    /\ g_table' = [g_table EXCEPT ![Slot("bg")].fn = new]
    /\ Show(key["bg"], new)
    /\ Goto("bg", "bump")
    /\ UNCHANGED <<g_generation, listVars, threadVars, scanVars, findVars, fn, new>>

InstallBump ==
    /\ pc["bg"] = "bump"
    /\ g_generation' = g_generation + 1
    /\ Goto("bg", "idle")
    /\ key' = [key EXCEPT !["bg"] = NoSite] /\ step' = [step EXCEPT !["bg"] = 0]
    /\ new' = NoRoutine
    /\ UNCHANGED <<g_table, listVars, threadVars, scanVars, fn, seen>>

-----------------------------------------------------------------------------
(* Threads start and end; register_thread at their first safe point.        *)

\* A thread starts, its thread-local variables initialised.
StartThread(t, b) ==
    /\ block[t] = NoBlock
    /\ b \notin Live /\ (b \in used => ReuseBlocks)
    /\ block' = [block EXCEPT ![t] = b]
    /\ used' = used \cup {b}
    /\ next' = [next EXCEPT ![b] = NoBlock]
    /\ registered' = registered \ {b}
    /\ UNCHANGED <<tableVars, g_thread_list, head, findVars, scanVars, pc, fn, new, seen>>

\* A thread ends. Its block stays as it is, on the list if it was.
EndThread(t) ==
    /\ pc[t] = "idle" /\ block[t] # NoBlock
    /\ block' = [block EXCEPT ![t] = NoBlock]
    /\ UNCHANGED <<tableVars, listVars, used, head, findVars, scanVars, pc, fn, new, seen>>

\* Faulty variant of RegisterLoad: a thread registers at every safe point.
RegisterLoadAgain(t) ==
    /\ pc[t] = "idle" /\ block[t] # NoBlock
    /\ head' = [head EXCEPT ![t] = g_thread_list]
    /\ Goto(t, "link")
    /\ UNCHANGED <<tableVars, listVars, block, used, findVars, scanVars, fn, new, seen>>

\* mark_safe_point: if (!tl_registered) register_thread()
RegisterLoad(t) ==
    /\ pc[t] = "idle" /\ block[t] # NoBlock /\ block[t] \notin registered
    /\ head' = [head EXCEPT ![t] = g_thread_list]
    /\ Goto(t, "link")
    /\ UNCHANGED <<tableVars, listVars, block, used, findVars, scanVars, fn, new, seen>>

RegisterLink(t) ==
    /\ pc[t] = "link"
    /\ next' = [next EXCEPT ![block[t]] = head[t]]
    /\ Goto(t, "cas")
    /\ UNCHANGED <<tableVars, g_thread_list, registered, threadVars, findVars, scanVars,
                   fn, new, seen>>

\* Faulty variant of RegisterCas: a plain store.
RegisterCasStores(t) ==
    /\ pc[t] = "cas"
    /\ g_thread_list' = block[t]
    /\ registered' = registered \cup {block[t]}
    /\ head' = [head EXCEPT ![t] = NoBlock]
    /\ Goto(t, "idle")
    /\ UNCHANGED <<tableVars, next, block, used, findVars, scanVars, fn, new, seen>>

\* compare_exchange loads the new head when it fails.
RegisterCas(t) ==
    /\ pc[t] = "cas"
    /\ IF g_thread_list = head[t]
       THEN /\ g_thread_list' = block[t]
            /\ registered' = registered \cup {block[t]}
            /\ head' = [head EXCEPT ![t] = NoBlock]
            /\ Goto(t, "idle")
       ELSE /\ head' = [head EXCEPT ![t] = g_thread_list]
            /\ Goto(t, "link")
            /\ UNCHANGED <<g_thread_list, registered>>
    /\ UNCHANGED <<tableVars, next, block, used, findVars, scanVars, fn, new, seen>>

-----------------------------------------------------------------------------
(* drain_pending: the scan for the smallest epoch.                          *)

\* Every running thread that is registered now has to be asked.
ScanBegin ==
    /\ pc["bg"] = "idle"
    /\ cursor' = g_thread_list
    /\ due' = Live \cap registered
    /\ Goto("bg", "scan")
    /\ UNCHANGED <<tableVars, listVars, threadVars, findVars, visited, fn, new, seen>>

\* Reads a record's epoch and goes on to the next record.
ScanRead ==
    /\ pc["bg"] = "scan" /\ cursor # NoBlock
    /\ visited' = visited \cup {cursor}
    /\ cursor' = next[cursor]
    /\ UNCHANGED <<tableVars, listVars, threadVars, findVars, due, pc, fn, new, seen>>

ScanEnd ==
    /\ pc["bg"] = "scan" /\ cursor = NoBlock
    /\ due' = {} /\ visited' = {}
    /\ Goto("bg", "idle")
    /\ UNCHANGED <<tableVars, listVars, threadVars, findVars, cursor, fn, new, seen>>

-----------------------------------------------------------------------------

Thread(t) ==
    \/ EndThread(t) \/ RegisterLoad(t) \/ RegisterLink(t) \/ RegisterCas(t)
    \/ LookupProbe(t) \/ LookupCheck(t) \/ LookupLoad(t)
    \/ CallReturns(t) \/ CallDeopts(t)
    \/ RevertProbe(t) \/ RevertCheck(t) \/ RevertStore(t) \/ RevertBump(t)
    \/ \E b \in Blocks : StartThread(t, b)
    \/ \E s \in Sites : Lookup(t, s)

Background ==
    \/ InstallProbe \/ InstallId \/ InstallFn \/ InstallBump
    \/ ScanBegin \/ ScanRead \/ ScanEnd
    \/ \E s \in Hot, r \in Routines : InstallBegin(s, r)

Next == Background \/ \E t \in Threads : Thread(t)

Spec == Init /\ [][Next]_vars

-----------------------------------------------------------------------------
(* Properties.                                                              *)

Labels == {"idle", "find", "check", "load", "call", "rfind", "rcheck", "rstore",
           "rbump", "ifind", "id", "fn", "bump", "link", "cas", "scan"}

\* Every variable holds a value of its type.
TypeOK ==
    /\ g_table \in [Slots -> [id : Sites \cup {NoSite}, fn : Routines \cup {NoRoutine}]]
    /\ g_generation \in Nat
    /\ g_thread_list \in Blocks \cup {NoBlock}
    /\ next \in [Blocks -> Blocks \cup {NoBlock}]
    /\ registered \subseteq Blocks /\ used \subseteq Blocks
    /\ block \in [Threads -> Blocks \cup {NoBlock}]
    /\ head \in [Threads -> Blocks \cup {NoBlock}]
    /\ pc \in [Actors -> Labels]
    /\ key \in [Actors -> Sites \cup {NoSite}] /\ step \in [Actors -> Slots]
    /\ fn \in [Threads -> Routines \cup {NoRoutine}] /\ new \in Routines \cup {NoRoutine}
    /\ cursor \in Blocks \cup {NoBlock} /\ due \subseteq Blocks /\ visited \subseteq Blocks
    /\ seen \in [Threads -> SUBSET (Routines \cup {NoRoutine})]

\* A search for the site in slot i gets there.
Reached(i) ==
    \E n \in Slots :
        /\ Probe(g_table[i].id, n) = i
        /\ \A m \in 0..(n - 1) :
              g_table[Probe(g_table[i].id, m)].id \notin {NoSite, g_table[i].id}

\* A site has one slot, and a search for it passes no free slot on the way
\* there, whichever sites were installed before it and reverted since; install
\* and revert always find a slot.
TableSound ==
    /\ \A i \in Slots : g_table[i].id # NoSite => Reached(i)
    /\ \A a \in Actors : pc[a] \in {"ifind", "rfind"} => ~Exhausts(a)
    /\ \A t \in Threads : pc[t] \in {"rcheck", "rstore"} => g_table[Slot(t)].id = key[t]

\* The sites that are being looked up.
Asked == [t \in Threads |-> IF pc[t] \in {"find", "check", "load"} THEN key[t] ELSE NoSite]

Map == INSTANCE RoutineMap WITH map <- Installed, asked <- Asked, got <- fn

\* The dispatch table implements a map (RoutineMap): a lookup that races with
\* installs, of this site and of others, and with reverts returns a routine that
\* its site had meanwhile, never that of another site or none without reason.
RefinesMap == Map!Spec

\* "reclaims pages whose epoch has been observed by every registered thread": a
\* scan asks every thread that was registered when it began and is running,
\* although others put themselves on the list or end at the same time.
ScanComplete ==
    pc["bg"] = "scan" /\ cursor = NoBlock => due \subseteq visited

\* The record a scan reads after n others.
Nth[n \in Nat] ==
    IF n = 0 THEN g_thread_list
    ELSE IF Nth[n - 1] = NoBlock THEN NoBlock ELSE next[Nth[n - 1]]

\* A scan comes to an end, however many threads register meanwhile: the list
\* runs into no record twice.
ListEnds == Nth[Cardinality(Blocks)] = NoBlock
=============================================================================
