------------------------------ MODULE CodeCache ------------------------------
(***************************************************************************)
(* The life of a compiled allocation routine: the dispatch table and its   *)
(* generation counter, the per-thread inline cache of the malloc           *)
(* trampoline, the guard-failure path (deopt::handle), and the epoch-based *)
(* reclamation of code pages by the background thread.                     *)
(*                                                                         *)
(* Every action is one access to shared memory by an allocating thread, or *)
(* one step of the single background thread; a step that only touches      *)
(* state private to its actor is merged with the access before it. A local *)
(* variable that is dead is set back to its initial value.                 *)
(***************************************************************************)
EXTENDS Naturals, Sequences, FiniteSets, Functions

CONSTANTS
    Threads,          \* allocating threads
    Sites,            \* call sites (hashed return addresses)
    NoSite,           \* call-site id 0, which no call site hashes to
    Pages,            \* addresses that mmap can return for a code page
    NoPage,           \* nullptr: the site is served by the generic path
    SafePointPeriod,  \* a safe point every so many mallocs (32)
    QueueCap,         \* DEOPT_QUEUE_CAP (256)
    MaxPending,       \* MAX_PENDING (256)
    DeoptLimit,       \* g_deopt_blacklist_limit (3)
    MaxSlots,         \* MAX_COMPILED_SITES (4096): a bound on compilations
    Warm,             \* threads past their first safe point at the start
    FreshMmap,        \* TRUE: mmap never returns an address used before
    DeoptEnabled      \* deopt::g_enabled (FALSE only in oracle replays)

ASSUME NullAssumption == NoPage \notin Pages /\ NoSite \notin Sites
ASSUME BoundsAssumption ==
    /\ SafePointPeriod \in Nat \ {0}
    /\ QueueCap \in Nat
    /\ MaxPending \in Nat
    /\ DeoptLimit \in Nat \ {0}
    /\ MaxSlots \in Nat
ASSUME FlagsAssumption ==
    Warm \subseteq Threads /\ FreshMmap \in BOOLEAN /\ DeoptEnabled \in BOOLEAN

VARIABLES
    g_table,          \* dispatch: the routine installed for each site
    g_generation,     \* dispatch: bumped after every install and revert
    mapped,           \* code pages that are mapped and executable
    used,             \* code pages that have ever been mapped
    code_site,        \* the call-site id emitted into a page's deopt epilogue
    slots,            \* codegen: g_next_index, compile slots handed out
    phase,            \* analysis: the phase of each site
    deopt_count,      \* analysis: resets of each site
    g_epoch,          \* deopt: the reclamation epoch
    g_deopt_queue,    \* deopt: guard failures the background has not seen
    g_pending,        \* deopt: pages waiting to be unmapped, with their epochs
    g_thread_list,    \* deopt: registered threads
    tl_thread_epoch,  \* deopt: the epoch each thread last checked in at
    pc,               \* where each thread stands in malloc
    site,             \* malloc: the call site (id)
    fn,               \* malloc: the routine to call, or being executed
    loaded,           \* the counter value a thread has read and not yet used
    tl_counter,       \* trampoline: tl_safe_point_counter
    tl_ic,            \* trampoline: the inline cache
    bgpc,             \* where the background thread stands
    bgd,              \* the entry the background thread is working on
    toScan,           \* drain_pending: threads of the list not yet read
    minEpoch          \* drain_pending: min_epoch

threadVars == <<pc, site, fn, loaded, tl_counter, tl_ic>>
pageVars   == <<mapped, used, code_site, slots>>
siteVars   == <<phase, deopt_count>>
bgVars     == <<bgpc, bgd, toScan, minEpoch>>
epochVars  == <<g_epoch, g_thread_list, tl_thread_epoch>>
queueVars  == <<g_deopt_queue, g_pending>>
tableVars  == <<g_table, g_generation>>
vars == <<threadVars, pageVars, siteVars, bgVars, epochVars, queueVars,
          tableVars>>

Routines == Pages \cup {NoPage}
Ids      == Sites \cup {NoSite}
Deopts   == [id : Ids, page : Routines]
Retired  == [page : Routines, epoch : Nat]
Caches   == [id : Ids, fn : Routines, gen : Nat]
NoDeopt  == [id |-> NoSite, page |-> NoPage]
Phases   == {"PreSpec", "Compiled", "Deopt"}

\* A thread's position in malloc. The last five are inside the routine fn[t],
\* or in deopt::handle called from it with a return address in its page.
ThreadPCs == {"idle", "safepoint", "store_epoch", "gen", "lookup",
              "exec", "revert", "bump", "enqueue", "tail"}
InRoutine(t) == pc[t] \in {"exec", "revert", "bump", "enqueue", "tail"}
BgPCs == {"drain", "reset", "scan", "events", "install"}

Blacklisted(s) == deopt_count[s] >= DeoptLimit

-----------------------------------------------------------------------------
\* The subsystems are up (tbjit_init has run) and every site has been traced
\* for long enough that its next stable window compiles it.
Init ==
    /\ g_table = [s \in Sites |-> NoPage]
    /\ g_generation = 1
    /\ mapped = {} /\ used = {}
    /\ code_site = [p \in Pages |-> NoSite]
    /\ slots = 0
    /\ phase = [s \in Sites |-> "PreSpec"]
    /\ deopt_count = [s \in Sites |-> 0]
    /\ g_epoch = 0
    /\ g_deopt_queue = <<>> /\ g_pending = {}
    /\ g_thread_list = Warm
    /\ tl_thread_epoch = [t \in Threads |-> 0]
    /\ pc = [t \in Threads |-> "idle"]
    /\ site = [t \in Threads |-> NoSite]
    /\ fn = [t \in Threads |-> NoPage]
    /\ loaded = [t \in Threads |-> 0]
    /\ tl_counter = [t \in Threads |-> 0]
    /\ tl_ic = [t \in Threads |-> [id |-> NoSite, fn |-> NoPage, gen |-> 0]]
    /\ bgpc = "drain"
    /\ bgd = NoDeopt
    /\ toScan = {} /\ minEpoch = 0

-----------------------------------------------------------------------------
(* Allocating threads: malloc, mark_safe_point, the routine and handle.     *)

\* Leave malloc: its locals go out of scope.
Return(t) ==
    /\ pc' = [pc EXCEPT ![t] = "idle"]
    /\ site' = [site EXCEPT ![t] = NoSite]
    /\ fn' = [fn EXCEPT ![t] = NoPage]
    /\ loaded' = [loaded EXCEPT ![t] = 0]

\* malloc is entered from call site s, past the shutdown and reentrancy gates;
\* every SafePointPeriod-th call marks a safe point first.
Malloc(t, s) ==
    /\ pc[t] = "idle"
    /\ site' = [site EXCEPT ![t] = s]
    /\ tl_counter' = [tl_counter EXCEPT ![t] = (@ + 1) % SafePointPeriod]
    /\ pc' = [pc EXCEPT ![t] = IF tl_counter'[t] = 0 THEN "safepoint" ELSE "gen"]
    /\ UNCHANGED <<fn, loaded, tl_ic, pageVars, siteVars, bgVars, epochVars,
                   queueVars, tableVars>>

\* The first safe point of a thread links it into g_thread_list.
RegisterThread(t) ==
    /\ pc[t] = "safepoint" /\ t \notin g_thread_list
    /\ g_thread_list' = g_thread_list \cup {t}
    /\ UNCHANGED <<threadVars, pageVars, siteVars, bgVars, g_epoch,
                   tl_thread_epoch, queueVars, tableVars>>

\* mark_safe_point loads the epoch ...
LoadEpoch(t) ==
    /\ pc[t] = "safepoint" /\ t \in g_thread_list
    /\ loaded' = [loaded EXCEPT ![t] = g_epoch]
    /\ pc' = [pc EXCEPT ![t] = "store_epoch"]
    /\ UNCHANGED <<site, fn, tl_counter, tl_ic, pageVars, siteVars, bgVars,
                   epochVars, queueVars, tableVars>>

\* ... and publishes it, one store later.
StoreEpoch(t) ==
    /\ pc[t] = "store_epoch"
    /\ tl_thread_epoch' = [tl_thread_epoch EXCEPT ![t] = loaded[t]]
    /\ loaded' = [loaded EXCEPT ![t] = 0]
    /\ pc' = [pc EXCEPT ![t] = "gen"]
    /\ UNCHANGED <<site, fn, tl_counter, tl_ic, pageVars, siteVars,
                   bgVars, g_epoch, g_thread_list, queueVars, tableVars>>

\* cur_gen is read before the table is.
ReadGen(t) ==
    /\ pc[t] = "gen"
    /\ loaded' = [loaded EXCEPT ![t] = g_generation]
    /\ pc' = [pc EXCEPT ![t] = "lookup"]
    /\ UNCHANGED <<site, fn, tl_counter, tl_ic, pageVars, siteVars, bgVars,
                   epochVars, queueVars, tableVars>>

\* The routine malloc calls: the cached one if the cache is valid, else what
\* the table holds now.
CacheHit(t) == tl_ic[t].id = site[t] /\ tl_ic[t].gen = loaded[t]
Resolved(t) == IF CacheHit(t) THEN tl_ic[t].fn ELSE g_table[site[t]]

\* Resolve the routine, refill the cache under the generation read earlier,
\* and call it; without one the generic path serves the request.
Lookup(t) ==
    /\ pc[t] = "lookup"
    /\ tl_ic' = [tl_ic EXCEPT ![t] =
                    [id |-> site[t], fn |-> Resolved(t), gen |-> loaded[t]]]
    /\ IF Resolved(t) = NoPage
       THEN Return(t)
       ELSE /\ pc' = [pc EXCEPT ![t] = "exec"]
            /\ fn' = [fn EXCEPT ![t] = Resolved(t)]
            /\ loaded' = [loaded EXCEPT ![t] = 0]
            /\ UNCHANGED site
    /\ UNCHANGED <<tl_counter, pageVars, siteVars, bgVars, epochVars,
                   queueVars, tableVars>>

\* The guard holds: the routine returns a chunk to malloc.
Serve(t) ==
    /\ pc[t] = "exec" /\ fn[t] \in mapped
    /\ Return(t)
    /\ UNCHANGED <<tl_counter, tl_ic, pageVars, siteVars, bgVars, epochVars,
                   queueVars, tableVars>>

\* Faulty variant of HandleEntry: the page is queued, dispatch is not reverted.
HandleEntryNoRevert == IF DeoptEnabled THEN "enqueue" ELSE "tail"

\* handle does nothing when deoptimisation is switched off.
HandleEntry == IF DeoptEnabled THEN "revert" ELSE "tail"

\* The guard fails (wrong size, region exhausted): the epilogue calls handle.
GuardFail(t) ==
    /\ pc[t] = "exec" /\ fn[t] \in mapped
    /\ pc' = [pc EXCEPT ![t] = HandleEntry]
    /\ site' = [site EXCEPT ![t] = code_site[fn[t]]]
    /\ UNCHANGED <<fn, loaded, tl_counter, tl_ic, pageVars, siteVars, bgVars,
                   epochVars, queueVars, tableVars>>

\* dispatch::revert clears the site's entry, whatever routine it holds ...
Revert(t) ==
    /\ pc[t] = "revert"
    /\ g_table' = [g_table EXCEPT ![site[t]] = NoPage]
    /\ pc' = [pc EXCEPT ![t] = "bump"]
    /\ UNCHANGED <<site, fn, loaded, tl_counter, tl_ic, pageVars, siteVars,
                   bgVars, epochVars, queueVars, g_generation>>

\* Faulty variant of NextGeneration: install and revert forget the bump.
NextGenerationStuck == g_generation

\* g_generation.fetch_add(1)
NextGeneration == g_generation + 1

\* ... and then invalidates every inline cache.
BumpGeneration(t) ==
    /\ pc[t] = "bump"
    /\ g_generation' = NextGeneration
    /\ pc' = [pc EXCEPT ![t] = "enqueue"]
    /\ UNCHANGED <<site, fn, loaded, tl_counter, tl_ic, pageVars, siteVars,
                   bgVars, epochVars, queueVars, g_table>>

\* Faulty variant of QueueHasRoom: one entry too many.
QueueHasRoomOffByOne == Len(g_deopt_queue) <= QueueCap

\* g_deopt_tail - g_deopt_head < DEOPT_QUEUE_CAP
QueueHasRoom == Len(g_deopt_queue) < QueueCap

\* Under g_deopt_mutex; an entry that does not fit is dropped silently.
Enqueue(t) ==
    /\ pc[t] = "enqueue"
    /\ g_deopt_queue' = IF QueueHasRoom
                        THEN Append(g_deopt_queue,
                                    [id |-> site[t], page |-> fn[t]])
                        ELSE g_deopt_queue
    /\ pc' = [pc EXCEPT ![t] = "tail"]
    /\ UNCHANGED <<site, fn, loaded, tl_counter, tl_ic, pageVars, siteVars,
                   bgVars, epochVars, g_pending, tableVars>>

\* handle returns into the page, which jumps to the real malloc.
TailCall(t) ==
    /\ pc[t] = "tail" /\ fn[t] \in mapped
    /\ Return(t)
    /\ UNCHANGED <<tl_counter, tl_ic, pageVars, siteVars, bgVars, epochVars,
                   queueVars, tableVars>>

\* The steps of a malloc that has begun.
InMalloc(t) ==
    \/ RegisterThread(t) \/ LoadEpoch(t) \/ StoreEpoch(t)
    \/ ReadGen(t) \/ Lookup(t) \/ Serve(t)
    \/ GuardFail(t) \/ Revert(t) \/ BumpGeneration(t) \/ Enqueue(t)
    \/ TailCall(t)

-----------------------------------------------------------------------------
(* The background thread: drain_pending, then drain_all, round after round. *)

\* Take one guard failure off the queue, under the mutex.
Dequeue ==
    /\ bgpc = "drain" /\ g_deopt_queue # <<>>
    /\ bgd' = Head(g_deopt_queue)
    /\ g_deopt_queue' = Tail(g_deopt_queue)
    /\ bgpc' = "reset"
    /\ UNCHANGED <<threadVars, pageVars, siteVars, toScan, minEpoch, epochVars,
                   g_pending, tableVars>>

\* Faulty variant of PendingHasRoom: the last place of g_pending is never used.
PendingHasRoomEarly == Cardinality(g_pending) + 1 < MaxPending

\* g_pending_count < MAX_PENDING
PendingHasRoom == Cardinality(g_pending) < MaxPending

\* reset_call_site, then stamp the page with the epoch and open the next one;
\* when g_pending is full the page is forgotten. Epochs are unique, so the
\* array g_pending[0..g_pending_count) is a set.
ResetCallSite ==
    /\ bgpc = "reset"
    /\ phase' = [phase EXCEPT ![bgd.id] = "Deopt"]
    /\ deopt_count' = [deopt_count EXCEPT ![bgd.id] = @ + 1]
    /\ g_pending' = IF PendingHasRoom
                    THEN g_pending \cup {[page |-> bgd.page, epoch |-> g_epoch]}
                    ELSE g_pending
    /\ g_epoch' = g_epoch + 1
    /\ bgd' = NoDeopt
    /\ bgpc' = "drain"
    /\ UNCHANGED <<threadVars, pageVars, toScan, minEpoch, g_thread_list,
                   tl_thread_epoch, g_deopt_queue, tableVars>>

\* The queue is empty: with pages pending, start reading the thread list.
DrainEmpty ==
    /\ bgpc = "drain" /\ g_deopt_queue = <<>>
    /\ IF g_pending = {}
       THEN bgpc' = "events" /\ UNCHANGED <<toScan, minEpoch>>
       ELSE /\ bgpc' = "scan"
            /\ toScan' = g_thread_list
            /\ minEpoch' = g_epoch
    /\ UNCHANGED <<threadVars, pageVars, siteVars, bgd, epochVars, queueVars,
                   tableVars>>

\* Read one registered thread's epoch.
ScanThread(t) ==
    /\ bgpc = "scan" /\ t \in toScan
    /\ toScan' = toScan \ {t}
    /\ minEpoch' = IF tl_thread_epoch[t] < minEpoch THEN tl_thread_epoch[t]
                                                    ELSE minEpoch
    /\ UNCHANGED <<threadVars, pageVars, siteVars, bgpc, bgd, epochVars,
                   queueVars, tableVars>>

\* Faulty variants of Reclaimable: one epoch early, one epoch late.
ReclaimableEarly(r) == r.epoch <= minEpoch
ReclaimableLate(r) == r.epoch + 1 < minEpoch

\* A pending page is past its grace period.
Reclaimable(r) == r.epoch < minEpoch

\* Unmap the pages past their grace period and keep the others.
Reclaim ==
    /\ bgpc = "scan" /\ toScan = {}
    /\ mapped' = mapped \ {r.page : r \in {q \in g_pending : Reclaimable(q)}}
    /\ g_pending' = {r \in g_pending : ~Reclaimable(r)}
    /\ minEpoch' = 0
    /\ bgpc' = "events"
    /\ UNCHANGED <<threadVars, used, code_site, slots, siteVars, bgd, toScan,
                   epochVars, g_deopt_queue, tableVars>>

\* process_event: the first event of a deoptimised site restarts its analysis.
Resume(s) ==
    /\ bgpc = "events" /\ phase[s] = "Deopt"
    /\ phase' = [phase EXCEPT ![s] = "PreSpec"]
    /\ UNCHANGED <<threadVars, pageVars, deopt_count, bgVars, epochVars,
                   queueVars, tableVars>>

\* advance_prespec found the site stable, but compile returns null: no
\* emitter for it, or no slot left. The site counts as compiled all the same.
SpecializeFails(s) ==
    /\ bgpc = "events" /\ phase[s] = "PreSpec" /\ ~Blacklisted(s)
    /\ phase' = [phase EXCEPT ![s] = "Compiled"]
    /\ UNCHANGED <<threadVars, pageVars, deopt_count, bgVars, epochVars,
                   queueVars, tableVars>>

\* Addresses mmap may return.
FreePages == Pages \ (IF FreshMmap THEN used ELSE mapped)

\* advance_prespec found the site stable: compile into a new page and store
\* it in the table ...
Specialize(s, p) ==
    /\ bgpc = "events" /\ phase[s] = "PreSpec" /\ ~Blacklisted(s)
    /\ slots < MaxSlots /\ p \in FreePages
    /\ phase' = [phase EXCEPT ![s] = "Compiled"]
    /\ slots' = slots + 1
    /\ mapped' = mapped \cup {p}
    /\ used' = used \cup {p}
    /\ code_site' = [code_site EXCEPT ![p] = s]
    /\ g_table' = [g_table EXCEPT ![s] = p]
    /\ bgd' = [id |-> s, page |-> p]
    /\ bgpc' = "install"
    /\ UNCHANGED <<threadVars, deopt_count, toScan, minEpoch, epochVars,
                   queueVars, g_generation>>

\* ... and then invalidate every inline cache.
InstallBump ==
    /\ bgpc = "install"
    /\ g_generation' = NextGeneration
    /\ bgd' = NoDeopt
    /\ bgpc' = "events"
    /\ UNCHANGED <<threadVars, pageVars, siteVars, toScan, minEpoch,
                   epochVars, queueVars, g_table>>

\* check_postspec: the sizes still traced drifted off the baseline. The phase
\* changes; the dispatch table does not.
PostDrift(s) ==
    /\ bgpc = "events" /\ phase[s] = "Compiled"
    /\ phase' = [phase EXCEPT ![s] = "Deopt"]
    /\ UNCHANGED <<threadVars, pageVars, deopt_count, bgVars, epochVars,
                   queueVars, tableVars>>

\* The rings are empty: next round.
EndEvents ==
    /\ bgpc = "events"
    /\ bgpc' = "drain"
    /\ UNCHANGED <<threadVars, pageVars, siteVars, bgd, toScan, minEpoch,
                   epochVars, queueVars, tableVars>>

ProcessEvent(s) ==
    \/ Resume(s) \/ SpecializeFails(s) \/ PostDrift(s)
    \/ \E p \in Pages : Specialize(s, p)

\* The steps the background loop takes by itself, whatever events arrive.
BackgroundStep ==
    \/ Dequeue \/ ResetCallSite \/ DrainEmpty
    \/ \E t \in Threads : ScanThread(t)
    \/ Reclaim \/ InstallBump \/ EndEvents

Next ==
    \/ \E t \in Threads, s \in Sites : Malloc(t, s)
    \/ \E t \in Threads : InMalloc(t)
    \/ \E s \in Sites : ProcessEvent(s)
    \/ BackgroundStep

Spec == Init /\ [][Next]_vars

\* A malloc that began runs to its end; the background thread keeps running
\* and drain_all returns. Nobody is obliged to call malloc.
Fairness ==
    /\ \A t \in Threads : WF_vars(InMalloc(t))
    /\ WF_vars(BackgroundStep)

FairSpec == Spec /\ Fairness

-----------------------------------------------------------------------------
(* Properties.                                                             *)

\* Every variable holds a value of its C++ type, and the two fixed-size arrays
\* g_deopt_queue and g_pending never hold more than their capacity, although
\* every thread may be in deopt::handle at once.
TypeOK ==
    /\ g_table \in [Sites -> Routines]
    /\ g_generation \in Nat
    /\ mapped \subseteq Pages /\ used \subseteq Pages
    /\ code_site \in [Pages -> Ids]
    /\ slots \in 0..MaxSlots
    /\ phase \in [Sites -> Phases]
    /\ deopt_count \in [Sites -> Nat]
    /\ g_epoch \in Nat
    /\ g_deopt_queue \in Seq(Deopts)
    /\ Len(g_deopt_queue) <= QueueCap
    /\ g_pending \subseteq Retired
    /\ IsFiniteSet(g_pending) /\ Cardinality(g_pending) <= MaxPending
    /\ g_thread_list \subseteq Threads
    /\ tl_thread_epoch \in [Threads -> Nat]
    /\ pc \in [Threads -> ThreadPCs]
    /\ site \in [Threads -> Ids]
    /\ fn \in [Threads -> Routines]
    /\ loaded \in [Threads -> Nat]
    /\ tl_counter \in [Threads -> 0..(SafePointPeriod - 1)]
    /\ tl_ic \in [Threads -> Caches]
    /\ bgpc \in BgPCs
    /\ bgd \in Deopts
    /\ toScan \subseteq Threads
    /\ minEpoch \in Nat

\* A writer stands between its store to the entry of s and the bump that
\* invalidates the inline caches (dispatch::install and dispatch::revert).
WriterPending(s) ==
    \/ bgpc = "install" /\ bgd.id = s
    \/ \E t \in Threads : pc[t] = "bump" /\ site[t] = s

\* An inline cache that the trampoline's generation check would accept agrees
\* with the dispatch table, except while a writer of that entry has stored
\* the routine and not yet bumped the generation: no install or revert is
\* missed by a thread, in whatever order concurrent writers store and bump.
CacheCoherent ==
    \A t \in Threads :
        tl_ic[t].gen = g_generation =>
            \/ tl_ic[t].fn = g_table[tl_ic[t].id]
            \/ WriterPending(tl_ic[t].id)

\* No thread executes, or will return into, a code page that the background
\* thread has unmapped (drain_pending's promise to the trampoline).
PageSafe == \A t \in Threads : InRoutine(t) => fn[t] \in mapped

\* What the dispatch table points to is executable code of that call site.
InstalledMapped ==
    \A s \in Sites :
        g_table[s] # NoPage => g_table[s] \in mapped /\ code_site[g_table[s]] = s

\* Pages on their way to codegen::reclaim.
Condemned ==
    {d.page : d \in Range(g_deopt_queue)} \cup {r.page : r \in g_pending}
    \cup (IF bgpc = "reset" THEN {bgd.page} ELSE {})

\* No malloc that reads the generation from now on can enter page p: it is in
\* no table entry and in no inline cache that the check would accept.
Gone(p) ==
    /\ \A s \in Sites : g_table[s] # p
    /\ \A t \in Threads : tl_ic[t].fn = p => tl_ic[t].gen < g_generation

\* A page that deopt::handle has queued is out of reach of every malloc that
\* starts later: the grace period that drain_pending counts begins here.
CondemnedUnreachable == \A p \in Condemned : Gone(p)

\* t is inside page p, or will enter it through its inline cache because it
\* read the generation before the revert bumped it.
CanReach(t, p) ==
    \/ InRoutine(t) /\ fn[t] = p
    \/ pc[t] = "lookup" /\ CacheHit(t) /\ tl_ic[t].fn = p

\* A thread that can still reach a pending page last checked in no later than
\* the epoch the page is stamped with, so it holds back min_epoch.
StragglerPinned ==
    \A r \in g_pending, t \in Threads :
        CanReach(t, r.page) => tl_thread_epoch[t] <= r.epoch

\* Every thread keeps allocating, and so keeps passing safe points.
AllAllocate == \A t \in Threads : []<>(pc[t] = "gen")

\* drain_pending has taken page p off the queue and finds g_pending full.
Forgotten(p) ==
    bgpc = "reset" /\ bgd.page = p /\ Cardinality(g_pending) >= MaxPending

\* As long as every thread keeps allocating, a page handed to deopt::handle's
\* queue is unmapped in the end, unless drain_pending takes it off the queue
\* while g_pending is full; a page that made it into g_pending always is, also
\* if it is queued again and that entry is forgotten.
CondemnedReclaimed ==
    AllAllocate =>
        \A p \in Pages :
            /\ p \in Condemned ~> p \notin mapped \/ Forgotten(p)
            /\ p \in {r.page : r \in g_pending} ~> p \notin mapped
=============================================================================
