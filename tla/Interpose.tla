------------------------------ MODULE Interpose ------------------------------
(***************************************************************************)
(* The entry points that replace malloc, free and realloc: which allocator *)
(* serves a call and which one a pointer goes back to, from the loading of *)
(* the library (the bootstrap arena, the lazy resolution of libc's         *)
(* functions with its re-entry through dlsym) through normal operation to  *)
(* the calls that arrive after the destructor.                             *)
(*                                                                         *)
(* A thread's calls nest, so each thread has a stack of frames, innermost  *)
(* first. What a routine does and how chunks are counted is abstracted:    *)
(* a segment is one address, and the reaper may give it back when nobody   *)
(* holds it (SegmentHeap has the details). libc does not run out of memory *)
(* and dlsym finds its functions. The shadow validator is compiled in; in  *)
(* the build without it, its two steps do nothing.                         *)
(***************************************************************************)
EXTENDS Naturals, Sequences, Functions

CONSTANTS
    Threads,
    Addrs,       \* addresses that libc, or mmap for a segment, can return
    BootCap,     \* chunks that fit g_bootstrap
    Null,        \* nullptr
    TABLE_SIZE, Home   \* slots and hash of the shadow validator's table

INSTANCE ShadowTable

Boots == 1..BootCap                   \* chunks of g_bootstrap
Ptrs  == Addrs \cup Boots \cup {Null}
Funs  == {"malloc", "free", "realloc"}

ASSUME InterposeAssumption ==
    /\ BootCap \in Nat /\ Null \notin Addrs \cup Boots /\ Addrs \cap Boots = {}
    /\ TABLE_SIZE \in Nat \ {0} /\ Home \in [Addrs -> Slots]

VARIABLES
    g_initialized,
    g_shutting_down,
    real,          \* which of g_real_malloc, real_free, g_real_realloc are set
    guard,         \* reentrancy_guard of each thread
    boot_used,     \* g_bootstrap_used
    owner,         \* who an address belongs to: "none", "libc" or "seg"
    pagemap,       \* what seg::is_managed recognises
    reaping,       \* the segment the reaper has unregistered, or Null
    shadow,        \* g_table of the shadow validator
    held,          \* pointers in the hands of the program
    dropped,       \* managed chunks whose free was ignored
    stack,         \* calls in progress
    life           \* "loaded", "starting", "up", "stopping" or "down"

heapVars == <<owner, pagemap, reaping, dropped, shadow>>
lifeVars == <<g_initialized, g_shutting_down, life>>
vars == <<lifeVars, real, guard, boot_used, heapVars, held, stack>>

Init ==
    /\ g_initialized = FALSE /\ g_shutting_down = FALSE
    /\ real = {} /\ guard = [t \in Threads |-> FALSE] /\ boot_used = 0
    /\ owner = [a \in Addrs |-> "none"] /\ pagemap = {} /\ reaping = Null
    /\ held = {} /\ dropped = {} /\ shadow = EmptyTable
    /\ stack = [t \in Threads |-> <<>>]
    /\ life = "loaded"

-----------------------------------------------------------------------------
(* Calls and returns.                                                       *)

\* A call of fn with argument p; zero: realloc is asked for zero bytes.
Frame(fn, p, zero) == [fn |-> fn, at |-> "enter", p |-> p, zero |-> zero, out |-> Null]

At(t, fn, label) == stack[t] # <<>> /\ stack[t][1].fn = fn /\ stack[t][1].at = label
Arg(t) == stack[t][1].p

Moved(t, label) == <<[stack[t][1] EXCEPT !.at = label]>> \o Tail(stack[t])
Goto(t, label) ==
    /\ stack' = [stack EXCEPT ![t] = Moved(t, label)]
    /\ UNCHANGED held

\* The caller goes on at label when the callee has returned.
Call(t, label, frame) ==
    /\ stack' = [stack EXCEPT ![t] = <<frame>> \o Moved(t, label)]
    /\ UNCHANGED held

\* v goes to the caller: the program, dlsym, or a realloc, which keeps it.
Return(t, v) ==
    LET callers == Tail(stack[t])
        toProgram == callers = <<>> \/ callers[1].fn = "resolve"
    IN  /\ stack' = [stack EXCEPT ![t] =
                        IF toProgram \/ stack[t][1].fn # "malloc" THEN callers
                        ELSE <<[callers[1] EXCEPT !.out = v]>> \o Tail(callers)]
        /\ held' = IF toProgram THEN held \cup ({v} \ {Null}) ELSE held

\* The program, or dlsym, allocates, frees or resizes something it holds. A
\* size of zero makes a difference for libc's memory and managed chunks.
Enters(t) ==
    \/ /\ stack' = [stack EXCEPT ![t] = <<Frame("malloc", Null, FALSE)>> \o @]
       /\ UNCHANGED held
    \/ \E p \in held :
        /\ stack' = [stack EXCEPT ![t] = <<Frame("free", p, FALSE)>> \o @]
        /\ held' = held \ {p}
    \/ \E p \in held \cup {Null} : \E zero \in {z \in BOOLEAN : z => p \in Addrs} :
        /\ stack' = [stack EXCEPT ![t] = <<Frame("realloc", p, zero)>> \o @]
        /\ held' = held \ {p}

\* Addresses somebody may use or is about to give back, and those lost. The
\* argument of a realloc that is done has been given back.
InUse ==
    LET frames == UNION {Range(stack[t]) : t \in Threads}
    IN  held \cup dropped \cup {f.out : f \in frames}
            \cup {f.p : f \in {x \in frames : x.at # "done"}}

Managed(p) == p \in pagemap

\* Faulty variant of BootstrapFits: one chunk too many.
BootstrapFitsOffByOne == boot_used <= BootCap

\* bootstrap_alloc: off + aligned <= sizeof(g_bootstrap)
BootstrapFits == boot_used < BootCap

\* bootstrap_alloc; a full arena stays full.
BootstrapAlloc(t) ==
    IF BootstrapFits
    THEN boot_used' = boot_used + 1 /\ Return(t, boot_used + 1)
    ELSE UNCHANGED boot_used /\ Return(t, Null)

-----------------------------------------------------------------------------
(* resolve_real_allocators.                                                 *)

\* Faulty variant of ResolveEnter: re-entry is not noticed.
ResolveEnterUnguarded(t) ==
    /\ At(t, "resolve", "enter")
    /\ guard' = [guard EXCEPT ![t] = TRUE]
    /\ Goto(t, "malloc")
    /\ UNCHANGED <<lifeVars, real, boot_used, heapVars>>

\* A call from inside dlsym leaves the pointers as they are.
ResolveEnter(t) ==
    /\ At(t, "resolve", "enter")
    /\ IF guard[t] THEN Return(t, Null) /\ UNCHANGED guard
       ELSE Goto(t, "malloc") /\ guard' = [guard EXCEPT ![t] = TRUE]
    /\ UNCHANGED <<lifeVars, real, boot_used, heapVars>>

After == [malloc |-> "free", free |-> "realloc", realloc |-> "end"]

\* dlsym may call the entry points again ...
DlsymReenters(t, f) ==
    /\ At(t, "resolve", f) /\ f \notin real
    /\ Enters(t)
    /\ UNCHANGED <<lifeVars, real, guard, boot_used, heapVars>>

\* ... and finds the function, unless it has been found before.
DlsymFinds(t, f) ==
    /\ At(t, "resolve", f)
    /\ real' = real \cup {f}
    /\ Goto(t, After[f])
    /\ UNCHANGED <<lifeVars, guard, boot_used, heapVars>>

ResolveEnd(t) ==
    /\ At(t, "resolve", "end")
    /\ guard' = [guard EXCEPT ![t] = FALSE]
    /\ Return(t, Null)
    /\ UNCHANGED <<lifeVars, real, boot_used, heapVars>>

Resolve(t) ==
    \/ ResolveEnter(t) \/ ResolveEnd(t)
    \/ \E f \in Funs : DlsymReenters(t, f) \/ DlsymFinds(t, f)

\* What malloc, free and realloc do first: before tbjit_init is done, make
\* sure that libc's function is known and take the direct path.
Preamble(t, fn) ==
    /\ At(t, fn, "enter")
    /\ \/ g_initialized /\ Goto(t, "gate")
       \/ ~g_initialized /\ fn \in real /\ Goto(t, "direct")
       \/ ~g_initialized /\ fn \notin real /\ Call(t, "direct", Frame("resolve", Null, FALSE))
    /\ UNCHANGED <<lifeVars, real, guard, boot_used, heapVars>>

-----------------------------------------------------------------------------
(* malloc.                                                                  *)

\* libc hands out memory that belongs to nobody.
LibcTakes(a) ==
    /\ owner[a] = "none"
    /\ owner' = [owner EXCEPT ![a] = "libc"]

\* Before initialisation: libc, or the bootstrap arena inside dlsym.
MallocDirect(t) ==
    /\ At(t, "malloc", "direct")
    /\ IF "malloc" \in real THEN Goto(t, "libc") /\ UNCHANGED boot_used
       ELSE BootstrapAlloc(t)
    /\ UNCHANGED <<lifeVars, real, guard, heapVars>>

\* After the destructor has begun, and for tbjit's own calls: libc.
MallocGate(t) ==
    /\ At(t, "malloc", "gate")
    /\ IF g_shutting_down \/ guard[t] THEN Goto(t, "libc") /\ UNCHANGED guard
       ELSE Goto(t, "serve") /\ guard' = [guard EXCEPT ![t] = TRUE]
    /\ UNCHANGED <<lifeVars, real, boot_used, heapVars>>

\* The routine or libc has served the call with a.
Served(t, a) ==
    /\ stack' = [stack EXCEPT ![t] = <<[@[1] EXCEPT !.out = a, !.at = "validate"]>> \o Tail(@)]
    /\ UNCHANGED held

\* The routine hands out a chunk, of a segment it has or of a new one.
ServeChunk(t, a) ==
    /\ At(t, "malloc", "serve")
    /\ a \notin InUse
    /\ owner[a] = "none" \/ Managed(a)
    /\ owner' = [owner EXCEPT ![a] = "seg"]
    /\ pagemap' = pagemap \cup {a}
    /\ Served(t, a)
    /\ UNCHANGED <<lifeVars, real, guard, boot_used, reaping, dropped, shadow>>

\* No routine is installed, or its guard fails: libc serves.
ServeGeneric(t, a) ==
    /\ At(t, "malloc", "serve")
    /\ LibcTakes(a)
    /\ Served(t, a)
    /\ UNCHANGED <<lifeVars, real, guard, boot_used, pagemap, reaping, dropped, shadow>>

\* Faulty variant of ValidateAlloc: libc's blocks are put on record too.
ValidateAllocAll(t) ==
    LET p == stack[t][1].out
    IN  /\ At(t, "malloc", "validate")
        /\ ~Aborts(shadow, p)
        /\ shadow' = Place(shadow, p)
        /\ guard' = [guard EXCEPT ![t] = FALSE]
        /\ Return(t, p)
        /\ UNCHANGED <<lifeVars, real, boot_used, owner, pagemap, reaping, dropped>>

\* validate_alloc: managed chunks are put on record; a process that aborts
\* takes no further step.
ValidateAlloc(t) ==
    LET p == stack[t][1].out
    IN  /\ At(t, "malloc", "validate")
        /\ Managed(p) => ~Aborts(shadow, p)
        /\ shadow' = IF Managed(p) THEN Place(shadow, p) ELSE shadow
        /\ guard' = [guard EXCEPT ![t] = FALSE]
        /\ Return(t, p)
        /\ UNCHANGED <<lifeVars, real, boot_used, owner, pagemap, reaping, dropped>>

LibcMalloc(t, a) ==
    /\ At(t, "malloc", "libc")
    /\ LibcTakes(a)
    /\ Return(t, a)
    /\ UNCHANGED <<lifeVars, real, guard, boot_used, pagemap, reaping, dropped, shadow>>

Malloc(t) ==
    \/ Preamble(t, "malloc") \/ MallocDirect(t) \/ MallocGate(t) \/ ValidateAlloc(t)
    \/ \E a \in Addrs : ServeChunk(t, a) \/ ServeGeneric(t, a) \/ LibcMalloc(t, a)

-----------------------------------------------------------------------------
(* free.                                                                    *)

\* A bootstrap chunk is never freed.
FreeBootstrap(t) ==
    /\ At(t, "free", "enter") /\ Arg(t) \in Boots
    /\ Return(t, Null)
    /\ UNCHANGED <<lifeVars, real, guard, boot_used, heapVars>>

\* Before initialisation: libc, if it is known.
FreeDirect(t) ==
    /\ At(t, "free", "direct")
    /\ IF "free" \in real THEN Goto(t, "libc") ELSE Return(t, Null)
    /\ UNCHANGED <<lifeVars, real, guard, boot_used, heapVars>>

\* Faulty variant of FreeGate: everything goes to libc once the destructor runs.
FreeGateLibc(t) ==
    /\ At(t, "free", "gate")
    /\ IF g_shutting_down \/ guard[t] THEN Goto(t, "libc") /\ UNCHANGED guard
       ELSE Goto(t, "validate") /\ guard' = [guard EXCEPT ![t] = TRUE]
    /\ UNCHANGED <<lifeVars, real, boot_used, heapVars>>

\* After the destructor has begun a managed chunk is dropped and libc's goes to
\* libc; tbjit's own calls go to libc.
FreeGate(t) ==
    /\ At(t, "free", "gate")
    /\ \/ /\ g_shutting_down
          /\ IF Managed(Arg(t)) THEN Return(t, Null) /\ dropped' = dropped \cup {Arg(t)}
             ELSE Goto(t, "libc") /\ UNCHANGED dropped
          /\ UNCHANGED guard
       \/ /\ ~g_shutting_down /\ guard[t]
          /\ Goto(t, "libc")
          /\ UNCHANGED <<guard, dropped>>
       \/ /\ ~g_shutting_down /\ ~guard[t]
          /\ Goto(t, "validate")
          /\ guard' = [guard EXCEPT ![t] = TRUE]
          /\ UNCHANGED dropped
    /\ UNCHANGED <<lifeVars, real, boot_used, owner, pagemap, reaping, shadow>>

\* validate_free: a managed chunk is taken off the record.
ValidateFree(t) ==
    /\ At(t, "free", "validate")
    /\ shadow' = IF Arg(t) \in Addrs THEN Erase(shadow, Arg(t)) ELSE shadow
    /\ Goto(t, "route")
    /\ UNCHANGED <<lifeVars, real, guard, boot_used, owner, pagemap, reaping, dropped>>

\* The pagemap decides.
FreeRoute(t) ==
    /\ At(t, "free", "route")
    /\ Goto(t, IF Managed(Arg(t)) THEN "managed" ELSE "unmanaged")
    /\ UNCHANGED <<lifeVars, real, guard, boot_used, heapVars>>

\* Faulty variant of FreeManaged: the guard is not reset.
FreeManagedKeepsGuard(t) ==
    /\ At(t, "free", "managed")
    /\ Return(t, Null)
    /\ UNCHANGED <<lifeVars, real, guard, boot_used, heapVars>>

\* free_managed: the chunk goes back to its segment.
FreeManaged(t) ==
    /\ At(t, "free", "managed")
    /\ guard' = [guard EXCEPT ![t] = FALSE]
    /\ Return(t, Null)
    /\ UNCHANGED <<lifeVars, real, boot_used, heapVars>>

\* libc's free aborts on memory that is not libc's: the call never returns.
LibcReleases(p) ==
    /\ owner[p] = "libc"
    /\ owner' = [owner EXCEPT ![p] = "none"]

LibcFree(t) ==
    /\ At(t, "free", "libc") \/ At(t, "free", "unmanaged")
    /\ LibcReleases(Arg(t))
    /\ guard' = [guard EXCEPT ![t] = @ /\ At(t, "free", "libc")]
    /\ Return(t, Null)
    /\ UNCHANGED <<lifeVars, real, boot_used, pagemap, reaping, dropped, shadow>>

Free(t) ==
    \/ FreeBootstrap(t)
    \/ stack[t] # <<>> /\ Arg(t) \notin Boots /\ Preamble(t, "free")
    \/ FreeDirect(t) \/ FreeGate(t) \/ ValidateFree(t) \/ FreeRoute(t) \/ FreeManaged(t) \/ LibcFree(t)

-----------------------------------------------------------------------------
(* realloc.                                                                 *)

\* A bootstrap chunk is copied to a new block and stays where it is.
ReallocBootstrap(t) ==
    /\ At(t, "realloc", "enter") /\ Arg(t) \in Boots
    /\ Call(t, "done", Frame("malloc", Null, FALSE))
    /\ UNCHANGED <<lifeVars, real, guard, boot_used, heapVars>>

\* Before initialisation; inside dlsym libc's realloc may be unknown.
ReallocDirect(t) ==
    /\ At(t, "realloc", "direct")
    /\ \/ "realloc" \in real /\ Goto(t, "libc") /\ UNCHANGED boot_used
       \/ "realloc" \notin real /\ Arg(t) # Null /\ Return(t, Arg(t)) /\ UNCHANGED boot_used
       \/ "realloc" \notin real /\ Arg(t) = Null /\ BootstrapAlloc(t)
    /\ UNCHANGED <<lifeVars, real, guard, heapVars>>

\* Faulty variant of ReallocGate: the pagemap is not consulted.
ReallocGateLibc(t) ==
    /\ At(t, "realloc", "gate")
    /\ IF g_shutting_down \/ guard[t] \/ Arg(t) # Null THEN Goto(t, "libc")
       ELSE Call(t, "done", Frame("malloc", Null, FALSE))
    /\ UNCHANGED <<lifeVars, real, guard, boot_used, heapVars>>

\* A managed chunk migrates through malloc and free, libc's go to libc; after
\* the destructor has begun, and for tbjit's own calls, everything does.
ReallocGate(t) ==
    /\ At(t, "realloc", "gate")
    /\ IF g_shutting_down \/ guard[t] THEN Goto(t, "libc")
       ELSE \/ Arg(t) = Null /\ Call(t, "done", Frame("malloc", Null, FALSE))
            \/ Managed(Arg(t)) /\ stack[t][1].zero /\ Call(t, "done", Frame("free", Arg(t), FALSE))
            \/ Managed(Arg(t)) /\ ~stack[t][1].zero /\ Call(t, "copy", Frame("malloc", Null, FALSE))
            \/ Arg(t) # Null /\ ~Managed(Arg(t)) /\ Goto(t, "libc")
    /\ UNCHANGED <<lifeVars, real, guard, boot_used, heapVars>>

\* The contents are copied, then the old chunk is freed.
ReallocCopy(t) ==
    /\ At(t, "realloc", "copy")
    /\ Call(t, "done", Frame("free", Arg(t), FALSE))
    /\ UNCHANGED <<lifeVars, real, guard, boot_used, heapVars>>

ReallocDone(t) ==
    /\ At(t, "realloc", "done")
    /\ Return(t, stack[t][1].out)
    /\ UNCHANGED <<lifeVars, real, guard, boot_used, heapVars>>

\* libc's realloc allocates, frees, resizes in place or moves; it aborts on
\* memory that is not libc's.
LibcRealloc(t) ==
    /\ At(t, "realloc", "libc")
    /\ \/ \E a \in Addrs : Arg(t) = Null /\ LibcTakes(a) /\ Return(t, a)
       \/ Arg(t) # Null /\ stack[t][1].zero /\ LibcReleases(Arg(t)) /\ Return(t, Null)
       \/ /\ Arg(t) # Null /\ ~stack[t][1].zero /\ owner[Arg(t)] = "libc"
          /\ \/ Return(t, Arg(t)) /\ UNCHANGED owner
             \/ \E a \in Addrs :
                 /\ owner[a] = "none"
                 /\ owner' = [owner EXCEPT ![a] = "libc", ![Arg(t)] = "none"]
                 /\ Return(t, a)
    /\ UNCHANGED <<lifeVars, real, guard, boot_used, pagemap, reaping, dropped, shadow>>

Realloc(t) ==
    \/ ReallocBootstrap(t)
    \/ stack[t] # <<>> /\ Arg(t) \notin Boots /\ Preamble(t, "realloc")
    \/ ReallocDirect(t) \/ ReallocGate(t) \/ ReallocCopy(t) \/ ReallocDone(t)
    \/ LibcRealloc(t)

-----------------------------------------------------------------------------
(* The program, the life of the library and the reaper.                     *)

Program(t) ==
    /\ stack[t] = <<>>
    /\ Enters(t)
    /\ UNCHANGED <<lifeVars, real, guard, boot_used, heapVars>>

\* Faulty variant of InitBegin: leaves resolution to the first malloc.
InitBeginLazy(t) ==
    /\ life = "loaded" /\ stack[t] = <<>>
    /\ life' = "starting"
    /\ stack' = [stack EXCEPT ![t] = <<Frame("init", Null, FALSE)>>]
    /\ UNCHANGED <<g_initialized, g_shutting_down, real, guard, boot_used, heapVars, held>>

\* tbjit_init begins by resolving libc's functions ...
InitBegin(t) ==
    /\ life = "loaded" /\ stack[t] = <<>>
    /\ life' = "starting"
    /\ stack' = [stack EXCEPT ![t] = <<Frame("resolve", Null, FALSE), Frame("init", Null, FALSE)>>]
    /\ UNCHANGED <<g_initialized, g_shutting_down, real, guard, boot_used, heapVars, held>>

\* ... and opens the instrumented path when the subsystems are up.
InitEnd(t) ==
    /\ At(t, "init", "enter")
    /\ g_initialized' = TRUE
    /\ life' = "up"
    /\ Return(t, Null)
    /\ UNCHANGED <<g_shutting_down, real, guard, boot_used, heapVars>>

\* tbjit_fini closes the gate before anything is torn down.
FiniBegin ==
    /\ life = "up"
    /\ g_shutting_down' = TRUE
    /\ life' = "stopping"
    /\ UNCHANGED <<g_initialized, real, guard, boot_used, heapVars, held, stack>>

\* The background thread is joined.
FiniEnd ==
    /\ life = "stopping" /\ reaping = Null
    /\ life' = "down"
    /\ UNCHANGED <<g_initialized, g_shutting_down, real, guard, boot_used, heapVars, held, stack>>

\* reaper_sweep, on an empty segment: out of the pagemap ...
ReapUnregister(a) ==
    /\ life \in {"up", "stopping"} /\ reaping = Null
    /\ Managed(a) /\ a \notin InUse
    /\ pagemap' = pagemap \ {a}
    /\ reaping' = a
    /\ UNCHANGED <<lifeVars, real, guard, boot_used, owner, dropped, shadow, held, stack>>

\* ... and back to the system, where libc can get it.
ReapUnmap ==
    /\ reaping # Null
    /\ owner' = [owner EXCEPT ![reaping] = "none"]
    /\ reaping' = Null
    /\ UNCHANGED <<lifeVars, real, guard, boot_used, pagemap, dropped, shadow, held, stack>>

Next ==
    \/ \E t \in Threads : \/ Program(t) \/ InitBegin(t) \/ InitEnd(t)
                          \/ Resolve(t) \/ Malloc(t) \/ Free(t) \/ Realloc(t)
    \/ FiniBegin \/ FiniEnd \/ ReapUnmap
    \/ \E a \in Addrs : ReapUnregister(a)

Spec == Init /\ [][Next]_vars

-----------------------------------------------------------------------------
(* Properties.                                                              *)

Frames == [fn : Funs \cup {"resolve", "init"},
           at : Funs \cup {"enter", "direct", "gate", "serve", "libc", "validate", "route",
                           "managed", "unmanaged", "copy", "done", "end"},
           p : Ptrs, zero : BOOLEAN, out : Ptrs]

\* Every variable holds a value of its type, and no pointer lies beyond the
\* end of the bootstrap arena.
TypeOK ==
    /\ g_initialized \in BOOLEAN /\ g_shutting_down \in BOOLEAN
    /\ real \subseteq Funs /\ guard \in [Threads -> BOOLEAN]
    /\ boot_used \in 0..BootCap
    /\ owner \in [Addrs -> {"none", "libc", "seg"}]
    /\ pagemap \subseteq Addrs /\ reaping \in Addrs \cup {Null}
    /\ held \subseteq Ptrs \ {Null} /\ dropped \subseteq Addrs
    /\ shadow \in [Slots -> Addrs \cup {Null}]
    /\ stack \in [Threads -> Seq(Frames)]
    /\ life \in {"loaded", "starting", "up", "stopping", "down"}

\* free gives a pointer to the allocator it came from, in whatever phase of
\* the library it was allocated and is freed: libc never gets a bootstrap or
\* managed chunk, and free_managed nothing but a chunk of a segment, although
\* libc may get the memory of a segment that was reaped.
FreeReachesOwner ==
    \A t \in Threads :
        /\ At(t, "free", "libc") \/ At(t, "free", "unmanaged") =>
               Arg(t) \in Addrs /\ owner[Arg(t)] = "libc"
        /\ At(t, "free", "managed") => Arg(t) \in Addrs /\ owner[Arg(t)] = "seg"

\* No function of libc is called through a pointer that is not set, although
\* the calls after initialisation do not test it.
ResolvedBeforeUse ==
    \A t \in Threads :
        /\ At(t, "malloc", "libc") \/ At(t, "malloc", "serve") => "malloc" \in real
        /\ At(t, "free", "libc") \/ At(t, "free", "validate") => "free" \in real
        /\ At(t, "realloc", "libc") => "realloc" \in real

\* The calls dlsym makes do not resolve again: calls nest at most six deep
\* (realloc of a bootstrap chunk, malloc, resolve, and the same from dlsym).
RecursionBounded == \A t \in Threads : Len(stack[t]) <= 6

\* The sections that run under the reentrancy guard.
Guarded(f) ==
    \/ f.fn = "malloc" /\ f.at \in {"serve", "validate"}
    \/ f.fn = "free" /\ f.at \in {"validate", "route", "managed", "unmanaged"}
    \/ f.fn = "resolve" /\ f.at # "enter"

\* A thread's guard is set exactly while one of its calls is in such a
\* section: no path leaves it set, which would send every later call of the
\* thread to libc, and no nested call clears the guard of an outer one.
GuardExact ==
    \A t \in Threads :
        guard[t] <=> \E i \in 1..Len(stack[t]) : Guarded(stack[t][i])

\* realloc hands to libc's realloc, which would abort, no pointer that is not
\* libc's, as long as the destructor has not begun: in whatever phase it was
\* allocated, and although libc may own the memory of a segment that was reaped.
ReallocReachesOwner ==
    \A t \in Threads :
        At(t, "realloc", "libc") /\ ~g_shutting_down =>
            Arg(t) = Null \/ owner[Arg(t)] = "libc"

\* The shadow validator speaks the truth, whatever the size and the hash of its
\* table. An entry is a managed chunk that somebody still has, so the table is
\* reported full only if TABLE_SIZE chunks are in use at once, and a search
\* finds it, wherever entries were removed before. Every managed chunk the program
\* holds is on record; one that is handed out is not yet and one that is freed
\* still is: no DUP is reported falsely, and none overlooked, although frees
\* are ignored once the destructor has begun.
ShadowExact ==
    /\ \A i \in Slots : shadow[i] # Null =>
        SlotOf(shadow, shadow[i]) = i /\ Managed(shadow[i]) /\ shadow[i] \in InUse
    /\ \A a \in held : Managed(a) => Recorded(shadow, a)
    /\ \A t \in Threads :
        /\ At(t, "malloc", "validate") /\ Managed(stack[t][1].out) =>
               ~Recorded(shadow, stack[t][1].out)
        /\ At(t, "free", "validate") /\ Managed(Arg(t)) => Recorded(shadow, Arg(t))
=============================================================================
