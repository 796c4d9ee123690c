------------------------------- MODULE Picker -------------------------------
(***************************************************************************)
(* The picker: what the analysis learns about each call site from the      *)
(* traced events, when it decides that the site is worth a compiled        *)
(* routine and of which strategy, when it takes the decision back, and     *)
(* what the exit dump reports. Beside it the same events are fed to the    *)
(* analysis of tbjit_replay --oracle, which never takes a decision back.   *)
(* The live library reads the knobs of the picker from the environment;    *)
(* the replay does not call init() and keeps their defaults.               *)
(*                                                                         *)
(* All of this runs on one thread, an event at a time. Rings drop events   *)
(* when they are full and are drained one after the other, so any sequence *)
(* of events can arrive: an allocation of an address already on record, a  *)
(* free of one that is not. An allocation of size 0, or of a size that is  *)
(* 0 in 32 bits, is traced like a free, so Frees stands for these, too.    *)
(***************************************************************************)
EXTENDS Histogram, Sequences, SequencesExt

CONSTANTS
    Allocs,          \* traced allocations: [site, tid, size, ptr]
    Frees,           \* traced frees: [site, tid, ptr]
    NoPtr,           \* nullptr
    NoSite, NoTid,   \* CallSiteID 0 and tid 0, before the first event
    LiveKnobs,       \* g_window_size, g_stable_windows and c_alpha as init() set them
    DefaultKnobs,    \* their defaults (1000, 10 and alpha = 0.05)
    DeoptLimit,      \* g_deopt_blacklist_limit (3)
    MaxSites,        \* MAX_CALL_SITES (4096)
    LifoCap,         \* slots of lifo_stack (16)
    PtrWidth,        \* sizeof(void*)
    ReapPct, HoldPct,       \* LIFETIME_REAP_RATIO, LIFETIME_HOLD_RATIO (50, 10)
    TidPct, PairPct, LifoPct,  \* PC_TID_CONCENTRATION, PAIRED_* (95 each)
    MonoPct, CoverPct,      \* is_monomorphic's and MULTI_CLASS_COVERAGE (95, 90)
    MaxClasses,      \* MULTI_CLASS_MAX (4)
    Forced,          \* strategy_override(); "Generic" without TBJIT_FORCE_STRATEGY
    TraceOnly,       \* g_trace_only
    MaxAllocs,       \* bound on the recorded allocations of each kind
    MaxFrees,        \* bound on the attributed frees of each kind
    MaxResets        \* bound on the guard failures reported for each site

Sites == {a.site : a \in Allocs} \cup {f.site : f \in Frees}
Tids  == {a.tid : a \in Allocs} \cup {f.tid : f \in Frees}
Ptrs  == {f.ptr : f \in Frees}     \* addresses of libc chunks

\* crit is 1000 * c_alpha^2.
Knobs == [window : Nat \ {0}, stable : Nat \ {0}, crit : Nat]

Strategies == {"Generic", "BumpAlloc", "ThreadLocalFreeList", "EpochArena",
               "PairedStack", "ProducerConsumer", "MultiSizeFreeList"}

ASSUME PickerAssumption ==
    /\ LiveKnobs \in Knobs /\ DefaultKnobs \in Knobs
    /\ {DeoptLimit, MaxSites, LifoCap, PtrWidth, MaxClasses} \subseteq Nat \ {0}
    /\ {ReapPct, HoldPct, TidPct, PairPct, LifoPct, MonoPct, CoverPct} \subseteq 1..100
    /\ Forced \in Strategies /\ TraceOnly \in BOOLEAN
    /\ IsFiniteSet(Allocs) /\ IsFiniteSet(Frees) /\ \A a \in Allocs : a.size \in Nat
    /\ NoPtr \notin Ptrs /\ \A a \in Allocs : a.ptr \in Ptrs \cup {NoPtr}
    /\ NoSite \notin Sites /\ NoTid \notin Tids

VARIABLES
    g_summaries,   \* the sites on record, in order of their first event
    oracle,        \* the same in an oracle replay of the trace
    served,        \* sites for which a routine has ever been installed
    seen           \* what really happened, for the properties to compare with

vars == <<g_summaries, oracle, served, seen>>

NewSummary(id) ==
    [id |-> id, phase |-> "PreSpec", event_count |-> 0, free_count |-> 0,
     stable_windows |-> 0, deopt_count |-> 0, blacklisted |-> FALSE,
     deopt_reason |-> "None", lifetime |-> "Unknown", first_compile_events |-> 0,
     alloc_dist |-> NoVotes(NoTid), free_dist |-> NoVotes(NoTid),
     windows |-> [i \in 0..1 |-> EmptyHist], active |-> 0, classes |-> {},
     lifo_stack |-> <<>>, top_pair |-> NoVotes(NoSite), lifo_count |-> 0,
     baseline |-> EmptyHist, post_window |-> EmptyHist,
     candidate |-> "Generic", code_page |-> FALSE]

\* The index of a site, 0 if it is not on record.
Find(sums, id) == SelectInSeq(sums, LAMBDA s : s.id = id)

\* The sum of F over the elements of a sequence or the values of a function.
SumOver(fun, F(_)) == SumFunction([i \in DOMAIN fun |-> F(fun[i])])

\* Faulty variant of FindOrCreate: does not look for the site first.
FindOrCreateAppends(sums, id) ==
    IF Len(sums) >= MaxSites THEN sums ELSE Append(sums, NewSummary(id))

FindOrCreate(sums, id) ==
    IF Find(sums, id) # 0 \/ Len(sums) >= MaxSites THEN sums
    ELSE Append(sums, NewSummary(id))

\* The knobs of the live process, and those of a replay.
KnobsOf(isOracle) == IF isOracle THEN DefaultKnobs ELSE LiveKnobs

\* SizeWindow::full. A window's count is its histogram's total: sizes that
\* the histogram would not record do not get this far.
Full(w, knobs) == w.total >= knobs.window

-----------------------------------------------------------------------------
(* advance_prespec: the active window is full.                              *)

\* The windows change roles and the new active one starts over.
SwapWindows(s) ==
    [s EXCEPT !.active = 1 - @, !.windows[1 - s.active] = EmptyHist]

LifetimeTag(s) ==
    IF 100 * s.free_count >= ReapPct * s.event_count THEN "Reap"
    ELSE IF 100 * s.free_count < HoldPct * s.event_count THEN "Hold"
    ELSE "Unknown"

Concentrated(v, total) == total > 0 /\ 100 * v.score >= TidPct * total

PcPattern(s) ==
    /\ Concentrated(s.alloc_dist, s.event_count)
    /\ Concentrated(s.free_dist, s.free_count)
    /\ s.alloc_dist.top # s.free_dist.top

\* Faulty variant of PairedPattern: the pairs are a share of the frees.
PairedPatternOfFrees(s) ==
    /\ s.top_pair.score > 0
    /\ 100 * s.top_pair.score >= PairPct * s.free_count
    /\ 100 * s.lifo_count >= LifoPct * s.top_pair.score

PairedPattern(s) ==
    /\ s.top_pair.score > 0
    /\ 100 * s.top_pair.score >= PairPct * s.event_count
    /\ 100 * s.lifo_count >= LifoPct * s.top_pair.score

\* The strategy for a site whose active window is h and whose lifetime is tag.
Candidate(s, h, tag) ==
    IF Forced # "Generic" THEN Forced
    ELSE IF PairedPattern(s) THEN "PairedStack"
    ELSE IF PcPattern(s) THEN "ProducerConsumer"
    ELSE IF IsMonomorphic(h, MonoPct)
         THEN IF tag # "Hold" /\ DominantSize(h) >= PtrWidth
              THEN "ThreadLocalFreeList" ELSE "BumpAlloc"
    ELSE IF Cardinality(TopKModes(h, MaxClasses, CoverPct)) >= 2
         THEN "MultiSizeFreeList" ELSE "ThreadLocalFreeList"

\* codegen::compile returns a routine: a free list needs chunks that can hold a
\* pointer. (It also fails when the compile slots are used up: CodeCache.)
Compiles(strategy, size, classes) ==
    /\ size > 0 /\ size < MAX_SIZE /\ strategy # "Generic"
    /\ strategy = "ThreadLocalFreeList" => size >= PtrWidth
    /\ strategy = "MultiSizeFreeList" =>
          /\ Cardinality(classes) \in 1..4
          /\ \A c \in classes : c >= PtrWidth

Specialize(s) ==
    LET h       == s.windows[s.active]
        tag     == LifetimeTag(s)
        chosen  == Candidate(s, h, tag)
        classes == TopKModes(h, MaxClasses, CoverPct)
    IN  [s EXCEPT !.baseline = h, !.lifetime = tag, !.classes = classes,
                  !.candidate = chosen, !.phase = "Compiled",
                  !.first_compile_events = IF @ = 0 THEN s.event_count ELSE @,
                  !.code_page = @ \/ Compiles(chosen, DominantSize(h), classes)]

\* Faulty variant of MayCompile: a blacklisted site is compiled again.
MayCompileAlways(s, isOracle) == isOracle \/ ~TraceOnly

\* Trace-only capture is a mode of the live library, not of the replay.
MayCompile(s, isOracle) == ~s.blacklisted /\ (isOracle \/ ~TraceOnly)

\* Faulty variant of Stable: an empty previous window will do.
StableAlways(s, knobs) ==
    LET prev == s.windows[1 - s.active]
    IN  prev.total = 0 \/ KsStable(s.windows[s.active], prev, knobs.crit)

Stable(s, knobs) ==
    KsStable(s.windows[s.active], s.windows[1 - s.active], knobs.crit)

AdvancePrespec(s, isOracle) ==
    LET once == [s EXCEPT !.stable_windows = @ + 1]
        none == [s EXCEPT !.stable_windows = 0]
        knobs == KnobsOf(isOracle)
    IN  IF ~Stable(s, knobs) THEN SwapWindows(none)
        ELSE IF once.stable_windows < knobs.stable THEN SwapWindows(once)
        ELSE IF MayCompile(s, isOracle) THEN Specialize(once)
        ELSE SwapWindows(none)

-----------------------------------------------------------------------------
(* process_event.                                                           *)

\* Back to square one, except for the post-compile window.
StartOver(s) ==
    [s EXCEPT !.phase = "Deopt", !.stable_windows = 0, !.active = 0,
              !.windows = [i \in 0..1 |-> EmptyHist]]

\* Faulty variant of CheckPostspec: the mode is tested the wrong way round.
CheckPostspecInverted(s, isOracle) ==
    IF ~isOracle \/ KsStable(s.post_window, s.baseline, KnobsOf(isOracle).crit)
    THEN [s EXCEPT !.post_window = EmptyHist]
    ELSE [StartOver(s) EXCEPT !.deopt_reason = "SizeDrift", !.post_window = EmptyHist]

\* check_postspec: the sizes traced since drifted off the baseline. The oracle
\* does not mind.
CheckPostspec(s, isOracle) ==
    IF isOracle \/ KsStable(s.post_window, s.baseline, LiveKnobs.crit)
    THEN [s EXCEPT !.post_window = EmptyHist]
    ELSE [StartOver(s) EXCEPT !.deopt_reason = "SizeDrift",
                              !.post_window = EmptyHist]

\* The last LifoCap addresses; nullptr is not pushed.
PushLifo(stack, ptr) ==
    IF ptr = NoPtr THEN stack
    ELSE IF Len(stack) < LifoCap THEN Append(stack, ptr)
    ELSE Append(Tail(stack), ptr)

RecordSize(s, size, isOracle) ==
    IF s.phase = "PreSpec"
    THEN LET t == [s EXCEPT !.windows[s.active] = HistRecord(@, size)]
         IN  IF Full(t.windows[t.active], KnobsOf(isOracle))
             THEN AdvancePrespec(t, isOracle) ELSE t
    ELSE LET t == [s EXCEPT !.post_window = HistRecord(@, size)]
         IN  IF Full(t.post_window, KnobsOf(isOracle))
             THEN CheckPostspec(t, isOracle) ELSE t

RecordAlloc(s, a, isOracle) ==
    RecordSize([s EXCEPT !.event_count = @ + 1,
                         !.alloc_dist = Vote(@, a.tid),
                         !.lifo_stack = PushLifo(@, a.ptr),
                         !.phase = IF @ = "Deopt" THEN "PreSpec" ELSE @],
               a.size, isOracle)

\* process_event of an allocation.
ProcessAlloc(sums, a, isOracle) ==
    LET all == FindOrCreate(sums, a.site)
        i   == Find(all, a.site)
    IN  IF a.size >= MAX_SIZE \/ i = 0 THEN sums
        ELSE [all EXCEPT ![i] = RecordAlloc(@, a, isOracle)]

\* ptr is the youngest address on record for s.
LifoTop(s, ptr) == s.lifo_stack # <<>> /\ Last(s.lifo_stack) = ptr

\* A free that is attributed to s, by whatever means.
RecordFree(s, f) ==
    [s EXCEPT !.free_count = @ + 1, !.free_dist = Vote(@, f.tid)]

\* Faulty variant of RecordPair: the address stays on the stack.
RecordPairKeeps(s, f) ==
    [s EXCEPT !.top_pair = Vote(@, f.site), !.lifo_count = @ + 1]

\* Its freeing site is voted on; a free in LIFO order is taken off the stack.
RecordPair(s, f) ==
    LET pair  == Vote(s.top_pair, f.site)
        fresh == pair.top # s.top_pair.top /\ s.top_pair.score = 1
        count == IF fresh THEN 0 ELSE s.lifo_count
    IN  [s EXCEPT !.top_pair = pair,
                  !.lifo_stack = IF LifoTop(s, f.ptr) THEN Front(@) ELSE @,
                  !.lifo_count = IF LifoTop(s, f.ptr) /\ pair.top = f.site
                                 THEN count + 1 ELSE count]

\* process_event of a free of a libc chunk: the first site on record with the
\* address on top of its stack is taken for the one that allocated it.
ProcessFree(sums, f) ==
    LET i == SelectInSeq(sums, LAMBDA s : LifoTop(s, f.ptr))
    IN  IF i = 0 THEN sums
        ELSE [sums EXCEPT ![i] = RecordPair(RecordFree(@, f), f)]

\* process_event of a free of a managed chunk: its segment names the site.
ProcessManagedFree(sums, f, id) ==
    LET all == FindOrCreate(sums, id)
        i   == Find(all, id)
    IN  IF i = 0 THEN sums ELSE [all EXCEPT ![i] = RecordFree(@, f)]

\* reset_call_site, for one entry of the deopt queue.
ResetCallSite(sums, id, reason) ==
    [i \in DOMAIN sums |->
        IF i # Find(sums, id) THEN sums[i]
        ELSE [StartOver(sums[i]) EXCEPT
                !.deopt_count = @ + 1,
                !.blacklisted = @ \/ sums[i].deopt_count + 1 >= DeoptLimit,
                !.deopt_reason = IF reason # "Other" \/ @ = "None" THEN reason ELSE @,
                !.code_page = FALSE]]
-----------------------------------------------------------------------------
(* The background thread, an event or a queue entry at a time.              *)

Init ==
    /\ g_summaries = <<>> /\ oracle = <<>>
    /\ served = {}
    /\ seen = [allocs |-> [a \in Allocs |-> 0],
               frees  |-> [s \in Sites |-> [f \in Frees |-> 0]],
               managed |-> [s \in Sites |-> [f \in Frees |-> 0]]]

NoteRoutines ==
    served' = served \cup {s.id : s \in {x \in Range(g_summaries') : x.code_page}}

\* The environment stops after so many events of a kind.
FreesSeen(f) == SumOver(seen.frees, LAMBDA n : n[f]) + SumOver(seen.managed, LAMBDA n : n[f])

AllocEvent(a) ==
    /\ seen.allocs[a] < MaxAllocs[a]
    /\ g_summaries' = ProcessAlloc(g_summaries, a, FALSE)
    /\ oracle' = ProcessAlloc(oracle, a, TRUE)
    /\ NoteRoutines
    /\ seen' = IF g_summaries' = g_summaries THEN seen
               ELSE [seen EXCEPT !.allocs[a] = @ + 1]

FreeEvent(f) ==
    /\ FreesSeen(f) < MaxFrees[f]
    /\ g_summaries' = ProcessFree(g_summaries, f)
    /\ oracle' = ProcessFree(oracle, f)
    /\ seen' = LET i == SelectInSeq(g_summaries, LAMBDA s : LifoTop(s, f.ptr))
               IN  IF i = 0 THEN seen
                   ELSE [seen EXCEPT !.frees[g_summaries[i].id][f] = @ + 1]
    /\ UNCHANGED served

\* A chunk that a routine of site id served. In a replay its address is
\* nobody's: no segment is mapped there, and no stack has it.
ManagedFreeEvent(f, id) ==
    /\ id \in served /\ FreesSeen(f) < MaxFrees[f]
    /\ g_summaries' = ProcessManagedFree(g_summaries, f, id)
    /\ seen' = [seen EXCEPT !.managed[id][f] = @ + 1]
    /\ UNCHANGED <<oracle, served>>

\* The reason compiled into a routine's guard.
Reason(strategy) ==
    IF strategy \in {"BumpAlloc", "PairedStack"} THEN "RegionExhaust" ELSE "SizeDrift"

\* drain_pending takes an entry off the deopt queue: a guard of a routine of
\* the site failed, now or some cycles ago. No guard fails in a replay.
GuardFailed(id) ==
    LET s == g_summaries[Find(g_summaries, id)]
    IN  /\ id \in served
        /\ s.deopt_count < MaxResets
        /\ g_summaries' = ResetCallSite(g_summaries, id, Reason(s.candidate))
        /\ UNCHANGED <<oracle, served, seen>>

Next ==
    \/ \E a \in Allocs : AllocEvent(a)
    \/ \E f \in Frees : FreeEvent(f)
    \/ \E f \in Frees, id \in Sites : ManagedFreeEvent(f, id)
    \/ \E id \in Sites : GuardFailed(id)

Spec == Init /\ [][Next]_vars

-----------------------------------------------------------------------------
(* What is reported: the exit dump, and capturable() after a replay.        *)

SitesWith(sums, P(_)) == Cardinality({i \in DOMAIN sums : P(sums[i])})

\* Faulty variant of PhaseName: the blacklist is not looked at.
PhaseNameOnly(s) == s.phase

PhaseName(s) == IF s.blacklisted THEN "Blacklisted" ELSE s.phase

\* What the table and the JSON file say of a site. The sizes are those it was
\* compiled for, or those of its active window.
SiteLine(s) ==
    LET h == IF s.phase = "Compiled" THEN s.baseline ELSE s.windows[s.active]
    IN  [id |-> s.id, events |-> s.event_count, frees |-> s.free_count,
         p50 |-> Quantile(h, 50), p95 |-> Quantile(h, 95), p99 |-> Quantile(h, 99),
         phase |-> PhaseName(s), strategy |-> s.candidate, lifetime |-> s.lifetime,
         deopts |-> s.deopt_count, deopt_reason |-> s.deopt_reason,
         first_compile_events |-> s.first_compile_events]

BuildSummary(sums) ==
    LET live(s) == s.phase = "Compiled" /\ ~s.blacklisted
    IN  [total        |-> Len(sums),
         total_events |-> SumOver(sums, LAMBDA s : s.event_count),
         total_frees  |-> SumOver(sums, LAMBDA s : s.free_count),
         by_phase     |->
            [Blacklisted |-> SitesWith(sums, LAMBDA s : s.blacklisted),
             Compiled    |-> SitesWith(sums, live),
             Deopt       |-> SitesWith(sums, LAMBDA s : ~s.blacklisted /\ s.phase = "Deopt"),
             PreSpec     |-> SitesWith(sums, LAMBDA s : ~s.blacklisted /\ s.phase = "PreSpec")],
         by_strategy  |-> [c \in Strategies |->
                              SitesWith(sums, LAMBDA s : live(s) /\ s.candidate = c)],
         by_lifetime  |-> [t \in {"Unknown", "Reap", "Hold"} |->
                              SitesWith(sums, LAMBDA s : live(s) /\ s.lifetime = t)]]

\* The sites that were compiled, now or earlier.
EverCompiled(sums) == {i \in DOMAIN sums : sums[i].first_compile_events # 0}

\* fces[k], when sorted: the smallest that more than k of them do not exceed.
CompileAt(sums, k) ==
    LET fces    == {sums[i].first_compile_events : i \in EverCompiled(sums)}
        upTo(x) == Cardinality({i \in EverCompiled(sums) :
                                   sums[i].first_compile_events <= x})
        beyond  == {x \in fces : upTo(x) > k}
    IN  CHOOSE x \in beyond : \A y \in beyond : x <= y

\* print_summary: after how many events the sites were first compiled.
EventsToSpecialize(sums) ==
    LET n == Cardinality(EverCompiled(sums))
    IN  [n |-> n, min |-> CompileAt(sums, 0), p50 |-> CompileAt(sums, n \div 2),
         p95 |-> CompileAt(sums, (n * 95) \div 100), max |-> CompileAt(sums, n - 1)]

\* capturable(): allocations of sites that are Compiled at the end.
CapturedEvents(sums) ==
    SumOver(sums, LAMBDA s : IF s.phase = "Compiled" THEN s.event_count ELSE 0)

-----------------------------------------------------------------------------
(* Properties.                                                              *)

Votes(S) == [top : S, score : Nat]

\* Every field of a summary holds a value of its C++ type, and no more stable
\* windows are counted than are needed.
IsSummary(s, knobs) ==
    /\ s.id \in Sites /\ s.phase \in {"PreSpec", "Compiled", "Deopt"}
    /\ {s.event_count, s.free_count, s.deopt_count, s.first_compile_events,
        s.lifo_count} \subseteq Nat
    /\ s.stable_windows \in 0..knobs.stable /\ s.active \in 0..1
    /\ s.blacklisted \in BOOLEAN /\ s.code_page \in BOOLEAN
    /\ s.deopt_reason \in {"None", "SizeDrift", "RegionExhaust"}
    /\ s.lifetime \in {"Unknown", "Reap", "Hold"} /\ s.candidate \in Strategies
    /\ {s.alloc_dist, s.free_dist} \subseteq Votes(Tids \cup {NoTid})
    /\ s.top_pair \in Votes(Sites \cup {NoSite})
    /\ s.lifo_stack \in Seq(Ptrs) /\ Len(s.lifo_stack) <= LifoCap
    /\ s.classes \subseteq Nat /\ Cardinality(s.classes) <= MaxClasses
    /\ \A h \in {s.windows[0], s.windows[1], s.post_window, s.baseline} : IsHistogram(h)

\* A table with room for its sites, each on record once.
TableOK(sums, knobs) ==
    /\ Len(sums) <= MaxSites
    /\ \A i \in DOMAIN sums : IsSummary(sums[i], knobs) /\ Find(sums, sums[i].id) = i

\* The summaries are well typed, and the fixed-size arrays are never overrun:
\* the summaries, the size entries of a window, the LIFO stack and the learned
\* classes. A site is on record once.
TypeOK == TableOK(g_summaries, LiveKnobs) /\ TableOK(oracle, DefaultKnobs)

\* The vote v is what the counts allow.
VoteSound(v, counts, total) ==
    /\ total > 0 => v.score > 0 /\ v.score <= counts[v.top]
    /\ \A x \in DOMAIN counts : 2 * counts[x] <= total + (IF x = v.top THEN v.score ELSE 0)

\* What was really seen of a site: allocations and frees by thread, frees of
\* libc chunks by freeing site.
AllocsBy(id) == [t \in Tids |-> SumFunctionOnSet(seen.allocs,
                                    {a \in Allocs : a.site = id /\ a.tid = t})]
FreesBy(id) == [t \in Tids |->
    LET F == {f \in Frees : f.tid = t}
    IN  SumFunctionOnSet(seen.frees[id], F) + SumFunctionOnSet(seen.managed[id], F)]
PairsBy(id) == [s \in Sites |-> SumFunctionOnSet(seen.frees[id],
                                    {f \in Frees : f.site = s})]

\* The three votes (allocating threads, freeing threads, freeing sites) tell the
\* truth, as far as they go: the leader's score is no more than its events and no
\* less than its lead over all the others, and whoever has more than half of the
\* events leads.
VotesSound ==
    \A s \in Range(g_summaries) :
        /\ VoteSound(s.alloc_dist, AllocsBy(s.id), s.event_count)
        /\ VoteSound(s.free_dist, FreesBy(s.id), s.free_count)
        /\ VoteSound(s.top_pair, PairsBy(s.id), SumFunction(seen.frees[s.id]))

\* Frees are attributed by address, to stacks that may be out of date, but no
\* site is ever charged with more frees of libc chunks than it had
\* allocations, those on its stack not counted. Hence free_count of a site that
\* was never compiled is at most event_count.
FreesConserved ==
    \A s \in Range(g_summaries) :
        SumFunction(seen.frees[s.id]) + Len(s.lifo_stack) <= s.event_count

\* The windows of s are full, pass the test and are the ones it was learned from.
Evident(s, knobs) ==
    /\ s.baseline = s.windows[s.active]
    /\ KsStable(s.windows[0], s.windows[1], knobs.crit)
    /\ \A i \in 0..1 : Mass(s.windows[i], Tracked(s.windows[i])) = knobs.window

\* A site is Compiled on the evidence of two consecutive full windows that
\* pass the test, each of whose events has been counted, and as long as it
\* stays Compiled these are the windows it keeps: nothing recorded before or
\* after a deoptimisation gets into them.
CompiledOnEvidence ==
    /\ \A s \in Range(g_summaries) : s.phase = "Compiled" => Evident(s, LiveKnobs)
    /\ \A s \in Range(oracle) : s.phase = "Compiled" => Evident(s, DefaultKnobs)

\* A blacklisted site is not compiled any more.
BlacklistFinal == \A s \in Range(g_summaries) : s.blacklisted => s.phase # "Compiled"

\* The knobs set for the live process ask for no less than the defaults do.
KnobsNoLooser ==
    /\ LiveKnobs.window = DefaultKnobs.window
    /\ LiveKnobs.stable >= DefaultKnobs.stable
    /\ LiveKnobs.crit <= DefaultKnobs.crit

\* What an oracle replay reports is an upper bound of what the live picker
\* captured: the replay has seen the same allocations, and each site that is
\* Compiled live is Compiled in the replay, deoptimised in between or not. The
\* code does not ensure it for knobs that are looser than the defaults, or for
\* another window size.
OracleUpperBound ==
    /\ \A i \in DOMAIN g_summaries :
          /\ oracle[i].id = g_summaries[i].id
          /\ oracle[i].event_count = g_summaries[i].event_count
          /\ g_summaries[i].phase = "Compiled" => oracle[i].phase = "Compiled"
    /\ CapturedEvents(oracle) >= CapturedEvents(g_summaries)

\* The exit dump adds up: the lines of the table tally with the summary, which
\* counts phases by a chain of conditions of its own; no event is missing or
\* counted twice, across deoptimisations; a compiled site has a strategy; and
\* the percentiles printed are in order, none of the compilations after fewer
\* events than the stable windows take.
ReportAddsUp ==
    LET r     == BuildSummary(g_summaries)
        lines == [i \in DOMAIN g_summaries |-> SiteLine(g_summaries[i])]
        e     == EventsToSpecialize(g_summaries)
    IN  /\ \A p \in DOMAIN r.by_phase :
              r.by_phase[p] = SitesWith(lines, LAMBDA l : l.phase = p)
        /\ r.total_events = SumFunction(seen.allocs)
        /\ r.total_frees = SumOver(seen.frees, SumFunction) + SumOver(seen.managed, SumFunction)
        /\ r.by_strategy["Generic"] = 0
        /\ \A l \in Range(lines) : l.p50 <= l.p95 /\ l.p95 <= l.p99
        /\ r.by_phase.Compiled > 0 =>
              /\ e.n >= r.by_phase.Compiled
              /\ (LiveKnobs.stable + 1) * LiveKnobs.window <= e.min
              /\ e.min <= e.p50 /\ e.p50 <= e.p95 /\ e.p95 <= e.max

\* A strategy that relies on who frees is chosen, unless it is forced, only if
\* that is what happened: a PairedStack site's allocations were freed in LIFO
\* order, from one freeing site, and a ProducerConsumer site's by one thread and
\* allocated by another.
StrategyEarned ==
    [][\A i \in DOMAIN g_summaries :
        LET id == g_summaries[i].id
            s  == g_summaries'[i]
        IN  (Forced = "Generic" /\ g_summaries[i].phase # "Compiled" /\ s.phase = "Compiled") =>
            /\ s.candidate = "PairedStack" =>
                  \E f \in Sites : 100 * PairsBy(id)[f] >= PairPct * s.event_count
            /\ s.candidate = "ProducerConsumer" =>
                  \E t, u \in Tids : /\ t # u
                                     /\ 100 * AllocsBy(id)'[t] >= TidPct * s.event_count
                                     /\ 100 * FreesBy(id)[u] >= TidPct * s.free_count]_vars
=============================================================================
