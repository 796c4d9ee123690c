----------------------------- MODULE SegmentHeap -----------------------------
(***************************************************************************)
(* The chunks that compiled routines hand out: per-thread free lists and   *)
(* bump regions carved from segments, frees by other threads through a     *)
(* segment's remote queue, the retirement of a drained segment, and the    *)
(* reaper, which gives a segment back when its chunk count says so.        *)
(*                                                                         *)
(* A bin is one free-list head in thread-local storage: one per slot of a  *)
(* ThreadLocalFreeList routine, one per size class of a MultiSizeFreeList  *)
(* routine (ListBins); or a bump region: of a ProducerConsumer routine,    *)
(* which gets a new segment when one is full (PcBins), of a BumpAlloc or   *)
(* PairedStack routine, which is deoptimised then (BumpBins, PairedBins),  *)
(* or of an EpochArena routine, which starts over (ArenaBins). Lists are   *)
(* sets: no property depends on the order of chunks.                       *)
(***************************************************************************)
EXTENDS Naturals, FiniteSets

CONSTANTS
    Threads,      \* threads that allocate and free
    ListBins,     \* bins served by freelist_refill and multi_refill
    PcBins,       \* bins served by pc_refill
    BumpBins,     \* bins served by bump_slow_init
    PairedBins,   \* bins served by paired_slow_init
    ArenaBins,    \* bins served by arena_reset_alloc
    Segs,         \* segment-aligned addresses that mmap can return
    NoSeg,        \* nullptr
    NoBin,        \* header field of an address never used as a segment
    NoThread,     \* tid 0
    ChunksPerSeg, \* chunks_in_segment
    CountMod,     \* 2^32: live_chunks is a uint32_t
    MaxSegments,  \* MAX_SEGMENTS (4096): capacity of the reaper's index
    ReapMode      \* reap_mode(): "Conservative", "Eager" or "Madvise"

ASSUME HeapAssumption ==
    /\ ChunksPerSeg \in Nat \ {0} /\ CountMod \in Nat /\ CountMod > ChunksPerSeg
    /\ MaxSegments \in Nat
    /\ ReapMode \in {"Conservative", "Eager", "Madvise"}
    /\ \A i, j \in 1..5 :
          LET kind == <<ListBins, PcBins, BumpBins, PairedBins, ArenaBins>>
          IN  NoBin \notin kind[i] /\ (i # j => kind[i] \cap kind[j] = {})
    /\ NoSeg \notin Segs /\ NoThread \notin Threads

OnceBins == BumpBins \cup PairedBins \cup ArenaBins   \* one segment for ever
Bins   == ListBins \cup PcBins \cup OnceBins
Chunks == Segs \X (1..ChunksPerSeg)
SegOf(c) == c[1]
ChunksOf(s) == {s} \X (1..ChunksPerSeg)
NoChunk == <<NoSeg, 0>>

VARIABLES
    mapped,       \* segments that are mapped
    managed,      \* the pagemap: segments is_managed() recognises
    g_index,      \* segments the reaper knows
    owner_tid,    \* header: the thread that carved the segment
    bin,          \* header: slot_index and class_idx
    retired,      \* header
    live_chunks,  \* header: chunks to come back, counted from retirement on
    remote_head,  \* header: the MPSC queue of chunks freed by other threads
    decommitted,  \* header
    heads,        \* tl_freelists[].head, tl_multi_freelists[].heads[]
    bumped,       \* tl_bumps[].ptr: chunks handed out of the bump region
    segs,         \* the active segment of each thread's bin
    user,         \* chunks in the hands of the program
    pc,           \* where each thread stands
    chunk,        \* the chunk a thread is freeing
    work,         \* the bin a thread is refilling
    count,        \* the chunk count a refill is about to store
    eligible,     \* reaper_sweep: segments to give back
    reaping       \* free_segment: unregistered, not yet unmapped

headerVars == <<owner_tid, bin, retired, live_chunks, remote_head, decommitted>>
indexVars  == <<mapped, managed, g_index>>
tlsVars    == <<heads, bumped, segs>>
localVars  == <<pc, chunk, work, count>>
reapVars   == <<eligible, reaping>>
vars == <<headerVars, indexVars, tlsVars, localVars, reapVars, user>>

Init ==
    /\ mapped = {} /\ managed = {} /\ g_index = {}
    /\ owner_tid = [s \in Segs |-> NoThread]
    /\ bin = [s \in Segs |-> NoBin]
    /\ retired = [s \in Segs |-> FALSE]
    /\ live_chunks = [s \in Segs |-> 0]
    /\ remote_head = [s \in Segs |-> {}]
    /\ decommitted = [s \in Segs |-> FALSE]
    /\ heads = [t \in Threads |-> [b \in Bins |-> {}]]
    /\ bumped = [t \in Threads |-> [b \in Bins |-> 0]]
    /\ segs = [t \in Threads |-> [b \in Bins |-> NoSeg]]
    /\ user = {}
    /\ pc = [t \in Threads |-> "run"]
    /\ chunk = [t \in Threads |-> NoChunk]
    /\ work = [t \in Threads |-> NoBin]
    /\ count = [t \in Threads |-> 0]
    /\ eligible = {} /\ reaping = NoSeg

-----------------------------------------------------------------------------
(* Allocation. Thread-local state needs no synchronisation; what a refill   *)
(* writes to the header of the old segment is read by others.               *)

\* The routine pops the head of the thread's own free list.
PopHead(t, b) ==
    /\ pc[t] = "run" /\ b \in ListBins
    /\ \E c \in heads[t][b] :
        /\ heads' = [heads EXCEPT ![t][b] = @ \ {c}]
        /\ user' = user \cup {c}
    /\ UNCHANGED <<headerVars, indexVars, bumped, segs, localVars, reapVars>>

\* The bounds check of a bump routine; a region that does not exist has none.
HasRoom(t, b) == segs[t][b] # NoSeg /\ bumped[t][b] < ChunksPerSeg

\* The routine advances the thread's bump pointer.
BumpChunk(t, b) ==
    /\ pc[t] = "run" /\ b \notin ListBins /\ HasRoom(t, b)
    /\ bumped' = [bumped EXCEPT ![t][b] = @ + 1]
    /\ user' = user \cup {<<segs[t][b], bumped[t][b] + 1>>}
    /\ UNCHANGED <<headerVars, indexVars, heads, segs, localVars, reapVars>>

\* arena_reset_alloc: the region ran out and is handed out again from its
\* base. Its contract makes every pointer from before the reset invalid: the
\* program no longer holds them.
ArenaReset(t, b) ==
    /\ pc[t] = "run" /\ b \in ArenaBins
    /\ segs[t][b] # NoSeg /\ ~HasRoom(t, b)
    /\ bumped' = [bumped EXCEPT ![t][b] = 1]
    /\ user' = (user \ ChunksOf(segs[t][b])) \cup {<<segs[t][b], 1>>}
    /\ UNCHANGED <<headerVars, indexVars, heads, segs, localVars, reapVars>>

\* A bin without a segment: carve the first one.
FirstRefill(t, b) ==
    /\ pc[t] = "run" /\ segs[t][b] = NoSeg
    /\ work' = [work EXCEPT ![t] = b]
    /\ pc' = [pc EXCEPT ![t] = "carve"]
    /\ UNCHANGED <<headerVars, indexVars, tlsVars, chunk, count, reapVars, user>>

\* Faulty variant of MpscHarvest: the queue is read, not taken.
MpscHarvestLoad(s) == remote_head

\* mpsc_harvest: exchange the head of the queue with nullptr.
MpscHarvest(s) == [remote_head EXCEPT ![s] = {}]

\* freelist_refill, multi_refill: the list ran out. Take over the remote queue
\* of the active segment; if it is empty every chunk is out, so retire it.
Harvest(t, b) ==
    /\ pc[t] = "run" /\ b \in ListBins
    /\ heads[t][b] = {} /\ segs[t][b] # NoSeg
    /\ LET queue == remote_head[segs[t][b]]
       IN  \/ /\ queue # {}
              /\ remote_head' = MpscHarvest(segs[t][b])
              /\ \E c \in queue :
                  /\ heads' = [heads EXCEPT ![t][b] = queue \ {c}]
                  /\ user' = user \cup {c}
              /\ UNCHANGED <<pc, work, count>>
           \/ /\ queue = {}
              /\ work' = [work EXCEPT ![t] = b]
              /\ count' = [count EXCEPT ![t] = ChunksPerSeg]
              /\ pc' = [pc EXCEPT ![t] = "count"]
              /\ UNCHANGED <<remote_head, heads, user>>
    /\ UNCHANGED <<owner_tid, bin, retired, live_chunks, decommitted, indexVars,
                   bumped, segs, chunk, reapVars>>

\* The header's bump_ptr, which pc_refill takes for the number of chunks
\* served: it is set to one chunk when the segment is carved, and the routine
\* advances only the thread-local copy.
ServedMirror == 1

\* pc_refill: the region ran out. Drain the remote queue and take what it held
\* off the number of chunks served.
PcHarvest(t, b) ==
    /\ pc[t] = "run" /\ b \in PcBins
    /\ segs[t][b] # NoSeg /\ ~HasRoom(t, b)
    /\ LET drained == Cardinality(remote_head[segs[t][b]])
       IN  count' = [count EXCEPT ![t] = IF ServedMirror > drained
                                         THEN ServedMirror - drained ELSE 0]
    /\ remote_head' = MpscHarvest(segs[t][b])
    /\ work' = [work EXCEPT ![t] = b]
    /\ pc' = [pc EXCEPT ![t] = "count"]
    /\ UNCHANGED <<owner_tid, bin, retired, live_chunks, decommitted, indexVars,
                   tlsVars, chunk, reapVars, user>>

\* Retirement stores the count ...
StoreLiveChunks(t) ==
    /\ pc[t] = "count"
    /\ live_chunks' = [live_chunks EXCEPT ![segs[t][work[t]]] = count[t]]
    /\ pc' = [pc EXCEPT ![t] = "retire"]
    /\ UNCHANGED <<owner_tid, bin, retired, remote_head, decommitted, indexVars,
                   tlsVars, chunk, work, count, reapVars, user>>

\* ... and then the flag that makes it count.
SetRetired(t) ==
    /\ pc[t] = "retire"
    /\ retired' = [retired EXCEPT ![segs[t][work[t]]] = TRUE]
    /\ pc' = [pc EXCEPT ![t] = "carve"]
    /\ UNCHANGED <<owner_tid, bin, live_chunks, remote_head, decommitted,
                   indexVars, tlsVars, chunk, work, count, reapVars, user>>

\* Faulty variant of IndexHasRoom: one segment too many.
IndexHasRoomOffByOne == Cardinality(g_index) <= MaxSegments

\* register_segment: g_index_count < MAX_SEGMENTS
IndexHasRoom == Cardinality(g_index) < MaxSegments

\* register_segment: past MAX_SEGMENTS the reaper never hears of it.
RegisterSegment(s) ==
    /\ managed' = managed \cup {s}
    /\ g_index' = IF IndexHasRoom THEN g_index \cup {s} ELSE g_index

\* alloc_segment: map a segment and fill in its header.
AllocSegment(t, b, s) ==
    /\ s \notin mapped
    /\ mapped' = mapped \cup {s}
    /\ owner_tid' = [owner_tid EXCEPT ![s] = t]
    /\ bin' = [bin EXCEPT ![s] = b]
    /\ retired' = [retired EXCEPT ![s] = FALSE]
    /\ live_chunks' = [live_chunks EXCEPT ![s] = 0]
    /\ remote_head' = [remote_head EXCEPT ![s] = {}]
    /\ decommitted' = [decommitted EXCEPT ![s] = FALSE]
    /\ RegisterSegment(s)

\* A refill chops the segment into a list and returns one chunk ...
CarveList(t, b, s) ==
    /\ b \in ListBins
    /\ \E c \in ChunksOf(s) :
        /\ heads' = [heads EXCEPT ![t][b] = ChunksOf(s) \ {c}]
        /\ user' = user \cup {c}
    /\ UNCHANGED bumped

\* ... or makes it the bump region and returns the first one.
CarveRegion(t, b, s) ==
    /\ b \notin ListBins
    /\ bumped' = [bumped EXCEPT ![t][b] = 1]
    /\ user' = user \cup {<<s, 1>>}
    /\ UNCHANGED heads

\* The rest of a refill or slow_init: a new active segment and its first chunk.
Carve(t, s) ==
    /\ pc[t] = "carve"
    /\ AllocSegment(t, work[t], s)
    /\ CarveList(t, work[t], s) \/ CarveRegion(t, work[t], s)
    /\ segs' = [segs EXCEPT ![t][work[t]] = s]
    /\ work' = [work EXCEPT ![t] = NoBin]
    /\ count' = [count EXCEPT ![t] = 0]
    /\ pc' = [pc EXCEPT ![t] = "run"]
    /\ UNCHANGED <<chunk, reapVars>>

-----------------------------------------------------------------------------
(* Freeing: free_managed. The retired flag is read first and acted on later.*)

\* Faulty variant of OwnList: the owner is not compared.
OwnListAnyThread(t, s) == bin[s] \in ListBins

\* The chunk may go onto t's own free list: same thread, list strategy.
OwnList(t, s) == owner_tid[s] = t /\ bin[s] \in ListBins

\* A free-list chunk of t's own active segment goes straight back to the list.
FreeToList(t, c) ==
    /\ ~retired[SegOf(c)] /\ OwnList(t, SegOf(c))
    /\ heads' = [heads EXCEPT ![t][bin[SegOf(c)]] = @ \cup {c}]
    /\ UNCHANGED <<bumped, pc, chunk>>

\* Any other chunk that is counted: the flag is read, and acted on later.
FreeCounted(t, c) ==
    /\ bin[SegOf(c)] \in ListBins \cup PcBins
    /\ retired[SegOf(c)] \/ ~OwnList(t, SegOf(c))
    /\ chunk' = [chunk EXCEPT ![t] = c]
    /\ pc' = [pc EXCEPT ![t] = IF retired[SegOf(c)] THEN "dec" ELSE "push"]
    /\ UNCHANGED <<heads, bumped>>

\* Faulty variant of LifoTop: rewinds without comparing the pointers.
LifoTopUnchecked(t, c) ==
    bin[SegOf(c)] \in PairedBins /\ owner_tid[SegOf(c)] = t

\* paired_lifo_rewind: c is the chunk below the owner's bump pointer.
LifoTop(t, c) ==
    LET s == SegOf(c)
    IN  /\ bin[s] \in PairedBins /\ owner_tid[s] = t
        /\ c = <<segs[t][bin[s]], bumped[t][bin[s]]>>

\* A chunk of a bump region is dropped, unless the region can be rewound to it.
FreeOnce(t, c) ==
    /\ bin[SegOf(c)] \in OnceBins
    /\ bumped' = IF LifoTop(t, c)
                 THEN [bumped EXCEPT ![t][bin[SegOf(c)]] = @ - 1] ELSE bumped
    /\ UNCHANGED <<heads, pc, chunk>>

\* The program frees c: free_managed up to its first access to shared data
\* other than the header fields that never change.
Free(t, c) ==
    /\ pc[t] = "run" /\ c \in user
    /\ SegOf(c) \in managed /\ SegOf(c) \in mapped
    /\ user' = user \ {c}
    /\ FreeToList(t, c) \/ FreeCounted(t, c) \/ FreeOnce(t, c)
    /\ UNCHANGED <<headerVars, indexVars, segs, work, count, reapVars>>

FreeDone(t) ==
    /\ chunk' = [chunk EXCEPT ![t] = NoChunk]
    /\ pc' = [pc EXCEPT ![t] = "run"]

\* The segment was retired: count the chunk.
DecLiveChunks(t) ==
    /\ pc[t] = "dec" /\ SegOf(chunk[t]) \in mapped
    /\ live_chunks' = [live_chunks EXCEPT ![SegOf(chunk[t])] =
                          (@ + CountMod - 1) % CountMod]
    /\ FreeDone(t)
    /\ UNCHANGED <<owner_tid, bin, retired, remote_head, decommitted, indexVars,
                   tlsVars, work, count, reapVars, user>>

\* The segment was active when the flag was read: mpsc_push.
MpscPush(t) ==
    /\ pc[t] = "push" /\ SegOf(chunk[t]) \in mapped
    /\ remote_head' = [remote_head EXCEPT ![SegOf(chunk[t])] = @ \cup {chunk[t]}]
    /\ FreeDone(t)
    /\ UNCHANGED <<owner_tid, bin, retired, live_chunks, decommitted, indexVars,
                   tlsVars, work, count, reapVars, user>>

-----------------------------------------------------------------------------
(* The reaper, on the background thread.                                    *)

\* Faulty variant of Empty: every retired segment counts as empty.
EmptyIfRetired(s) == retired[s]

\* Faulty variant of Empty: takes the count for the one before the last free.
EmptyOffByOne(s) == retired[s] /\ live_chunks[s] = 1

\* Nothing of the segment is in use any more, as far as its header says.
Empty(s) == retired[s] /\ live_chunks[s] = 0

\* reaper_sweep takes the empty segments down, under the index lock. In
\* Conservative mode only those of call sites tagged Reap at the moment.
Sweep ==
    /\ eligible = {} /\ reaping = NoSeg
    /\ \E tagged \in IF ReapMode = "Conservative" THEN SUBSET Bins ELSE {Bins} :
        eligible' = {s \in g_index : /\ Empty(s) /\ bin[s] \in tagged
                                     /\ ~(ReapMode = "Madvise" /\ decommitted[s])}
    /\ UNCHANGED <<headerVars, indexVars, tlsVars, localVars, reaping, user>>

\* free_segment unregisters the segment ...
Unregister(s) ==
    /\ ReapMode # "Madvise" /\ s \in eligible /\ reaping = NoSeg
    /\ eligible' = eligible \ {s}
    /\ reaping' = s
    /\ managed' = managed \ {s}
    /\ g_index' = g_index \ {s}
    /\ UNCHANGED <<mapped, headerVars, tlsVars, localVars, user>>

\* ... and unmaps it.
Unmap ==
    /\ reaping # NoSeg
    /\ mapped' = mapped \ {reaping}
    /\ reaping' = NoSeg
    /\ UNCHANGED <<managed, g_index, headerVars, tlsVars, localVars, eligible, user>>

\* In Madvise mode the payload is given back, the segment stays.
Decommit(s) ==
    /\ ReapMode = "Madvise" /\ s \in eligible
    /\ eligible' = eligible \ {s}
    /\ decommitted' = [decommitted EXCEPT ![s] = TRUE]
    /\ UNCHANGED <<owner_tid, bin, retired, live_chunks, remote_head, indexVars,
                   tlsVars, localVars, reaping, user>>

Reaper == Sweep \/ Unmap \/ \E s \in Segs : Unregister(s) \/ Decommit(s)

Refill(t, b) ==
    FirstRefill(t, b) \/ Harvest(t, b) \/ PcHarvest(t, b) \/ ArenaReset(t, b)

\* Steps inside a malloc or a free that has begun.
Continue(t) ==
    \/ StoreLiveChunks(t) \/ SetRetired(t) \/ DecLiveChunks(t) \/ MpscPush(t)
    \/ \E s \in Segs : Carve(t, s)

Next ==
    \/ \E t \in Threads, b \in Bins : PopHead(t, b) \/ BumpChunk(t, b) \/ Refill(t, b)
    \/ \E t \in Threads, c \in Chunks : Free(t, c)
    \/ \E t \in Threads : Continue(t)
    \/ Reaper

Spec == Init /\ [][Next]_vars

\* The background thread keeps sweeping.
FairSpec == Spec /\ WF_vars(Reaper)

-----------------------------------------------------------------------------
(* Properties.                                                              *)

\* Every variable holds a value of its C++ type, and the fixed-size index of
\* segments never holds more than its capacity.
TypeOK ==
    /\ mapped \subseteq Segs /\ managed \subseteq Segs /\ g_index \subseteq Segs
    /\ Cardinality(g_index) <= MaxSegments
    /\ owner_tid \in [Segs -> Threads \cup {NoThread}]
    /\ bin \in [Segs -> Bins \cup {NoBin}]
    /\ retired \in [Segs -> BOOLEAN] /\ decommitted \in [Segs -> BOOLEAN]
    /\ live_chunks \in [Segs -> 0..(CountMod - 1)]
    /\ remote_head \in [Segs -> SUBSET Chunks]
    /\ heads \in [Threads -> [Bins -> SUBSET Chunks]]
    /\ bumped \in [Threads -> [Bins -> 0..ChunksPerSeg]]
    /\ segs \in [Threads -> [Bins -> Segs \cup {NoSeg}]]
    /\ user \subseteq Chunks
    /\ pc \in [Threads -> {"run", "count", "retire", "carve", "dec", "push"}]
    /\ chunk \in [Threads -> Chunks \cup {NoChunk}]
    /\ work \in [Threads -> Bins \cup {NoBin}]
    /\ count \in [Threads -> 0..ChunksPerSeg]
    /\ eligible \subseteq Segs /\ reaping \in Segs \cup {NoSeg}

\* Chunks in the hands of a free that has not completed.
Freeing == {chunk[t] : t \in {u \in Threads : pc[u] \in {"dec", "push"}}}

\* Chunks that a thread can still touch: held by the program, being freed, or
\* on a free list waiting to be handed out again.
InUse == user \cup Freeing \cup UNION {heads[t][b] : t \in Threads, b \in Bins}

\* The reaper never takes a segment away under a chunk in use: it is mapped,
\* its payload is not decommitted, and is_managed() recognises it, so that
\* free() does not pass the pointer to libc.
InUseIntact ==
    \A c \in InUse : /\ SegOf(c) \in mapped /\ SegOf(c) \in managed
                     /\ ~decommitted[SegOf(c)]

\* The part of a bump region that has not been handed out.
Unserved(t, b) ==
    IF b \notin ListBins /\ segs[t][b] # NoSeg
    THEN {segs[t][b]} \X ((bumped[t][b] + 1)..ChunksPerSeg) ELSE {}

\* The places chunk c is in, by name.
Holders(c) ==
    {h \in {<<"user">>}               : c \in user}
    \cup {h \in {"freeing"} \X Threads       : c = chunk[h[2]]}
    \cup {h \in {"list"} \X Threads \X Bins  : c \in heads[h[2]][h[3]]}
    \cup {h \in {"bump"} \X Threads \X Bins  : c \in Unserved(h[2], h[3])}
    \cup {h \in {"remote"} \X mapped         : c \in remote_head[h[2]]}

\* No chunk is in two places, so none is handed out while it is in use: not by
\* a free list and a remote queue, nor by the lists of two threads or bins.
NoDoubleUse == \A c \in Chunks : Cardinality(Holders(c)) <= 1

\* live_chunks of a retired segment counts exactly its chunks that have not
\* come back, those stranded on its remote queue included.
CountExact ==
    \A s \in mapped :
        retired[s] =>
            live_chunks[s] =
                Cardinality(ChunksOf(s) \cap (user \cup Freeing \cup remote_head[s]))

\* A retired free-list segment all of whose chunks have come back is returned
\* to the operating system, provided the reaper's index has it.
ReturnedReaped ==
    \A s \in Segs :
        (/\ s \in g_index /\ retired[s] /\ bin[s] \in ListBins
         /\ ChunksOf(s) \cap (user \cup Freeing \cup remote_head[s]) = {})
        ~> (s \notin mapped \/ decommitted[s])

-----------------------------------------------------------------------------
(* What a comment of the code says and the code does not do.                *)

\* SegmentHeader: live_chunks is the number of "outstanding chunks (set at
\* retire)", so it is never below the number of chunks the program holds.
OutstandingCounted ==
    \A s \in mapped :
        retired[s] => live_chunks[s] >= Cardinality(ChunksOf(s) \cap user)
=============================================================================
