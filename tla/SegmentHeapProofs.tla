-------------------------- MODULE SegmentHeapProofs --------------------------
(***************************************************************************)
(* Proofs about SegmentHeap: the variables have their types; no chunk is   *)
(* ever in two places; and, as long as no routine is of the strategy       *)
(* ProducerConsumer, live_chunks of a retired segment is exact and the     *)
(* reaper never takes a segment away under a chunk in use.                 *)
(***************************************************************************)
EXTENDS SegmentHeap, FiniteSetTheorems, TLAPS

-----------------------------------------------------------------------------
(* The inductive invariant.                                                 *)

\* The bin has an active segment: it is not about to be replaced.
Active(t, b) == segs[t][b] # NoSeg /\ ~(pc[t] = "carve" /\ work[t] = b)

\* The chunks of a segment that the program holds, that are being freed or
\* that lie on the remote queue: what live_chunks has to count.
InHand(c, s) == c \in user \/ c \in remote_head[s] \/ \E t \in Threads : chunk[t] = c
Counted(s) == {c \in ChunksOf(s) : InHand(c, s)}

CountedBins == ListBins \cup PcBins   \* bins whose segments are retired

\* A refill in progress works on a bin whose list or region is used up, and
\* what it is about to store as the count is the size of the segment.
Refilling(t) ==
    /\ pc[t] \in {"count", "retire", "carve"} =>
          /\ work[t] \in Bins /\ heads[t][work[t]] = {}
          /\ segs[t][work[t]] # NoSeg =>
                /\ work[t] \in CountedBins
                /\ work[t] \in PcBins => bumped[t][work[t]] = ChunksPerSeg
    /\ pc[t] \in {"count", "retire"} =>
          /\ segs[t][work[t]] # NoSeg
          /\ work[t] \in ListBins => count[t] = ChunksPerSeg
    /\ pc[t] = "retire" /\ work[t] \in ListBins =>
          live_chunks[segs[t][work[t]]] = ChunksPerSeg

RefillInv == \A t \in Threads : Refilling(t)

\* A bin's active segment is its own, mapped and not retired; and a mapped
\* segment that is not retired is the active segment of the bin it was carved for.
OwnSeg(t, b) ==
    Active(t, b) => /\ segs[t][b] \in mapped /\ ~retired[segs[t][b]]
                    /\ owner_tid[segs[t][b]] = t /\ bin[segs[t][b]] = b
Carved(s) ==
    /\ owner_tid[s] \in Threads /\ bin[s] \in Bins
    /\ retired[s] => bin[s] \in CountedBins
    /\ ~retired[s] => /\ Active(owner_tid[s], bin[s])
                      /\ segs[owner_tid[s]][bin[s]] = s

ActiveInv ==
    /\ \A t \in Threads, b \in Bins : OwnSeg(t, b)
    /\ \A s \in mapped : Carved(s)

\* A free list holds chunks of its bin's active segment.
Listed(t, b) ==
    /\ heads[t][b] \subseteq ChunksOf(segs[t][b])
    /\ heads[t][b] # {} => Active(t, b) /\ b \in ListBins

ListInv == \A t \in Threads, b \in Bins : Listed(t, b)

\* Chunks in the hands of the program or of a free belong to mapped segments,
\* a chunk is counted off only when its segment is retired, and a remote queue
\* holds chunks of its own segment, which is one that uses it.
InFree(t) ==
    /\ chunk[t] # NoChunk <=> pc[t] \in {"dec", "push"}
    /\ chunk[t] # NoChunk =>
          SegOf(chunk[t]) \in mapped /\ bin[SegOf(chunk[t])] \in CountedBins
    /\ pc[t] = "dec" => retired[SegOf(chunk[t])]
Queued(s) ==
    /\ remote_head[s] \subseteq ChunksOf(s)
    /\ remote_head[s] # {} => s \in mapped /\ bin[s] \in CountedBins

FreeInv ==
    /\ \A c \in user : SegOf(c) \in mapped
    /\ \A t \in Threads : InFree(t)
    /\ \A s \in Segs : Queued(s)

\* No chunk is in two places.
ApartInv ==
    /\ \A t \in Threads : chunk[t] \notin user
    /\ \A t, u \in Threads : t # u /\ chunk[t] = chunk[u] => chunk[t] = NoChunk
    /\ \A t \in Threads, b \in Bins : \A c \in heads[t][b] :
          c \notin user /\ c \notin remote_head[SegOf(c)] /\ \A u \in Threads : chunk[u] # c
    /\ \A s \in Segs : \A c \in remote_head[s] : c \notin user /\ \A u \in Threads : chunk[u] # c

\* Nothing beyond the bump pointer has been handed out.
Beyond(t, b, c) == SegOf(c) = segs[t][b] /\ bumped[t][b] < c[2]

ServedInv ==
    \A t \in Threads, b \in Bins \ ListBins, c \in Chunks :
        Beyond(t, b, c) =>
            c \notin user /\ c \notin remote_head[SegOf(c)] /\ \A u \in Threads : chunk[u] # c

\* live_chunks of a retired free-list segment is exact; before it is retired
\* no chunk is missing.
CountOf(s) ==
    bin[s] \in ListBins =>
        /\ retired[s] => live_chunks[s] = Cardinality(Counted(s))
        /\ ~retired[s] => ChunksOf(s) \subseteq Counted(s) \cup heads[owner_tid[s]][bin[s]]

CountInv == \A s \in mapped : CountOf(s)

\* Nothing of the segment is left to touch.
Abandoned(s) == retired[s] /\ (bin[s] \in ListBins => Counted(s) = {})

\* What the reaper has decided to take is abandoned, and remains so.
ReapInv ==
    /\ IsFiniteSet(g_index) /\ eligible \subseteq g_index /\ g_index \subseteq managed
    /\ managed \subseteq mapped /\ mapped \subseteq managed \cup {reaping}
    /\ reaping \notin managed
    /\ reaping # NoSeg => reaping \in mapped /\ ReapMode # "Madvise"
    /\ \A s \in mapped : s \in eligible \/ s = reaping \/ decommitted[s] => Abandoned(s)

IInv ==
    /\ TypeOK /\ RefillInv /\ ActiveInv /\ ListInv /\ FreeInv /\ ApartInv
    /\ ServedInv /\ CountInv /\ ReapInv

-----------------------------------------------------------------------------
(* Facts about the constants.                                               *)

\* The kinds of bins are disjoint.
LEMMA Kinds ==
    /\ ListBins \cap PcBins = {} /\ ListBins \cap OnceBins = {} /\ PcBins \cap OnceBins = {}
    /\ ArenaBins \cap PairedBins = {} /\ NoBin \notin Bins
    /\ ArenaBins \subseteq OnceBins /\ PairedBins \subseteq OnceBins
    /\ ListBins \subseteq Bins /\ PcBins \subseteq Bins /\ OnceBins \subseteq Bins
<1> DEFINE kind == <<ListBins, PcBins, BumpBins, PairedBins, ArenaBins>>
<1>1. \A i, j \in 1..5 : NoBin \notin kind[i] /\ (i # j => kind[i] \cap kind[j] = {})
  BY HeapAssumption
<1>2. /\ NoBin \notin ListBins /\ NoBin \notin PcBins /\ NoBin \notin BumpBins
      /\ NoBin \notin PairedBins /\ NoBin \notin ArenaBins
  BY <1>1
<1>3. /\ ListBins \cap PcBins = {} /\ ListBins \cap BumpBins = {}
      /\ ListBins \cap PairedBins = {} /\ ListBins \cap ArenaBins = {}
  BY <1>1
<1>4. /\ PcBins \cap BumpBins = {} /\ PcBins \cap PairedBins = {}
      /\ PcBins \cap ArenaBins = {} /\ ArenaBins \cap PairedBins = {}
  BY <1>1
<1> QED
  BY <1>2, <1>3, <1>4 DEF Bins, OnceBins

\* The chunks of a segment.
LEMMA SegChunks ==
    ASSUME NEW s \in Segs
    PROVE  /\ ChunksOf(s) \subseteq Chunks /\ NoChunk \notin Chunks
           /\ IsFiniteSet(ChunksOf(s)) /\ Cardinality(ChunksOf(s)) = ChunksPerSeg
           /\ \A c \in Chunks : c \in ChunksOf(s) <=> SegOf(c) = s
           /\ \A i \in 1..ChunksPerSeg : <<s, i>> \in ChunksOf(s) /\ SegOf(<<s, i>>) = s
<1>0. ChunksPerSeg \in Nat
  BY HeapAssumption
<1>1. ChunksOf(s) \subseteq Chunks /\ NoChunk \notin Chunks
  BY HeapAssumption DEF ChunksOf, Chunks, NoChunk
<1>2. IsFiniteSet(1..ChunksPerSeg) /\ Cardinality(1..ChunksPerSeg) = ChunksPerSeg
  BY <1>0, FS_Interval
<1>3. IsFiniteSet({s}) /\ Cardinality({s}) = 1
  BY FS_Singleton
<1>4. IsFiniteSet(ChunksOf(s)) /\ Cardinality(ChunksOf(s)) = ChunksPerSeg
  <2>1. /\ IsFiniteSet(ChunksOf(s))
        /\ Cardinality(ChunksOf(s)) = Cardinality({s}) * Cardinality(1..ChunksPerSeg)
    BY <1>2, <1>3, FS_Product DEF ChunksOf
  <2> QED
    BY <1>0, <1>2, <1>3, <2>1
<1>5. \A c \in Chunks : c \in ChunksOf(s) <=> SegOf(c) = s
  BY DEF Chunks, ChunksOf, SegOf
<1>6. \A i \in 1..ChunksPerSeg : <<s, i>> \in ChunksOf(s) /\ SegOf(<<s, i>>) = s
  BY DEF ChunksOf, SegOf
<1> QED
  BY <1>1, <1>4, <1>5, <1>6

-----------------------------------------------------------------------------
(* Type correctness.                                                        *)

IndexTypes ==
    /\ mapped \subseteq Segs /\ managed \subseteq Segs /\ g_index \subseteq Segs
    /\ Cardinality(g_index) <= MaxSegments
HeaderTypes ==
    /\ owner_tid \in [Segs -> Threads \cup {NoThread}]
    /\ bin \in [Segs -> Bins \cup {NoBin}]
    /\ retired \in [Segs -> BOOLEAN] /\ decommitted \in [Segs -> BOOLEAN]
    /\ live_chunks \in [Segs -> 0..(CountMod - 1)]
    /\ remote_head \in [Segs -> SUBSET Chunks]
TlsTypes ==
    /\ heads \in [Threads -> [Bins -> SUBSET Chunks]]
    /\ bumped \in [Threads -> [Bins -> 0..ChunksPerSeg]]
    /\ segs \in [Threads -> [Bins -> Segs \cup {NoSeg}]]
    /\ user \subseteq Chunks
LocalTypes ==
    /\ pc \in [Threads -> {"run", "count", "retire", "carve", "dec", "push"}]
    /\ chunk \in [Threads -> Chunks \cup {NoChunk}]
    /\ work \in [Threads -> Bins \cup {NoBin}]
    /\ count \in [Threads -> 0..ChunksPerSeg]
ReapTypes == eligible \subseteq Segs /\ reaping \in Segs \cup {NoSeg}

\* TypeOK, by groups of variables.
LEMMA TypeParts == TypeOK <=> IndexTypes /\ HeaderTypes /\ TlsTypes /\ LocalTypes /\ ReapTypes
  BY DEF TypeOK, IndexTypes, HeaderTypes, TlsTypes, LocalTypes, ReapTypes

\* A group of variables that does not change keeps its types.
LEMMA TypeFrame ==
    /\ IndexTypes /\ UNCHANGED indexVars => IndexTypes'
    /\ HeaderTypes /\ UNCHANGED headerVars => HeaderTypes'
    /\ TlsTypes /\ UNCHANGED <<tlsVars, user>> => TlsTypes'
    /\ LocalTypes /\ UNCHANGED localVars => LocalTypes'
    /\ ReapTypes /\ UNCHANGED reapVars => ReapTypes'
<1>1. IndexTypes /\ UNCHANGED indexVars => IndexTypes'
  BY DEF IndexTypes, indexVars
<1>2. HeaderTypes /\ UNCHANGED headerVars => HeaderTypes'
  BY DEF HeaderTypes, headerVars
<1>3. TlsTypes /\ UNCHANGED <<tlsVars, user>> => TlsTypes'
  BY DEF TlsTypes, tlsVars
<1>4. LocalTypes /\ UNCHANGED localVars => LocalTypes'
  BY DEF LocalTypes, localVars
<1>5. ReapTypes /\ UNCHANGED reapVars => ReapTypes'
  BY DEF ReapTypes, reapVars
<1> QED
  BY <1>1, <1>2, <1>3, <1>4, <1>5

\* TypeOK holds initially.
LEMMA TypeInit == Init => TypeOK
<1> SUFFICES ASSUME Init PROVE TypeOK
  OBVIOUS
<1> USE HeapAssumption
<1>1. IndexTypes
  BY FS_EmptySet DEF Init, IndexTypes
<1>2. HeaderTypes
  BY DEF Init, HeaderTypes
<1>3. TlsTypes
  BY DEF Init, TlsTypes
<1>4. LocalTypes /\ ReapTypes
  BY DEF Init, LocalTypes, ReapTypes
<1> QED
  BY <1>1, <1>2, <1>3, <1>4, TypeParts

\* The same after a step.
LEMMA TypePartsNext ==
    IndexTypes' /\ HeaderTypes' /\ TlsTypes' /\ LocalTypes' /\ ReapTypes' => TypeOK'
  BY DEF TypeOK, IndexTypes, HeaderTypes, TlsTypes, LocalTypes, ReapTypes

\* malloc, up to the first access to shared data.
LEMMA TypeAlloc ==
    ASSUME TypeOK, NEW t \in Threads, NEW b \in Bins,
           PopHead(t, b) \/ BumpChunk(t, b) \/ ArenaReset(t, b) \/ FirstRefill(t, b)
    PROVE  TypeOK'
<1>0. IndexTypes /\ HeaderTypes /\ TlsTypes /\ LocalTypes /\ ReapTypes
  BY TypeParts
<1>1. CASE PopHead(t, b)
  <2>1. TlsTypes' /\ LocalTypes'
    BY <1>0, <1>1, TypeFrame DEF PopHead, TlsTypes, localVars
  <2> QED
    BY <1>0, <1>1, <2>1, TypeFrame, TypePartsNext DEF PopHead
<1>2. CASE BumpChunk(t, b)
  <2>1. segs[t][b] \in Segs /\ bumped[t][b] \in 0..ChunksPerSeg /\ bumped[t][b] < ChunksPerSeg
    BY <1>0, <1>2 DEF BumpChunk, HasRoom, TlsTypes
  <2>2. bumped[t][b] + 1 \in 1..ChunksPerSeg
    BY <2>1, HeapAssumption
  <2>3. <<segs[t][b], bumped[t][b] + 1>> \in Chunks
    BY <2>1, <2>2 DEF Chunks
  <2>4. bumped[t][b] + 1 \in 0..ChunksPerSeg
    BY <2>2
  <2>5. bumped' \in [Threads -> [Bins -> 0..ChunksPerSeg]]
    BY <1>0, <1>2, <2>4 DEF BumpChunk, TlsTypes
  <2>6. TlsTypes'
    BY <1>0, <1>2, <2>3, <2>5 DEF BumpChunk, TlsTypes
  <2> QED
    BY <1>0, <1>2, <2>6, TypeFrame, TypePartsNext DEF BumpChunk
<1>3. CASE ArenaReset(t, b)
  <2>1. segs[t][b] \in Segs /\ 1 \in 1..ChunksPerSeg /\ 1 \in 0..ChunksPerSeg
    BY <1>0, <1>3, HeapAssumption DEF ArenaReset, TlsTypes
  <2>2. <<segs[t][b], 1>> \in Chunks
    BY <2>1 DEF Chunks
  <2>3. TlsTypes'
    BY <1>0, <1>3, <2>1, <2>2 DEF ArenaReset, TlsTypes
  <2> QED
    BY <1>0, <1>3, <2>3, TypeFrame, TypePartsNext DEF ArenaReset
<1>4. CASE FirstRefill(t, b)
  <2>1. LocalTypes'
    BY <1>0, <1>4 DEF FirstRefill, LocalTypes
  <2> QED
    BY <1>0, <1>4, <2>1, TypeFrame, TypePartsNext DEF FirstRefill
<1> QED
  BY <1>1, <1>2, <1>3, <1>4

\* The types are inductive together with two facts that Cardinality needs: a
\* remote queue holds chunks of its own segment only, and the index is finite.
QueuesOwn == \A s \in Segs : remote_head[s] \subseteq ChunksOf(s)
TypeInv == TypeOK /\ QueuesOwn /\ IsFiniteSet(g_index)

\* The two refills that find a list or region used up.
LEMMA TypeHarvest ==
    ASSUME TypeOK, QueuesOwn, NEW t \in Threads, NEW b \in Bins, Harvest(t, b) \/ PcHarvest(t, b)
    PROVE  TypeOK'
<1>0. IndexTypes /\ HeaderTypes /\ TlsTypes /\ LocalTypes /\ ReapTypes
  BY TypeParts
<1>1. CASE Harvest(t, b)
  <2>1. HeaderTypes'
    BY <1>0, <1>1 DEF Harvest, MpscHarvest, HeaderTypes
  <2>2. remote_head[segs[t][b]] \subseteq Chunks
    BY <1>0, <1>1 DEF Harvest, HeaderTypes, TlsTypes
  <2>3. TlsTypes'
    <3>1. CASE remote_head[segs[t][b]] # {}
      <4>1. PICK c \in remote_head[segs[t][b]] :
               /\ heads' = [heads EXCEPT ![t][b] = remote_head[segs[t][b]] \ {c}]
               /\ user' = user \cup {c}
        BY <1>1, <3>1 DEF Harvest
      <4>2. heads' \in [Threads -> [Bins -> SUBSET Chunks]]
        BY <1>0, <2>2, <4>1 DEF TlsTypes
      <4> QED
        BY <1>0, <1>1, <2>2, <4>1, <4>2 DEF Harvest, TlsTypes
    <3>2. CASE remote_head[segs[t][b]] = {}
      BY <1>0, <1>1, <3>2 DEF Harvest, TlsTypes
    <3> QED
      BY <3>1, <3>2
  <2>4. ChunksPerSeg \in 0..ChunksPerSeg
    BY HeapAssumption
  <2>5. LocalTypes'
    BY <1>0, <1>1, <2>4 DEF Harvest, LocalTypes
  <2> QED
    BY <1>0, <1>1, <2>1, <2>3, <2>5, TypeFrame, TypePartsNext DEF Harvest
<1>2. CASE PcHarvest(t, b)
  <2> DEFINE s == segs[t][b]
             n == IF ServedMirror > Cardinality(remote_head[s])
                  THEN ServedMirror - Cardinality(remote_head[s]) ELSE 0
  <2>1. HeaderTypes'
    BY <1>0, <1>2 DEF PcHarvest, MpscHarvest, HeaderTypes
  <2>2. s \in Segs
    BY <1>0, <1>2 DEF PcHarvest, TlsTypes
  <2>3. Cardinality(remote_head[s]) \in Nat
    BY <2>2, SegChunks, FS_Subset, FS_CardinalityType DEF QueuesOwn
  <2>4. n \in 0..ChunksPerSeg
    BY <2>3, HeapAssumption DEF ServedMirror
  <2>5. /\ count' = [count EXCEPT ![t] = n] /\ work' = [work EXCEPT ![t] = b]
        /\ pc' = [pc EXCEPT ![t] = "count"] /\ UNCHANGED chunk
    BY <1>2 DEF PcHarvest
  <2> HIDE DEF n
  <2>6. LocalTypes'
    BY <1>0, <2>4, <2>5 DEF LocalTypes
  <2> QED
    BY <1>0, <1>2, <2>1, <2>6, TypeFrame, TypePartsNext DEF PcHarvest
<1> QED
  BY <1>1, <1>2

\* free, up to the first access to shared data.
LEMMA TypeFree ==
    ASSUME TypeOK, NEW t \in Threads, NEW c \in Chunks, Free(t, c)
    PROVE  TypeOK'
<1>0. IndexTypes /\ HeaderTypes /\ TlsTypes /\ LocalTypes /\ ReapTypes
  BY TypeParts
<1>1. user' \subseteq Chunks /\ UNCHANGED <<segs, work, count>>
  BY <1>0 DEF Free, TlsTypes
<1>2. heads' \in [Threads -> [Bins -> SUBSET Chunks]]
  <2>1. CASE FreeToList(t, c)
    <3> DEFINE b == bin[SegOf(c)]
    <3>1. b \in Bins /\ heads' = [heads EXCEPT ![t][b] = heads[t][b] \cup {c}]
      BY <1>0, <2>1, Kinds DEF FreeToList, OwnList, TlsTypes
    <3> HIDE DEF b
    <3> QED
      BY <1>0, <3>1 DEF TlsTypes
  <2> QED
    BY <1>0, <2>1 DEF Free, FreeCounted, FreeOnce, TlsTypes
<1>3. bumped' \in [Threads -> [Bins -> 0..ChunksPerSeg]]
  <2>1. CASE FreeOnce(t, c) /\ LifoTop(t, c)
    <3> DEFINE b == bin[SegOf(c)]
    <3>1. b \in Bins /\ bumped[t][b] \in 0..ChunksPerSeg /\ c = <<segs[t][b], bumped[t][b]>>
      BY <1>0, <2>1, Kinds DEF LifoTop, TlsTypes
    <3>2. bumped[t][b] \in 1..ChunksPerSeg
      BY <3>1 DEF Chunks
    <3>3. bumped[t][b] - 1 \in 0..ChunksPerSeg
      BY <3>2, HeapAssumption
    <3>4. bumped' = [bumped EXCEPT ![t][b] = bumped[t][b] - 1]
      BY <1>0, <2>1 DEF FreeOnce
    <3> HIDE DEF b
    <3> QED
      BY <1>0, <3>1, <3>3, <3>4 DEF TlsTypes
  <2> QED
    BY <1>0, <2>1 DEF Free, FreeToList, FreeCounted, FreeOnce, TlsTypes
<1>4. LocalTypes'
  BY <1>0 DEF Free, FreeToList, FreeCounted, FreeOnce, LocalTypes
<1>5. TlsTypes'
  BY <1>0, <1>1, <1>2, <1>3 DEF TlsTypes
<1> QED
  BY <1>0, <1>4, <1>5, TypeFrame, TypePartsNext DEF Free

\* The later steps of malloc and free keep TypeOK.
LEMMA TypeContinue ==
    ASSUME TypeOK, IsFiniteSet(g_index), NEW t \in Threads, Continue(t)
    PROVE  TypeOK'
<1>0. IndexTypes /\ HeaderTypes /\ TlsTypes /\ LocalTypes /\ ReapTypes
  BY TypeParts
<1>1. CASE StoreLiveChunks(t)
  <2>1. count[t] \in 0..(CountMod - 1)
    BY <1>0, HeapAssumption DEF LocalTypes
  <2>2. HeaderTypes' /\ LocalTypes'
    BY <1>0, <1>1, <2>1 DEF StoreLiveChunks, HeaderTypes, LocalTypes
  <2> QED
    BY <1>0, <1>1, <2>2, TypeFrame, TypePartsNext DEF StoreLiveChunks
<1>2. CASE SetRetired(t)
  <2>1. HeaderTypes' /\ LocalTypes'
    BY <1>0, <1>2 DEF SetRetired, HeaderTypes, LocalTypes
  <2> QED
    BY <1>0, <1>2, <2>1, TypeFrame, TypePartsNext DEF SetRetired
<1>3. CASE DecLiveChunks(t)
  <2>1. \A n \in Nat : n % CountMod \in 0..(CountMod - 1)
    BY HeapAssumption
  <2>2. \A n \in 0..(CountMod - 1) : (n + CountMod) - 1 \in Nat
    BY HeapAssumption
  <2>3. \A n \in 0..(CountMod - 1) : (n + CountMod - 1) % CountMod \in 0..(CountMod - 1)
    BY <2>1, <2>2, HeapAssumption
  <2>4. HeaderTypes'
    BY <1>0, <1>3, <2>3 DEF DecLiveChunks, HeaderTypes
  <2>5. LocalTypes'
    BY <1>0, <1>3 DEF DecLiveChunks, FreeDone, LocalTypes
  <2> QED
    BY <1>0, <1>3, <2>4, <2>5, TypeFrame, TypePartsNext DEF DecLiveChunks
<1>4. CASE MpscPush(t)
  <2>1. SegOf(chunk[t]) \in Segs
    BY <1>0, <1>4 DEF MpscPush, IndexTypes
  <2>2. chunk[t] \in Chunks
    <3>1. SegOf(NoChunk) = NoSeg
      BY DEF SegOf, NoChunk
    <3> QED
      BY <1>0, <2>1, <3>1, HeapAssumption DEF LocalTypes
  <2>3. HeaderTypes' /\ LocalTypes'
    BY <1>0, <1>4, <2>1, <2>2 DEF MpscPush, FreeDone, HeaderTypes, LocalTypes
  <2> QED
    BY <1>0, <1>4, <2>3, TypeFrame, TypePartsNext DEF MpscPush
<1>5. ASSUME NEW s \in Segs, Carve(t, s) PROVE TypeOK'
  <2>1. Cardinality(g_index') <= MaxSegments /\ g_index' \subseteq Segs
    <3>1. CASE IndexHasRoom
      <4>1. Cardinality(g_index) \in Nat /\ Cardinality(g_index) < MaxSegments
        BY <3>1, FS_CardinalityType DEF IndexHasRoom
      <4>2. g_index' = g_index \cup {s}
        BY <1>5, <3>1 DEF Carve, AllocSegment, RegisterSegment
      <4>3. Cardinality(g_index') <= Cardinality(g_index) + 1
        <5>1. Cardinality(g_index \cup {s}) =
                 IF s \in g_index THEN Cardinality(g_index) ELSE Cardinality(g_index) + 1
          BY FS_AddElement
        <5> QED
          BY <4>1, <4>2, <5>1
      <4>4. Cardinality(g_index') \in Nat
        BY <4>2, FS_AddElement, FS_CardinalityType
      <4> QED
        BY <1>0, <4>1, <4>2, <4>3, <4>4, HeapAssumption DEF IndexTypes
    <3> QED
      BY <1>0, <1>5, <3>1 DEF Carve, AllocSegment, RegisterSegment, IndexTypes
  <2>2. IndexTypes'
    BY <1>0, <1>5, <2>1 DEF Carve, AllocSegment, RegisterSegment, IndexTypes
  <2>3. HeaderTypes'
    <3>1. work[t] \in Bins \cup {NoBin} /\ 0 \in 0..(CountMod - 1)
      BY <1>0, HeapAssumption DEF LocalTypes
    <3> QED
      BY <1>0, <1>5, <3>1 DEF Carve, AllocSegment, HeaderTypes
  <2>4. TlsTypes'
    <3>1. ChunksOf(s) \subseteq Chunks /\ <<s, 1>> \in Chunks /\ 1 \in 0..ChunksPerSeg
      BY SegChunks, HeapAssumption DEF Chunks
    <3>2. /\ heads' \in [Threads -> [Bins -> SUBSET Chunks]] /\ user' \subseteq Chunks
          /\ bumped' \in [Threads -> [Bins -> 0..ChunksPerSeg]]
      <4>1. CASE CarveList(t, work[t], s)
        <5>1. PICK c \in ChunksOf(s) :
                 /\ heads' = [heads EXCEPT ![t][work[t]] = ChunksOf(s) \ {c}]
                 /\ user' = user \cup {c} /\ UNCHANGED bumped
          BY <4>1 DEF CarveList
        <5>2. heads' \in [Threads -> [Bins -> SUBSET Chunks]]
          BY <1>0, <3>1, <5>1 DEF TlsTypes
        <5> QED
          BY <1>0, <3>1, <5>1, <5>2 DEF TlsTypes
      <4>2. CASE CarveRegion(t, work[t], s)
        <5>1. bumped' \in [Threads -> [Bins -> 0..ChunksPerSeg]]
          BY <1>0, <3>1, <4>2 DEF CarveRegion, TlsTypes
        <5> QED
          BY <1>0, <3>1, <4>2, <5>1 DEF CarveRegion, TlsTypes
      <4> QED
        BY <1>5, <4>1, <4>2 DEF Carve
    <3>4. segs' \in [Threads -> [Bins -> Segs \cup {NoSeg}]]
      BY <1>0, <1>5 DEF Carve, TlsTypes
    <3> QED
      BY <3>2, <3>4 DEF TlsTypes
  <2>5. LocalTypes'
    <3>1. 0 \in 0..ChunksPerSeg
      BY HeapAssumption
    <3> QED
      BY <1>0, <1>5, <3>1 DEF Carve, LocalTypes
  <2>6. ReapTypes'
    BY <1>0, <1>5, TypeFrame DEF Carve
  <2> QED
    BY <2>2, <2>3, <2>4, <2>5, <2>6, TypePartsNext
<1> QED
  BY <1>1, <1>2, <1>3, <1>4, <1>5 DEF Continue

\* So do the steps of the reaper.
LEMMA TypeReaper ==
    ASSUME TypeOK, IsFiniteSet(g_index), Reaper
    PROVE  TypeOK'
<1>0. IndexTypes /\ HeaderTypes /\ TlsTypes /\ LocalTypes /\ ReapTypes
  BY TypeParts
<1>1. CASE Sweep
  <2>1. ReapTypes'
    BY <1>0, <1>1 DEF Sweep, ReapTypes, IndexTypes
  <2> QED
    BY <1>0, <1>1, <2>1, TypeFrame, TypePartsNext DEF Sweep
<1>2. CASE Unmap
  <2>1. ReapTypes' /\ IndexTypes'
    BY <1>0, <1>2 DEF Unmap, ReapTypes, IndexTypes
  <2> QED
    BY <1>0, <1>2, <2>1, TypeFrame, TypePartsNext DEF Unmap
<1>3. ASSUME NEW s \in Segs, Unregister(s) PROVE TypeOK'
  <2>1. Cardinality(g_index') <= MaxSegments
    <3>1. IsFiniteSet(g_index) /\ g_index' \subseteq g_index
      BY <1>3 DEF Unregister
    <3>2. /\ Cardinality(g_index') <= Cardinality(g_index) /\ Cardinality(g_index) \in Nat
          /\ Cardinality(g_index') \in Nat
      BY <3>1, FS_Subset, FS_CardinalityType
    <3> QED
      BY <1>0, <3>2, HeapAssumption DEF IndexTypes
  <2>2. ReapTypes' /\ IndexTypes'
    BY <1>0, <1>3, <2>1 DEF Unregister, ReapTypes, IndexTypes
  <2> QED
    BY <1>0, <1>3, <2>2, TypeFrame, TypePartsNext DEF Unregister
<1>4. ASSUME NEW s \in Segs, Decommit(s) PROVE TypeOK'
  <2>1. ReapTypes' /\ HeaderTypes'
    BY <1>0, <1>4 DEF Decommit, ReapTypes, HeaderTypes
  <2> QED
    BY <1>0, <1>4, <2>1, TypeFrame, TypePartsNext DEF Decommit
<1> QED
  BY <1>1, <1>2, <1>3, <1>4 DEF Reaper

\* Every step keeps TypeOK.
LEMMA TypeStep ==
    ASSUME TypeInv, [Next]_vars
    PROVE  TypeOK'
<1>0. TypeOK /\ QueuesOwn /\ IsFiniteSet(g_index)
  BY DEF TypeInv
<1>1. CASE UNCHANGED vars
  <2>1. IndexTypes /\ HeaderTypes /\ TlsTypes /\ LocalTypes /\ ReapTypes
    BY <1>0, TypeParts
  <2> QED
    BY <1>1, <2>1, TypeFrame, TypePartsNext DEF vars
<1>2. ASSUME NEW t \in Threads, NEW b \in Bins, PopHead(t, b) \/ BumpChunk(t, b) \/ Refill(t, b)
      PROVE  TypeOK'
  BY <1>0, <1>2, TypeAlloc, TypeHarvest DEF Refill
<1>3. ASSUME NEW t \in Threads, NEW c \in Chunks, Free(t, c) PROVE TypeOK'
  BY <1>0, <1>3, TypeFree
<1>4. ASSUME NEW t \in Threads, Continue(t) PROVE TypeOK'
  BY <1>0, <1>4, TypeContinue
<1>5. CASE Reaper
  BY <1>0, <1>5, TypeReaper
<1> QED
  BY <1>1, <1>2, <1>3, <1>4, <1>5 DEF Next

\* A remote queue only holds chunks of its segment.
LEMMA QueuesStep ==
    ASSUME TypeInv, [Next]_vars
    PROVE  QueuesOwn'
<1>0. HeaderTypes /\ LocalTypes /\ IndexTypes /\ QueuesOwn
  BY TypeParts DEF TypeInv
<1>1. CASE UNCHANGED remote_head
  BY <1>0, <1>1 DEF QueuesOwn, ChunksOf
<1>2. ASSUME NEW x, remote_head' = [remote_head EXCEPT ![x] = {}]
      PROVE  QueuesOwn'
  BY <1>0, <1>2 DEF QueuesOwn, ChunksOf, HeaderTypes
<1>3. ASSUME NEW t \in Threads, MpscPush(t) PROVE QueuesOwn'
  <2>1. /\ SegOf(chunk[t]) \in Segs
        /\ remote_head' = [remote_head EXCEPT ![SegOf(chunk[t])] = @ \cup {chunk[t]}]
    BY <1>0, <1>3 DEF MpscPush, IndexTypes
  <2>2. chunk[t] \in Chunks
    <3>1. SegOf(NoChunk) = NoSeg /\ NoSeg \notin Segs
      BY HeapAssumption DEF SegOf, NoChunk
    <3> QED
      BY <1>0, <2>1, <3>1 DEF LocalTypes
  <2>3. chunk[t] \in ChunksOf(SegOf(chunk[t]))
    BY <2>1, <2>2, SegChunks
  <2> QED
    BY <1>0, <2>1, <2>3 DEF QueuesOwn, ChunksOf, HeaderTypes
<1>4. \/ UNCHANGED remote_head \/ \E x : remote_head' = [remote_head EXCEPT ![x] = {}]
      \/ \E t \in Threads : MpscPush(t)
  <2>1. CASE UNCHANGED vars
    BY <2>1 DEF vars, headerVars
  <2>2. ASSUME NEW t \in Threads, NEW b \in Bins, PopHead(t, b) \/ BumpChunk(t, b) \/ Refill(t, b)
        PROVE  UNCHANGED remote_head \/ \E x : remote_head' = [remote_head EXCEPT ![x] = {}]
    BY <2>2 DEF PopHead, BumpChunk, Refill, FirstRefill, Harvest, PcHarvest, ArenaReset,
       MpscHarvest, headerVars
  <2>3. ASSUME NEW t \in Threads, NEW c \in Chunks, Free(t, c) PROVE UNCHANGED remote_head
    BY <2>3 DEF Free, headerVars
  <2>4. ASSUME NEW t \in Threads, Continue(t)
        PROVE  UNCHANGED remote_head \/ MpscPush(t) \/ \E x : remote_head' = [remote_head EXCEPT ![x] = {}]
    BY <2>4 DEF Continue, StoreLiveChunks, SetRetired, DecLiveChunks, Carve, AllocSegment
  <2>5. CASE Reaper
    BY <2>5 DEF Reaper, Sweep, Unmap, Unregister, Decommit, headerVars
  <2> QED
    BY <2>1, <2>2, <2>3, <2>4, <2>5 DEF Next
<1> QED
  BY <1>1, <1>2, <1>3, <1>4

\* The index stays finite.
LEMMA IndexStep ==
    ASSUME IsFiniteSet(g_index), [Next]_vars
    PROVE  IsFiniteSet(g_index')
<1>1. g_index' \subseteq g_index \/ \E s \in Segs : g_index' = g_index \cup {s}
  <2>1. CASE UNCHANGED vars
    BY <2>1 DEF vars, indexVars
  <2>2. ASSUME NEW t \in Threads, NEW b \in Bins, PopHead(t, b) \/ BumpChunk(t, b) \/ Refill(t, b)
        PROVE  UNCHANGED g_index
    BY <2>2 DEF PopHead, BumpChunk, Refill, FirstRefill, Harvest, PcHarvest, ArenaReset, indexVars
  <2>3. ASSUME NEW t \in Threads, NEW c \in Chunks, Free(t, c) PROVE UNCHANGED g_index
    BY <2>3 DEF Free, indexVars
  <2>4. ASSUME NEW t \in Threads, Continue(t)
        PROVE  UNCHANGED g_index \/ \E s \in Segs : g_index' = g_index \cup {s}
    BY <2>4 DEF Continue, StoreLiveChunks, SetRetired, DecLiveChunks, MpscPush, Carve, AllocSegment,
       RegisterSegment, indexVars
  <2>5. CASE Reaper
    BY <2>5 DEF Reaper, Sweep, Unmap, Unregister, Decommit, indexVars
  <2> QED
    BY <2>1, <2>2, <2>3, <2>4, <2>5 DEF Next
<1> QED
  BY <1>1, FS_Subset, FS_AddElement

\* Every variable keeps the type it is declared with, whatever the strategies
\* and the mode of the reaper: chunk numbers stay inside a segment, the uint32_t
\* count does not leave its range, and register_segment never lets the index of
\* segments grow past MAX_SEGMENTS.
THEOREM TypeCorrect == Spec => []TypeOK
<1>1. Init => TypeInv
  <2>1. Init => QueuesOwn
    BY DEF Init, QueuesOwn
  <2>2. Init => IsFiniteSet(g_index)
    BY FS_EmptySet DEF Init
  <2> QED
    BY <2>1, <2>2, TypeInit DEF TypeInv
<1>2. TypeInv /\ [Next]_vars => TypeInv'
  <2> SUFFICES ASSUME TypeInv, [Next]_vars PROVE TypeInv'
    OBVIOUS
  <2>1. TypeOK' /\ QueuesOwn'
    BY TypeStep, QueuesStep
  <2>2. IsFiniteSet(g_index')
    BY IndexStep DEF TypeInv
  <2> QED
    BY <2>1, <2>2 DEF TypeInv
<1>3. TypeInv => TypeOK
  BY DEF TypeInv
<1> QED
  BY <1>1, <1>2, <1>3, PTL DEF Spec

-----------------------------------------------------------------------------
(* Who changes what.                                                        *)

\* A step of thread t.
ThreadStep(t) ==
    \/ \E b \in Bins : PopHead(t, b) \/ BumpChunk(t, b) \/ Refill(t, b)
    \/ \E c \in Chunks : Free(t, c)
    \/ Continue(t)

\* A step is one of the reaper or of a thread.
LEMMA NextSteps == Next => Reaper \/ \E t \in Threads : ThreadStep(t)
  BY DEF Next, ThreadStep

\* What belongs to thread u is as before.
LocalSame(u) ==
    /\ pc'[u] = pc[u] /\ work'[u] = work[u] /\ count'[u] = count[u] /\ chunk'[u] = chunk[u]
    /\ heads'[u] = heads[u] /\ bumped'[u] = bumped[u] /\ segs'[u] = segs[u]

\* A step of one thread leaves what belongs to another alone.
LEMMA OthersLocal ==
    ASSUME TypeOK, NEW t \in Threads, NEW u \in Threads, u # t, ThreadStep(t)
    PROVE  LocalSame(u)
<1>0. TlsTypes /\ LocalTypes
  BY TypeParts
<1>1. pc'[u] = pc[u] /\ work'[u] = work[u] /\ count'[u] = count[u] /\ chunk'[u] = chunk[u]
  <2>1. ASSUME NEW b \in Bins, PopHead(t, b) \/ BumpChunk(t, b) \/ Refill(t, b)
        PROVE  pc'[u] = pc[u] /\ work'[u] = work[u] /\ count'[u] = count[u] /\ chunk'[u] = chunk[u]
    BY <1>0, <2>1 DEF PopHead, BumpChunk, Refill, FirstRefill, Harvest, PcHarvest, ArenaReset,
                      localVars, LocalTypes
  <2>2. ASSUME NEW c \in Chunks, Free(t, c)
        PROVE  pc'[u] = pc[u] /\ work'[u] = work[u] /\ count'[u] = count[u] /\ chunk'[u] = chunk[u]
    BY <1>0, <2>2 DEF Free, FreeToList, FreeCounted, FreeOnce, localVars, LocalTypes
  <2>3. ASSUME Continue(t)
        PROVE  pc'[u] = pc[u] /\ work'[u] = work[u] /\ count'[u] = count[u] /\ chunk'[u] = chunk[u]
    BY <1>0, <2>3 DEF Continue, StoreLiveChunks, SetRetired, DecLiveChunks, MpscPush, FreeDone,
                      Carve, localVars, LocalTypes
  <2> QED
    BY <2>1, <2>2, <2>3 DEF ThreadStep
<1>2. heads'[u] = heads[u] /\ bumped'[u] = bumped[u] /\ segs'[u] = segs[u]
  <2>1. ASSUME NEW b \in Bins, PopHead(t, b) \/ BumpChunk(t, b) \/ Refill(t, b)
        PROVE  heads'[u] = heads[u] /\ bumped'[u] = bumped[u] /\ segs'[u] = segs[u]
    BY <1>0, <2>1 DEF PopHead, BumpChunk, Refill, FirstRefill, Harvest, PcHarvest, ArenaReset,
                      tlsVars, TlsTypes
  <2>2. ASSUME NEW c \in Chunks, Free(t, c)
        PROVE  heads'[u] = heads[u] /\ bumped'[u] = bumped[u] /\ segs'[u] = segs[u]
    BY <1>0, <2>2 DEF Free, FreeToList, FreeCounted, FreeOnce, tlsVars, TlsTypes
  <2>3. ASSUME Continue(t)
        PROVE  heads'[u] = heads[u] /\ bumped'[u] = bumped[u] /\ segs'[u] = segs[u]
    BY <1>0, <2>3 DEF Continue, StoreLiveChunks, SetRetired, DecLiveChunks, MpscPush,
                      Carve, CarveList, CarveRegion, tlsVars, TlsTypes
  <2> QED
    BY <2>1, <2>2, <2>3 DEF ThreadStep
<1> QED
  BY <1>1, <1>2 DEF LocalSame

\* The reaper and stuttering touch nothing that belongs to a thread.
LEMMA ReaperLeaves ==
    ASSUME Reaper \/ UNCHANGED vars
    PROVE  /\ UNCHANGED <<tlsVars, localVars, user>>
           /\ UNCHANGED <<owner_tid, bin, retired, live_chunks, remote_head>>
           /\ mapped' \subseteq mapped
           /\ \A u \in Threads : LocalSame(u)
<1>1. UNCHANGED <<tlsVars, localVars, user>>
  BY DEF Reaper, Sweep, Unmap, Unregister, Decommit, vars
<1>2. UNCHANGED <<owner_tid, bin, retired, live_chunks, remote_head>>
  BY DEF Reaper, Sweep, Unmap, Unregister, Decommit, vars, headerVars
<1>3. mapped' \subseteq mapped
  BY DEF Reaper, Sweep, Unmap, Unregister, Decommit, vars, indexVars
<1>4. \A u \in Threads : LocalSame(u)
  BY <1>1 DEF LocalSame, tlsVars, localVars
<1> QED
  BY <1>1, <1>2, <1>3, <1>4

\* Except for SetRetired and Carve, a thread's step leaves the segments' status
\* and the active segments alone.
LEMMA StatusLeft ==
    ASSUME TypeOK, NEW t \in Threads, ThreadStep(t), ~SetRetired(t), \A s \in Segs : ~Carve(t, s)
    PROVE  /\ UNCHANGED <<owner_tid, bin, retired, mapped, managed, g_index, segs>>
           /\ \A u \in Threads, b \in Bins : Active(u, b)' <=> Active(u, b)
<1>0. TlsTypes /\ LocalTypes
  BY TypeParts
<1>1. UNCHANGED <<owner_tid, bin, retired, mapped, managed, g_index, segs>>
  BY DEF ThreadStep, PopHead, BumpChunk, Refill, FirstRefill, Harvest, PcHarvest, ArenaReset,
         Free, Continue, StoreLiveChunks, DecLiveChunks, MpscPush, headerVars, indexVars, tlsVars
<1>2. ASSUME NEW b \in Bins PROVE Active(t, b)' <=> Active(t, b)
  <2>1. pc[t] # "carve"
    BY DEF ThreadStep, PopHead, BumpChunk, Refill, FirstRefill, Harvest, PcHarvest, ArenaReset,
           Free, Continue, StoreLiveChunks, DecLiveChunks, MpscPush
  <2>2. pc'[t] # "carve" \/ segs[t][work'[t]] = NoSeg
    <3>1. ASSUME NEW d \in Bins, PopHead(t, d) \/ BumpChunk(t, d) \/ Refill(t, d)
          PROVE  pc'[t] # "carve" \/ segs[t][work'[t]] = NoSeg
      BY <1>0, <3>1 DEF PopHead, BumpChunk, Refill, FirstRefill, Harvest, PcHarvest, ArenaReset,
                        localVars, LocalTypes
    <3>2. ASSUME NEW c \in Chunks, Free(t, c) PROVE pc'[t] # "carve"
      BY <1>0, <3>2 DEF Free, FreeToList, FreeCounted, FreeOnce, LocalTypes
    <3>3. ASSUME Continue(t) PROVE pc'[t] # "carve"
      BY <1>0, <3>3 DEF Continue, StoreLiveChunks, DecLiveChunks, MpscPush, FreeDone, LocalTypes
    <3> QED
      BY <3>1, <3>2, <3>3 DEF ThreadStep
  <2> QED
    BY <1>1, <2>1, <2>2 DEF Active
<1>3. ASSUME NEW u \in Threads, u # t, NEW b \in Bins PROVE Active(u, b)' <=> Active(u, b)
  BY <1>3, OthersLocal DEF LocalSame, Active
<1> QED
  BY <1>1, <1>2, <1>3

\* A thread that runs owns the segments of its bins.
LEMMA RunActive ==
    ASSUME ActiveInv, NEW t \in Threads, NEW b \in Bins, segs[t][b] # NoSeg, pc[t] # "carve"
    PROVE  /\ Active(t, b) /\ segs[t][b] \in mapped /\ ~retired[segs[t][b]]
           /\ owner_tid[segs[t][b]] = t /\ bin[segs[t][b]] = b
  BY DEF ActiveInv, OwnSeg, Active

-----------------------------------------------------------------------------
(* Refills in progress.                                                     *)

\* A refill in progress survives steps that leave its thread and segment alone.
LEMMA RefillFrame ==
    ASSUME NEW u, Refilling(u), LocalSame(u),
           pc[u] = "retire" => live_chunks'[segs[u][work[u]]] = live_chunks[segs[u][work[u]]]
    PROVE  Refilling(u)'
  BY DEF Refilling, LocalSame

\* Nobody stores a count for a segment that another thread is retiring.
LEMMA LiveLeft ==
    ASSUME IInv, NEW t \in Threads, NEW u \in Threads, u # t, ThreadStep(t), pc[u] = "retire"
    PROVE  live_chunks'[segs[u][work[u]]] = live_chunks[segs[u][work[u]]]
<1> DEFINE s == segs[u][work[u]]
<1>0. HeaderTypes /\ TlsTypes /\ LocalTypes /\ IndexTypes
  BY TypeParts DEF IInv
<1>1. work[u] \in Bins /\ s # NoSeg
  BY DEF IInv, RefillInv, Refilling
<1>2. s \in mapped /\ ~retired[s] /\ owner_tid[s] = u
  BY <1>1, RunActive DEF IInv
<1>3. CASE StoreLiveChunks(t)
  <2>1. work[t] \in Bins /\ segs[t][work[t]] # NoSeg /\ pc[t] = "count"
    BY <1>3 DEF IInv, RefillInv, Refilling, StoreLiveChunks
  <2>2. owner_tid[segs[t][work[t]]] = t
    BY <2>1, RunActive DEF IInv
  <2>3. segs[t][work[t]] # s
    BY <1>2, <2>2
  <2> QED
    BY <1>0, <1>2, <1>3, <2>3 DEF StoreLiveChunks, HeaderTypes, IndexTypes
<1>4. CASE DecLiveChunks(t)
  <2>1. SegOf(chunk[t]) # s
    BY <1>2, <1>4 DEF IInv, FreeInv, InFree, DecLiveChunks
  <2> QED
    BY <1>0, <1>2, <1>4, <2>1 DEF DecLiveChunks, HeaderTypes, IndexTypes
<1>5. ASSUME NEW g \in Segs, Carve(t, g) PROVE live_chunks'[s] = live_chunks[s]
  BY <1>0, <1>2, <1>5 DEF Carve, AllocSegment, HeaderTypes, IndexTypes
<1>6. CASE UNCHANGED live_chunks
  BY <1>6
<1> QED
  BY <1>3, <1>4, <1>5, <1>6
     DEF ThreadStep, PopHead, BumpChunk, Refill, FirstRefill, Harvest, PcHarvest, ArenaReset,
         Free, Continue, SetRetired, MpscPush, headerVars

\* Every step keeps RefillInv.
LEMMA RefillStep ==
    ASSUME IInv, [Next]_vars
    PROVE  RefillInv'
<1> SUFFICES ASSUME NEW u \in Threads PROVE Refilling(u)'
  BY DEF RefillInv
<1>0. HeaderTypes /\ TlsTypes /\ LocalTypes /\ Refilling(u)
  BY TypeParts DEF IInv, RefillInv
<1>1. CASE Reaper \/ UNCHANGED vars
  BY <1>0, <1>1, ReaperLeaves, RefillFrame
<1>2. ASSUME NEW t \in Threads, ThreadStep(t), t # u PROVE Refilling(u)'
  BY <1>0, <1>2, OthersLocal, LiveLeft, RefillFrame DEF IInv
<1>3. ASSUME NEW b \in Bins, PopHead(u, b) \/ BumpChunk(u, b) \/ ArenaReset(u, b)
      PROVE  Refilling(u)'
  BY <1>3 DEF PopHead, BumpChunk, ArenaReset, localVars, Refilling
<1>4. ASSUME NEW b \in Bins, FirstRefill(u, b) PROVE Refilling(u)'
  <2>1. /\ work'[u] = b /\ pc'[u] = "carve" /\ segs[u][b] = NoSeg
        /\ UNCHANGED <<heads, segs>>
    BY <1>0, <1>4 DEF FirstRefill, LocalTypes, tlsVars
  <2>2. heads[u][b] = {}
    BY <2>1 DEF IInv, ListInv, Listed, Active
  <2> QED
    BY <2>1, <2>2 DEF Refilling
<1>5. ASSUME NEW b \in Bins, Harvest(u, b) PROVE Refilling(u)'
  <2>1. CASE remote_head[segs[u][b]] # {}
    BY <1>5, <2>1 DEF Harvest, Refilling
  <2>2. CASE remote_head[segs[u][b]] = {}
    <3>1. /\ work'[u] = b /\ pc'[u] = "count" /\ segs[u][b] # NoSeg /\ heads[u][b] = {}
          /\ UNCHANGED <<heads, segs>> /\ count'[u] = ChunksPerSeg /\ b \in ListBins
      BY <1>0, <1>5, <2>2 DEF Harvest, LocalTypes
    <3>2. b \notin PcBins /\ b \in CountedBins
      BY <3>1, Kinds DEF CountedBins
    <3> QED
      BY <3>1, <3>2 DEF Refilling
  <2> QED
    BY <2>1, <2>2
<1>6. ASSUME NEW b \in Bins, PcHarvest(u, b) PROVE Refilling(u)'
  <2>1. /\ work'[u] = b /\ pc'[u] = "count" /\ segs[u][b] # NoSeg /\ ~HasRoom(u, b)
        /\ UNCHANGED <<heads, segs, bumped>> /\ b \in PcBins
    BY <1>0, <1>6 DEF PcHarvest, LocalTypes, tlsVars
  <2>2. b \notin ListBins /\ b \in CountedBins
    BY <2>1, Kinds DEF CountedBins
  <2>3. heads[u][b] = {}
    BY <2>2 DEF IInv, ListInv, Listed
  <2>4. bumped[u][b] = ChunksPerSeg
    <3>1. bumped[u][b] \in 0..ChunksPerSeg /\ ~(bumped[u][b] < ChunksPerSeg)
      BY <1>0, <2>1 DEF HasRoom, TlsTypes
    <3> QED
      BY <3>1, HeapAssumption
  <2> QED
    BY <2>1, <2>2, <2>3, <2>4 DEF Refilling
<1>7. ASSUME NEW c \in Chunks, Free(u, c) PROVE Refilling(u)'
  <2>1. pc'[u] \notin {"count", "retire", "carve"}
    BY <1>0, <1>7 DEF Free, FreeToList, FreeCounted, FreeOnce, LocalTypes
  <2> QED
    BY <2>1 DEF Refilling
<1>8. CASE StoreLiveChunks(u)
  <2>1. /\ pc[u] = "count" /\ pc'[u] = "retire" /\ UNCHANGED <<heads, segs, bumped, work, count>>
        /\ live_chunks' = [live_chunks EXCEPT ![segs[u][work[u]]] = count[u]]
    BY <1>0, <1>8 DEF StoreLiveChunks, LocalTypes, tlsVars
  <2>2. segs[u][work[u]] \in Segs
    BY <1>0, <2>1 DEF Refilling, TlsTypes
  <2>3. live_chunks'[segs[u][work[u]]] = count[u]
    BY <1>0, <2>1, <2>2 DEF HeaderTypes
  <2> QED
    BY <1>0, <2>1, <2>3 DEF Refilling
<1>9. CASE SetRetired(u)
  <2>1. pc[u] = "retire" /\ pc'[u] = "carve" /\ UNCHANGED <<heads, segs, bumped, work>>
    BY <1>0, <1>9 DEF SetRetired, LocalTypes, tlsVars
  <2> QED
    BY <1>0, <2>1 DEF Refilling
<1>10. ASSUME DecLiveChunks(u) \/ MpscPush(u) \/ \E s \in Segs : Carve(u, s)
       PROVE  Refilling(u)'
  <2>1. pc'[u] = "run"
    BY <1>0, <1>10 DEF DecLiveChunks, MpscPush, Carve, FreeDone, LocalTypes
  <2> QED
    BY <2>1 DEF Refilling
<1>11. ASSUME ThreadStep(u) PROVE Refilling(u)'
  BY <1>11, <1>3, <1>4, <1>5, <1>6, <1>7, <1>8, <1>9, <1>10 DEF ThreadStep, Refill, Continue
<1> QED
  BY <1>1, <1>2, <1>11, NextSteps

-----------------------------------------------------------------------------
(* Active segments and free lists.                                          *)

\* What SetRetired does.
LEMMA Retires ==
    ASSUME IInv, NEW t \in Threads, SetRetired(t)
    PROVE  LET s == segs[t][work[t]]
           IN  /\ work[t] \in CountedBins /\ s \in mapped /\ s \in Segs
               /\ ~retired[s] /\ owner_tid[s] = t /\ bin[s] = work[t]
               /\ retired'[s] /\ \A g \in Segs \ {s} : retired'[g] = retired[g]
               /\ heads[t][work[t]] = {}
               /\ pc[t] = "retire" /\ pc' = [pc EXCEPT ![t] = "carve"] /\ pc'[t] = "carve"
               /\ UNCHANGED <<owner_tid, bin, live_chunks, remote_head, decommitted, mapped,
                              managed, g_index, heads, bumped, segs, chunk, work, count,
                              eligible, reaping, user>>
<1> DEFINE s == segs[t][work[t]]
<1>0. HeaderTypes /\ TlsTypes /\ LocalTypes
  BY TypeParts DEF IInv
<1>1. /\ pc[t] = "retire" /\ retired' = [retired EXCEPT ![s] = TRUE]
      /\ pc' = [pc EXCEPT ![t] = "carve"]
      /\ UNCHANGED <<owner_tid, bin, live_chunks, remote_head, decommitted, mapped,
                     managed, g_index, heads, bumped, segs, chunk, work, count,
                     eligible, reaping, user>>
  BY DEF SetRetired, indexVars, tlsVars, reapVars
<1>2. work[t] \in CountedBins /\ work[t] \in Bins /\ s # NoSeg /\ heads[t][work[t]] = {}
  BY <1>1 DEF IInv, RefillInv, Refilling
<1>3. s \in Segs
  BY <1>0, <1>2 DEF TlsTypes
<1>4. s \in mapped /\ ~retired[s] /\ owner_tid[s] = t /\ bin[s] = work[t]
  BY <1>1, <1>2, RunActive DEF IInv
<1>5. retired'[s] /\ (\A g \in Segs \ {s} : retired'[g] = retired[g]) /\ pc'[t] = "carve"
  BY <1>0, <1>1, <1>3 DEF HeaderTypes, LocalTypes
<1> QED
  BY <1>1, <1>2, <1>3, <1>4, <1>5

\* What Carve does.
LEMMA Carves ==
    ASSUME IInv, NEW t \in Threads, NEW s \in Segs, Carve(t, s)
    PROVE  /\ work[t] \in Bins /\ pc[t] = "carve" /\ pc'[t] = "run" /\ s \notin mapped
           /\ mapped' = mapped \cup {s} /\ managed' = managed \cup {s}
           /\ g_index' \subseteq g_index \cup {s} /\ g_index \subseteq g_index'
           /\ owner_tid'[s] = t /\ bin'[s] = work[t] /\ ~retired'[s] /\ ~decommitted'[s]
           /\ remote_head'[s] = {} /\ segs'[t][work[t]] = s
           /\ \A g \in Segs \ {s} :
                 /\ owner_tid'[g] = owner_tid[g] /\ bin'[g] = bin[g] /\ retired'[g] = retired[g]
                 /\ decommitted'[g] = decommitted[g] /\ live_chunks'[g] = live_chunks[g]
                 /\ remote_head'[g] = remote_head[g]
           /\ \A b \in Bins \ {work[t]} :
                 /\ segs'[t][b] = segs[t][b] /\ heads'[t][b] = heads[t][b]
                 /\ bumped'[t][b] = bumped[t][b]
           /\ UNCHANGED <<chunk, eligible, reaping>>
<1>0. HeaderTypes /\ TlsTypes /\ LocalTypes
  BY TypeParts DEF IInv
<1>1. /\ pc[t] = "carve" /\ s \notin mapped /\ mapped' = mapped \cup {s}
      /\ managed' = managed \cup {s}
      /\ g_index' \subseteq g_index \cup {s} /\ g_index \subseteq g_index'
      /\ UNCHANGED <<chunk, eligible, reaping>>
  BY DEF Carve, AllocSegment, RegisterSegment, reapVars
<1>2. work[t] \in Bins
  BY <1>1 DEF IInv, RefillInv, Refilling
<1>3. /\ owner_tid'[s] = t /\ bin'[s] = work[t] /\ ~retired'[s] /\ ~decommitted'[s]
      /\ remote_head'[s] = {}
  BY <1>0 DEF Carve, AllocSegment, HeaderTypes
<1>4. ASSUME NEW g \in Segs \ {s}
      PROVE  /\ owner_tid'[g] = owner_tid[g] /\ bin'[g] = bin[g] /\ retired'[g] = retired[g]
             /\ decommitted'[g] = decommitted[g] /\ live_chunks'[g] = live_chunks[g]
             /\ remote_head'[g] = remote_head[g]
  BY <1>0, <1>4 DEF Carve, AllocSegment, HeaderTypes
<1>5. segs'[t][work[t]] = s /\ pc'[t] = "run"
  BY <1>0, <1>2 DEF Carve, TlsTypes, LocalTypes
<1>6. ASSUME NEW b \in Bins \ {work[t]}
      PROVE  /\ segs'[t][b] = segs[t][b] /\ heads'[t][b] = heads[t][b]
             /\ bumped'[t][b] = bumped[t][b]
  BY <1>0, <1>2 DEF Carve, CarveList, CarveRegion, TlsTypes
<1> QED
  BY <1>1, <1>2, <1>3, <1>4, <1>5, <1>6

\* What Carve hands out.
LEMMA CarvesChunk ==
    ASSUME IInv, NEW t \in Threads, NEW s \in Segs, Carve(t, s)
    PROVE  \E c \in ChunksOf(s) :
              /\ user' = user \cup {c}
              /\ \/ /\ work[t] \in ListBins /\ heads'[t][work[t]] = ChunksOf(s) \ {c}
                    /\ UNCHANGED bumped
                 \/ /\ work[t] \notin ListBins /\ c = <<s, 1>> /\ bumped'[t][work[t]] = 1
                    /\ UNCHANGED heads
<1>0. TlsTypes /\ LocalTypes /\ work[t] \in Bins
  BY TypeParts, Carves DEF IInv
<1>1. CASE CarveList(t, work[t], s)
  <2>1. PICK c \in ChunksOf(s) :
           /\ heads' = [heads EXCEPT ![t][work[t]] = ChunksOf(s) \ {c}]
           /\ user' = user \cup {c} /\ UNCHANGED bumped /\ work[t] \in ListBins
    BY <1>1 DEF CarveList
  <2>2. heads'[t][work[t]] = ChunksOf(s) \ {c}
    BY <1>0, <2>1 DEF TlsTypes
  <2> QED
    BY <2>1, <2>2
<1>2. CASE CarveRegion(t, work[t], s)
  <2>1. <<s, 1>> \in ChunksOf(s)
    BY SegChunks, HeapAssumption
  <2>2. bumped'[t][work[t]] = 1
    BY <1>0, <1>2 DEF CarveRegion, TlsTypes
  <2> QED
    BY <1>2, <2>1, <2>2 DEF CarveRegion
<1> QED
  BY <1>1, <1>2 DEF Carve

\* Every step keeps ActiveInv.
LEMMA ActiveStep ==
    ASSUME IInv, [Next]_vars
    PROVE  ActiveInv'
<1>0. TypeOK /\ ActiveInv /\ HeaderTypes /\ TlsTypes /\ LocalTypes /\ IndexTypes
  BY TypeParts DEF IInv
<1>1. CASE Reaper \/ UNCHANGED vars
  <2>1. /\ UNCHANGED <<segs, pc, work, owner_tid, bin, retired>> /\ mapped' \subseteq mapped
    BY <1>1, ReaperLeaves DEF tlsVars, localVars
  <2>2. \A g \in mapped : ~retired[g] => g \in mapped'
    BY <1>1 DEF Reaper, Sweep, Unmap, Unregister, Decommit, IInv, ReapInv, Abandoned, vars, indexVars
  <2>3. \A u \in Threads, b \in Bins : Active(u, b)' <=> Active(u, b)
    BY <2>1 DEF Active
  <2> QED
    BY <1>0, <2>1, <2>2, <2>3 DEF ActiveInv, OwnSeg, Carved
<1>2. ASSUME NEW t \in Threads, ThreadStep(t), ~SetRetired(t), \A s \in Segs : ~Carve(t, s)
      PROVE  ActiveInv'
  BY <1>0, <1>2, StatusLeft DEF ActiveInv, OwnSeg, Carved
<1>3. ASSUME NEW t \in Threads, SetRetired(t) PROVE ActiveInv'
  <2> DEFINE s == segs[t][work[t]]
  <2>1. /\ work[t] \in CountedBins /\ s \in mapped /\ s \in Segs
        /\ owner_tid[s] = t /\ bin[s] = work[t]
        /\ retired'[s] /\ \A g \in Segs \ {s} : retired'[g] = retired[g]
        /\ pc[t] = "retire" /\ pc' = [pc EXCEPT ![t] = "carve"] /\ pc'[t] = "carve"
        /\ UNCHANGED <<owner_tid, bin, mapped, segs, work>>
    BY <1>3, Retires
  <2>2. /\ \A u \in Threads, b \in Bins :
              Active(u, b)' <=> Active(u, b) /\ ~(u = t /\ b = work[t])
    BY <1>0, <2>1 DEF Active, LocalTypes
  <2>3. ASSUME NEW u \in Threads, NEW b \in Bins PROVE OwnSeg(u, b)'
    <3>1. SUFFICES ASSUME Active(u, b)' PROVE OwnSeg(u, b)'
      BY DEF OwnSeg
    <3>2. Active(u, b) /\ ~(u = t /\ b = work[t])
      BY <2>2, <3>1
    <3>3. /\ segs[u][b] \in mapped /\ ~retired[segs[u][b]]
          /\ owner_tid[segs[u][b]] = u /\ bin[segs[u][b]] = b
      BY <1>0, <3>2 DEF ActiveInv, OwnSeg
    <3>4. segs[u][b] # s /\ segs[u][b] \in Segs
      BY <1>0, <2>1, <3>2, <3>3 DEF IndexTypes
    <3> QED
      BY <2>1, <3>3, <3>4 DEF OwnSeg
  <2>4. ASSUME NEW g \in mapped PROVE Carved(g)'
    <3>1. CASE g = s
      BY <1>0, <2>1, <3>1 DEF ActiveInv, Carved
    <3>2. CASE g # s
      <4>1. retired'[g] = retired[g] /\ Carved(g)
        BY <1>0, <2>1, <3>2 DEF ActiveInv, IndexTypes
      <4>2. ~retired[g] => ~(owner_tid[g] = t /\ bin[g] = work[t])
        BY <3>2, <4>1 DEF Carved
      <4> QED
        BY <2>1, <2>2, <4>1, <4>2 DEF Carved
    <3> QED
      BY <3>1, <3>2
  <2> QED
    BY <2>1, <2>3, <2>4 DEF ActiveInv
<1>4. ASSUME NEW t \in Threads, NEW s \in Segs, Carve(t, s) PROVE ActiveInv'
  <2>1. /\ work[t] \in Bins /\ pc[t] = "carve" /\ pc'[t] = "run" /\ s \notin mapped
        /\ mapped' = mapped \cup {s}
        /\ owner_tid'[s] = t /\ bin'[s] = work[t] /\ ~retired'[s] /\ segs'[t][work[t]] = s
        /\ \A g \in Segs \ {s} :
              owner_tid'[g] = owner_tid[g] /\ bin'[g] = bin[g] /\ retired'[g] = retired[g]
        /\ \A b \in Bins \ {work[t]} : segs'[t][b] = segs[t][b]
    BY <1>4, Carves
  <2>2. ThreadStep(t) /\ s # NoSeg
    BY <1>4, HeapAssumption DEF ThreadStep, Continue
  <2>3. \A u \in Threads \ {t} : LocalSame(u)
    BY <1>0, <2>2, OthersLocal
  <2>4. ASSUME NEW u \in Threads, NEW b \in Bins, ~(u = t /\ b = work[t])
        PROVE  (Active(u, b)' <=> Active(u, b)) /\ segs'[u][b] = segs[u][b]
    BY <2>1, <2>3, <2>4 DEF Active, LocalSame
  <2>5. ASSUME NEW u \in Threads, NEW b \in Bins PROVE OwnSeg(u, b)'
    <3>1. CASE u = t /\ b = work[t]
      BY <2>1, <3>1 DEF OwnSeg
    <3>2. CASE ~(u = t /\ b = work[t])
      <4>1. SUFFICES ASSUME Active(u, b) PROVE OwnSeg(u, b)'
        BY <2>4, <3>2 DEF OwnSeg
      <4>2. /\ segs[u][b] \in mapped /\ ~retired[segs[u][b]]
            /\ owner_tid[segs[u][b]] = u /\ bin[segs[u][b]] = b
        BY <1>0, <4>1 DEF ActiveInv, OwnSeg
      <4>3. segs[u][b] # s /\ segs[u][b] \in Segs
        BY <1>0, <2>1, <4>2 DEF IndexTypes
      <4> QED
        BY <2>1, <2>4, <3>2, <4>2, <4>3 DEF OwnSeg
    <3> QED
      BY <3>1, <3>2
  <2>6. ASSUME NEW g \in mapped' PROVE Carved(g)'
    <3>1. CASE g = s
      <4>1. \A b : b = work[t] => Active(t, b)'
        BY <2>1, <2>2 DEF Active
      <4> QED
        BY <2>1, <3>1, <4>1 DEF Carved
    <3>2. CASE g # s
      <4>1. /\ owner_tid'[g] = owner_tid[g] /\ bin'[g] = bin[g] /\ retired'[g] = retired[g]
            /\ Carved(g) /\ g \in mapped
        BY <1>0, <2>1, <3>2 DEF ActiveInv, IndexTypes
      <4>2. ASSUME ~retired[g]
            PROVE  ~(owner_tid[g] = t /\ bin[g] = work[t])
        BY <2>1, <4>1, <4>2 DEF Carved, Active
      <4> QED
        BY <2>4, <4>1, <4>2 DEF Carved
    <3> QED
      BY <3>1, <3>2
  <2> QED
    BY <2>5, <2>6 DEF ActiveInv
<1> QED
  BY <1>1, <1>2, <1>3, <1>4, NextSteps

-----------------------------------------------------------------------------
(* Free lists.                                                              *)
LEMMA ListFrame ==
    ASSUME NEW u, NEW b, Listed(u, b), segs'[u][b] = segs[u][b], heads'[u][b] \subseteq heads[u][b],
           heads'[u][b] # {} => (Active(u, b) => Active(u, b)')
    PROVE  Listed(u, b)'
  BY DEF Listed, ChunksOf

\* A list is changed by its thread only, and never with other lists.
LEMMA ListStep ==
    ASSUME IInv, [Next]_vars
    PROVE  ListInv'
<1>0. TypeOK /\ ActiveInv /\ ListInv /\ HeaderTypes /\ TlsTypes /\ LocalTypes /\ IndexTypes
  BY TypeParts DEF IInv
<1>1. CASE Reaper \/ UNCHANGED vars
  <2>1. UNCHANGED <<segs, pc, work, heads>>
    BY <1>1, ReaperLeaves DEF tlsVars, localVars
  <2>2. \A u \in Threads, b \in Bins : Active(u, b)' <=> Active(u, b)
    BY <2>1 DEF Active
  <2> QED
    BY <1>0, <2>1, <2>2, ListFrame DEF ListInv
<1>2. ASSUME NEW t \in Threads, ThreadStep(t), ~SetRetired(t), \A s \in Segs : ~Carve(t, s)
      PROVE  ListInv'
  <2>1. segs' = segs /\ \A u \in Threads, b \in Bins : Active(u, b)' <=> Active(u, b)
    BY <1>0, <1>2, StatusLeft
  <2>2. ASSUME NEW u \in Threads \ {t}, NEW b \in Bins PROVE Listed(u, b)'
    BY <1>0, <1>2, <2>1, OthersLocal, ListFrame DEF ListInv, LocalSame
  <2>3. ASSUME NEW d \in Bins, NEW b \in Bins, PopHead(t, d) PROVE heads'[t][b] \subseteq heads[t][b]
    BY <1>0, <2>3 DEF PopHead, TlsTypes
  <2>4. ASSUME NEW d \in Bins, NEW b \in Bins, Harvest(t, d) PROVE Listed(t, b)'
    <3>1. CASE heads'[t][b] \subseteq heads[t][b]
      BY <1>0, <2>1, <3>1, ListFrame DEF ListInv
    <3>2. CASE ~(heads'[t][b] \subseteq heads[t][b])
      <4> DEFINE Q == remote_head[segs[t][d]]
      <4>1. PICK c \in Q : heads' = [heads EXCEPT ![t][d] = Q \ {c}]
        BY <2>4, <3>2 DEF Harvest
      <4>2. b = d /\ heads'[t][b] \subseteq Q
        BY <1>0, <3>2, <4>1 DEF TlsTypes
      <4>3. segs[t][d] \in Segs /\ Active(t, d) /\ d \in ListBins
        BY <1>0, <2>4, RunActive DEF Harvest, TlsTypes
      <4>4. Q \subseteq ChunksOf(segs[t][d])
        BY <4>3 DEF IInv, FreeInv, Queued
      <4> QED
        BY <2>1, <4>2, <4>3, <4>4 DEF Listed
    <3> QED
      BY <3>1, <3>2
  <2>5. ASSUME NEW c \in Chunks, Free(t, c), NEW b \in Bins PROVE Listed(t, b)'
    <3>1. CASE heads'[t][b] = heads[t][b]
      BY <1>0, <2>1, <3>1, ListFrame DEF ListInv
    <3>2. CASE heads'[t][b] # heads[t][b]
      <4> DEFINE s == SegOf(c)
      <4>1. FreeToList(t, c)
        BY <2>5, <3>2 DEF Free, FreeCounted, FreeOnce
      <4>2. s \in mapped /\ s \in Segs /\ ~retired[s] /\ owner_tid[s] = t /\ bin[s] \in ListBins
        BY <1>0, <2>5, <4>1 DEF Free, FreeToList, OwnList, IndexTypes
      <4>3. Active(t, bin[s]) /\ segs[t][bin[s]] = s
        BY <1>0, <4>2 DEF ActiveInv, Carved
      <4>4. b = bin[s] /\ heads'[t][b] = heads[t][b] \cup {c}
        BY <1>0, <3>2, <4>1 DEF FreeToList, TlsTypes
      <4>5. c \in ChunksOf(s)
        BY <4>2, SegChunks
      <4>6. Listed(t, b)
        BY <1>0 DEF ListInv
      <4> QED
        BY <2>1, <4>2, <4>3, <4>4, <4>5, <4>6 DEF Listed
    <3> QED
      BY <3>1, <3>2
  <2>6. ASSUME UNCHANGED heads, NEW b \in Bins PROVE Listed(t, b)'
    BY <1>0, <2>1, <2>6, ListFrame DEF ListInv
  <2>7. ASSUME NEW b \in Bins PROVE Listed(t, b)'
    <3>1. ASSUME NEW d \in Bins, PopHead(t, d) PROVE Listed(t, b)'
      BY <1>0, <2>1, <2>3, <3>1, ListFrame DEF ListInv
    <3> QED
      BY <1>2, <2>4, <2>5, <2>6, <3>1
         DEF ThreadStep, BumpChunk, Refill, FirstRefill, PcHarvest, ArenaReset,
             Continue, StoreLiveChunks, DecLiveChunks, MpscPush, tlsVars
  <2> QED
    BY <2>2, <2>7 DEF ListInv
<1>3. ASSUME NEW t \in Threads, SetRetired(t) PROVE ListInv'
  <2>1. /\ pc[t] = "retire" /\ pc' = [pc EXCEPT ![t] = "carve"]
        /\ UNCHANGED <<heads, segs, work>> /\ heads[t][work[t]] = {}
    BY <1>3, Retires
  <2>2. ASSUME NEW u \in Threads, NEW b \in Bins, heads[u][b] # {} PROVE Active(u, b) => Active(u, b)'
    BY <1>0, <2>1, <2>2 DEF Active, LocalTypes
  <2> QED
    BY <1>0, <2>1, <2>2, ListFrame DEF ListInv
<1>4. ASSUME NEW t \in Threads, NEW s \in Segs, Carve(t, s) PROVE ListInv'
  <2>1. /\ work[t] \in Bins /\ pc[t] = "carve" /\ pc'[t] = "run" /\ segs'[t][work[t]] = s
        /\ \A b \in Bins \ {work[t]} : segs'[t][b] = segs[t][b] /\ heads'[t][b] = heads[t][b]
    BY <1>4, Carves
  <2>2. ThreadStep(t) /\ s # NoSeg
    BY <1>4, HeapAssumption DEF ThreadStep, Continue
  <2>3. \A u \in Threads \ {t} : LocalSame(u)
    BY <1>0, <2>2, OthersLocal
  <2>4. ASSUME NEW u \in Threads, NEW b \in Bins, ~(u = t /\ b = work[t]) PROVE Listed(u, b)'
    <3>1. (Active(u, b)' <=> Active(u, b)) /\ segs'[u][b] = segs[u][b] /\ heads'[u][b] = heads[u][b]
      BY <2>1, <2>3, <2>4 DEF Active, LocalSame
    <3> QED
      BY <1>0, <3>1, ListFrame DEF ListInv
  <2>5. ASSUME NEW b \in Bins, b = work[t] PROVE Listed(t, b)'
    <3>1. heads[t][b] = {} /\ segs'[t][b] = s /\ Active(t, b)'
      BY <2>1, <2>2, <2>5 DEF Active, IInv, RefillInv, Refilling
    <3>2. \/ heads'[t][b] = {}
          \/ heads'[t][b] \subseteq ChunksOf(s) /\ b \in ListBins
      BY <1>4, <2>5, <3>1, CarvesChunk
    <3> QED
      BY <3>1, <3>2 DEF Listed
  <2> QED
    BY <2>1, <2>4, <2>5 DEF ListInv
<1> QED
  BY <1>1, <1>2, <1>3, <1>4, NextSteps

\* A chunk is on one list at most.
LEMMA ListsApart ==
    ASSUME IInv, NEW t \in Threads, NEW b \in Bins, NEW c \in heads[t][b]
    PROVE  /\ b \in ListBins /\ c \in Chunks /\ SegOf(c) = segs[t][b] /\ Active(t, b)
           /\ SegOf(c) \in mapped /\ ~retired[SegOf(c)]
           /\ owner_tid[SegOf(c)] = t /\ bin[SegOf(c)] = b
<1>1. b \in ListBins /\ Active(t, b) /\ c \in ChunksOf(segs[t][b])
  BY DEF IInv, ListInv, Listed
<1>2. /\ segs[t][b] \in mapped /\ ~retired[segs[t][b]]
      /\ owner_tid[segs[t][b]] = t /\ bin[segs[t][b]] = b
  BY <1>1 DEF IInv, ActiveInv, OwnSeg
<1>3. c \in Chunks /\ segs[t][b] \in Segs
  BY <1>2 DEF IInv, TypeOK
<1>4. SegOf(c) = segs[t][b]
  BY <1>1, <1>3, SegChunks
<1> QED
  BY <1>1, <1>2, <1>3, <1>4

-----------------------------------------------------------------------------
(* Chunks in the hands of the program, of a free, or on a remote queue.     *)

\* The reaper unmaps segments, if at all, by an exact count. A segment of a
\* ProducerConsumer routine has none.
ExactReaping == PcBins = {} \/ ReapMode = "Madvise"

\* Nothing in use lies in the segment that is unmapped.
LEMMA UnmapSafe ==
    ASSUME IInv, ExactReaping, Unmap
    PROVE  /\ reaping \in Segs /\ reaping \in mapped /\ mapped' = mapped \ {reaping}
           /\ retired[reaping] /\ remote_head[reaping] = {}
           /\ \A c \in user : SegOf(c) # reaping
           /\ \A t \in Threads : chunk[t] # NoChunk => SegOf(chunk[t]) # reaping
<1>1. /\ reaping \in mapped /\ Abandoned(reaping) /\ ReapMode # "Madvise"
      /\ mapped' = mapped \ {reaping}
  BY DEF Unmap, IInv, ReapInv
<1>2. reaping \in Segs /\ user \subseteq Chunks /\ chunk \in [Threads -> Chunks \cup {NoChunk}]
  BY <1>1 DEF IInv, TypeOK
<1>3. bin[reaping] \in ListBins
  BY <1>1 DEF ExactReaping, IInv, ActiveInv, Carved, Abandoned, CountedBins
<1>4. Counted(reaping) = {}
  BY <1>1, <1>3 DEF Abandoned
<1>5. \A c \in user : SegOf(c) # reaping
  BY <1>2, <1>4, SegChunks DEF Counted, InHand
<1>6. \A t \in Threads : chunk[t] # NoChunk => SegOf(chunk[t]) # reaping
  BY <1>2, <1>4, SegChunks DEF Counted, InHand
<1>7. remote_head[reaping] = {}
  BY <1>2, <1>4 DEF Counted, InHand, IInv, FreeInv, Queued
<1> QED
  BY <1>1, <1>2, <1>5, <1>6, <1>7 DEF Abandoned

\* Where the chunks come from that are handed out.
LEMMA UserStep ==
    ASSUME IInv, ExactReaping, [Next]_vars
    PROVE  \A c \in user' : SegOf(c) \in mapped'
<1>0. TypeOK /\ HeaderTypes /\ TlsTypes /\ LocalTypes /\ IndexTypes /\ \A c \in user : SegOf(c) \in mapped
  BY TypeParts DEF IInv, FreeInv
<1>1. CASE Unmap
  BY <1>0, <1>1, UnmapSafe, ReaperLeaves DEF Reaper
<1>2. CASE UNCHANGED <<user, mapped>>
  BY <1>0, <1>2
<1>3. ASSUME NEW t \in Threads, NEW b \in Bins, PopHead(t, b) PROVE \A c \in user' : SegOf(c) \in mapped'
  BY <1>0, <1>3, ListsApart DEF PopHead, indexVars
<1>4. ASSUME NEW t \in Threads, NEW b \in Bins, BumpChunk(t, b) \/ ArenaReset(t, b)
      PROVE  \A c \in user' : SegOf(c) \in mapped'
  <2>1. pc[t] = "run" /\ segs[t][b] # NoSeg /\ UNCHANGED mapped
    BY <1>4 DEF BumpChunk, ArenaReset, HasRoom, indexVars
  <2>2. segs[t][b] \in mapped
    BY <2>1, RunActive DEF IInv
  <2>3. \A i : SegOf(<<segs[t][b], i>>) = segs[t][b]
    BY DEF SegOf
  <2> QED
    BY <1>0, <1>4, <2>1, <2>2, <2>3 DEF BumpChunk, ArenaReset
<1>5. ASSUME NEW t \in Threads, NEW b \in Bins, Harvest(t, b) PROVE \A c \in user' : SegOf(c) \in mapped'
  <2>1. pc[t] = "run" /\ segs[t][b] # NoSeg /\ UNCHANGED mapped
    BY <1>5 DEF Harvest, indexVars
  <2>2. segs[t][b] \in mapped /\ segs[t][b] \in Segs
    BY <1>0, <2>1, RunActive DEF IInv, IndexTypes
  <2>3. \A c \in remote_head[segs[t][b]] : SegOf(c) = segs[t][b]
    BY <1>0, <2>2, SegChunks DEF IInv, FreeInv, Queued, HeaderTypes
  <2> QED
    BY <1>0, <1>5, <2>1, <2>2, <2>3 DEF Harvest
<1>6. ASSUME NEW t \in Threads, NEW s \in Segs, Carve(t, s) PROVE \A c \in user' : SegOf(c) \in mapped'
  <2>1. \A c \in ChunksOf(s) : SegOf(c) = s
    BY SegChunks
  <2>2. mapped' = mapped \cup {s}
    BY <1>6, Carves
  <2> QED
    BY <1>0, <1>6, <2>1, <2>2, CarvesChunk
<1>7. ASSUME NEW t \in Threads, NEW c \in Chunks, Free(t, c) PROVE \A x \in user' : SegOf(x) \in mapped'
  BY <1>0, <1>7 DEF Free, indexVars
<1>8. CASE Reaper /\ ~Unmap
  BY <1>2, <1>8 DEF Reaper, Sweep, Unregister, Decommit, indexVars
<1>9. ASSUME NEW t \in Threads, ThreadStep(t) PROVE \A c \in user' : SegOf(c) \in mapped'
  <2>1. ASSUME NEW b \in Bins, FirstRefill(t, b) \/ PcHarvest(t, b) PROVE UNCHANGED <<user, mapped>>
    BY <2>1 DEF FirstRefill, PcHarvest, indexVars
  <2>2. ASSUME StoreLiveChunks(t) \/ SetRetired(t) \/ DecLiveChunks(t) \/ MpscPush(t)
        PROVE  UNCHANGED <<user, mapped>>
    BY <2>2 DEF StoreLiveChunks, SetRetired, DecLiveChunks, MpscPush, indexVars
  <2> QED
    BY <1>2, <1>3, <1>4, <1>5, <1>6, <1>7, <1>9, <2>1, <2>2 DEF ThreadStep, Refill, Continue
<1> QED
  BY <1>1, <1>2, <1>8, <1>9, NextSteps DEF vars, indexVars

\* A free in progress survives steps that leave its chunk and segment alone.
LEMMA InFreeFrame ==
    ASSUME NEW u, InFree(u), chunk'[u] = chunk[u], pc[u] \in {"dec", "push"} <=> pc'[u] \in {"dec", "push"},
           pc'[u] = "dec" => pc[u] = "dec",
           chunk[u] # NoChunk =>
               /\ SegOf(chunk[u]) \in mapped' /\ bin'[SegOf(chunk[u])] = bin[SegOf(chunk[u])]
               /\ retired[SegOf(chunk[u])] => retired'[SegOf(chunk[u])]
    PROVE  InFree(u)'
  BY DEF InFree, SegOf

\* The status of a mapped segment changes only by its retirement.
LEMMA StatusMapped ==
    ASSUME IInv, [Next]_vars, NEW s \in mapped
    PROVE  bin'[s] = bin[s] /\ owner_tid'[s] = owner_tid[s] /\ (retired[s] => retired'[s])
<1>0. TypeOK /\ s \in Segs
  BY DEF IInv, TypeOK
<1>1. CASE Reaper \/ UNCHANGED vars
  BY <1>1, ReaperLeaves
<1>2. ASSUME NEW t \in Threads, SetRetired(t)
      PROVE  bin'[s] = bin[s] /\ owner_tid'[s] = owner_tid[s] /\ (retired[s] => retired'[s])
  BY <1>0, <1>2, Retires
<1>3. ASSUME NEW t \in Threads, NEW g \in Segs, Carve(t, g)
      PROVE  bin'[s] = bin[s] /\ owner_tid'[s] = owner_tid[s] /\ (retired[s] => retired'[s])
  <2>1. s # g
    BY <1>3, Carves
  <2> QED
    BY <1>0, <1>3, <2>1, Carves
<1> QED
  BY <1>0, <1>1, <1>2, <1>3, StatusLeft, NextSteps

\* A free in progress works on a chunk of a mapped segment.
LEMMA InFreeStep ==
    ASSUME IInv, ExactReaping, [Next]_vars, NEW u \in Threads
    PROVE  InFree(u)'
<1>0. TypeOK /\ LocalTypes /\ InFree(u)
  BY TypeParts DEF IInv, FreeInv
<1>1. ASSUME chunk[u] # NoChunk
      PROVE  /\ SegOf(chunk[u]) \in mapped' /\ bin'[SegOf(chunk[u])] = bin[SegOf(chunk[u])]
             /\ retired[SegOf(chunk[u])] => retired'[SegOf(chunk[u])]
  <2>1. SegOf(chunk[u]) \in mapped
    BY <1>0, <1>1 DEF InFree
  <2>2. CASE Unmap
    BY <1>1, <2>1, <2>2, UnmapSafe, StatusMapped
  <2>3. CASE mapped \subseteq mapped'
    BY <2>1, <2>3, StatusMapped
  <2>4. Unmap \/ mapped \subseteq mapped'
    <3>1. ASSUME NEW t \in Threads, ThreadStep(t) PROVE mapped \subseteq mapped'
      <4>1. CASE SetRetired(t)
        BY <4>1, Retires
      <4>2. ASSUME NEW g \in Segs, Carve(t, g) PROVE mapped \subseteq mapped'
        BY <4>2, Carves
      <4> QED
        BY <1>0, <3>1, <4>1, <4>2, StatusLeft
    <3> QED
      BY <3>1, NextSteps DEF Reaper, Sweep, Unregister, Decommit, vars, indexVars
  <2> QED
    BY <2>2, <2>3, <2>4
<1>2. CASE LocalSame(u)
  BY <1>0, <1>1, <1>2, InFreeFrame DEF LocalSame
<1>3. CASE chunk'[u] = chunk[u] /\ pc[u] \notin {"dec", "push"} /\ pc'[u] \notin {"dec", "push"}
  BY <1>0, <1>1, <1>3, InFreeFrame
<1>4. CASE chunk'[u] = NoChunk /\ pc'[u] = "run"
  BY <1>4 DEF InFree
<1>5. ASSUME NEW c \in Chunks, Free(u, c), FreeCounted(u, c) PROVE InFree(u)'
  <2> DEFINE s == SegOf(c)
  <2>1. /\ s \in mapped /\ bin[s] \in CountedBins /\ c # NoChunk
        /\ chunk'[u] = c /\ UNCHANGED <<bin, retired, mapped>>
        /\ pc'[u] = IF retired[s] THEN "dec" ELSE "push"
    BY <1>0, <1>5, HeapAssumption
       DEF Free, FreeCounted, LocalTypes, headerVars, indexVars, CountedBins, Chunks, NoChunk
  <2> HIDE DEF s
  <2>2. \A x : (x = chunk'[u] => SegOf(x) = s)
    BY <2>1 DEF s
  <2>3. SegOf(chunk[u])' = s
    BY <2>2 DEF SegOf
  <2> QED
    BY <2>1, <2>3 DEF InFree
<1>6. ASSUME NEW c \in Chunks, Free(u, c), ~FreeCounted(u, c) PROVE InFree(u)'
  BY <1>3, <1>6 DEF Free, FreeToList, FreeOnce
<1>7. ASSUME NEW b \in Bins, PopHead(u, b) \/ BumpChunk(u, b) \/ Refill(u, b) PROVE InFree(u)'
  <2>1. chunk' = chunk /\ pc[u] = "run" /\ pc'[u] \notin {"dec", "push"}
    BY <1>0, <1>7 DEF PopHead, BumpChunk, Refill, FirstRefill, Harvest, PcHarvest, ArenaReset,
                      localVars, LocalTypes
  <2> QED
    BY <1>3, <2>1
<1>8. CASE StoreLiveChunks(u) \/ SetRetired(u) \/ \E s \in Segs : Carve(u, s)
  <2>1. chunk' = chunk /\ pc[u] \notin {"dec", "push"} /\ pc'[u] \notin {"dec", "push"}
    BY <1>0, <1>8 DEF StoreLiveChunks, SetRetired, Carve, LocalTypes
  <2> QED
    BY <1>3, <2>1
<1>9. CASE DecLiveChunks(u) \/ MpscPush(u)
  BY <1>0, <1>4, <1>9 DEF DecLiveChunks, MpscPush, FreeDone, LocalTypes
<1>10. ASSUME ThreadStep(u) PROVE InFree(u)'
  BY <1>5, <1>6, <1>7, <1>8, <1>9, <1>10 DEF ThreadStep, Continue
<1>11. ASSUME NEW t \in Threads, ThreadStep(t), t # u PROVE InFree(u)'
  BY <1>0, <1>2, <1>11, OthersLocal
<1> QED
  BY <1>2, <1>10, <1>11, ReaperLeaves, NextSteps

\* What MpscPush does.
LEMMA Pushes ==
    ASSUME IInv, NEW t \in Threads, MpscPush(t)
    PROVE  LET s == SegOf(chunk[t])
           IN  /\ chunk[t] \in Chunks /\ s \in Segs /\ s \in mapped /\ bin[s] \in CountedBins
               /\ chunk[t] \in ChunksOf(s)
               /\ remote_head'[s] = remote_head[s] \cup {chunk[t]}
               /\ \A g \in Segs \ {s} : remote_head'[g] = remote_head[g]
               /\ chunk'[t] = NoChunk /\ \A u \in Threads \ {t} : chunk'[u] = chunk[u]
               /\ UNCHANGED <<mapped, bin, owner_tid, retired, live_chunks, heads, bumped, segs, user>>
<1> DEFINE s == SegOf(chunk[t])
<1>0. HeaderTypes /\ LocalTypes /\ IndexTypes
  BY TypeParts DEF IInv
<1>1. pc[t] = "push" /\ chunk[t] # NoChunk /\ s \in mapped /\ bin[s] \in CountedBins
  BY DEF IInv, FreeInv, InFree, MpscPush
<1>2. s \in Segs /\ chunk[t] \in Chunks
  BY <1>0, <1>1 DEF IndexTypes, LocalTypes
<1>3. chunk[t] \in ChunksOf(s)
  BY <1>2, SegChunks
<1>4. /\ remote_head'[s] = remote_head[s] \cup {chunk[t]}
      /\ \A g \in Segs \ {s} : remote_head'[g] = remote_head[g]
  BY <1>0, <1>2 DEF MpscPush, HeaderTypes
<1>5. /\ chunk'[t] = NoChunk /\ \A u \in Threads \ {t} : chunk'[u] = chunk[u]
      /\ UNCHANGED <<mapped, bin, owner_tid, retired, live_chunks, heads, bumped, segs, user>>
  BY <1>0 DEF MpscPush, FreeDone, LocalTypes, indexVars, tlsVars
<1> QED
  BY <1>1, <1>2, <1>3, <1>4, <1>5

\* The remote queues change by a harvest, a push, or with a new segment.
LEMMA QueueStep ==
    ASSUME IInv, ExactReaping, [Next]_vars, NEW s \in Segs
    PROVE  Queued(s)'
<1>0. TypeOK /\ HeaderTypes /\ TlsTypes /\ Queued(s)
  BY TypeParts DEF IInv, FreeInv
<1>1. CASE Unmap
  <2>1. remote_head' = remote_head /\ bin' = bin /\ mapped' = mapped \ {reaping} /\ remote_head[reaping] = {}
    BY <1>1, UnmapSafe, ReaperLeaves DEF Reaper
  <2> QED
    BY <1>0, <2>1 DEF Queued, ChunksOf
<1>2. ASSUME remote_head'[s] \subseteq remote_head[s], mapped \subseteq mapped' PROVE Queued(s)'
  <2>1. s \in mapped => bin'[s] = bin[s]
    BY StatusMapped
  <2> QED
    BY <1>0, <1>2, <2>1 DEF Queued, ChunksOf
<1>3. ASSUME NEW t \in Threads, MpscPush(t) PROVE Queued(s)'
  <2>1. CASE s = SegOf(chunk[t])
    <3>1. /\ remote_head'[s] \subseteq ChunksOf(s) /\ s \in mapped' /\ bin'[s] \in CountedBins
      BY <1>0, <1>3, <2>1, Pushes DEF Queued
    <3> QED
      BY <3>1 DEF Queued, ChunksOf
  <2>2. CASE s # SegOf(chunk[t])
    BY <1>2, <1>3, <2>2, Pushes
  <2> QED
    BY <2>1, <2>2
<1>4. ASSUME NEW t \in Threads, NEW g \in Segs, Carve(t, g) PROVE Queued(s)'
  <2>1. remote_head'[s] \subseteq remote_head[s] /\ mapped \subseteq mapped'
    BY <1>4, Carves
  <2> QED
    BY <1>2, <2>1
<1>5. ASSUME NEW t \in Threads, NEW b \in Bins, Harvest(t, b) \/ PcHarvest(t, b) PROVE Queued(s)'
  <2>1. remote_head'[s] \subseteq remote_head[s] /\ mapped \subseteq mapped'
    BY <1>0, <1>5 DEF Harvest, PcHarvest, MpscHarvest, HeaderTypes, indexVars
  <2> QED
    BY <1>2, <2>1
<1>6. ASSUME UNCHANGED <<remote_head, mapped>> PROVE Queued(s)'
  BY <1>2, <1>6
<1>7. ASSUME NEW t \in Threads, ThreadStep(t) PROVE Queued(s)'
  <2>1. ASSUME NEW b \in Bins, PopHead(t, b) \/ BumpChunk(t, b) \/ FirstRefill(t, b) \/ ArenaReset(t, b)
        PROVE  UNCHANGED <<remote_head, mapped>>
    BY <2>1 DEF PopHead, BumpChunk, FirstRefill, ArenaReset, headerVars, indexVars
  <2>2. ASSUME NEW c \in Chunks, Free(t, c) PROVE UNCHANGED <<remote_head, mapped>>
    BY <2>2 DEF Free, headerVars, indexVars
  <2>3. CASE StoreLiveChunks(t) \/ SetRetired(t) \/ DecLiveChunks(t)
    BY <1>6, <2>3 DEF StoreLiveChunks, SetRetired, DecLiveChunks, indexVars
  <2> QED
    BY <1>3, <1>4, <1>5, <1>6, <1>7, <2>1, <2>2, <2>3 DEF ThreadStep, Refill, Continue
<1>8. CASE (Reaper /\ ~Unmap) \/ UNCHANGED vars
  BY <1>6, <1>8 DEF Reaper, Sweep, Unregister, Decommit, vars, headerVars, indexVars
<1> QED
  BY <1>1, <1>7, <1>8, NextSteps

\* Every step keeps FreeInv.
LEMMA FreeStep ==
    ASSUME IInv, ExactReaping, [Next]_vars
    PROVE  FreeInv'
  BY UserStep, InFreeStep, QueueStep DEF FreeInv, SegOf

-----------------------------------------------------------------------------
(* What the steps move, chunk by chunk.                                     *)

\* Everything chunks can be in, apart from the lists and regions of thread t.
Elsewhere(t) == \A u \in Threads \ {t} : heads'[u] = heads[u] /\ bumped'[u] = bumped[u] /\ segs'[u] = segs[u]

\* A chunk taken from a free list was on it.
LEMMA Pops ==
    ASSUME IInv, NEW t \in Threads, NEW b \in Bins, PopHead(t, b)
    PROVE  \E c \in heads[t][b] :
              /\ heads'[t][b] = heads[t][b] \ {c} /\ user' = user \cup {c}
              /\ \A d \in Bins \ {b} : heads'[t][d] = heads[t][d]
              /\ Elsewhere(t) /\ UNCHANGED <<headerVars, indexVars, bumped, segs, chunk>>
<1>0. TlsTypes
  BY TypeParts DEF IInv
<1>1. PICK c \in heads[t][b] :
         heads' = [heads EXCEPT ![t][b] = heads[t][b] \ {c}] /\ user' = user \cup {c}
  BY <1>0 DEF PopHead, TlsTypes
<1>2. UNCHANGED <<headerVars, indexVars, bumped, segs, chunk>>
  BY DEF PopHead, localVars
<1>3. /\ heads'[t][b] = heads[t][b] \ {c} /\ \A d \in Bins \ {b} : heads'[t][d] = heads[t][d]
      /\ \A u \in Threads \ {t} : heads'[u] = heads[u]
  BY <1>0, <1>1 DEF TlsTypes
<1> QED
  BY <1>1, <1>2, <1>3 DEF Elsewhere

\* Bumping hands out the first chunk beyond the pointer.
LEMMA Bumps ==
    ASSUME IInv, NEW t \in Threads, NEW b \in Bins, BumpChunk(t, b)
    PROVE  LET c == <<segs[t][b], bumped[t][b] + 1>>
           IN  /\ b \notin ListBins /\ c \in Chunks /\ SegOf(c) = segs[t][b] /\ Beyond(t, b, c)
               /\ bin[segs[t][b]] = b /\ owner_tid[segs[t][b]] = t /\ segs[t][b] \in mapped
               /\ bumped[t][b] \in Nat /\ bumped'[t][b] = bumped[t][b] + 1
               /\ \A d \in Bins \ {b} : bumped'[t][d] = bumped[t][d]
               /\ user' = user \cup {c}
               /\ Elsewhere(t) /\ UNCHANGED <<headerVars, indexVars, heads, segs, chunk>>
<1> DEFINE c == <<segs[t][b], bumped[t][b] + 1>>
<1>0. TlsTypes
  BY TypeParts DEF IInv
<1>1. /\ pc[t] = "run" /\ b \notin ListBins /\ segs[t][b] # NoSeg /\ bumped[t][b] < ChunksPerSeg
      /\ bumped' = [bumped EXCEPT ![t][b] = @ + 1] /\ user' = user \cup {c}
      /\ UNCHANGED <<headerVars, indexVars, heads, segs, chunk>>
  BY DEF BumpChunk, HasRoom, localVars
<1>2. /\ segs[t][b] \in Segs /\ bumped[t][b] \in 0..ChunksPerSeg
      /\ bumped'[t][b] = bumped[t][b] + 1 /\ \A d \in Bins \ {b} : bumped'[t][d] = bumped[t][d]
      /\ \A u \in Threads \ {t} : bumped'[u] = bumped[u]
  BY <1>0, <1>1 DEF TlsTypes
<1>3. bumped[t][b] + 1 \in 1..ChunksPerSeg /\ bumped[t][b] \in Nat /\ bumped[t][b] < bumped[t][b] + 1
  BY <1>1, <1>2, HeapAssumption
<1>4. c \in Chunks /\ SegOf(c) = segs[t][b] /\ c[2] = bumped[t][b] + 1
  BY <1>2, <1>3 DEF Chunks, SegOf
<1>5. bin[segs[t][b]] = b /\ owner_tid[segs[t][b]] = t /\ segs[t][b] \in mapped
  BY <1>1, RunActive DEF IInv
<1>6. Beyond(t, b, c)
  BY <1>3, <1>4 DEF Beyond
<1> QED
  BY <1>1, <1>2, <1>3, <1>4, <1>5, <1>6 DEF Elsewhere

\* Resetting an arena takes its chunks back and hands out the first one again.
LEMMA Resets ==
    ASSUME IInv, NEW t \in Threads, NEW b \in Bins, ArenaReset(t, b)
    PROVE  LET s == segs[t][b]
           IN  /\ b \in OnceBins /\ s \in mapped /\ s \in Segs /\ bin[s] = b /\ owner_tid[s] = t
               /\ <<s, 1>> \in Chunks /\ SegOf(<<s, 1>>) = s
               /\ user' = (user \ ChunksOf(s)) \cup {<<s, 1>>} /\ bumped'[t][b] = 1
               /\ \A d \in Bins \ {b} : bumped'[t][d] = bumped[t][d]
               /\ remote_head[s] = {} /\ \A u \in Threads : SegOf(chunk[u]) # s
               /\ Elsewhere(t) /\ UNCHANGED <<headerVars, indexVars, heads, segs, chunk>>
<1> DEFINE s == segs[t][b]
<1>0. TlsTypes /\ LocalTypes
  BY TypeParts DEF IInv
<1>1. /\ pc[t] = "run" /\ b \in ArenaBins /\ s # NoSeg /\ bumped' = [bumped EXCEPT ![t][b] = 1]
      /\ user' = (user \ ChunksOf(s)) \cup {<<s, 1>>}
      /\ UNCHANGED <<headerVars, indexVars, heads, segs, chunk>>
  BY DEF ArenaReset, localVars
<1>2. /\ s \in Segs /\ bumped'[t][b] = 1 /\ \A d \in Bins \ {b} : bumped'[t][d] = bumped[t][d]
      /\ \A u \in Threads \ {t} : bumped'[u] = bumped[u]
  BY <1>0, <1>1 DEF TlsTypes
<1>3. <<s, 1>> \in Chunks /\ SegOf(<<s, 1>>) = s
  BY <1>2, HeapAssumption DEF Chunks, SegOf
<1>4. bin[s] = b /\ owner_tid[s] = t /\ s \in mapped /\ b \in OnceBins /\ b \notin CountedBins
  BY <1>1, RunActive, Kinds DEF IInv, CountedBins
<1>5. remote_head[s] = {}
  BY <1>2, <1>4 DEF IInv, FreeInv, Queued
<1>6. \A u \in Threads : SegOf(chunk[u]) # s
  <2>1. SegOf(NoChunk) = NoSeg
    BY DEF SegOf, NoChunk
  <2> QED
    BY <1>2, <1>4, <2>1, HeapAssumption DEF IInv, FreeInv, InFree
<1> QED
  BY <1>1, <1>2, <1>3, <1>4, <1>5, <1>6 DEF Elsewhere

\* A harvest moves the remote queue to the list, and one chunk to the program;
\* or nothing.
LEMMA Harvests ==
    ASSUME IInv, NEW t \in Threads, NEW b \in Bins, Harvest(t, b)
    PROVE  LET s == segs[t][b]
           IN  /\ b \in ListBins /\ s \in mapped /\ s \in Segs /\ ~retired[s]
               /\ bin[s] = b /\ owner_tid[s] = t
               /\ heads[t][b] = {}
               /\ \A d \in Bins \ {b} : heads'[t][d] = heads[t][d]
               /\ \A g \in Segs \ {s} : remote_head'[g] = remote_head[g]
               /\ Elsewhere(t)
               /\ UNCHANGED <<owner_tid, bin, retired, live_chunks, indexVars, bumped, segs, chunk>>
               /\ \/ UNCHANGED <<heads, remote_head, user>>
                  \/ /\ remote_head'[s] = {}
                     /\ \E c \in remote_head[s] : /\ heads'[t][b] = remote_head[s] \ {c}
                                                  /\ user' = user \cup {c}
<1> DEFINE s == segs[t][b]
<1>0. HeaderTypes /\ TlsTypes
  BY TypeParts DEF IInv
<1>1. /\ pc[t] = "run" /\ b \in ListBins /\ s # NoSeg /\ heads[t][b] = {}
      /\ UNCHANGED <<owner_tid, bin, retired, live_chunks, indexVars, bumped, segs, chunk>>
  BY DEF Harvest
<1>2. s \in mapped /\ s \in Segs /\ ~retired[s] /\ bin[s] = b /\ owner_tid[s] = t
  BY <1>0, <1>1, RunActive DEF IInv, TlsTypes
<1>3. CASE remote_head[s] = {}
  <2>1. UNCHANGED <<heads, remote_head, user>>
    BY <1>3 DEF Harvest
  <2> QED
    BY <1>1, <1>2, <2>1 DEF Elsewhere
<1>4. CASE remote_head[s] # {}
  <2>1. PICK c \in remote_head[s] : /\ heads' = [heads EXCEPT ![t][b] = remote_head[s] \ {c}]
                                    /\ user' = user \cup {c}
    BY <1>4 DEF Harvest
  <2>2. remote_head' = [remote_head EXCEPT ![s] = {}]
    BY <1>4 DEF Harvest, MpscHarvest
  <2>3. remote_head'[s] = {} /\ \A g \in Segs \ {s} : remote_head'[g] = remote_head[g]
    BY <1>0, <1>2, <2>2 DEF HeaderTypes
  <2>4. /\ heads'[t][b] = remote_head[s] \ {c} /\ \A d \in Bins \ {b} : heads'[t][d] = heads[t][d]
        /\ \A u \in Threads \ {t} : heads'[u] = heads[u]
    BY <1>0, <2>1 DEF TlsTypes
  <2>5. Elsewhere(t)
    BY <1>1, <2>4 DEF Elsewhere
  <2> QED
    BY <1>1, <1>2, <2>1, <2>3, <2>4, <2>5
<1> QED
  BY <1>3, <1>4

\* A free moves a chunk from the program to a list, to the thread's hands, or
\* into a region that is rewound by one.
LEMMA Frees ==
    ASSUME IInv, NEW t \in Threads, NEW c \in Chunks, Free(t, c)
    PROVE  LET s == SegOf(c)
           IN  /\ c \in user /\ user' = user \ {c} /\ s \in Segs /\ s \in mapped /\ chunk[t] = NoChunk
               /\ Elsewhere(t) /\ UNCHANGED <<headerVars, indexVars, segs, reapVars>>
               /\ \A u \in Threads \ {t} : chunk'[u] = chunk[u]
               /\ \/ /\ ~retired[s] /\ owner_tid[s] = t /\ bin[s] \in ListBins
                     /\ heads'[t][bin[s]] = heads[t][bin[s]] \cup {c}
                     /\ \A d \in Bins \ {bin[s]} : heads'[t][d] = heads[t][d]
                     /\ UNCHANGED <<bumped, chunk>>
                  \/ chunk'[t] = c /\ bin[s] \in CountedBins /\ UNCHANGED <<heads, bumped>>
                  \/ bin[s] \in OnceBins /\ UNCHANGED <<heads, bumped, chunk>>
                  \/ /\ bin[s] \in OnceBins /\ c = <<segs[t][bin[s]], bumped[t][bin[s]]>>
                     /\ bumped'[t][bin[s]] = bumped[t][bin[s]] - 1
                     /\ \A d \in Bins \ {bin[s]} : bumped'[t][d] = bumped[t][d]
                     /\ UNCHANGED <<heads, chunk>>
<1> DEFINE s == SegOf(c)
<1>0. HeaderTypes /\ TlsTypes /\ LocalTypes /\ IndexTypes /\ TypeOK
  BY TypeParts DEF IInv
<1>1. /\ c \in user /\ user' = user \ {c} /\ s \in mapped /\ pc[t] = "run"
      /\ UNCHANGED <<headerVars, indexVars, segs, reapVars>>
  BY DEF Free
<1>2. s \in Segs /\ chunk[t] = NoChunk
  BY <1>0, <1>1 DEF IndexTypes, IInv, FreeInv, InFree
<1>3. Elsewhere(t) /\ \A u \in Threads \ {t} : chunk'[u] = chunk[u]
  <2>1. ThreadStep(t)
    BY DEF ThreadStep
  <2> QED
    BY <1>0, <2>1, OthersLocal DEF LocalSame, Elsewhere
<1>4. CASE FreeToList(t, c)
  <2>1. /\ ~retired[s] /\ owner_tid[s] = t /\ bin[s] \in ListBins /\ UNCHANGED <<bumped, chunk>>
        /\ heads' = [heads EXCEPT ![t][bin[s]] = @ \cup {c}]
    BY <1>4 DEF FreeToList, OwnList
  <2>2. bin[s] \in Bins
    BY <2>1, Kinds
  <2>3. /\ heads'[t][bin[s]] = heads[t][bin[s]] \cup {c}
        /\ \A d \in Bins \ {bin[s]} : heads'[t][d] = heads[t][d]
    BY <1>0, <2>1, <2>2 DEF TlsTypes
  <2> QED
    BY <1>1, <1>2, <1>3, <2>1, <2>3
<1>5. CASE FreeCounted(t, c)
  <2>1. chunk'[t] = c /\ bin[s] \in CountedBins /\ UNCHANGED <<heads, bumped>>
    BY <1>0, <1>5 DEF FreeCounted, CountedBins, LocalTypes
  <2> QED
    BY <1>1, <1>2, <1>3, <2>1
<1>6. CASE FreeOnce(t, c) /\ ~LifoTop(t, c)
  BY <1>1, <1>2, <1>3, <1>6 DEF FreeOnce
<1>7. CASE FreeOnce(t, c) /\ LifoTop(t, c)
  <2>1. /\ bin[s] \in OnceBins /\ c = <<segs[t][bin[s]], bumped[t][bin[s]]>>
        /\ bumped' = [bumped EXCEPT ![t][bin[s]] = @ - 1] /\ UNCHANGED <<heads, chunk>>
    BY <1>7 DEF FreeOnce, LifoTop
  <2>2. bin[s] \in Bins
    BY <2>1, Kinds
  <2>3. /\ bumped'[t][bin[s]] = bumped[t][bin[s]] - 1
        /\ \A d \in Bins \ {bin[s]} : bumped'[t][d] = bumped[t][d]
    BY <1>0, <2>1, <2>2 DEF TlsTypes
  <2> QED
    BY <1>1, <1>2, <1>3, <2>1, <2>3
<1> QED
  BY <1>4, <1>5, <1>6, <1>7 DEF Free

\* DecLiveChunks lets go of the chunk.
LEMMA Decs ==
    ASSUME IInv, NEW t \in Threads, DecLiveChunks(t)
    PROVE  LET s == SegOf(chunk[t])
           IN  /\ chunk[t] \in Chunks /\ s \in Segs /\ s \in mapped /\ retired[s]
               /\ chunk'[t] = NoChunk /\ \A u \in Threads \ {t} : chunk'[u] = chunk[u]
               /\ live_chunks'[s] = ((live_chunks[s] + CountMod) - 1) % CountMod
               /\ \A g \in Segs \ {s} : live_chunks'[g] = live_chunks[g]
               /\ UNCHANGED <<mapped, bin, owner_tid, retired, remote_head, heads, bumped, segs, user>>
<1> DEFINE s == SegOf(chunk[t])
<1>0. HeaderTypes /\ LocalTypes /\ IndexTypes
  BY TypeParts DEF IInv
<1>1. pc[t] = "dec" /\ chunk[t] # NoChunk /\ s \in mapped /\ retired[s]
  BY DEF IInv, FreeInv, InFree, DecLiveChunks
<1>2. s \in Segs /\ chunk[t] \in Chunks
  BY <1>0, <1>1 DEF IndexTypes, LocalTypes
<1>3. /\ live_chunks'[s] = (live_chunks[s] + CountMod - 1) % CountMod
      /\ \A g \in Segs \ {s} : live_chunks'[g] = live_chunks[g]
  BY <1>0, <1>2 DEF DecLiveChunks, HeaderTypes
<1>4. live_chunks'[s] = ((live_chunks[s] + CountMod) - 1) % CountMod
  BY <1>0, <1>2, <1>3, HeapAssumption DEF HeaderTypes
<1>5. /\ chunk'[t] = NoChunk /\ \A u \in Threads \ {t} : chunk'[u] = chunk[u]
      /\ UNCHANGED <<mapped, bin, owner_tid, retired, remote_head, heads, bumped, segs, user>>
  BY <1>0 DEF DecLiveChunks, FreeDone, LocalTypes, indexVars, tlsVars
<1> QED
  BY <1>1, <1>2, <1>3, <1>4, <1>5

-----------------------------------------------------------------------------
(* No chunk is in two places.                                               *)

\* A chunk on a remote queue is of that segment.
LEMMA QueueOwn ==
    ASSUME IInv, NEW s \in Segs, NEW c \in remote_head[s]
    PROVE  c \in Chunks /\ SegOf(c) = s /\ c \in ChunksOf(s) /\ s \in mapped /\ bin[s] \in CountedBins
<1>1. c \in ChunksOf(s) /\ s \in mapped /\ bin[s] \in CountedBins
  BY DEF IInv, FreeInv, Queued
<1> QED
  BY <1>1, SegChunks

\* Nothing of a segment that is not mapped is anywhere.
LEMMA UnmappedUnused ==
    ASSUME IInv, NEW s \in Segs \ mapped
    PROVE  /\ \A c \in user : SegOf(c) # s
           /\ \A u \in Threads : chunk[u] # NoChunk => SegOf(chunk[u]) # s
           /\ \A u \in Threads, d \in Bins : \A c \in heads[u][d] : SegOf(c) # s
           /\ remote_head[s] = {}
<1>1. \A u \in Threads, d \in Bins : \A c \in heads[u][d] : SegOf(c) # s
  BY ListsApart
<1> QED
  BY <1>1 DEF IInv, FreeInv, InFree, Queued

\* The four parts of ApartInv, to be shown of the next state.
LEMMA ApartParts ==
    ASSUME \A u \in Threads : chunk'[u] \notin user',
           \A u, v \in Threads : u # v /\ chunk'[u] = chunk'[v] => chunk'[u] = NoChunk,
           \A u \in Threads, d \in Bins : \A x \in heads'[u][d] :
               x \notin user' /\ x \notin remote_head'[SegOf(x)] /\ \A v \in Threads : chunk'[v] # x,
           \A s \in Segs : \A x \in remote_head'[s] : x \notin user' /\ \A v \in Threads : chunk'[v] # x
    PROVE  ApartInv'
  BY DEF ApartInv, SegOf

\* malloc moves a chunk from one place to another.
LEMMA ApartMalloc ==
    ASSUME IInv, NEW t \in Threads, NEW b \in Bins,
           PopHead(t, b) \/ BumpChunk(t, b) \/ ArenaReset(t, b)
    PROVE  ApartInv'
<1>0. ApartInv /\ ServedInv /\ TypeOK
  BY DEF IInv
\* The chunk handed out was in one place at most.
<1>1. PICK c \in Chunks :
         /\ user' \subseteq user \cup {c} /\ UNCHANGED <<remote_head, chunk>>
         /\ \A u \in Threads, d \in Bins : heads'[u][d] \subseteq heads[u][d] /\ c \notin heads'[u][d]
         /\ c \notin remote_head[SegOf(c)] /\ \A u \in Threads : chunk[u] # c
  <2>1. CASE PopHead(t, b)
    <3>1. PICK c \in heads[t][b] :
             /\ heads'[t][b] = heads[t][b] \ {c} /\ user' = user \cup {c}
             /\ \A d \in Bins \ {b} : heads'[t][d] = heads[t][d]
             /\ Elsewhere(t) /\ UNCHANGED <<headerVars, indexVars, bumped, segs, chunk>>
      BY <2>1, Pops
    <3>2. /\ \A u \in Threads, d \in Bins : heads'[u][d] \subseteq heads[u][d] /\ c \notin heads'[u][d]
      BY <3>1, ListsApart DEF Elsewhere
    <3>3. c \in Chunks /\ c \notin remote_head[SegOf(c)] /\ \A u \in Threads : chunk[u] # c
      BY <1>0, <3>1, ListsApart DEF ApartInv
    <3> QED
      BY <3>1, <3>2, <3>3 DEF headerVars
  <2>2. CASE BumpChunk(t, b)
    <3> DEFINE c == <<segs[t][b], bumped[t][b] + 1>>
    <3>1. /\ b \notin ListBins /\ c \in Chunks /\ SegOf(c) = segs[t][b] /\ Beyond(t, b, c)
          /\ bin[segs[t][b]] = b /\ user' = user \cup {c}
          /\ UNCHANGED <<headerVars, indexVars, heads, segs, chunk>>
      BY <2>2, Bumps
    <3> HIDE DEF c
    <3>2. c \notin remote_head[SegOf(c)] /\ \A u \in Threads : chunk[u] # c
      BY <1>0, <3>1 DEF ServedInv
    <3>3. \A u \in Threads, d \in Bins : c \notin heads[u][d]
      BY <3>1, ListsApart
    <3> QED
      BY <3>1, <3>2, <3>3 DEF headerVars
  <2>3. CASE ArenaReset(t, b)
    <3> DEFINE s == segs[t][b]
               c == <<s, 1>>
    <3>1. /\ b \in OnceBins /\ bin[s] = b /\ c \in Chunks /\ SegOf(c) = s
          /\ user' = (user \ ChunksOf(s)) \cup {c}
          /\ remote_head[s] = {} /\ \A u \in Threads : SegOf(chunk[u]) # s
          /\ UNCHANGED <<headerVars, indexVars, heads, segs, chunk>>
      BY <2>3, Resets
    <3> HIDE DEF c, s
    <3>2. \A u \in Threads, d \in Bins : c \notin heads[u][d]
      BY <3>1, ListsApart, Kinds
    <3> QED
      BY <3>1, <3>2 DEF headerVars
  <2> QED
    BY <2>1, <2>2, <2>3
<1>2. \A u \in Threads : chunk'[u] \notin user'
  BY <1>0, <1>1 DEF ApartInv
<1>3. \A u, v \in Threads : u # v /\ chunk'[u] = chunk'[v] => chunk'[u] = NoChunk
  BY <1>0, <1>1 DEF ApartInv
<1>4. \A u \in Threads, d \in Bins : \A x \in heads'[u][d] :
         x \notin user' /\ x \notin remote_head'[SegOf(x)] /\ \A v \in Threads : chunk'[v] # x
  BY <1>0, <1>1 DEF ApartInv
<1>5. \A s \in Segs : \A x \in remote_head'[s] : x \notin user' /\ \A v \in Threads : chunk'[v] # x
  BY <1>0, <1>1, QueueOwn DEF ApartInv
<1> QED
  BY <1>2, <1>3, <1>4, <1>5, ApartParts

\* The remote queue moves to the free list.
LEMMA ApartHarvest ==
    ASSUME IInv, NEW t \in Threads, NEW b \in Bins, Harvest(t, b)
    PROVE  ApartInv'
<1> DEFINE s == segs[t][b]
<1>0. ApartInv
  BY DEF IInv
<1>1. /\ b \in ListBins /\ s \in mapped /\ s \in Segs
      /\ \A d \in Bins \ {b} : heads'[t][d] = heads[t][d]
      /\ \A g \in Segs \ {s} : remote_head'[g] = remote_head[g]
      /\ Elsewhere(t) /\ UNCHANGED chunk
      /\ \/ UNCHANGED <<heads, remote_head, user>>
         \/ /\ remote_head'[s] = {}
            /\ \E c \in remote_head[s] : heads'[t][b] = remote_head[s] \ {c} /\ user' = user \cup {c}
  BY Harvests
<1>2. CASE UNCHANGED <<heads, remote_head, user>>
  BY <1>0, <1>1, <1>2 DEF ApartInv, SegOf
<1>3. ASSUME remote_head'[s] = {}, NEW c \in remote_head[s],
             heads'[t][b] = remote_head[s] \ {c}, user' = user \cup {c}
      PROVE  ApartInv'
  <2>0. \A x \in remote_head[s] : SegOf(x) = s /\ x \notin user /\ \A v \in Threads : chunk[v] # x
    BY <1>0, <1>1, QueueOwn DEF ApartInv
  <2>1. \A u \in Threads : chunk'[u] \notin user'
    BY <1>0, <1>1, <1>3, <2>0 DEF ApartInv
  <2>2. \A u, v \in Threads : u # v /\ chunk'[u] = chunk'[v] => chunk'[u] = NoChunk
    BY <1>0, <1>1 DEF ApartInv
  <2>3. ASSUME NEW u \in Threads, NEW d \in Bins, NEW x \in heads'[u][d]
        PROVE  x \notin user' /\ x \notin remote_head'[SegOf(x)] /\ \A v \in Threads : chunk'[v] # x
    <3>1. CASE u = t /\ d = b
      BY <1>1, <1>3, <2>0, <2>3, <3>1
    <3>2. CASE ~(u = t /\ d = b)
      <4>1. x \in heads[u][d]
        BY <1>1, <2>3, <3>2 DEF Elsewhere
      <4>2. x \notin user /\ x \notin remote_head[SegOf(x)] /\ \A v \in Threads : chunk[v] # x
        BY <1>0, <4>1 DEF ApartInv
      <4>3. x \notin remote_head[s] /\ SegOf(x) \in Segs
        BY <2>0, <4>1, <4>2, ListsApart DEF IInv, TypeOK
      <4> QED
        BY <1>1, <1>3, <4>2, <4>3
    <3> QED
      BY <3>1, <3>2
  <2>4. ASSUME NEW g \in Segs, NEW x \in remote_head'[g]
        PROVE  x \notin user' /\ \A v \in Threads : chunk'[v] # x
    <3>1. g # s /\ x \in remote_head[g]
      BY <1>1, <1>3, <2>4
    <3>2. SegOf(x) = g /\ x # c
      BY <2>0, <3>1, QueueOwn
    <3> QED
      BY <1>0, <1>1, <1>3, <3>1, <3>2 DEF ApartInv
  <2> QED
    BY <2>1, <2>2, <2>3, <2>4, ApartParts
<1> QED
  BY <1>1, <1>2, <1>3

\* A fresh segment is cut into chunks nobody has.
LEMMA ApartCarve ==
    ASSUME IInv, NEW t \in Threads, NEW s \in Segs, Carve(t, s)
    PROVE  ApartInv'
<1>0. ApartInv /\ TypeOK
  BY DEF IInv
<1>1. /\ work[t] \in Bins /\ s \notin mapped /\ remote_head'[s] = {} /\ UNCHANGED chunk
      /\ \A g \in Segs \ {s} : remote_head'[g] = remote_head[g]
      /\ \A b \in Bins \ {work[t]} : heads'[t][b] = heads[t][b]
  BY Carves
<1>2. /\ \A c \in user : SegOf(c) # s
      /\ \A u \in Threads : chunk[u] # NoChunk => SegOf(chunk[u]) # s
      /\ \A u \in Threads, d \in Bins : \A c \in heads[u][d] : SegOf(c) # s
  BY <1>1, UnmappedUnused
<1>3. PICK c \in ChunksOf(s) : /\ user' = user \cup {c}
                               /\ heads'[t][work[t]] \in {ChunksOf(s) \ {c}, heads[t][work[t]]}
  BY CarvesChunk
<1>4. /\ \A x \in ChunksOf(s) : x \in Chunks /\ SegOf(x) = s
      /\ \A u \in Threads : SegOf(chunk[u]) # s /\ chunk[u] \notin ChunksOf(s)
  <2>1. SegOf(NoChunk) = NoSeg
    BY DEF SegOf, NoChunk
  <2>2. \A x \in ChunksOf(s) : x \in Chunks /\ SegOf(x) = s
    BY SegChunks
  <2> QED
    BY <1>2, <2>1, <2>2, HeapAssumption
<1>5. \A u \in Threads \ {t} : heads'[u] = heads[u]
  <2>1. ThreadStep(t)
    BY DEF ThreadStep, Continue
  <2> QED
    BY <1>0, <2>1, OthersLocal DEF LocalSame
<1>6. \A u \in Threads : chunk'[u] \notin user'
  BY <1>0, <1>1, <1>3, <1>4 DEF ApartInv
<1>7. \A u, v \in Threads : u # v /\ chunk'[u] = chunk'[v] => chunk'[u] = NoChunk
  BY <1>0, <1>1 DEF ApartInv
<1>8. ASSUME NEW u \in Threads, NEW d \in Bins, NEW x \in heads'[u][d]
      PROVE  x \notin user' /\ x \notin remote_head'[SegOf(x)] /\ \A v \in Threads : chunk'[v] # x
  <2>1. CASE x \in heads[u][d]
    <3>1. SegOf(x) # s /\ SegOf(x) \in Segs
      BY <1>0, <1>2, <2>1, ListsApart DEF TypeOK
    <3> QED
      BY <1>0, <1>1, <1>3, <1>4, <2>1, <3>1 DEF ApartInv
  <2>2. CASE x \notin heads[u][d]
    <3>1. x \in ChunksOf(s) \ {c}
      BY <1>1, <1>3, <1>5, <1>8, <2>2
    <3> QED
      BY <1>1, <1>2, <1>3, <1>4, <3>1
  <2> QED
    BY <2>1, <2>2
<1>9. ASSUME NEW g \in Segs, NEW x \in remote_head'[g]
      PROVE  x \notin user' /\ \A v \in Threads : chunk'[v] # x
  <2>1. g # s /\ x \in remote_head[g]
    BY <1>1, <1>9
  <2>2. x # c
    BY <1>4, <2>1, QueueOwn
  <2> QED
    BY <1>0, <1>1, <1>3, <2>1, <2>2 DEF ApartInv
<1> QED
  BY <1>6, <1>7, <1>8, <1>9, ApartParts

\* free takes the chunk from the program ...
LEMMA ApartFree ==
    ASSUME IInv, NEW t \in Threads, NEW c \in Chunks, Free(t, c)
    PROVE  ApartInv'
<1> DEFINE s == SegOf(c)
<1>0. ApartInv /\ TypeOK /\ c # NoChunk
  BY SegChunks, HeapAssumption DEF IInv, Chunks, NoChunk
<1>1. /\ c \in user /\ user' = user \ {c} /\ s \in Segs /\ chunk[t] = NoChunk
      /\ Elsewhere(t) /\ UNCHANGED remote_head
      /\ \A u \in Threads \ {t} : chunk'[u] = chunk[u]
      /\ \/ /\ bin[s] \in ListBins
            /\ heads'[t][bin[s]] = heads[t][bin[s]] \cup {c}
            /\ \A d \in Bins \ {bin[s]} : heads'[t][d] = heads[t][d]
            /\ UNCHANGED chunk
         \/ chunk'[t] = c /\ UNCHANGED heads
         \/ UNCHANGED <<heads, chunk>>
  BY Frees DEF headerVars
<1>2. /\ \A u \in Threads : chunk[u] # c
      /\ \A u \in Threads, d \in Bins : c \notin heads[u][d]
      /\ \A g \in Segs : c \notin remote_head[g]
  BY <1>0, <1>1 DEF ApartInv
<1>3. \A u \in Threads : chunk'[u] \notin user'
  BY <1>0, <1>1 DEF ApartInv
<1>4. \A u, v \in Threads : u # v /\ chunk'[u] = chunk'[v] => chunk'[u] = NoChunk
  BY <1>0, <1>1, <1>2 DEF ApartInv
<1>5. ASSUME NEW u \in Threads, NEW d \in Bins, NEW x \in heads'[u][d]
      PROVE  x \notin user' /\ x \notin remote_head'[SegOf(x)] /\ \A v \in Threads : chunk'[v] # x
  <2>1. CASE x \in heads[u][d]
    BY <1>0, <1>1, <1>2, <2>1 DEF ApartInv
  <2>2. CASE x \notin heads[u][d]
    <3>1. x = c /\ UNCHANGED chunk
      BY <1>0, <1>1, <1>5, <2>2 DEF Elsewhere
    <3> QED
      BY <1>1, <1>2, <3>1
  <2> QED
    BY <2>1, <2>2
<1>6. \A g \in Segs : \A x \in remote_head'[g] : x \notin user' /\ \A v \in Threads : chunk'[v] # x
  BY <1>0, <1>1, <1>2 DEF ApartInv
<1> QED
  BY <1>3, <1>4, <1>5, <1>6, ApartParts

\* ... and gives it to the segment or to its queue.
LEMMA ApartFreeDone ==
    ASSUME IInv, NEW t \in Threads, DecLiveChunks(t) \/ MpscPush(t)
    PROVE  ApartInv'
<1> DEFINE s == SegOf(chunk[t])
<1>0. ApartInv /\ TypeOK /\ \A g \in Segs : NoChunk \notin ChunksOf(g)
  BY SegChunks DEF IInv
<1>1. /\ chunk[t] \in Chunks /\ s \in Segs /\ UNCHANGED <<user, heads>>
      /\ chunk'[t] = NoChunk /\ \A u \in Threads \ {t} : chunk'[u] = chunk[u]
      /\ \A g \in Segs \ {s} : remote_head'[g] = remote_head[g]
      /\ remote_head'[s] \subseteq remote_head[s] \cup {chunk[t]}
  BY Decs, Pushes
<1>2. NoChunk \notin Chunks /\ chunk[t] # NoChunk
  BY <1>1, SegChunks
<1>3. \A u \in Threads : chunk'[u] \notin user'
  BY <1>0, <1>1, <1>2 DEF ApartInv, TypeOK
<1>4. \A u, v \in Threads : u # v /\ chunk'[u] = chunk'[v] => chunk'[u] = NoChunk
  BY <1>0, <1>1 DEF ApartInv
<1>5. ASSUME NEW u \in Threads, NEW d \in Bins, NEW x \in heads'[u][d]
      PROVE  x \notin user' /\ x \notin remote_head'[SegOf(x)] /\ \A v \in Threads : chunk'[v] # x
  <2>1. x \in heads[u][d] /\ x \in Chunks /\ SegOf(x) \in Segs
    BY <1>0, <1>1, <1>5, ListsApart DEF TypeOK
  <2>2. x \notin user /\ x \notin remote_head[SegOf(x)] /\ \A v \in Threads : chunk[v] # x
    BY <1>0, <2>1 DEF ApartInv
  <2> QED
    BY <1>1, <1>2, <2>1, <2>2
<1>6. ASSUME NEW g \in Segs, NEW x \in remote_head'[g]
      PROVE  x \notin user' /\ \A v \in Threads : chunk'[v] # x
  <2>1. CASE x \in remote_head[g]
    BY <1>0, <1>1, <1>2, <2>1, QueueOwn DEF ApartInv
  <2>2. CASE x \notin remote_head[g]
    <3>1. x = chunk[t]
      BY <1>1, <1>6, <2>2
    <3> QED
      BY <1>0, <1>1, <1>2, <3>1 DEF ApartInv
  <2> QED
    BY <2>1, <2>2
<1> QED
  BY <1>3, <1>4, <1>5, <1>6, ApartParts

\* Every step keeps ApartInv.
LEMMA ApartStep ==
    ASSUME IInv, [Next]_vars
    PROVE  ApartInv'
<1>0. ApartInv /\ HeaderTypes
  BY TypeParts DEF IInv
<1>1. ASSUME UNCHANGED <<user, heads, chunk>>, \A s \in Segs : remote_head'[s] \subseteq remote_head[s]
      PROVE  ApartInv'
  <2>1. \A u \in Threads, d \in Bins : \A x \in heads'[u][d] : SegOf(x) \in Segs
    BY <1>1, ListsApart DEF IInv, TypeOK
  <2>2. \A u \in Threads, d \in Bins : \A x \in heads'[u][d] :
           x \notin user' /\ x \notin remote_head'[SegOf(x)] /\ \A v \in Threads : chunk'[v] # x
    BY <1>0, <1>1, <2>1 DEF ApartInv
  <2>3. \A s \in Segs : \A x \in remote_head'[s] : x \notin user' /\ \A v \in Threads : chunk'[v] # x
    BY <1>0, <1>1 DEF ApartInv
  <2>4. /\ \A u \in Threads : chunk'[u] \notin user'
        /\ \A u, v \in Threads : u # v /\ chunk'[u] = chunk'[v] => chunk'[u] = NoChunk
    BY <1>0, <1>1 DEF ApartInv
  <2> QED
    BY <2>2, <2>3, <2>4, ApartParts
<1>2. CASE Reaper \/ UNCHANGED vars
  BY <1>1, <1>2, ReaperLeaves DEF tlsVars, localVars
<1>3. ASSUME NEW t \in Threads, ThreadStep(t) PROVE ApartInv'
  <2>1. ASSUME NEW b \in Bins, FirstRefill(t, b) PROVE ApartInv'
    BY <1>1, <2>1 DEF FirstRefill, headerVars, tlsVars
  <2>2. ASSUME NEW b \in Bins, PcHarvest(t, b) PROVE ApartInv'
    <3>1. \A s \in Segs : remote_head'[s] \subseteq remote_head[s]
      BY <1>0, <2>2 DEF PcHarvest, MpscHarvest, HeaderTypes
    <3> QED
      BY <1>1, <2>2, <3>1 DEF PcHarvest, tlsVars
  <2>3. CASE StoreLiveChunks(t) \/ SetRetired(t)
    BY <1>1, <2>3 DEF StoreLiveChunks, SetRetired, tlsVars
  <2> QED
    BY <1>3, <2>1, <2>2, <2>3, ApartMalloc, ApartHarvest, ApartCarve, ApartFree, ApartFreeDone
       DEF ThreadStep, Refill, Continue
<1> QED
  BY <1>2, <1>3, NextSteps

-----------------------------------------------------------------------------
(* Bump regions.                                                            *)

\* A region that is not used up is that of an active segment.
RegionsOwned ==
    \A u \in Threads, d \in Bins \ ListBins, c \in Chunks :
        Beyond(u, d, c) => /\ SegOf(c) \in mapped /\ owner_tid[SegOf(c)] = u /\ bin[SegOf(c)] = d

\* A thread's unserved region is in a segment of its own.
LEMMA RegionOwned == TypeOK /\ RefillInv /\ ActiveInv => RegionsOwned
<1> SUFFICES ASSUME TypeOK, RefillInv, ActiveInv,
                    NEW u \in Threads, NEW d \in Bins \ ListBins, NEW c \in Chunks, Beyond(u, d, c)
             PROVE  /\ SegOf(c) \in mapped /\ owner_tid[SegOf(c)] = u /\ bin[SegOf(c)] = d
  BY DEF RegionsOwned
<1>1. SegOf(c) = segs[u][d] /\ bumped[u][d] < c[2] /\ c[2] \in 1..ChunksPerSeg /\ SegOf(c) \in Segs
  BY DEF Beyond, Chunks, SegOf
<1>2. segs[u][d] # NoSeg
  BY <1>1, HeapAssumption
<1>3. bumped[u][d] \in 0..ChunksPerSeg /\ bumped[u][d] # ChunksPerSeg
  <2>1. bumped[u][d] \in 0..ChunksPerSeg
    BY DEF TypeOK
  <2> QED
    BY <1>1, <2>1, HeapAssumption
<1>4. Active(u, d)
  <2>1. SUFFICES ASSUME pc[u] = "carve", work[u] = d PROVE FALSE
    BY <1>2 DEF Active
  <2>2. d \in CountedBins /\ (d \in PcBins => bumped[u][d] = ChunksPerSeg)
    BY <1>2, <2>1 DEF RefillInv, Refilling
  <2> QED
    BY <1>3, <2>2 DEF CountedBins
<1> QED
  BY <1>1, <1>4 DEF ActiveInv, OwnSeg

\* The same after a step.
LEMMA RegionOwnedNext == TypeOK' /\ RefillInv' /\ ActiveInv' => RegionsOwned'
  BY RegionOwned, PTL

\* The chunk is neither in the hands of anybody nor on a remote queue.
Unused(c) == c \notin user /\ c \notin remote_head[SegOf(c)] /\ \A v \in Threads : chunk[v] # c

\* Every step keeps ServedInv.
LEMMA ServedStep ==
    ASSUME IInv, TypeOK', RefillInv', ActiveInv', [Next]_vars
    PROVE  ServedInv'
<1> SUFFICES ASSUME NEW u \in Threads, NEW d \in Bins \ ListBins, NEW c \in Chunks, Beyond(u, d, c)'
             PROVE  Unused(c)'
  BY DEF ServedInv, Unused
<1> DEFINE g == SegOf(c)
<1>0. /\ TypeOK /\ ServedInv /\ ApartInv /\ HeaderTypes /\ TlsTypes
      /\ c # NoChunk /\ g \in Segs /\ c[2] \in Nat /\ c = <<g, c[2]>>
  BY TypeParts, HeapAssumption DEF IInv, Chunks, NoChunk, SegOf
<1>1. g = segs'[u][d] /\ bumped'[u][d] < c[2]
  BY DEF Beyond, SegOf
<1>2. g \in mapped' /\ owner_tid'[g] = u /\ bin'[g] = d
  BY RegionOwnedNext DEF RegionsOwned, SegOf
<1>3. ASSUME segs'[u][d] = segs[u][d], bumped'[u][d] = bumped[u][d] PROVE Unused(c)
  <2>1. Beyond(u, d, c)
    BY <1>1, <1>3 DEF Beyond
  <2> QED
    BY <1>0, <2>1 DEF ServedInv, Unused
<1>4. ASSUME Unused(c), c \notin user' \ user, remote_head'[g] \subseteq remote_head[g] \cup {chunk[v] : v \in Threads},
             \A v \in Threads : chunk'[v] \in {chunk[v], NoChunk}
      PROVE  Unused(c)'
  <2>1. c \notin user' /\ c \notin remote_head'[g] /\ \A v \in Threads : chunk'[v] # c
    BY <1>0, <1>4 DEF Unused
  <2> QED
    BY <2>1 DEF Unused, SegOf
<1>5. ASSUME NEW t \in Threads, NEW b \in Bins, PopHead(t, b) PROVE Unused(c)'
  <2>1. PICK x \in heads[t][b] : /\ user' = user \cup {x}
                                 /\ UNCHANGED <<headerVars, indexVars, bumped, segs, chunk>>
    BY <1>5, Pops
  <2>2. x # c
    BY <1>2, <2>1, ListsApart DEF headerVars
  <2> QED
    BY <1>3, <1>4, <2>1, <2>2 DEF headerVars
<1>6. ASSUME NEW t \in Threads, NEW b \in Bins, BumpChunk(t, b) PROVE Unused(c)'
  <2> DEFINE x == <<segs[t][b], bumped[t][b] + 1>>
  <2>1. /\ b \notin ListBins /\ SegOf(x) = segs[t][b] /\ x \in Chunks
        /\ bin[segs[t][b]] = b /\ owner_tid[segs[t][b]] = t
        /\ bumped[t][b] \in Nat /\ bumped'[t][b] = bumped[t][b] + 1
        /\ \A e \in Bins \ {b} : bumped'[t][e] = bumped[t][e]
        /\ user' = user \cup {x}
        /\ Elsewhere(t) /\ UNCHANGED <<headerVars, indexVars, heads, segs, chunk>>
    BY <1>6, Bumps
  <2>2. x[2] = bumped[t][b] + 1
    OBVIOUS
  <2> HIDE DEF x
  <2>3. Unused(c) /\ x # c
    <3>1. CASE u = t /\ d = b
      <4>1. Beyond(u, d, c) /\ x # c
        BY <1>0, <1>1, <2>1, <2>2, <3>1 DEF Beyond
      <4> QED
        BY <1>0, <4>1 DEF ServedInv, Unused
    <3>2. CASE ~(u = t /\ d = b)
      <4>1. x # c
        BY <1>2, <2>1, <3>2 DEF headerVars
      <4> QED
        BY <1>3, <2>1, <3>2, <4>1 DEF Elsewhere
    <3> QED
      BY <3>1, <3>2
  <2> QED
    BY <1>4, <2>1, <2>3 DEF headerVars
<1>7. ASSUME NEW t \in Threads, NEW b \in Bins, ArenaReset(t, b) PROVE Unused(c)'
  <2> DEFINE s == segs[t][b]
             x == <<s, 1>>
  <2>1. /\ s \in Segs /\ bin[s] = b /\ owner_tid[s] = t /\ SegOf(x) = s
        /\ user' = (user \ ChunksOf(s)) \cup {x} /\ bumped'[t][b] = 1
        /\ \A e \in Bins \ {b} : bumped'[t][e] = bumped[t][e]
        /\ remote_head[s] = {} /\ \A v \in Threads : SegOf(chunk[v]) # s
        /\ Elsewhere(t) /\ UNCHANGED <<headerVars, indexVars, heads, segs, chunk>>
    BY <1>7, Resets
  <2>2. x[2] = 1
    OBVIOUS
  <2> HIDE DEF x
  <2>3. CASE u = t /\ d = b
    <3>1. g = s /\ c # x /\ c \in ChunksOf(s)
      BY <1>0, <1>1, <2>1, <2>2, <2>3, SegChunks
    <3>2. c \notin user' /\ c \notin remote_head'[g] /\ \A v \in Threads : chunk'[v] # c
      BY <2>1, <3>1 DEF headerVars
    <3> QED
      BY <3>2 DEF Unused, SegOf
  <2>4. CASE ~(u = t /\ d = b)
    <3>1. x # c
      BY <1>2, <2>1, <2>4 DEF headerVars
    <3> QED
      BY <1>3, <1>4, <2>1, <2>4, <3>1 DEF Elsewhere, headerVars
  <2> QED
    BY <2>3, <2>4
<1>8. ASSUME NEW t \in Threads, NEW b \in Bins, Harvest(t, b) PROVE Unused(c)'
  <2> DEFINE s == segs[t][b]
  <2>1. /\ s \in Segs /\ \A e \in Segs \ {s} : remote_head'[e] = remote_head[e]
        /\ UNCHANGED <<bumped, segs, chunk>>
        /\ \/ UNCHANGED <<heads, remote_head, user>>
           \/ remote_head'[s] = {} /\ \E x \in remote_head[s] : user' = user \cup {x}
    BY <1>8, Harvests
  <2>2. Unused(c)
    BY <1>3, <2>1
  <2>3. c \notin remote_head[s]
    BY <2>1, <2>2, QueueOwn DEF Unused
  <2> QED
    BY <1>0, <1>4, <2>1, <2>2, <2>3
<1>9. ASSUME NEW t \in Threads, NEW s \in Segs, Carve(t, s) PROVE Unused(c)'
  <2>1. /\ s \notin mapped /\ remote_head'[s] = {} /\ UNCHANGED chunk
        /\ work[t] \in Bins /\ owner_tid'[s] = t /\ bin'[s] = work[t]
        /\ \A e \in Segs \ {s} : remote_head'[e] = remote_head[e]
        /\ \A b \in Bins \ {work[t]} : segs'[t][b] = segs[t][b] /\ bumped'[t][b] = bumped[t][b]
        /\ segs'[t][work[t]] = s
    BY <1>9, Carves
  <2>2. PICK x \in ChunksOf(s) :
           /\ user' = user \cup {x}
           /\ \/ work[t] \in ListBins
              \/ x = <<s, 1>> /\ bumped'[t][work[t]] = 1
    BY <1>9, CarvesChunk
  <2>3. SegOf(x) = s /\ x \in Chunks
    BY SegChunks
  <2>4. CASE u = t /\ d = work[t]
    <3>1. g = s /\ c \notin user
      BY <1>1, <2>1, <2>4, UnmappedUnused
    <3>2. \A v \in Threads : chunk[v] # c
      BY <1>0, <2>1, <3>1, UnmappedUnused
    <3>3. c # x
      <4>1. x[2] = 1 /\ bumped'[t][d] = 1
        BY <2>2, <2>4
      <4> QED
        BY <1>0, <1>1, <2>4, <4>1
    <3>4. c \notin user' /\ c \notin remote_head'[g] /\ \A v \in Threads : chunk'[v] # c
      BY <2>1, <2>2, <3>1, <3>2, <3>3
    <3> QED
      BY <3>4 DEF Unused, SegOf
  <2>5. CASE ~(u = t /\ d = work[t])
    <3>1. g # s /\ c # x
      BY <1>2, <2>1, <2>3, <2>5
    <3>2. segs'[u][d] = segs[u][d] /\ bumped'[u][d] = bumped[u][d]
      <4>1. ThreadStep(t)
        BY <1>9 DEF ThreadStep, Continue
      <4> QED
        BY <1>0, <2>1, <2>5, <4>1, OthersLocal DEF LocalSame
    <3> QED
      BY <1>0, <1>3, <1>4, <2>1, <2>2, <3>1, <3>2
  <2> QED
    BY <2>4, <2>5
<1>10. ASSUME NEW t \in Threads, NEW x \in Chunks, Free(t, x) PROVE Unused(c)'
  <2> DEFINE b == bin[SegOf(x)]
  <2>1. /\ x \in user /\ user' = user \ {x} /\ chunk[t] = NoChunk
        /\ Elsewhere(t) /\ UNCHANGED <<remote_head, segs>>
        /\ \A v \in Threads \ {t} : chunk'[v] = chunk[v]
        /\ \/ chunk'[t] \in {chunk[t], x} /\ UNCHANGED bumped
           \/ /\ b \in OnceBins /\ x = <<segs[t][b], bumped[t][b]>> /\ UNCHANGED chunk
              /\ bumped'[t][b] = bumped[t][b] - 1 /\ \A e \in Bins \ {b} : bumped'[t][e] = bumped[t][e]
    BY <1>10, Frees DEF headerVars
  <2>2. ASSUME c # x, Unused(c) PROVE Unused(c)'
    <3>1. c \notin user' /\ c \notin remote_head'[g] /\ \A v \in Threads : chunk'[v] # c
      BY <2>1, <2>2 DEF Unused
    <3> QED
      BY <3>1 DEF Unused, SegOf
  <2>3. CASE UNCHANGED bumped
    <3>1. Unused(c)
      BY <1>3, <2>1, <2>3
    <3> QED
      BY <2>1, <2>2, <3>1 DEF Unused
  <2>4. CASE /\ b \in OnceBins /\ x = <<segs[t][b], bumped[t][b]>> /\ UNCHANGED chunk
             /\ bumped'[t][b] = bumped[t][b] - 1 /\ \A e \in Bins \ {b} : bumped'[t][e] = bumped[t][e]
    <3> HIDE DEF b
    <3>1. CASE c = x
      <4>1. c \notin user' /\ c \notin remote_head'[g] /\ \A v \in Threads : chunk'[v] # c
        BY <1>0, <2>1, <2>4, <3>1 DEF ApartInv
      <4> QED
        BY <4>1 DEF Unused, SegOf
    <3>2. CASE c # x /\ u = t /\ d = b
      <4>1. bumped[t][b] \in Nat
        BY <1>0, <3>2, HeapAssumption DEF TlsTypes
      <4>2. c[2] # bumped[t][b]
        BY <1>0, <1>1, <2>1, <2>4, <3>2
      <4>3. bumped[t][b] < c[2]
        BY <1>0, <1>1, <2>4, <3>2, <4>1, <4>2
      <4>4. Beyond(u, d, c)
        BY <1>1, <2>1, <3>2, <4>3 DEF Beyond
      <4> QED
        BY <1>0, <2>2, <3>2, <4>4 DEF ServedInv, Unused
    <3>3. CASE c # x /\ ~(u = t /\ d = b)
      BY <1>3, <2>1, <2>2, <2>4, <3>3 DEF Elsewhere
    <3> QED
      BY <3>1, <3>2, <3>3
  <2> QED
    BY <2>1, <2>3, <2>4
<1>11. ASSUME NEW t \in Threads, DecLiveChunks(t) \/ MpscPush(t) PROVE Unused(c)'
  <2>1. /\ UNCHANGED <<bumped, segs, user>>
        /\ chunk'[t] = NoChunk /\ \A v \in Threads \ {t} : chunk'[v] = chunk[v]
        /\ SegOf(chunk[t]) \in Segs
        /\ \A e \in Segs \ {SegOf(chunk[t])} : remote_head'[e] = remote_head[e]
        /\ remote_head'[SegOf(chunk[t])] \subseteq remote_head[SegOf(chunk[t])] \cup {chunk[t]}
    BY <1>11, Decs, Pushes
  <2>2. Unused(c)
    BY <1>3, <2>1
  <2> QED
    BY <1>0, <1>4, <2>1, <2>2
<1>12. ASSUME UNCHANGED <<bumped, segs, user, chunk>>, remote_head'[g] \subseteq remote_head[g]
       PROVE  Unused(c)'
  BY <1>3, <1>4, <1>12
<1>13. CASE Reaper \/ UNCHANGED vars
  BY <1>12, <1>13, ReaperLeaves DEF tlsVars, localVars
<1>14. ASSUME NEW t \in Threads, ThreadStep(t) PROVE Unused(c)'
  <2>1. ASSUME NEW b \in Bins, FirstRefill(t, b) PROVE Unused(c)'
    BY <1>12, <2>1 DEF FirstRefill, headerVars, tlsVars
  <2>2. ASSUME NEW b \in Bins, PcHarvest(t, b) PROVE Unused(c)'
    <3>1. remote_head'[g] \subseteq remote_head[g]
      BY <1>0, <2>2 DEF PcHarvest, MpscHarvest, HeaderTypes
    <3> QED
      BY <1>12, <2>2, <3>1 DEF PcHarvest, tlsVars
  <2>3. CASE StoreLiveChunks(t) \/ SetRetired(t)
    BY <1>12, <2>3 DEF StoreLiveChunks, SetRetired, tlsVars
  <2> QED
    BY <1>5, <1>6, <1>7, <1>8, <1>9, <1>10, <1>11, <1>14, <2>1, <2>2, <2>3
       DEF ThreadStep, Refill, Continue
<1> QED
  BY <1>13, <1>14, NextSteps

-----------------------------------------------------------------------------
(* The count.                                                               *)

\* The chunks counted for a segment change only with the hands they are in.
LEMMA CountedSame ==
    ASSUME NEW s, \A c \in ChunksOf(s) : InHand(c, s)' <=> InHand(c, s)
    PROVE  Counted(s)' = Counted(s)
  BY DEF Counted, ChunksOf

\* They are finitely many.
LEMMA CountedFinite ==
    ASSUME NEW s \in Segs
    PROVE  IsFiniteSet(Counted(s)) /\ Cardinality(Counted(s)) \in Nat
  BY SegChunks, FS_Subset, FS_CardinalityType DEF Counted

\* A retired free-list segment gets nothing back to hand out: what is counted
\* stays counted until it is counted off.
LEMMA RetiredKeeps ==
    ASSUME IInv, NEW t \in Threads, ThreadStep(t), NEW s \in mapped, retired[s], bin[s] \in ListBins,
           ~(DecLiveChunks(t) /\ s = SegOf(chunk[t]))
    PROVE  Counted(s)' = Counted(s) /\ live_chunks'[s] = live_chunks[s]
<1>0. /\ s \in Segs /\ HeaderTypes /\ TypeOK /\ bin[s] \notin OnceBins /\ bin[s] \notin PcBins
      /\ ~(NoChunk \in ChunksOf(s))
  BY TypeParts, Kinds, SegChunks DEF IInv, TypeOK
<1>1. \A c \in ChunksOf(s) : c \in Chunks /\ SegOf(c) = s
  BY <1>0, SegChunks
<1>2. ASSUME UNCHANGED <<user, remote_head, chunk, live_chunks>>
      PROVE  Counted(s)' = Counted(s) /\ live_chunks'[s] = live_chunks[s]
  BY <1>2 DEF Counted, InHand, ChunksOf
<1>3. ASSUME NEW b \in Bins, PopHead(t, b) \/ BumpChunk(t, b) \/ ArenaReset(t, b)
      PROVE  Counted(s)' = Counted(s) /\ live_chunks'[s] = live_chunks[s]
  <2>1. /\ \A c \in ChunksOf(s) : c \in user' <=> c \in user
        /\ UNCHANGED <<headerVars, chunk>>
    <3>1. CASE PopHead(t, b)
      <4>1. PICK x \in heads[t][b] : user' = user \cup {x} /\ UNCHANGED <<headerVars, chunk>>
        BY <3>1, Pops
      <4>2. ~retired[SegOf(x)]
        BY ListsApart
      <4> QED
        BY <1>1, <4>1, <4>2
    <3>2. CASE BumpChunk(t, b)
      <4> DEFINE x == <<segs[t][b], bumped[t][b] + 1>>
      <4>1. /\ user' = user \cup {x} /\ SegOf(x) = segs[t][b] /\ bin[segs[t][b]] = b /\ b \notin ListBins
            /\ UNCHANGED <<headerVars, chunk>>
        BY <3>2, Bumps
      <4> QED
        BY <1>1, <4>1
    <3>3. CASE ArenaReset(t, b)
      <4> DEFINE g == segs[t][b]
      <4>1. /\ user' = (user \ ChunksOf(g)) \cup {<<g, 1>>} /\ SegOf(<<g, 1>>) = g /\ g \in Segs
            /\ bin[g] = b /\ b \in OnceBins /\ UNCHANGED <<headerVars, chunk>>
        BY <3>3, Resets
      <4>2. \A c \in ChunksOf(s) : c \notin ChunksOf(g) /\ c # <<g, 1>>
        BY <1>0, <1>1, <4>1, SegChunks
      <4> QED
        BY <4>1, <4>2
    <3> QED
      BY <1>3, <3>1, <3>2, <3>3
  <2>2. \A c \in ChunksOf(s) : InHand(c, s)' <=> InHand(c, s)
    BY <2>1 DEF InHand, headerVars
  <2> QED
    BY <2>1, <2>2, CountedSame DEF headerVars
<1>4. ASSUME NEW b \in Bins, Harvest(t, b) \/ PcHarvest(t, b)
      PROVE  Counted(s)' = Counted(s) /\ live_chunks'[s] = live_chunks[s]
  <2>1. segs[t][b] # s /\ segs[t][b] \in Segs
    <3>1. pc[t] = "run" /\ segs[t][b] # NoSeg
      BY <1>4 DEF Harvest, PcHarvest
    <3> QED
      BY <1>0, <3>1, RunActive DEF IInv, TypeOK
  <2>2. remote_head'[s] = remote_head[s] /\ UNCHANGED <<chunk, live_chunks>>
    BY <1>0, <1>4, <2>1 DEF Harvest, PcHarvest, MpscHarvest, HeaderTypes
  <2>3. \A c \in ChunksOf(s) : c \in user' <=> c \in user
    <3>1. CASE PcHarvest(t, b)
      BY <3>1 DEF PcHarvest
    <3>2. CASE Harvest(t, b)
      <4>1. UNCHANGED user \/ \E x \in remote_head[segs[t][b]] : user' = user \cup {x}
        BY <3>2 DEF Harvest
      <4> QED
        BY <1>1, <2>1, <4>1, QueueOwn
    <3> QED
      BY <1>4, <3>1, <3>2
  <2>4. \A c \in ChunksOf(s) : InHand(c, s)' <=> InHand(c, s)
    BY <2>2, <2>3 DEF InHand
  <2> QED
    BY <2>2, <2>4, CountedSame
<1>5. ASSUME NEW x \in Chunks, Free(t, x)
      PROVE  Counted(s)' = Counted(s) /\ live_chunks'[s] = live_chunks[s]
  <2>1. /\ x \in user /\ user' = user \ {x} /\ chunk[t] = NoChunk
        /\ UNCHANGED <<remote_head, live_chunks>> /\ \A u \in Threads \ {t} : chunk'[u] = chunk[u]
        /\ \/ (~retired[SegOf(x)] \/ bin[SegOf(x)] \in OnceBins) /\ UNCHANGED chunk
           \/ chunk'[t] = x
    BY <1>5, Frees DEF headerVars
  <2>2. ASSUME NEW c \in ChunksOf(s) PROVE InHand(c, s)' <=> InHand(c, s)
    <3>1. CASE c = x
      <4>1. chunk'[t] = x
        BY <1>0, <1>1, <2>1, <3>1
      <4> QED
        BY <2>1, <3>1, <4>1 DEF InHand
    <3>2. CASE c # x
      <4>1. c # NoChunk
        BY <1>0
      <4>2. (\E u \in Threads : chunk'[u] = c) <=> (\E u \in Threads : chunk[u] = c)
        BY <2>1, <3>2, <4>1
      <4> QED
        BY <2>1, <3>2, <4>2 DEF InHand
    <3> QED
      BY <3>1, <3>2
  <2> QED
    BY <2>1, <2>2, CountedSame
<1>6. ASSUME MpscPush(t)
      PROVE  Counted(s)' = Counted(s) /\ live_chunks'[s] = live_chunks[s]
  <2> DEFINE x == chunk[t]
             g == SegOf(x)
  <2>1. /\ g \in Segs /\ remote_head'[g] = remote_head[g] \cup {x}
        /\ \A e \in Segs \ {g} : remote_head'[e] = remote_head[e]
        /\ chunk'[t] = NoChunk /\ \A u \in Threads \ {t} : chunk'[u] = chunk[u]
        /\ UNCHANGED <<live_chunks, user>>
    BY <1>6, Pushes
  <2>2. ASSUME NEW c \in ChunksOf(s) PROVE InHand(c, s)' <=> InHand(c, s)
    <3>1. CASE c = x
      BY <1>1, <2>1, <3>1 DEF InHand
    <3>2. CASE c # x
      <4>1. c # NoChunk /\ (c \in remote_head'[s] <=> c \in remote_head[s])
        BY <1>0, <2>1, <3>2
      <4>2. (\E u \in Threads : chunk'[u] = c) <=> (\E u \in Threads : chunk[u] = c)
        BY <2>1, <3>2, <4>1
      <4> QED
        BY <2>1, <4>1, <4>2 DEF InHand
    <3> QED
      BY <3>1, <3>2
  <2> QED
    BY <2>1, <2>2, CountedSame
<1>7. ASSUME DecLiveChunks(t)
      PROVE  Counted(s)' = Counted(s) /\ live_chunks'[s] = live_chunks[s]
  <2> DEFINE x == chunk[t]
             g == SegOf(x)
  <2>1. /\ g \in Segs /\ chunk'[t] = NoChunk /\ \A u \in Threads \ {t} : chunk'[u] = chunk[u]
        /\ UNCHANGED <<remote_head, user>> /\ \A e \in Segs \ {g} : live_chunks'[e] = live_chunks[e]
        /\ s # g
    BY <1>7, Decs
  <2>2. ASSUME NEW c \in ChunksOf(s) PROVE InHand(c, s)' <=> InHand(c, s)
    <3>1. c # NoChunk /\ c # x
      BY <1>0, <1>1, <2>1
    <3>2. (\E u \in Threads : chunk'[u] = c) <=> (\E u \in Threads : chunk[u] = c)
      BY <2>1, <3>1
    <3> QED
      BY <2>1, <3>2 DEF InHand
  <2> QED
    BY <1>0, <2>1, <2>2, CountedSame
<1>8. ASSUME NEW g \in Segs, Carve(t, g)
      PROVE  Counted(s)' = Counted(s) /\ live_chunks'[s] = live_chunks[s]
  <2>1. /\ g # s /\ remote_head'[s] = remote_head[s] /\ live_chunks'[s] = live_chunks[s] /\ UNCHANGED chunk
    BY <1>0, <1>8, Carves
  <2>2. \A c \in ChunksOf(s) : c \in user' <=> c \in user
    <3>1. PICK x \in ChunksOf(g) : user' = user \cup {x}
      BY <1>8, CarvesChunk
    <3>2. SegOf(x) = g
      BY SegChunks
    <3> QED
      BY <1>1, <2>1, <3>1, <3>2
  <2>3. \A c \in ChunksOf(s) : InHand(c, s)' <=> InHand(c, s)
    BY <2>1, <2>2 DEF InHand
  <2> QED
    BY <2>1, <2>3, CountedSame
<1>9. ASSUME StoreLiveChunks(t)
      PROVE  Counted(s)' = Counted(s) /\ live_chunks'[s] = live_chunks[s]
  <2>1. work[t] \in Bins /\ segs[t][work[t]] # NoSeg /\ pc[t] = "count"
    BY <1>9 DEF IInv, RefillInv, Refilling, StoreLiveChunks
  <2>2. segs[t][work[t]] # s
    BY <2>1, RunActive DEF IInv
  <2>3. live_chunks'[s] = live_chunks[s] /\ UNCHANGED <<user, remote_head, chunk>>
    BY <1>0, <1>9, <2>2 DEF StoreLiveChunks, HeaderTypes
  <2> QED
    BY <2>3 DEF Counted, InHand, ChunksOf
<1>10. ASSUME SetRetired(t) \/ \E b \in Bins : FirstRefill(t, b)
       PROVE  UNCHANGED <<user, remote_head, chunk, live_chunks>>
  BY <1>10 DEF SetRetired, FirstRefill, headerVars
<1> QED
  BY <1>2, <1>3, <1>4, <1>5, <1>6, <1>7, <1>8, <1>9, <1>10 DEF ThreadStep, Refill, Continue

\* Counting a chunk off.
LEMMA CountsOff ==
    ASSUME IInv, NEW t \in Threads, DecLiveChunks(t),
           NEW s, s = SegOf(chunk[t]), bin[s] \in ListBins
    PROVE  live_chunks'[s] = Cardinality(Counted(s)') /\ Counted(s)' \subseteq Counted(s) /\ Counted(s) # {}
<1> DEFINE x == chunk[t]
<1>1. /\ x \in Chunks /\ s \in Segs /\ s \in mapped /\ retired[s] /\ chunk'[t] = NoChunk
      /\ \A u \in Threads \ {t} : chunk'[u] = chunk[u]
      /\ live_chunks'[s] = ((live_chunks[s] + CountMod) - 1) % CountMod
      /\ UNCHANGED <<remote_head, user>>
  BY Decs
<1>2. x \in ChunksOf(s) /\ NoChunk \notin ChunksOf(s)
  BY <1>1, SegChunks
<1>3. x \in Counted(s)
  BY <1>2 DEF Counted, InHand
<1>4. Counted(s)' = Counted(s) \ {x}
  <2>1. x \notin user /\ x \notin remote_head[s] /\ \A u \in Threads \ {t} : chunk[u] # x
    BY <1>1, <1>2, SegChunks DEF IInv, ApartInv
  <2>2. ASSUME NEW c \in ChunksOf(s) PROVE InHand(c, s)' <=> InHand(c, s) /\ c # x
    <3>1. (\E u \in Threads : chunk'[u] = c) <=> (\E u \in Threads \ {t} : chunk[u] = c)
      BY <1>1, <1>2
    <3>2. (\E u \in Threads : chunk[u] = c) <=> (c = x \/ \E u \in Threads \ {t} : chunk[u] = c)
      OBVIOUS
    <3> QED
      BY <1>1, <2>1, <3>1, <3>2 DEF InHand
  <2>3. Counted(s)' = {c \in ChunksOf(s) : InHand(c, s)'}
    BY DEF Counted, ChunksOf
  <2> QED
    BY <2>2, <2>3 DEF Counted
<1>5. /\ IsFiniteSet(Counted(s)) /\ Cardinality(Counted(s)) \in Nat
      /\ Cardinality(Counted(s) \ {x}) = Cardinality(Counted(s)) - 1
      /\ Cardinality(Counted(s) \ {x}) \in Nat
  <2>1. IsFiniteSet(Counted(s)) /\ Cardinality(Counted(s)) \in Nat
    BY <1>1, CountedFinite
  <2>2. IsFiniteSet(Counted(s) \ {x}) /\ Cardinality(Counted(s) \ {x}) = Cardinality(Counted(s)) - 1
    BY <1>3, <2>1, FS_RemoveElement
  <2> QED
    BY <2>1, <2>2, FS_CardinalityType
<1>6. live_chunks[s] = Cardinality(Counted(s)) /\ live_chunks[s] \in 0..(CountMod - 1)
  BY <1>1 DEF IInv, CountInv, CountOf, TypeOK
<1>7. \A n \in Nat : n >= 1 /\ n <= CountMod - 1 => ((n + CountMod) - 1) % CountMod = n - 1
  <2> SUFFICES ASSUME NEW n \in Nat, n >= 1, n <= CountMod - 1
               PROVE  ((n + CountMod) - 1) % CountMod = n - 1
    OBVIOUS
  <2> DEFINE k == (n + CountMod) - 1
  <2>1. CountMod \in Nat /\ CountMod > 0 /\ k \in Nat /\ k = CountMod + (n - 1) /\ n - 1 \in 0..(CountMod - 1)
    BY HeapAssumption
  <2> QED
    BY <2>1
<1>8. live_chunks'[s] = Cardinality(Counted(s)) - 1
  BY <1>1, <1>5, <1>6, <1>7, HeapAssumption
<1> QED
  BY <1>3, <1>4, <1>5, <1>8

\* Before its retirement a free-list segment loses no chunk.
LEMMA NothingLost ==
    ASSUME IInv, [Next]_vars, NEW s \in mapped, ~retired[s], bin[s] \in ListBins,
           NEW c \in ChunksOf(s), NEW o, o = owner_tid[s], NEW b, b = bin[s],
           InHand(c, s) \/ c \in heads[o][b]
    PROVE  InHand(c, s)' \/ c \in heads'[o][b]
<1>0. /\ s \in Segs /\ TypeOK /\ HeaderTypes /\ o \in Threads /\ b \in Bins /\ b \in ListBins
      /\ b \notin OnceBins /\ b \notin PcBins
  BY TypeParts, Kinds DEF IInv, TypeOK, ActiveInv, Carved
<1>1. c \in Chunks /\ SegOf(c) = s /\ c # NoChunk
  BY <1>0, SegChunks
<1>2. ASSUME user \subseteq user', remote_head[s] \subseteq remote_head'[s], UNCHANGED chunk,
             heads[o][b] \subseteq heads'[o][b]
      PROVE  InHand(c, s)' \/ c \in heads'[o][b]
  BY <1>2 DEF InHand
<1>3. ASSUME NEW t \in Threads, NEW d \in Bins, PopHead(t, d)
      PROVE  InHand(c, s)' \/ c \in heads'[o][b]
  <2>1. PICK x \in heads[t][d] :
           /\ heads'[t][d] = heads[t][d] \ {x} /\ user' = user \cup {x}
           /\ \A e \in Bins \ {d} : heads'[t][e] = heads[t][e]
           /\ Elsewhere(t) /\ UNCHANGED <<headerVars, indexVars, bumped, segs, chunk>>
    BY <1>3, Pops
  <2>2. c \in heads[o][b] => c = x \/ c \in heads'[o][b]
    BY <1>0, <2>1 DEF Elsewhere
  <2> QED
    BY <2>1, <2>2 DEF InHand, headerVars
<1>4. ASSUME NEW t \in Threads, NEW d \in Bins, BumpChunk(t, d)
      PROVE  InHand(c, s)' \/ c \in heads'[o][b]
  BY <1>2, <1>4, Bumps DEF headerVars
<1>5. ASSUME NEW t \in Threads, NEW d \in Bins, ArenaReset(t, d)
      PROVE  InHand(c, s)' \/ c \in heads'[o][b]
  <2> DEFINE g == segs[t][d]
  <2>1. /\ user' = (user \ ChunksOf(g)) \cup {<<g, 1>>}
        /\ UNCHANGED <<remote_head, heads, chunk>>
    BY <1>5 DEF ArenaReset, headerVars, localVars
  <2>2. g \in Segs /\ bin[g] = d /\ d \in OnceBins
    <3>1. /\ d \in OnceBins /\ g \in Segs /\ bin[g] = d /\ SegOf(<<g, 1>>) = g
      BY <1>5, Resets
    <3> QED
      BY <3>1
  <2>3. c \notin ChunksOf(g)
    BY <1>0, <1>1, <2>2, SegChunks
  <2> QED
    BY <2>1, <2>3 DEF InHand
<1>6. ASSUME NEW t \in Threads, NEW d \in Bins, Harvest(t, d)
      PROVE  InHand(c, s)' \/ c \in heads'[o][b]
  <2> DEFINE g == segs[t][d]
  <2>1. /\ g \in Segs /\ bin[g] = d /\ owner_tid[g] = t /\ heads[t][d] = {}
        /\ \A e \in Bins \ {d} : heads'[t][e] = heads[t][e]
        /\ \A e \in Segs \ {g} : remote_head'[e] = remote_head[e]
        /\ Elsewhere(t) /\ UNCHANGED chunk
        /\ \/ UNCHANGED <<heads, remote_head, user>>
           \/ \E x \in remote_head[g] : heads'[t][d] = remote_head[g] \ {x} /\ user' = user \cup {x}
    BY <1>6, Harvests
  <2>2. CASE UNCHANGED <<heads, remote_head, user>>
    BY <1>2, <2>1, <2>2
  <2>3. ASSUME NEW x \in remote_head[g], heads'[t][d] = remote_head[g] \ {x}, user' = user \cup {x}
        PROVE  InHand(c, s)' \/ c \in heads'[o][b]
    <3>1. c \in heads[o][b] => c \in heads'[o][b]
      BY <1>0, <2>1 DEF Elsewhere
    <3>2. ASSUME c \in remote_head[s] PROVE c \in remote_head'[s] \/ c \in user' \/ c \in heads'[o][b]
      <4>1. CASE s = g
        BY <2>1, <2>3, <3>2, <4>1
      <4>2. CASE s # g
        BY <1>0, <2>1, <3>2, <4>2
      <4> QED
        BY <4>1, <4>2
    <3> QED
      BY <2>1, <2>3, <3>1, <3>2 DEF InHand
  <2> QED
    BY <2>1, <2>2, <2>3
<1>7. ASSUME NEW t \in Threads, NEW d \in Bins, PcHarvest(t, d)
      PROVE  InHand(c, s)' \/ c \in heads'[o][b]
  <2>1. pc[t] = "run" /\ segs[t][d] # NoSeg /\ d \in PcBins
    BY <1>7 DEF PcHarvest
  <2>2. segs[t][d] # s
    BY <1>0, <2>1, RunActive DEF IInv
  <2>3. remote_head'[s] = remote_head[s]
    BY <1>0, <1>7, <2>2 DEF PcHarvest, MpscHarvest, HeaderTypes
  <2> QED
    BY <1>2, <1>7, <2>3 DEF PcHarvest, tlsVars
<1>8. ASSUME NEW t \in Threads, NEW g \in Segs, Carve(t, g)
      PROVE  InHand(c, s)' \/ c \in heads'[o][b]
  <2>1. /\ g # s /\ remote_head'[s] = remote_head[s] /\ UNCHANGED chunk /\ work[t] \in Bins
        /\ pc[t] = "carve" /\ \A e \in Bins \ {work[t]} : heads'[t][e] = heads[t][e]
    BY <1>0, <1>8, Carves
  <2>2. heads[t][work[t]] = {}
    BY <2>1 DEF IInv, RefillInv, Refilling
  <2>3. \A u \in Threads \ {t} : heads'[u] = heads[u]
    <3>1. ThreadStep(t)
      BY <1>8 DEF ThreadStep, Continue
    <3> QED
      BY <1>0, <3>1, OthersLocal DEF LocalSame
  <2>4. heads[o][b] \subseteq heads'[o][b]
    BY <1>0, <2>1, <2>2, <2>3
  <2> QED
    BY <1>2, <1>8, <2>1, <2>4, CarvesChunk
<1>9. ASSUME NEW t \in Threads, NEW x \in Chunks, Free(t, x)
      PROVE  InHand(c, s)' \/ c \in heads'[o][b]
  <2> DEFINE g == SegOf(x)
  <2>1. /\ x \in user /\ user' = user \ {x} /\ chunk[t] = NoChunk
        /\ Elsewhere(t) /\ UNCHANGED remote_head
        /\ \A u \in Threads \ {t} : chunk'[u] = chunk[u]
        /\ \/ /\ owner_tid[g] = t /\ bin[g] \in ListBins
              /\ heads'[t][bin[g]] = heads[t][bin[g]] \cup {x}
              /\ \A e \in Bins \ {bin[g]} : heads'[t][e] = heads[t][e]
              /\ UNCHANGED chunk
           \/ chunk'[t] = x /\ UNCHANGED heads
           \/ bin[g] \in OnceBins /\ UNCHANGED <<heads, chunk>>
    BY <1>9, Frees DEF headerVars
  <2>2. CASE c = x
    <3>1. CASE chunk'[t] = x
      BY <2>2, <3>1 DEF InHand
    <3>2. CASE owner_tid[g] = t /\ heads'[t][bin[g]] = heads[t][bin[g]] \cup {x}
      BY <1>1, <2>2, <3>2
    <3> QED
      BY <1>0, <1>1, <2>1, <2>2, <3>1, <3>2
  <2>3. CASE c # x
    <3>1. \A u \in Threads : chunk[u] = c => chunk'[u] = c
      BY <1>1, <2>1
    <3>2. c \in heads[o][b] => c \in heads'[o][b]
      BY <1>0, <2>1 DEF Elsewhere
    <3> QED
      BY <2>1, <2>3, <3>1, <3>2 DEF InHand
  <2> QED
    BY <2>2, <2>3
<1>10. ASSUME NEW t \in Threads, DecLiveChunks(t) \/ MpscPush(t)
       PROVE  InHand(c, s)' \/ c \in heads'[o][b]
  <2> DEFINE x == chunk[t]
             g == SegOf(x)
  <2>1. /\ g \in Segs /\ UNCHANGED <<heads, user>>
        /\ \A u \in Threads \ {t} : chunk'[u] = chunk[u]
        /\ remote_head[s] \subseteq remote_head'[s]
        /\ x \in remote_head'[g] \/ retired[g]
    BY <1>0, <1>10, Decs, Pushes
  <2>2. CASE c = x
    BY <1>1, <2>1, <2>2 DEF InHand
  <2>3. CASE c # x
    BY <2>1, <2>3 DEF InHand
  <2> QED
    BY <2>2, <2>3
<1>11. CASE UNCHANGED <<user, remote_head, chunk, heads>>
  BY <1>2, <1>11
<1>12. CASE Reaper \/ UNCHANGED vars
  BY <1>11, <1>12, ReaperLeaves DEF tlsVars, localVars
<1>13. ASSUME NEW t \in Threads, ThreadStep(t)
       PROVE  InHand(c, s)' \/ c \in heads'[o][b]
  <2>1. ASSUME StoreLiveChunks(t) \/ SetRetired(t) \/ \E d \in Bins : FirstRefill(t, d)
        PROVE  UNCHANGED <<user, remote_head, chunk, heads>>
    BY <2>1 DEF StoreLiveChunks, SetRetired, FirstRefill, headerVars, tlsVars
  <2> QED
    BY <1>3, <1>4, <1>5, <1>6, <1>7, <1>8, <1>9, <1>10, <1>11, <1>13, <2>1
       DEF ThreadStep, Refill, Continue
<1> QED
  BY <1>12, <1>13, NextSteps

\* SetRetired finds the count right.
LEMMA RetiredExact ==
    ASSUME IInv, NEW t \in Threads, SetRetired(t), NEW s, s = segs[t][work[t]], bin[s] \in ListBins
    PROVE  live_chunks'[s] = Cardinality(Counted(s)')
<1>1. /\ s \in mapped /\ s \in Segs /\ ~retired[s] /\ owner_tid[s] = t /\ bin[s] = work[t]
      /\ heads[t][work[t]] = {} /\ pc[t] = "retire"
      /\ UNCHANGED <<live_chunks, user, remote_head, chunk>>
  BY Retires
<1>2. live_chunks[s] = ChunksPerSeg
  BY <1>1 DEF IInv, RefillInv, Refilling
<1>3. Counted(s) = ChunksOf(s)
  <2>1. ChunksOf(s) \subseteq Counted(s) \cup heads[owner_tid[s]][bin[s]]
    BY <1>1 DEF IInv, CountInv, CountOf
  <2> QED
    BY <1>1, <2>1 DEF Counted
<1>4. Counted(s)' = Counted(s)
  BY <1>1 DEF Counted, InHand, ChunksOf
<1> QED
  BY <1>1, <1>2, <1>3, <1>4, SegChunks

\* Every step keeps CountInv.
LEMMA CountStep ==
    ASSUME IInv, [Next]_vars
    PROVE  CountInv'
<1> SUFFICES ASSUME NEW s \in mapped', bin'[s] \in ListBins PROVE CountOf(s)'
  BY DEF CountInv, CountOf
<1>0. TypeOK /\ CountInv /\ ActiveInv
  BY DEF IInv
<1>1. CASE s \notin mapped
  <2>1. PICK t \in Threads : s \in Segs /\ Carve(t, s)
    <3>1. ~(Reaper \/ UNCHANGED vars)
      BY <1>1, ReaperLeaves
    <3>2. PICK t \in Threads : ThreadStep(t)
      BY <3>1, NextSteps
    <3>3. ~SetRetired(t)
      BY <1>1, Retires
    <3>4. PICK g \in Segs : Carve(t, g)
      BY <1>0, <1>1, <3>2, <3>3, StatusLeft
    <3>5. mapped' = mapped \cup {g}
      BY <3>4, Carves
    <3> QED
      BY <1>1, <3>4, <3>5
  <2>3. owner_tid'[s] = t /\ bin'[s] = work[t] /\ ~retired'[s]
    BY <2>1, Carves
  <2>4. PICK c \in ChunksOf(s) : user' = user \cup {c} /\ heads'[t][work[t]] = ChunksOf(s) \ {c}
    BY <2>1, <2>3, CarvesChunk
  <2>5. c \in Counted(s)'
    BY <2>4 DEF Counted, InHand, ChunksOf
  <2>6. ChunksOf(s) \subseteq Counted(s)' \cup heads'[owner_tid'[s]][bin'[s]]
    BY <2>3, <2>4, <2>5
  <2> QED
    BY <2>3, <2>6 DEF CountOf, ChunksOf
<1>2. CASE s \in mapped
  <2>0. /\ bin'[s] = bin[s] /\ owner_tid'[s] = owner_tid[s] /\ (retired[s] => retired'[s])
        /\ bin[s] \in ListBins
    BY <1>2, StatusMapped
  <2>1. CASE retired[s]
    <3>1. live_chunks[s] = Cardinality(Counted(s))
      BY <1>0, <1>2, <2>0, <2>1 DEF CountInv, CountOf
    <3>2. live_chunks'[s] = Cardinality(Counted(s)')
      <4>1. CASE Reaper \/ UNCHANGED vars
        <5>1. UNCHANGED <<live_chunks, user, remote_head, chunk>>
          BY <4>1, ReaperLeaves DEF localVars
        <5>2. Counted(s)' = Counted(s)
          BY <5>1 DEF Counted, InHand, ChunksOf
        <5> QED
          BY <3>1, <5>1, <5>2
      <4>2. ASSUME NEW t \in Threads, ThreadStep(t) PROVE live_chunks'[s] = Cardinality(Counted(s)')
        <5>1. CASE DecLiveChunks(t) /\ s = SegOf(chunk[t])
          BY <2>0, <5>1, CountsOff
        <5>2. CASE ~(DecLiveChunks(t) /\ s = SegOf(chunk[t]))
          BY <1>2, <2>0, <2>1, <3>1, <4>2, <5>2, RetiredKeeps
        <5> QED
          BY <5>1, <5>2
      <4> QED
        BY <4>1, <4>2, NextSteps
    <3> QED
      BY <2>0, <2>1, <3>2 DEF CountOf
  <2>2. CASE ~retired[s] /\ ~retired'[s]
    <3> DEFINE o == owner_tid[s]
               b == bin[s]
    <3>1. ChunksOf(s) \subseteq Counted(s) \cup heads[o][b]
      BY <1>0, <1>2, <2>0, <2>2 DEF CountInv, CountOf
    <3>2. ASSUME NEW c \in ChunksOf(s) PROVE InHand(c, s)' \/ c \in heads'[o][b]
      <4>1. InHand(c, s) \/ c \in heads[o][b]
        BY <3>1 DEF Counted
      <4> QED
        BY <1>2, <2>0, <2>2, <4>1, NothingLost
    <3>3. ChunksOf(s) \subseteq Counted(s)' \cup heads'[owner_tid'[s]][bin'[s]]
      BY <2>0, <3>2 DEF Counted, ChunksOf
    <3> QED
      BY <2>2, <3>3 DEF CountOf, ChunksOf
  <2>3. CASE ~retired[s] /\ retired'[s]
    <3>1. PICK t \in Threads : SetRetired(t) /\ s = segs[t][work[t]]
      <4>1. ~(Reaper \/ UNCHANGED vars)
        BY <2>3, ReaperLeaves
      <4>2. PICK t \in Threads : ThreadStep(t)
        BY <4>1, NextSteps
      <4>3. s \in Segs /\ \A g \in Segs : ~Carve(t, g)
        BY <1>0, <1>2, <2>3, Carves DEF TypeOK
      <4>4. SetRetired(t)
        BY <1>0, <2>3, <4>2, <4>3, StatusLeft
      <4> QED
        BY <2>3, <4>3, <4>4, Retires
    <3>2. live_chunks'[s] = Cardinality(Counted(s)')
      BY <2>0, <3>1, RetiredExact
    <3> QED
      BY <2>3, <3>2 DEF CountOf
  <2> QED
    BY <2>1, <2>2, <2>3
<1> QED
  BY <1>1, <1>2

-----------------------------------------------------------------------------
(* What the reaper takes stays abandoned: no thread has a chunk of it left  *)
(* to push, to count off or to hand out.                                    *)

\* An abandoned segment stays abandoned while it is mapped.
LEMMA AbandonedStays ==
    ASSUME IInv, [Next]_vars, NEW s \in mapped, Abandoned(s)
    PROVE  Abandoned(s)'
<1>1. retired[s] /\ retired'[s] /\ bin'[s] = bin[s]
  BY StatusMapped DEF Abandoned
<1>2. ASSUME bin[s] \in ListBins PROVE Counted(s)' = {}
  <2>1. Counted(s) = {}
    BY <1>2 DEF Abandoned
  <2>2. CASE Reaper \/ UNCHANGED vars
    <3>1. UNCHANGED <<user, remote_head, chunk>>
      BY <2>2, ReaperLeaves DEF localVars
    <3> QED
      BY <2>1, <3>1 DEF Counted, InHand, ChunksOf
  <2>3. ASSUME NEW t \in Threads, ThreadStep(t) PROVE Counted(s)' = {}
    <3>1. ~(DecLiveChunks(t) /\ s = SegOf(chunk[t]))
      BY <1>2, <2>1, CountsOff
    <3> QED
      BY <1>1, <1>2, <2>1, <2>3, <3>1, RetiredKeeps
  <2> QED
    BY <2>2, <2>3, NextSteps
<1> QED
  BY <1>1, <1>2 DEF Abandoned

\* What a sweep finds empty is abandoned.
LEMMA EmptyAbandoned ==
    ASSUME IInv, NEW s \in mapped, Empty(s)
    PROVE  Abandoned(s)
<1>1. s \in Segs /\ retired[s] /\ live_chunks[s] = 0
  BY DEF Empty, IInv, TypeOK
<1>2. ASSUME bin[s] \in ListBins PROVE Counted(s) = {}
  <2>1. Cardinality(Counted(s)) = 0
    BY <1>1, <1>2 DEF IInv, CountInv, CountOf
  <2> QED
    BY <1>1, <2>1, CountedFinite, FS_EmptySet
<1> QED
  BY <1>1, <1>2 DEF Abandoned

\* ReapInv, by parts, after a step.
LEMMA ReapParts ==
    ASSUME IsFiniteSet(g_index'), eligible' \subseteq g_index', g_index' \subseteq managed',
           managed' \subseteq mapped', mapped' \subseteq managed' \cup {reaping'},
           reaping' \notin managed',
           reaping' # NoSeg => reaping' \in mapped' /\ ReapMode # "Madvise",
           \A s \in mapped' : s \in eligible' \/ s = reaping' \/ decommitted'[s] => Abandoned(s)'
    PROVE  ReapInv'
  BY DEF ReapInv

\* Every step keeps ReapInv.
LEMMA ReapStep ==
    ASSUME IInv, [Next]_vars
    PROVE  ReapInv'
<1>0. /\ IsFiniteSet(g_index) /\ eligible \subseteq g_index /\ g_index \subseteq managed
      /\ managed \subseteq mapped /\ mapped \subseteq managed \cup {reaping}
      /\ reaping \notin managed
      /\ reaping # NoSeg => reaping \in mapped /\ ReapMode # "Madvise"
      /\ \A s \in mapped : s \in eligible \/ s = reaping \/ decommitted[s] => Abandoned(s)
  BY DEF IInv, ReapInv
<1>1. \A s \in mapped : Abandoned(s) => Abandoned(s)'
  BY AbandonedStays
<1>2. TypeOK /\ HeaderTypes /\ mapped \subseteq Segs /\ NoSeg \notin Segs
  BY TypeParts, HeapAssumption DEF IInv, TypeOK
<1>3. ASSUME UNCHANGED <<mapped, managed, g_index, eligible, reaping, decommitted>>
      PROVE  ReapInv'
  BY <1>0, <1>1, <1>3, ReapParts
<1>4. CASE UNCHANGED vars
  BY <1>3, <1>4 DEF vars, indexVars, headerVars, reapVars
<1>5. ASSUME NEW t \in Threads, NEW s \in Segs, Carve(t, s) PROVE ReapInv'
  <2>1. /\ s \notin mapped /\ mapped' = mapped \cup {s} /\ managed' = managed \cup {s}
        /\ g_index' \subseteq g_index \cup {s} /\ g_index \subseteq g_index'
        /\ ~decommitted'[s] /\ \A g \in Segs \ {s} : decommitted'[g] = decommitted[g]
        /\ UNCHANGED <<eligible, reaping>>
    BY <1>5, Carves
  <2>2. IsFiniteSet(g_index')
    BY <1>0, <2>1, FS_AddElement, FS_Subset
  <2>3. s \notin eligible /\ s # reaping
    BY <1>0, <1>2, <2>1
  <2>4. ASSUME NEW g \in mapped', g \in eligible' \/ g = reaping' \/ decommitted'[g]
        PROVE  Abandoned(g)'
    <3>1. g # s
      BY <2>1, <2>3, <2>4
    <3>2. g \in mapped /\ g \in Segs
      BY <1>2, <2>1, <3>1
    <3>3. g \in eligible \/ g = reaping \/ decommitted[g]
      BY <2>1, <2>4, <3>1, <3>2
    <3> QED
      BY <1>0, <1>1, <3>2, <3>3
  <2> QED
    BY <1>0, <2>1, <2>2, <2>3, <2>4, ReapParts
<1>6. ASSUME NEW t \in Threads, ThreadStep(t), \A s \in Segs : ~Carve(t, s) PROVE ReapInv'
  <2>1. UNCHANGED <<mapped, managed, g_index, eligible, reaping, decommitted>>
    BY <1>6 DEF ThreadStep, Refill, Continue, PopHead, BumpChunk, FirstRefill, Harvest, PcHarvest,
       ArenaReset, Free, StoreLiveChunks, SetRetired, DecLiveChunks, MpscPush, indexVars, headerVars,
       reapVars
  <2> QED
    BY <1>3, <2>1
<1>7. CASE Sweep
  <2>1. /\ eligible' \subseteq {s \in g_index : Empty(s)}
        /\ UNCHANGED <<mapped, managed, g_index, reaping, decommitted>>
    BY <1>7 DEF Sweep, indexVars, headerVars
  <2>2. ASSUME NEW s \in mapped', s \in eligible' \/ s = reaping' \/ decommitted'[s]
        PROVE  Abandoned(s)'
    <3>1. s \in mapped
      BY <2>1
    <3>2. Abandoned(s)
      BY <1>0, <2>1, <2>2, <3>1, EmptyAbandoned
    <3> QED
      BY <1>1, <3>1, <3>2
  <2> QED
    BY <1>0, <2>1, <2>2, ReapParts
<1>8. ASSUME NEW s \in Segs, Unregister(s) PROVE ReapInv'
  <2>1. /\ ReapMode # "Madvise" /\ s \in eligible /\ reaping = NoSeg /\ eligible' = eligible \ {s}
        /\ reaping' = s /\ managed' = managed \ {s} /\ g_index' = g_index \ {s}
        /\ UNCHANGED <<mapped, decommitted>>
    BY <1>8 DEF Unregister, headerVars
  <2>2. IsFiniteSet(g_index')
    BY <1>0, <2>1, FS_RemoveElement
  <2>3. mapped' \subseteq managed' \cup {reaping'}
    BY <1>0, <1>2, <2>1
  <2>4. ASSUME NEW g \in mapped', g \in eligible' \/ g = reaping' \/ decommitted'[g]
        PROVE  Abandoned(g)'
    BY <1>0, <1>1, <2>1, <2>4
  <2> QED
    BY <1>0, <2>1, <2>2, <2>3, <2>4, ReapParts
<1>9. CASE Unmap
  <2>1. /\ reaping # NoSeg /\ mapped' = mapped \ {reaping} /\ reaping' = NoSeg
        /\ UNCHANGED <<managed, g_index, eligible, decommitted>>
    BY <1>9 DEF Unmap, headerVars
  <2>2. reaping' \notin managed'
    BY <1>0, <1>2, <2>1
  <2>3. ASSUME NEW g \in mapped', g \in eligible' \/ g = reaping' \/ decommitted'[g]
        PROVE  Abandoned(g)'
    BY <1>0, <1>1, <1>2, <2>1, <2>3
  <2> QED
    BY <1>0, <2>1, <2>2, <2>3, ReapParts
<1>10. ASSUME NEW s \in Segs, Decommit(s) PROVE ReapInv'
  <2>1. /\ ReapMode = "Madvise" /\ s \in eligible /\ eligible' = eligible \ {s}
        /\ decommitted' = [decommitted EXCEPT ![s] = TRUE]
        /\ UNCHANGED <<mapped, managed, g_index, reaping>>
    BY <1>10 DEF Decommit, indexVars
  <2>2. \A g \in Segs \ {s} : decommitted'[g] = decommitted[g]
    BY <1>2, <2>1 DEF HeaderTypes
  <2>3. ASSUME NEW g \in mapped', g \in eligible' \/ g = reaping' \/ decommitted'[g]
        PROVE  Abandoned(g)'
    <3>1. g \in mapped /\ g \in Segs
      BY <1>2, <2>1
    <3>2. g \in eligible \/ g = reaping \/ decommitted[g]
      BY <2>1, <2>2, <2>3, <3>1
    <3> QED
      BY <1>0, <1>1, <3>1, <3>2
  <2> QED
    BY <1>0, <2>1, <2>3, ReapParts
<1> QED
  <2>1. CASE Reaper
    BY <1>7, <1>8, <1>9, <1>10, <2>1 DEF Reaper
  <2>2. ASSUME NEW t \in Threads, ThreadStep(t) PROVE ReapInv'
    BY <1>5, <1>6, <2>2
  <2> QED
    BY <1>4, <2>1, <2>2, NextSteps

-----------------------------------------------------------------------------
(* The invariant and what follows from it.                                  *)

\* IInv holds initially.
LEMMA InvInit == Init => IInv
<1> SUFFICES ASSUME Init PROVE IInv
  OBVIOUS
<1>1. /\ mapped = {} /\ managed = {} /\ g_index = {} /\ eligible = {} /\ user = {} /\ reaping = NoSeg
      /\ \A s \in Segs : remote_head[s] = {}
      /\ \A t \in Threads : pc[t] = "run" /\ chunk[t] = NoChunk
      /\ \A t \in Threads, b \in Bins : heads[t][b] = {} /\ segs[t][b] = NoSeg
  BY DEF Init
<1>2. RefillInv
  BY <1>1 DEF RefillInv, Refilling
<1>3. ActiveInv /\ ListInv
  BY <1>1 DEF ActiveInv, OwnSeg, ListInv, Listed, Active
<1>4. FreeInv /\ ApartInv
  BY <1>1 DEF FreeInv, InFree, Queued, ApartInv
<1>5. ServedInv
  <2>1. \A c \in Chunks : SegOf(c) \in Segs
    BY DEF Chunks, SegOf
  <2> QED
    BY <1>1, <2>1, SegChunks DEF ServedInv
<1>6. CountInv /\ ReapInv
  BY <1>1, FS_EmptySet DEF CountInv, ReapInv
<1> QED
  BY <1>2, <1>3, <1>4, <1>5, <1>6, TypeInit DEF IInv

\* Every step keeps IInv, as long as the reaper takes only segments that are exactly empty.
LEMMA InvStep ==
    ASSUME IInv, ExactReaping, [Next]_vars
    PROVE  IInv'
<1>1. TypeInv
  BY DEF IInv, FreeInv, Queued, ReapInv, TypeInv, QueuesOwn
<1>2. TypeOK' /\ RefillInv' /\ ActiveInv'
  BY <1>1, TypeStep, RefillStep, ActiveStep
<1>3. ListInv' /\ FreeInv' /\ ApartInv'
  BY ListStep, FreeStep, ApartStep
<1>4. ServedInv'
  BY <1>2, ServedStep
<1>5. CountInv' /\ ReapInv'
  BY CountStep, ReapStep
<1> QED
  BY <1>2, <1>3, <1>4, <1>5 DEF IInv

\* Where a chunk can be, and that each place excludes the others.
LEMMA OnePlace ==
    ASSUME IInv, NEW c \in Chunks
    PROVE  \E x : Holders(c) \subseteq {x}
<1> DEFINE Freed(t) == t \in Threads /\ chunk[t] = c
           InList(t, b) == t \in Threads /\ b \in Bins /\ c \in heads[t][b]
           InBump(t, b) == t \in Threads /\ b \in Bins /\ c \in Unserved(t, b)
           InQueue(s) == s \in mapped /\ c \in remote_head[s]
<1>0. c # NoChunk /\ SegOf(c) \in Segs /\ mapped \subseteq Segs
  <2>1. SegOf(c) \in Segs
    BY DEF Chunks, SegOf
  <2> QED
    BY <2>1, SegChunks DEF IInv, TypeOK
<1>1. ASSUME NEW t, NEW b, InBump(t, b)
      PROVE  /\ b \notin ListBins /\ Beyond(t, b, c)
             /\ owner_tid[SegOf(c)] = t /\ bin[SegOf(c)] = b
  <2>1. b \notin ListBins /\ c \in {segs[t][b]} \X ((bumped[t][b] + 1)..ChunksPerSeg)
    BY <1>1 DEF Unserved
  <2>2. bumped[t][b] \in Nat
    BY <1>1, HeapAssumption DEF IInv, TypeOK
  <2>3. Beyond(t, b, c)
    BY <2>1, <2>2, HeapAssumption DEF Beyond, SegOf
  <2> QED
    BY <1>1, <2>1, <2>3, RegionOwned DEF RegionsOwned, IInv
<1>2. ASSUME NEW t, NEW b, InList(t, b)
      PROVE  b \in ListBins /\ owner_tid[SegOf(c)] = t /\ bin[SegOf(c)] = b
  BY <1>2, ListsApart
<1>3. ASSUME NEW s, InQueue(s) PROVE s = SegOf(c)
  BY <1>0, <1>3, QueueOwn
<1>4. /\ \A t, u : Freed(t) /\ Freed(u) => t = u
      /\ \A t : Freed(t) => c \notin user /\ ~InQueue(SegOf(c)) /\ \A u, b : ~InList(u, b)
  BY <1>0 DEF IInv, ApartInv
<1>5. \A t, b : InBump(t, b) => c \notin user /\ ~InQueue(SegOf(c)) /\ \A u : ~Freed(u)
  BY <1>1 DEF IInv, ServedInv
<1>6. \A t, b : InList(t, b) => c \notin user /\ ~InQueue(SegOf(c)) /\ \A u, d : ~InBump(u, d)
  BY <1>1, <1>2 DEF IInv, ApartInv
<1>7. InQueue(SegOf(c)) => c \notin user
  BY <1>0 DEF IInv, ApartInv
<1>8. /\ \A t, b, u, d : InBump(t, b) /\ InBump(u, d) => t = u /\ b = d
      /\ \A t, b, u, d : InList(t, b) /\ InList(u, d) => t = u /\ b = d
  BY <1>1, <1>2
<1>9. ASSUME NEW h \in Holders(c)
      PROVE  \/ h = <<"user">> /\ c \in user
             \/ \E t : h = <<"freeing", t>> /\ Freed(t)
             \/ \E t, b : h = <<"list", t, b>> /\ InList(t, b)
             \/ \E t, b : h = <<"bump", t, b>> /\ InBump(t, b)
             \/ \E s : h = <<"remote", s>> /\ InQueue(s)
  <2>1. CASE h \in {x \in {"freeing"} \X Threads : c = chunk[x[2]]}
    BY <2>1
  <2>2. CASE h \in {x \in {"list"} \X Threads \X Bins : c \in heads[x[2]][x[3]]}
    BY <2>2
  <2>3. CASE h \in {x \in {"bump"} \X Threads \X Bins : c \in Unserved(x[2], x[3])}
    BY <2>3
  <2>4. CASE h \in {x \in {"remote"} \X mapped : c \in remote_head[x[2]]}
    BY <2>4
  <2>5. CASE h \in {x \in {<<"user">>} : c \in user}
    BY <2>5
  <2> QED
    BY <1>9, <2>1, <2>2, <2>3, <2>4, <2>5 DEF Holders
<1> HIDE DEF Freed, InList, InBump, InQueue
<1>10. ASSUME NEW g \in Holders(c), NEW h \in Holders(c) PROVE g = h
  <2>1. CASE c \in user
    BY <1>3, <1>4, <1>5, <1>6, <1>7, <1>9, <2>1
  <2>2. ASSUME NEW t, Freed(t) PROVE g = h
    BY <1>3, <1>4, <1>5, <1>9, <2>2
  <2>3. ASSUME NEW t, NEW b, InList(t, b) PROVE g = h
    BY <1>3, <1>4, <1>6, <1>8, <1>9, <2>3
  <2>4. ASSUME NEW t, NEW b, InBump(t, b) PROVE g = h
    BY <1>3, <1>5, <1>6, <1>8, <1>9, <2>4
  <2>5. ASSUME NEW s, InQueue(s) PROVE g = h
    BY <1>3, <1>4, <1>5, <1>6, <1>7, <1>9, <2>5
  <2> QED
    BY <1>9, <2>1, <2>2, <2>3, <2>4, <2>5
<1> QED
  BY <1>10

\* In a heap whose routines are all counted exactly, or whose reaper only
\* decommits, no chunk is ever in two places: free_managed, mpsc_push,
\* mpsc_harvest, the refills and free_segment never lead to a chunk being
\* handed out while the program, a free list or a remote queue still has it.
THEOREM ChunksNeverShared == ASSUME ExactReaping PROVE Spec => []NoDoubleUse
<1>1. IInv /\ [Next]_vars => IInv'
  BY InvStep
<1>2. IInv => NoDoubleUse
  <2> SUFFICES ASSUME IInv, NEW c \in Chunks PROVE Cardinality(Holders(c)) <= 1
    BY DEF NoDoubleUse
  <2>1. PICK x : Holders(c) \subseteq {x}
    BY OnePlace
  <2>2. IsFiniteSet({x}) /\ Cardinality({x}) = 1
    BY FS_Singleton
  <2>3. Cardinality(Holders(c)) <= Cardinality({x})
    BY <2>1, <2>2, FS_Subset
  <2> QED
    BY <2>2, <2>3
<1> QED
  BY <1>1, <1>2, InvInit, PTL DEF Spec

\* A retired segment is one of a free list when no routine is ProducerConsumer.
LEMMA RetiredLists ==
    ASSUME IInv, PcBins = {}, NEW s \in mapped, retired[s]
    PROVE  s \in Segs /\ bin[s] \in ListBins
  BY DEF IInv, TypeOK, ActiveInv, Carved, CountedBins

\* A chunk being freed is one that a thread keeps in its local variable.
LEMMA FreeingChunks ==
    ASSUME IInv, NEW c \in Chunks
    PROVE  c \in Freeing <=> \E t \in Threads : chunk[t] = c
<1>1. c # NoChunk
  <2>1. SegOf(c) \in Segs
    BY DEF Chunks, SegOf
  <2> QED
    BY <2>1, SegChunks
<1>2. \A t \in Threads : chunk[t] # NoChunk <=> pc[t] \in {"dec", "push"}
  BY DEF IInv, FreeInv, InFree
<1> QED
  BY <1>1, <1>2 DEF Freeing

\* Without ProducerConsumer routines, live_chunks of a retired segment is at
\* every moment the number of its chunks that have not come back: the count
\* stored before the flag, the flag read early by free_managed, and the chunks
\* pushed late onto the remote queue never make it wrong, nor let it wrap.
THEOREM CountAlwaysExact == ASSUME PcBins = {} PROVE Spec => []CountExact
<1>0. ExactReaping
  BY DEF ExactReaping
<1>1. IInv /\ [Next]_vars => IInv'
  BY <1>0, InvStep
<1>2. IInv => CountExact
  <2> SUFFICES ASSUME IInv, NEW s \in mapped, retired[s]
               PROVE  live_chunks[s] =
                          Cardinality(ChunksOf(s) \cap (user \cup Freeing \cup remote_head[s]))
    BY DEF CountExact
  <2>1. s \in Segs /\ bin[s] \in ListBins
    BY RetiredLists
  <2>2. Counted(s) = ChunksOf(s) \cap (user \cup Freeing \cup remote_head[s])
    <3>1. ASSUME NEW c \in ChunksOf(s)
          PROVE  InHand(c, s) <=> c \in user \cup Freeing \cup remote_head[s]
      <4>1. c \in Chunks
        BY <2>1, SegChunks
      <4> QED
        BY <4>1, FreeingChunks DEF InHand
    <3> QED
      BY <3>1 DEF Counted
  <2> QED
    BY <2>1, <2>2 DEF IInv, CountInv, CountOf
<1> QED
  BY <1>1, <1>2, InvInit, PTL DEF Spec

\* Without ProducerConsumer routines the reaper never unregisters, unmaps or
\* decommits a segment under a chunk that the program holds, that is being
\* freed or that a free list can hand out again.
THEOREM InUseAlwaysIntact == ASSUME PcBins = {} PROVE Spec => []InUseIntact
<1>0. ExactReaping
  BY DEF ExactReaping
<1>1. IInv /\ [Next]_vars => IInv'
  BY <1>0, InvStep
<1>2. IInv => InUseIntact
  <2> SUFFICES ASSUME IInv, NEW c \in InUse
               PROVE  /\ SegOf(c) \in mapped /\ SegOf(c) \in managed /\ ~decommitted[SegOf(c)]
    BY DEF InUseIntact
  <2> DEFINE s == SegOf(c)
  <2>1. ASSUME c \in Chunks, s \in mapped, ~Abandoned(s)
        PROVE  s \in mapped /\ s \in managed /\ ~decommitted[s]
    BY <2>1 DEF IInv, ReapInv
  <2>2. ASSUME c \in Chunks, s \in mapped, InHand(c, s)
        PROVE  ~Abandoned(s)
    <3>1. s \in Segs
      BY <2>2 DEF IInv, TypeOK
    <3>2. c \in Counted(s)
      BY <2>2, <3>1, SegChunks DEF Counted
    <3> QED
      BY <2>2, <3>2, RetiredLists DEF Abandoned
  <2>3. CASE c \in user
    <3>1. c \in Chunks /\ s \in mapped /\ InHand(c, s)
      BY <2>3 DEF IInv, TypeOK, FreeInv, InHand
    <3> QED
      BY <2>1, <2>2, <3>1
  <2>4. CASE c \in Freeing
    <3>1. PICK t \in Threads : chunk[t] = c /\ pc[t] \in {"dec", "push"}
      BY <2>4 DEF Freeing
    <3>2. c # NoChunk /\ s \in mapped
      BY <3>1 DEF IInv, FreeInv, InFree
    <3>3. c \in Chunks /\ InHand(c, s)
      BY <3>1, <3>2 DEF IInv, TypeOK, InHand
    <3> QED
      BY <2>1, <2>2, <3>2, <3>3
  <2>5. ASSUME NEW t \in Threads, NEW b \in Bins, c \in heads[t][b]
        PROVE  s \in mapped /\ s \in managed /\ ~decommitted[s]
    <3>1. c \in Chunks /\ s \in mapped /\ ~retired[s]
      BY <2>5, ListsApart
    <3> QED
      BY <2>1, <3>1 DEF Abandoned
  <2> QED
    BY <2>3, <2>4, <2>5 DEF InUse
<1> QED
  BY <1>1, <1>2, InvInit, PTL DEF Spec

=============================================================================
