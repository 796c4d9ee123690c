--------------------------- MODULE CodeCacheProofs ---------------------------
(***************************************************************************)
(* Proofs about CodeCache, for every value of its constants.               *)
(***************************************************************************)
EXTENDS CodeCache, FiniteSetTheorems, SequenceTheorems, TLAPS

-----------------------------------------------------------------------------
(* Type correctness. The table is only defined on real call sites, so the  *)
(* type of what a lookup returns rests on malloc having set the site.      *)

SiteSet ==
    \A t \in Threads :
        pc[t] \in {"safepoint", "store_epoch", "gen", "lookup"} => site[t] \in Sites

TypeInv == TypeOK /\ SiteSet

\* Adding an entry to a bounded set that has room keeps it within the bound.
LEMMA RoomForOne ==
    ASSUME NEW S, IsFiniteSet(S), NEW n \in Nat, Cardinality(S) < n, NEW r
    PROVE  /\ IsFiniteSet(S \cup {r})
           /\ Cardinality(S \cup {r}) <= n
<1>1. Cardinality(S) \in Nat
  BY FS_CardinalityType
<1>2. CASE r \in S
  <2>1. S \cup {r} = S
    BY <1>2
  <2> QED
    BY <1>1, <2>1
<1>3. CASE r \notin S
  <2>1. /\ IsFiniteSet(S \cup {r})
        /\ Cardinality(S \cup {r}) = Cardinality(S) + 1
    BY <1>3, FS_AddElement
  <2> QED
    BY <1>1, <2>1
<1> QED
  BY <1>2, <1>3

\* Incrementing one entry of a table of counters leaves a table of counters.
LEMMA CountUp ==
    ASSUME NEW S, NEW f \in [S -> Nat], NEW x
    PROVE  [f EXCEPT ![x] = @ + 1] \in [S -> Nat]
<1>1. CASE x \in S
  BY <1>1
<1>2. CASE x \notin S
  BY <1>2
<1> QED
  BY <1>1, <1>2

\* TypeInv holds initially.
LEMMA TypeInit == Init => TypeInv
<1> SUFFICES ASSUME Init PROVE TypeInv
  OBVIOUS
<1> USE NullAssumption, BoundsAssumption, FlagsAssumption
<1>1. IsFiniteSet(g_pending) /\ Cardinality(g_pending) <= MaxPending
  BY FS_EmptySet DEF Init
<1>2. SiteSet
  BY DEF Init, SiteSet
<1>3. TypeOK
  BY <1>1 DEF Init, TypeOK, Routines, Ids, Phases, ThreadPCs, BgPCs, NoDeopt,
              Deopts, Retired, Caches
<1> QED
  BY <1>2, <1>3 DEF TypeInv

\* Every step keeps TypeInv.
LEMMA TypeStep == TypeInv /\ [Next]_vars => TypeInv'
<1> SUFFICES ASSUME TypeInv, [Next]_vars PROVE TypeInv'
  OBVIOUS
<1> USE NullAssumption, BoundsAssumption, FlagsAssumption
         DEF TypeInv, TypeOK, SiteSet, Routines, Ids, Phases, ThreadPCs, BgPCs,
             threadVars, pageVars, siteVars, bgVars, epochVars,
             queueVars, tableVars
<1>1. ASSUME NEW t \in Threads, NEW s \in Sites, Malloc(t, s) PROVE TypeInv'
  <2>1. (tl_counter[t] + 1) % SafePointPeriod \in 0..(SafePointPeriod - 1)
    OBVIOUS
  <2>2. tl_counter' \in [Threads -> 0..(SafePointPeriod - 1)]
    BY <1>1, <2>1 DEF Malloc
  <2> QED
    BY <1>1, <2>2 DEF Malloc
<1>2. ASSUME NEW t \in Threads, InMalloc(t) PROVE TypeInv'
  <2>1. CASE RegisterThread(t)
    BY <2>1 DEF RegisterThread
  <2>2. CASE LoadEpoch(t)
    BY <2>2 DEF LoadEpoch
  <2>3. CASE StoreEpoch(t)
    BY <2>3 DEF StoreEpoch
  <2>4. CASE ReadGen(t)
    BY <2>4 DEF ReadGen
  <2>5. CASE Lookup(t)
    <3>1. Resolved(t) \in Routines
      BY <2>5 DEF Lookup, Resolved, Caches
    <3>2. [id |-> site[t], fn |-> Resolved(t), gen |-> loaded[t]] \in Caches
      BY <3>1 DEF Caches
    <3>3. tl_ic' \in [Threads -> Caches]
      BY <2>5, <3>2 DEF Lookup
    <3>4. CASE Resolved(t) = NoPage
      <4>1. /\ pc' = [pc EXCEPT ![t] = "idle"]
            /\ site' = [site EXCEPT ![t] = NoSite]
            /\ fn' = [fn EXCEPT ![t] = NoPage]
            /\ loaded' = [loaded EXCEPT ![t] = 0]
        BY <2>5, <3>4 DEF Lookup, Return
      <4>2. SiteSet'
        BY <4>1
      <4>3. TypeOK'
        BY <2>5, <3>3, <4>1 DEF Lookup
      <4> QED
        BY <4>2, <4>3
    <3>5. CASE Resolved(t) # NoPage
      <4>1. /\ pc' = [pc EXCEPT ![t] = "exec"]
            /\ fn' = [fn EXCEPT ![t] = Resolved(t)]
            /\ loaded' = [loaded EXCEPT ![t] = 0]
            /\ site' = site
        BY <2>5, <3>5 DEF Lookup
      <4>2. SiteSet'
        BY <4>1
      <4>3. TypeOK'
        BY <2>5, <3>1, <3>3, <4>1 DEF Lookup
      <4> QED
        BY <4>2, <4>3
    <3> QED
      BY <3>4, <3>5
  <2>6. CASE Serve(t)
    BY <2>6 DEF Serve, Return
  <2>7. CASE GuardFail(t)
    BY <2>7 DEF GuardFail, HandleEntry
  <2>8. CASE Revert(t)
    BY <2>8 DEF Revert
  <2>9. CASE BumpGeneration(t)
    <3>1. /\ pc' = [pc EXCEPT ![t] = "enqueue"]
          /\ g_generation' \in Nat
          /\ UNCHANGED <<site, fn, loaded, tl_counter, tl_ic, pageVars, siteVars,
                         bgVars, epochVars, queueVars, g_table>>
      BY <2>9 DEF BumpGeneration, NextGeneration
    <3>2. SiteSet'
      BY <3>1
    <3>3. TypeOK'
      BY <3>1
    <3> QED
      BY <3>2, <3>3
  <2>10. CASE Enqueue(t)
    <3>1. [id |-> site[t], page |-> fn[t]] \in Deopts
      BY DEF Deopts
    <3>2. g_deopt_queue' \in Seq(Deopts) /\ Len(g_deopt_queue') <= QueueCap
      BY <2>10, <3>1, AppendProperties DEF Enqueue, QueueHasRoom
    <3> QED
      BY <2>10, <3>2 DEF Enqueue
  <2>11. CASE TailCall(t)
    BY <2>11 DEF TailCall, Return
  <2> QED
    BY <1>2, <2>1, <2>2, <2>3, <2>4, <2>5, <2>6, <2>7, <2>8, <2>9, <2>10,
       <2>11 DEF InMalloc
<1>3. ASSUME NEW s \in Sites, ProcessEvent(s) PROVE TypeInv'
  <2>1. CASE Resume(s)
    BY <2>1 DEF Resume
  <2>2. CASE SpecializeFails(s)
    BY <2>2 DEF SpecializeFails
  <2>3. CASE PostDrift(s)
    BY <2>3 DEF PostDrift
  <2>4. ASSUME NEW p \in Pages, Specialize(s, p) PROVE TypeInv'
    BY <2>4 DEF Specialize, Deopts
  <2> QED
    BY <1>3, <2>1, <2>2, <2>3, <2>4 DEF ProcessEvent
<1>4. CASE BackgroundStep
  <2>1. CASE Dequeue
    <3>1. /\ bgd' \in Deopts
          /\ g_deopt_queue' \in Seq(Deopts) /\ Len(g_deopt_queue') <= QueueCap
      BY <2>1, HeadTailProperties DEF Dequeue
    <3> QED
      BY <2>1, <3>1 DEF Dequeue
  <2>2. CASE ResetCallSite
    <3>1. IsFiniteSet(g_pending)' /\ Cardinality(g_pending') <= MaxPending
      BY <2>2, RoomForOne DEF ResetCallSite, PendingHasRoom
    <3>2. g_pending' \subseteq Retired
      BY <2>2 DEF ResetCallSite, Deopts, Retired
    <3>3. bgd' \in Deopts
      BY <2>2 DEF ResetCallSite, NoDeopt, Deopts
    <3>4. phase' \in [Sites -> Phases]
      BY <2>2 DEF ResetCallSite
    <3>5. deopt_count' \in [Sites -> Nat]
      BY <2>2, CountUp DEF ResetCallSite
    <3>6. /\ g_epoch' \in Nat /\ bgpc' \in BgPCs
          /\ UNCHANGED <<pc, site, fn, loaded, tl_counter, tl_ic, mapped, used,
                         code_site, slots, toScan, minEpoch, g_thread_list,
                         tl_thread_epoch, g_deopt_queue, g_table, g_generation>>
      BY <2>2 DEF ResetCallSite
    <3>7. SiteSet'
      BY <3>6
    <3>8. TypeOK'
      BY <3>1, <3>2, <3>3, <3>4, <3>5, <3>6
    <3> QED
      BY <3>7, <3>8
  <2>3. CASE DrainEmpty
    BY <2>3 DEF DrainEmpty
  <2>4. ASSUME NEW t \in Threads, ScanThread(t) PROVE TypeInv'
    BY <2>4 DEF ScanThread
  <2>5. CASE Reclaim
    <3>1. /\ IsFiniteSet(g_pending')
          /\ Cardinality(g_pending') <= Cardinality(g_pending)
      <4>1. g_pending' \subseteq g_pending
        BY <2>5 DEF Reclaim
      <4> QED
        BY <4>1, FS_Subset
    <3>2. Cardinality(g_pending') \in Nat /\ Cardinality(g_pending) \in Nat
      BY <3>1, FS_CardinalityType
    <3>3. Cardinality(g_pending') <= MaxPending
      BY <3>1, <3>2
    <3> QED
      BY <2>5, <3>1, <3>3 DEF Reclaim
  <2>6. CASE InstallBump
    BY <2>6 DEF InstallBump, NextGeneration, NoDeopt, Deopts
  <2>7. CASE EndEvents
    BY <2>7 DEF EndEvents
  <2> QED
    BY <1>4, <2>1, <2>2, <2>3, <2>4, <2>5, <2>6, <2>7 DEF BackgroundStep
<1>5. CASE UNCHANGED vars
  BY <1>5 DEF vars
<1> QED
  BY <1>1, <1>2, <1>3, <1>4, <1>5 DEF Next

\* Type correctness, including the capacity of g_deopt_queue and g_pending.
THEOREM TypeCorrect == Spec => []TypeOK
<1>1. TypeInv => TypeOK
  BY DEF TypeInv
<1> QED
  BY <1>1, TypeInit, TypeStep, PTL DEF Spec

-----------------------------------------------------------------------------
(* Coherence of the inline caches. CacheCoherent is inductive once no cache *)
(* and no value read for one is ahead of the global generation: then every *)
(* bump outdates all of them, and only stores remain to be looked at.      *)

CacheInv ==
    /\ g_generation > 0
    /\ \A t \in Threads :
        /\ tl_ic[t].gen <= g_generation
        /\ tl_ic[t].gen = 0 \/ tl_ic[t].id \in Sites
        /\ pc[t] = "lookup" => loaded[t] <= g_generation
    /\ CacheCoherent

\* CacheInv holds initially.
LEMMA CacheInit == Init => CacheInv
  BY NullAssumption DEF Init, CacheInv, CacheCoherent

\* A step that leaves the table, the generation and the caches alone, that no
\* pending writer takes, and that reads no generation but the current one.
LEMMA CacheFrame ==
    ASSUME CacheInv, UNCHANGED <<tl_ic, tableVars>>,
           \A t \in Threads : pc'[t] = "lookup" =>
               \/ pc[t] = "lookup" /\ loaded'[t] = loaded[t]
               \/ loaded'[t] = g_generation,
           \A s \in Ids : WriterPending(s) => WriterPending(s)',
           TypeInv, TypeInv'
    PROVE  CacheInv'
<1>1. /\ g_generation' > 0
      /\ \A t \in Threads :
          /\ tl_ic'[t].gen <= g_generation'
          /\ tl_ic'[t].gen = 0 \/ tl_ic'[t].id \in Sites
          /\ pc'[t] = "lookup" => loaded'[t] <= g_generation'
  <2>1. g_generation \in Nat
    BY DEF TypeInv, TypeOK
  <2> QED
    BY <2>1 DEF CacheInv, tableVars
<1>2. \A t \in Threads : tl_ic[t].id \in Ids
  BY DEF TypeInv, TypeOK, Caches
<1>3. CacheCoherent'
  BY <1>2 DEF CacheInv, CacheCoherent, tableVars
<1> QED
  BY <1>1, <1>3 DEF CacheInv

\* Every step keeps CacheInv.
LEMMA CacheStep == TypeInv /\ TypeInv' /\ CacheInv /\ [Next]_vars => CacheInv'
<1> SUFFICES ASSUME TypeInv, TypeInv', CacheInv, [Next]_vars PROVE CacheInv'
  OBVIOUS
<1> USE DEF threadVars, pageVars, siteVars, bgVars, epochVars, queueVars,
            tableVars
<1>0. /\ pc \in [Threads -> ThreadPCs] /\ site \in [Threads -> Ids]
      /\ loaded \in [Threads -> Nat] /\ tl_ic \in [Threads -> Caches]
      /\ g_generation \in Nat /\ g_table \in [Sites -> Routines]
      /\ \A t \in Threads : tl_ic[t].gen \in Nat /\ tl_ic[t].id \in Ids
  BY DEF TypeInv, TypeOK, Caches
<1>1. ASSUME NEW t \in Threads, NEW s \in Sites, Malloc(t, s) PROVE CacheInv'
  BY <1>0, <1>1, CacheFrame DEF Malloc, WriterPending
<1>2. ASSUME NEW t \in Threads, InMalloc(t) PROVE CacheInv'
  <2>1. CASE RegisterThread(t)
    BY <1>0, <2>1, CacheFrame DEF RegisterThread, WriterPending
  <2>2. CASE LoadEpoch(t)
    BY <1>0, <2>2, CacheFrame DEF LoadEpoch, WriterPending
  <2>3. CASE StoreEpoch(t)
    BY <1>0, <2>3, CacheFrame DEF StoreEpoch, WriterPending
  <2>4. CASE ReadGen(t)
    BY <1>0, <2>4, CacheFrame DEF ReadGen, WriterPending
  <2>5. CASE Lookup(t)
    <3>1. /\ pc[t] = "lookup" /\ site[t] \in Sites
          /\ UNCHANGED <<g_table, g_generation, bgpc, bgd>>
      BY <2>5 DEF Lookup, TypeInv, SiteSet
    <3>2. /\ pc'[t] # "lookup" /\ pc'[t] # "bump"
          /\ \A u \in Threads \ {t} :
                 /\ pc'[u] = pc[u] /\ site'[u] = site[u]
                 /\ loaded'[u] = loaded[u] /\ tl_ic'[u] = tl_ic[u]
      BY <1>0, <2>5 DEF Lookup, Return
    <3>3. tl_ic'[t] = [id |-> site[t], fn |-> Resolved(t), gen |-> loaded[t]]
      BY <1>0, <2>5 DEF Lookup
    <3>5. tl_ic'[t].gen = g_generation' =>
             \/ tl_ic'[t].fn = g_table'[tl_ic'[t].id]
             \/ WriterPending(tl_ic[t].id)'
      <4>1. CASE CacheHit(t)
        <5>1. /\ tl_ic'[t].id = tl_ic[t].id /\ tl_ic'[t].fn = tl_ic[t].fn
              /\ tl_ic'[t].gen = tl_ic[t].gen
          BY <3>3, <4>1 DEF CacheHit, Resolved
        <5>2. \A u \in Threads : pc[u] = "bump" => pc'[u] = "bump" /\ site'[u] = site[u]
          BY <3>1, <3>2
        <5>3. WriterPending(tl_ic[t].id) => WriterPending(tl_ic[t].id)'
          BY <3>1, <5>1, <5>2 DEF WriterPending
        <5> QED
          BY <3>1, <5>1, <5>3 DEF CacheInv, CacheCoherent
      <4>2. CASE ~CacheHit(t)
        BY <3>1, <3>3, <4>2 DEF Resolved
      <4> QED
        BY <4>1, <4>2
    <3>6. CacheCoherent'
      BY <3>1, <3>2, <3>5 DEF CacheInv, CacheCoherent, WriterPending
    <3>7. \A u \in Threads :
             /\ tl_ic'[u].gen <= g_generation'
             /\ tl_ic'[u].gen = 0 \/ tl_ic'[u].id \in Sites
             /\ pc'[u] = "lookup" => loaded'[u] <= g_generation'
      BY <3>1, <3>2, <3>3 DEF CacheInv
    <3> QED
      BY <3>1, <3>6, <3>7 DEF CacheInv
  <2>6. CASE Serve(t)
    BY <1>0, <2>6, CacheFrame DEF Serve, Return, WriterPending
  <2>7. CASE GuardFail(t)
    BY <1>0, <2>7, CacheFrame DEF GuardFail, HandleEntry, WriterPending
  <2>8. CASE Revert(t)
    <3>1. /\ pc'[t] = "bump" /\ UNCHANGED <<site, tl_ic, loaded, g_generation, bgpc, bgd>>
          /\ \A u \in Threads \ {t} : pc'[u] = pc[u]
          /\ \A id \in Sites \ {site[t]} : g_table'[id] = g_table[id]
      BY <1>0, <2>8 DEF Revert
    <3>2. \A id : WriterPending(id) => WriterPending(id)'
      BY <2>8, <3>1 DEF WriterPending, Revert
    <3>3. WriterPending(site[t])'
      BY <3>1 DEF WriterPending
    <3>4. CacheCoherent'
      BY <1>0, <3>1, <3>2, <3>3 DEF CacheInv, CacheCoherent
    <3> QED
      BY <3>1, <3>4 DEF CacheInv
  <2>9. CASE BumpGeneration(t)
    <3>1. /\ g_generation' = g_generation + 1 /\ UNCHANGED <<tl_ic, loaded>>
          /\ \A u \in Threads : pc'[u] = "lookup" => pc[u] = "lookup"
      BY <1>0, <2>9 DEF BumpGeneration, NextGeneration
    <3> QED
      BY <1>0, <3>1 DEF CacheInv, CacheCoherent
  <2>10. CASE Enqueue(t)
    BY <1>0, <2>10, CacheFrame DEF Enqueue, WriterPending
  <2>11. CASE TailCall(t)
    BY <1>0, <2>11, CacheFrame DEF TailCall, Return, WriterPending
  <2> QED
    BY <1>2, <2>1, <2>2, <2>3, <2>4, <2>5, <2>6, <2>7, <2>8, <2>9, <2>10,
       <2>11 DEF InMalloc
<1>3. ASSUME NEW s \in Sites, ProcessEvent(s) PROVE CacheInv'
  <2>1. CASE Resume(s)
    BY <2>1, CacheFrame DEF Resume, WriterPending
  <2>2. CASE SpecializeFails(s)
    BY <2>2, CacheFrame DEF SpecializeFails, WriterPending
  <2>3. CASE PostDrift(s)
    BY <2>3, CacheFrame DEF PostDrift, WriterPending
  <2>4. ASSUME NEW p \in Pages, Specialize(s, p) PROVE CacheInv'
    <3>1. /\ bgpc = "events" /\ bgpc' = "install" /\ bgd'.id = s
          /\ UNCHANGED <<pc, site, tl_ic, loaded, g_generation>>
          /\ \A id \in Sites \ {s} : g_table'[id] = g_table[id]
      BY <1>0, <2>4 DEF Specialize
    <3>2. \A id : WriterPending(id) => WriterPending(id)'
      BY <3>1 DEF WriterPending
    <3>3. WriterPending(s)'
      BY <3>1 DEF WriterPending
    <3>4. CacheCoherent'
      BY <1>0, <3>1, <3>2, <3>3 DEF CacheInv, CacheCoherent
    <3> QED
      BY <3>1, <3>4 DEF CacheInv
  <2> QED
    BY <1>3, <2>1, <2>2, <2>3, <2>4 DEF ProcessEvent
<1>4. CASE BackgroundStep
  <2>1. CASE Dequeue
    BY <2>1, CacheFrame DEF Dequeue, WriterPending
  <2>2. CASE ResetCallSite
    BY <2>2, CacheFrame DEF ResetCallSite, WriterPending
  <2>3. CASE DrainEmpty
    BY <2>3, CacheFrame DEF DrainEmpty, WriterPending
  <2>4. ASSUME NEW t \in Threads, ScanThread(t) PROVE CacheInv'
    BY <2>4, CacheFrame DEF ScanThread, WriterPending
  <2>5. CASE Reclaim
    BY <2>5, CacheFrame DEF Reclaim, WriterPending
  <2>6. CASE InstallBump
    <3>1. g_generation' = g_generation + 1 /\ UNCHANGED <<tl_ic, pc, loaded>>
      BY <2>6 DEF InstallBump, NextGeneration
    <3> QED
      BY <1>0, <3>1 DEF CacheInv, CacheCoherent
  <2>7. CASE EndEvents
    BY <2>7, CacheFrame DEF EndEvents, WriterPending
  <2> QED
    BY <1>4, <2>1, <2>2, <2>3, <2>4, <2>5, <2>6, <2>7 DEF BackgroundStep
<1>5. CASE UNCHANGED vars
  BY <1>5, CacheFrame DEF vars, WriterPending
<1> QED
  BY <1>1, <1>2, <1>3, <1>4, <1>5 DEF Next

\* The generation check of the trampoline's inline cache is sound for any
\* number of threads, sites and pages, also when mmap reuses addresses.
THEOREM CachesCoherent == Spec => []CacheCoherent
<1>1. CacheInv => CacheCoherent
  BY DEF CacheInv
<1> QED
  BY <1>1, TypeInit, TypeStep, CacheInit, CacheStep, PTL DEF Spec

-----------------------------------------------------------------------------
(* Safety of reclamation, when mmap does not hand out an address twice, for *)
(* the threads that have registered at a first safe point.                 *)

\* Every page anything still refers to has been mapped at some time, so that
\* a new page is none of them; the code in it belongs to a call site.
KnownPages ==
    /\ mapped \subseteq used
    /\ \A p \in used : code_site[p] \in Sites
    /\ \A t \in Threads : {fn[t], tl_ic[t].fn} \subseteq used \cup {NoPage}
    /\ Condemned \subseteq used

\* What a thread in deopt::handle knows: the id is the one of its page, the
\* page has left the table, and after the bump it is gone.
HandleInv ==
    \A t \in Threads :
        /\ pc[t] \in {"revert", "bump", "enqueue"} => site[t] = code_site[fn[t]]
        /\ pc[t] = "bump" => \A s \in Sites : g_table[s] # fn[t]
        /\ pc[t] = "enqueue" => Gone(fn[t])

\* Every page a registered thread is in, or is about to enter, is mapped.
ReachInv ==
    \A t \in Threads :
        /\ t \in g_thread_list => \A p \in Pages : CanReach(t, p) => p \in mapped
        /\ InRoutine(t) => fn[t] \in Pages
        /\ tl_ic[t].gen = g_generation => tl_ic[t].fn \in mapped \cup {NoPage}

\* Published epochs never run ahead of g_epoch nor backwards.
EpochInv ==
    /\ Warm \subseteq g_thread_list
    /\ \A t \in Threads :
        /\ tl_thread_epoch[t] <= g_epoch
        /\ pc[t] = "store_epoch" =>
               tl_thread_epoch[t] <= loaded[t] /\ loaded[t] <= g_epoch

\* A registered thread that the scan has read, or that registered too late for
\* it, has kept min_epoch at the stamp of every pending page it can reach: one
\* that was read by its epoch, one that came late since it can reach none.
ScanInv ==
    bgpc = "scan" =>
        \A t \in g_thread_list \ toScan, r \in g_pending :
            CanReach(t, r.page) => minEpoch <= r.epoch

PageInv ==
    /\ KnownPages /\ InstalledMapped /\ HandleInv /\ ReachInv
    /\ CondemnedUnreachable /\ EpochInv /\ StragglerPinned /\ ScanInv

\* PageInv holds initially.
LEMMA PageInit ==
    ASSUME Init
    PROVE  PageInv
<1> USE NullAssumption, BoundsAssumption, FlagsAssumption
<1>1. Condemned = {}
  BY DEF Init, Condemned, Range
<1>2. \A t \in Threads : ~InRoutine(t) /\ pc[t] # "lookup" /\ \A p \in Pages : ~CanReach(t, p)
  BY DEF Init, InRoutine, CanReach
<1>3. KnownPages
  BY <1>1 DEF Init, KnownPages
<1>4. InstalledMapped /\ HandleInv
  BY DEF Init, InstalledMapped, HandleInv
<1>5. ReachInv
  BY <1>2 DEF Init, ReachInv
<1>6. CondemnedUnreachable /\ StragglerPinned
  BY <1>1 DEF Init, CondemnedUnreachable, StragglerPinned
<1>7. EpochInv /\ ScanInv
  BY DEF Init, EpochInv, ScanInv
<1> QED
  BY <1>3, <1>4, <1>5, <1>6, <1>7 DEF PageInv

\* The part of the type invariant that the steps below use.
LEMMA PageTypes ==
    ASSUME TypeInv
    PROVE  /\ pc \in [Threads -> ThreadPCs] /\ site \in [Threads -> Ids]
           /\ fn \in [Threads -> Routines] /\ loaded \in [Threads -> Nat]
           /\ tl_ic \in [Threads -> Caches] /\ g_table \in [Sites -> Routines]
           /\ \A t \in Threads : tl_ic[t].gen \in Nat /\ tl_ic[t].fn \in Routines
           /\ tl_thread_epoch \in [Threads -> Nat] /\ g_epoch \in Nat
           /\ g_generation \in Nat /\ used \subseteq Pages
           /\ code_site \in [Pages -> Ids] /\ minEpoch \in Nat
           /\ g_pending \subseteq Retired
           /\ \A r \in g_pending : r.epoch \in Nat
           /\ g_thread_list \subseteq Threads
  BY DEF TypeInv, TypeOK, Caches, Retired

\* A step of thread t that reads shared state and changes only t's locals and
\* published epoch: it suffices to look at t.
LEMMA LocalStep ==
    ASSUME TypeInv, TypeInv', PageInv, NEW t \in Threads,
           UNCHANGED <<pageVars, tableVars, tl_ic, queueVars, bgVars, g_epoch,
                       g_thread_list>>,
           \A u \in Threads \ {t} :
               /\ pc'[u] = pc[u] /\ site'[u] = site[u] /\ fn'[u] = fn[u]
               /\ loaded'[u] = loaded[u] /\ tl_thread_epoch'[u] = tl_thread_epoch[u],
           fn'[t] \in {fn[t], NoPage},
           pc'[t] \notin {"bump", "enqueue"},
           pc'[t] = "revert" => site'[t] = code_site[fn'[t]],
           InRoutine(t)' => InRoutine(t) /\ fn'[t] = fn[t],
           pc'[t] = "lookup" => loaded'[t] = g_generation,
           tl_thread_epoch[t] <= tl_thread_epoch'[t],
           tl_thread_epoch'[t] <= g_epoch,
           pc'[t] = "store_epoch" =>
               tl_thread_epoch'[t] <= loaded'[t] /\ loaded'[t] <= g_epoch,
           \/ tl_thread_epoch'[t] = tl_thread_epoch[t]
           \/ pc'[t] = "gen"
    PROVE  PageInv'
<1> USE DEF pageVars, tableVars, queueVars, bgVars
<1>0. Condemned' = Condemned
  BY DEF Condemned, Range
<1>1. KnownPages'
  BY <1>0 DEF PageInv, KnownPages
<1>2. InstalledMapped'
  BY DEF PageInv, InstalledMapped
<1>3. \A p : Gone(p) => Gone(p)'
  BY DEF Gone
<1>4. HandleInv'
  BY <1>3 DEF PageInv, HandleInv, Gone
<1>5. CondemnedUnreachable'
  BY <1>0, <1>3 DEF PageInv, CondemnedUnreachable, Gone
<1>6. \A u \in Threads \ {t}, p \in Pages :
          /\ CanReach(u, p)' => CanReach(u, p)
          /\ InRoutine(u)' => InRoutine(u)
  BY DEF CanReach, InRoutine, CacheHit
<1>7. \A p \in Pages : CanReach(t, p)' =>
          \/ CanReach(t, p)
          \/ tl_ic[t].gen = g_generation /\ tl_ic[t].fn = p
  BY DEF CanReach, InRoutine, CacheHit
<1>8. ReachInv'
  <2>1. ASSUME NEW u \in Threads PROVE u \in g_thread_list => \A p \in Pages : CanReach(u, p)' => p \in mapped'
    BY <1>6, <1>7, NullAssumption DEF PageInv, ReachInv
  <2>2. ASSUME NEW u \in Threads PROVE InRoutine(u)' => fn'[u] \in Pages
    BY <1>6 DEF PageInv, ReachInv, InRoutine
  <2> QED
    BY <2>1, <2>2 DEF PageInv, ReachInv
<1>9. EpochInv'
  BY DEF PageInv, EpochInv
<1>10. ASSUME NEW r \in g_pending, NEW u \in Threads, CanReach(u, r.page)'
       PROVE  CanReach(u, r.page) /\ (u = t => pc'[t] # "gen")
  <2>1. r.page \in Condemned
    BY DEF Condemned
  <2>2. r.page \in Pages
    BY <2>1, PageTypes DEF PageInv, KnownPages
  <2>3. CASE u # t
    BY <1>6, <1>10, <2>2, <2>3
  <2>4. CASE u = t
    <3>1. pc'[t] # "gen"
      BY <1>10, <2>4 DEF CanReach, InRoutine
    <3>2. CanReach(t, r.page)
      BY <1>7, <1>10, <2>1, <2>2, <2>4, PageTypes DEF PageInv, CondemnedUnreachable, Gone
    <3> QED
      BY <2>4, <3>1, <3>2
  <2> QED
    BY <2>3, <2>4
<1>11. StragglerPinned'
  BY <1>10 DEF PageInv, StragglerPinned
<1>12. ScanInv'
  BY <1>10, PageTypes DEF PageInv, ScanInv
<1> QED
  BY <1>1, <1>2, <1>4, <1>5, <1>8, <1>9, <1>11, <1>12 DEF PageInv

\* A step that moves no page and adds none to the condemned ones: only the scan
\* can be disturbed.
LEMMA QuietStep ==
    ASSUME PageInv,
           UNCHANGED <<threadVars, pageVars, tableVars, g_epoch, tl_thread_epoch, g_pending>>,
           g_thread_list \subseteq g_thread_list',
           \A t \in g_thread_list' : t \notin g_thread_list => pc[t] = "safepoint",
           Condemned' \subseteq Condemned, ScanInv'
    PROVE  PageInv'
<1> USE DEF threadVars, pageVars, tableVars, epochVars
<1>1. KnownPages' /\ InstalledMapped'
  BY DEF PageInv, KnownPages, InstalledMapped
<1>2. HandleInv' /\ CondemnedUnreachable'
  BY DEF PageInv, HandleInv, CondemnedUnreachable, Gone
<1>3. ReachInv' /\ EpochInv' /\ StragglerPinned'
  BY DEF PageInv, ReachInv, EpochInv, StragglerPinned, CanReach, InRoutine, CacheHit
<1> QED
  BY <1>1, <1>2, <1>3 DEF PageInv

\* malloc resolves its routine: a valid cache or the table gives a mapped page
\* that is not condemned; a stale read of the generation gives a page that t
\* could reach already.
LEMMA LookupStep ==
    ASSUME TypeInv, CacheInv, PageInv, NEW t \in Threads, Lookup(t)
    PROVE  PageInv'
<1> USE PageTypes, NullAssumption
        DEF pageVars, siteVars, bgVars, epochVars, queueVars, tableVars
<1>0. /\ pc[t] = "lookup" /\ site[t] \in Sites /\ pc'[t] \in {"idle", "exec"}
      /\ UNCHANGED <<pageVars, tableVars, queueVars, bgVars, epochVars>>
      /\ tl_ic'[t] = [id |-> site[t], fn |-> Resolved(t), gen |-> loaded[t]]
      /\ pc'[t] = "exec" => fn'[t] = Resolved(t) /\ Resolved(t) # NoPage
      /\ fn'[t] \in {Resolved(t), NoPage}
      /\ \A u \in Threads \ {t} :
             /\ pc'[u] = pc[u] /\ site'[u] = site[u] /\ fn'[u] = fn[u]
             /\ loaded'[u] = loaded[u] /\ tl_ic'[u] = tl_ic[u]
  BY DEF Lookup, Return, TypeInv, SiteSet
<1>1. \/ CacheHit(t) /\ Resolved(t) = tl_ic[t].fn /\ loaded[t] = tl_ic[t].gen
      \/ Resolved(t) = g_table[site[t]]
  BY DEF Resolved, CacheHit
<1>2. Condemned' = Condemned
  BY <1>0 DEF Condemned, Range
<1>3. KnownPages'
  <2>1. Resolved(t) \in used \cup {NoPage}
    BY <1>0, <1>1 DEF PageInv, KnownPages, InstalledMapped
  <2> QED
    BY <1>0, <1>2, <2>1 DEF PageInv, KnownPages
<1>4. InstalledMapped'
  BY <1>0 DEF PageInv, InstalledMapped
<1>5. \A p : Gone(p) => Gone(p)'
  BY <1>0, <1>1 DEF Gone
<1>6. HandleInv'
  <2> SUFFICES ASSUME NEW u \in Threads, pc'[u] \in {"revert", "bump", "enqueue"}
               PROVE  /\ site'[u] = code_site[fn'[u]]
                      /\ pc'[u] = "bump" => \A s \in Sites : g_table[s] # fn'[u]
                      /\ pc'[u] = "enqueue" => Gone(fn[u])'
    BY <1>0 DEF HandleInv
  <2>1. pc'[u] = pc[u] /\ site'[u] = site[u] /\ fn'[u] = fn[u]
    BY <1>0
  <2>2. /\ site[u] = code_site[fn[u]]
        /\ pc[u] = "bump" => \A s \in Sites : g_table[s] # fn[u]
        /\ pc[u] = "enqueue" => Gone(fn[u])
    BY <2>1 DEF PageInv, HandleInv
  <2>3. Gone(fn[u]) => Gone(fn[u])'
    BY <1>5, <2>1 DEF Gone
  <2> QED
    BY <2>1, <2>2, <2>3
<1>7. CondemnedUnreachable'
  BY <1>2, <1>5 DEF PageInv, CondemnedUnreachable, Gone
<1>8. \A u \in Threads \ {t}, p \in Pages :
          /\ CanReach(u, p)' => CanReach(u, p)
          /\ InRoutine(u)' => InRoutine(u)
  BY <1>0 DEF CanReach, InRoutine, CacheHit
<1>9. \A p \in Pages : CanReach(t, p)' => CanReach(t, p) \/ p = g_table[site[t]]
  BY <1>0, <1>1 DEF CanReach, InRoutine
<1>10. ReachInv'
  <2>1. ASSUME NEW u \in Threads PROVE u \in g_thread_list => \A p \in Pages : CanReach(u, p)' => p \in mapped'
    BY <1>0, <1>8, <1>9 DEF PageInv, ReachInv, InstalledMapped
  <2>2. ASSUME NEW u \in Threads PROVE InRoutine(u)' => fn'[u] \in Pages
    <3>1. Resolved(t) \in Routines
      BY <1>0, <1>1
    <3> QED
      BY <1>0, <1>8, <3>1 DEF PageInv, ReachInv, InRoutine, Routines
  <2>3. ASSUME NEW u \in Threads, tl_ic'[u].gen = g_generation
        PROVE  tl_ic'[u].fn \in mapped \cup {NoPage}
    BY <1>0, <1>1, <2>3 DEF PageInv, ReachInv, InstalledMapped
  <2> QED
    BY <1>0, <2>1, <2>2, <2>3 DEF ReachInv
<1>11. EpochInv'
  BY <1>0 DEF PageInv, EpochInv
<1>12. ASSUME NEW r \in g_pending, NEW u \in Threads, CanReach(u, r.page)'
       PROVE  CanReach(u, r.page)
  <2>1. r.page \in Condemned
    BY DEF Condemned
  <2>2. r.page \in Pages
    BY <2>1 DEF PageInv, KnownPages
  <2>3. g_table[site[t]] # r.page
    BY <1>0, <2>1 DEF PageInv, CondemnedUnreachable, Gone
  <2> QED
    BY <1>8, <1>9, <1>12, <2>2, <2>3
<1>13. StragglerPinned' /\ ScanInv'
  BY <1>0, <1>12 DEF PageInv, StragglerPinned, ScanInv
<1> QED
  BY <1>3, <1>4, <1>6, <1>7, <1>10, <1>11, <1>13 DEF PageInv

\* The three steps of deopt::handle. The store takes t's own page out of the
\* table, since the table holds a page only under the site compiled into it;
\* the bump makes every cache that names the page stale; then it is queued.
LEMMA RevertStep ==
    ASSUME TypeInv, CacheInv, PageInv, NEW t \in Threads, Revert(t)
    PROVE  PageInv'
<1> USE PageTypes, NullAssumption
        DEF pageVars, siteVars, bgVars, epochVars, queueVars
<1>0. /\ pc[t] = "revert" /\ pc'[t] = "bump" /\ site[t] = code_site[fn[t]]
      /\ UNCHANGED <<pageVars, queueVars, bgVars, epochVars, g_generation,
                     site, fn, loaded, tl_ic>>
      /\ \A u \in Threads \ {t} : pc'[u] = pc[u]
      /\ \A s \in Sites : g_table'[s] = IF s = site[t] THEN NoPage ELSE g_table[s]
  BY DEF Revert, PageInv, HandleInv
<1>1. Condemned' = Condemned
  BY <1>0 DEF Condemned, Range
<1>2. fn[t] \in Pages
  BY <1>0 DEF PageInv, ReachInv, InRoutine
<1>3. KnownPages' /\ InstalledMapped'
  BY <1>0, <1>1 DEF PageInv, KnownPages, InstalledMapped
<1>4. \A p \in Pages : Gone(p) => Gone(p)'
  BY <1>0 DEF Gone
<1>5. \A s \in Sites : g_table'[s] # fn[t]
  BY <1>0, <1>2 DEF PageInv, InstalledMapped
<1>6. HandleInv'
  <2> SUFFICES ASSUME NEW u \in Threads
               PROVE  /\ pc'[u] \in {"revert", "bump", "enqueue"} => site[u] = code_site[fn[u]]
                      /\ pc'[u] = "bump" => \A s \in Sites : g_table'[s] # fn[u]
                      /\ pc'[u] = "enqueue" => Gone(fn[u])'
    BY <1>0 DEF HandleInv, Gone
  <2>1. CASE u = t
    BY <1>0, <1>5, <2>1
  <2>2. CASE u # t
    <3>1. pc[u] \in {"bump", "enqueue"} => fn[u] \in Pages
      BY DEF PageInv, ReachInv, InRoutine
    <3> QED
      BY <1>0, <1>4, <2>2, <3>1 DEF PageInv, HandleInv, Gone
  <2> QED
    BY <2>1, <2>2
<1>7. CondemnedUnreachable'
  BY <1>1, <1>4 DEF PageInv, KnownPages, CondemnedUnreachable, Gone
<1>8. ReachInv' /\ EpochInv' /\ StragglerPinned' /\ ScanInv'
  BY <1>0 DEF PageInv, ReachInv, EpochInv, StragglerPinned, ScanInv, CanReach,
              InRoutine, CacheHit
<1> QED
  BY <1>3, <1>6, <1>7, <1>8 DEF PageInv

\* A thread that deoptimises bumps the generation.
LEMMA BumpStep ==
    ASSUME TypeInv, CacheInv, PageInv, NEW t \in Threads, BumpGeneration(t)
    PROVE  PageInv'
<1> USE PageTypes, NullAssumption
        DEF pageVars, siteVars, bgVars, epochVars, queueVars
<1>0. /\ pc[t] = "bump" /\ pc'[t] = "enqueue" /\ g_generation' = g_generation + 1
      /\ UNCHANGED <<pageVars, queueVars, bgVars, epochVars, g_table,
                     site, fn, loaded, tl_ic>>
      /\ \A u \in Threads \ {t} : pc'[u] = pc[u]
  BY DEF BumpGeneration, NextGeneration
<1>1. Condemned' = Condemned
  BY <1>0 DEF Condemned, Range
<1>2. \A u \in Threads : tl_ic[u].gen < g_generation'
  BY <1>0 DEF CacheInv
<1>3. KnownPages' /\ InstalledMapped'
  BY <1>0, <1>1 DEF PageInv, KnownPages, InstalledMapped
<1>4. \A p : (\A s \in Sites : g_table[s] # p) => Gone(p)'
  BY <1>0, <1>2 DEF Gone
<1>5. HandleInv'
  BY <1>0, <1>4, ZenonT(30) DEF PageInv, HandleInv, Gone
<1>6. CondemnedUnreachable'
  BY <1>1, <1>4 DEF PageInv, CondemnedUnreachable, Gone
<1>7. ReachInv'
  BY <1>0, <1>2 DEF PageInv, ReachInv, CanReach, InRoutine, CacheHit
<1>8. EpochInv' /\ StragglerPinned' /\ ScanInv'
  BY <1>0 DEF PageInv, EpochInv, StragglerPinned, ScanInv, CanReach,
              InRoutine, CacheHit
<1> QED
  BY <1>3, <1>5, <1>6, <1>7, <1>8 DEF PageInv

\* A thread hands its page to the queue of pages to reclaim.
LEMMA EnqueueStep ==
    ASSUME TypeInv, CacheInv, PageInv, NEW t \in Threads, Enqueue(t)
    PROVE  PageInv'
<1> USE PageTypes, NullAssumption
        DEF pageVars, siteVars, bgVars, epochVars, tableVars
<1>0. /\ pc[t] = "enqueue" /\ pc'[t] = "tail"
      /\ UNCHANGED <<pageVars, tableVars, g_pending, bgVars, epochVars,
                     site, fn, loaded, tl_ic>>
      /\ \A u \in Threads \ {t} : pc'[u] = pc[u]
  BY DEF Enqueue
<1>1. Condemned' \subseteq Condemned \cup {fn[t]}
  <2>1. g_deopt_queue \in Seq(Deopts) /\ [id |-> site[t], page |-> fn[t]] \in Deopts
    BY DEF TypeInv, TypeOK, Deopts
  <2>2. Range(g_deopt_queue')
          \subseteq Range(g_deopt_queue) \cup {[id |-> site[t], page |-> fn[t]]}
    BY <2>1, AppendProperties DEF Enqueue, Range
  <2> QED
    BY <1>0, <2>2 DEF Condemned
<1>2. fn[t] \in used /\ Gone(fn[t])
  BY <1>0 DEF PageInv, HandleInv, ReachInv, KnownPages, InRoutine
<1>3. KnownPages' /\ InstalledMapped'
  BY <1>0, <1>1, <1>2 DEF PageInv, KnownPages, InstalledMapped
<1>4. CondemnedUnreachable'
  BY <1>0, <1>1, <1>2 DEF PageInv, CondemnedUnreachable, Gone
<1>5. HandleInv'
  BY <1>0 DEF PageInv, HandleInv, Gone
<1>6. ReachInv' /\ EpochInv' /\ StragglerPinned' /\ ScanInv'
  BY <1>0 DEF PageInv, ReachInv, EpochInv, StragglerPinned, ScanInv, CanReach,
              InRoutine, CacheHit
<1> QED
  BY <1>3, <1>4, <1>5, <1>6 DEF PageInv

\* A new routine is compiled into a page that nothing refers to yet.
LEMMA SpecializeStep ==
    ASSUME FreshMmap, TypeInv, CacheInv, PageInv,
           NEW s \in Sites, NEW p \in Pages, Specialize(s, p)
    PROVE  PageInv'
<1> USE PageTypes, NullAssumption
        DEF threadVars, epochVars, queueVars
<1>0. /\ p \notin used /\ bgpc # "reset" /\ bgpc' = "install"
      /\ UNCHANGED <<threadVars, epochVars, queueVars, g_generation>>
      /\ mapped' = mapped \cup {p} /\ used' = used \cup {p}
      /\ code_site'[p] = s /\ \A q \in Pages \ {p} : code_site'[q] = code_site[q]
      /\ g_table'[s] = p /\ \A id \in Sites \ {s} : g_table'[id] = g_table[id]
  BY DEF Specialize, FreePages
<1>1. Condemned' = Condemned
  BY <1>0 DEF Condemned, Range
<1>2. KnownPages'
  BY <1>0, <1>1 DEF PageInv, KnownPages
<1>3. InstalledMapped'
  BY <1>0 DEF PageInv, KnownPages, InstalledMapped
<1>4. \A q \in used : Gone(q) => Gone(q)'
  BY <1>0 DEF Gone
<1>5. HandleInv'
  <2> SUFFICES ASSUME NEW u \in Threads, pc[u] \in {"revert", "bump", "enqueue"}
               PROVE  /\ site[u] = code_site'[fn[u]]
                      /\ pc[u] = "bump" => \A id \in Sites : g_table'[id] # fn[u]
                      /\ pc[u] = "enqueue" => Gone(fn[u])'
    BY <1>0 DEF HandleInv
  <2>1. fn[u] \in used
    BY DEF PageInv, ReachInv, KnownPages, InRoutine
  <2>2. Gone(fn[u]) => Gone(fn[u])'
    BY <1>0, <2>1 DEF Gone
  <2> QED
    BY <1>0, <2>1, <2>2 DEF PageInv, HandleInv
<1>6. CondemnedUnreachable'
  BY <1>1, <1>4 DEF PageInv, KnownPages, CondemnedUnreachable, Gone
<1>7. ReachInv' /\ EpochInv' /\ StragglerPinned' /\ ScanInv'
  BY <1>0 DEF PageInv, ReachInv, EpochInv, StragglerPinned, ScanInv, CanReach,
              InRoutine, CacheHit
<1> QED
  BY <1>2, <1>3, <1>5, <1>6, <1>7 DEF PageInv

\* The background thread bumps the generation after installing a routine.
LEMMA InstallBumpStep ==
    ASSUME TypeInv, CacheInv, PageInv, InstallBump
    PROVE  PageInv'
<1> USE PageTypes, NullAssumption
        DEF threadVars, pageVars, siteVars, epochVars, queueVars
<1>0. /\ bgpc = "install" /\ bgpc' = "events" /\ g_generation' = g_generation + 1
      /\ UNCHANGED <<threadVars, pageVars, epochVars, queueVars, g_table>>
  BY DEF InstallBump, NextGeneration
<1>1. Condemned' = Condemned
  BY <1>0 DEF Condemned, Range
<1>2. \A u \in Threads : tl_ic[u].gen < g_generation'
  BY <1>0 DEF CacheInv
<1>3. KnownPages' /\ InstalledMapped'
  BY <1>0, <1>1 DEF PageInv, KnownPages, InstalledMapped
<1>4. HandleInv' /\ CondemnedUnreachable'
  BY <1>0, <1>1, <1>2 DEF PageInv, HandleInv, CondemnedUnreachable, Gone
<1>5. ReachInv'
  BY <1>0, <1>2 DEF PageInv, ReachInv, CanReach, InRoutine, CacheHit
<1>6. EpochInv' /\ StragglerPinned' /\ ScanInv'
  BY <1>0 DEF PageInv, EpochInv, StragglerPinned, ScanInv, CanReach,
              InRoutine, CacheHit
<1> QED
  BY <1>3, <1>4, <1>5, <1>6 DEF PageInv

\* The page is stamped with the current epoch, which no thread has passed.
LEMMA ResetStep ==
    ASSUME TypeInv, CacheInv, PageInv, ResetCallSite
    PROVE  PageInv'
<1> USE PageTypes, NullAssumption
        DEF threadVars, pageVars, tableVars
<1>0. /\ bgpc = "reset" /\ bgpc' = "drain" /\ g_epoch' = g_epoch + 1
      /\ UNCHANGED <<threadVars, pageVars, tableVars, g_thread_list,
                     tl_thread_epoch, g_deopt_queue>>
      /\ g_pending' \subseteq g_pending \cup {[page |-> bgd.page, epoch |-> g_epoch]}
  BY DEF ResetCallSite
<1>1. Condemned' \subseteq Condemned
  BY <1>0 DEF Condemned, Range
<1>2. KnownPages' /\ InstalledMapped'
  BY <1>0, <1>1 DEF PageInv, KnownPages, InstalledMapped
<1>3. HandleInv' /\ CondemnedUnreachable'
  BY <1>0, <1>1 DEF PageInv, HandleInv, CondemnedUnreachable, Gone
<1>4. ReachInv'
  BY <1>0 DEF PageInv, ReachInv, CanReach, InRoutine, CacheHit
<1>5. EpochInv' /\ ScanInv'
  BY <1>0 DEF PageInv, EpochInv, ScanInv
<1>6. StragglerPinned'
  <2> SUFFICES ASSUME NEW r \in g_pending', NEW u \in Threads, CanReach(u, r.page)
               PROVE  tl_thread_epoch[u] <= r.epoch
    BY <1>0 DEF StragglerPinned, CanReach, InRoutine, CacheHit
  <2>1. CASE r \in g_pending
    BY <2>1 DEF PageInv, StragglerPinned
  <2>2. CASE r = [page |-> bgd.page, epoch |-> g_epoch]
    BY <2>2 DEF PageInv, EpochInv
  <2> QED
    BY <1>0, <2>1, <2>2
<1> QED
  BY <1>2, <1>3, <1>4, <1>5, <1>6 DEF PageInv

\* The scan is over, so no registered thread can reach a page that is stamped
\* below min_epoch.
LEMMA ReclaimStep ==
    ASSUME TypeInv, CacheInv, PageInv, Reclaim
    PROVE  PageInv'
<1> USE PageTypes, NullAssumption
        DEF threadVars, tableVars, epochVars
<1> DEFINE Freed == {r.page : r \in {q \in g_pending : Reclaimable(q)}}
<1>0. /\ bgpc = "scan" /\ toScan = {} /\ bgpc' = "events"
      /\ UNCHANGED <<threadVars, used, code_site, tableVars, epochVars, g_deopt_queue>>
      /\ mapped' = mapped \ Freed /\ g_pending' \subseteq g_pending
  BY DEF Reclaim
<1>1. Condemned' \subseteq Condemned /\ Freed \subseteq Condemned
  BY <1>0 DEF Condemned, Range
<1>2. \A t \in g_thread_list, p \in Freed : ~CanReach(t, p)
  <2> SUFFICES ASSUME NEW t \in g_thread_list, NEW r \in g_pending, Reclaimable(r),
                      CanReach(t, r.page)
               PROVE  FALSE
    OBVIOUS
  <2>1. minEpoch <= r.epoch
    BY <1>0 DEF PageInv, ScanInv
  <2>2. r.epoch < minEpoch
    BY DEF Reclaimable
  <2> QED
    BY <2>1, <2>2
<1>3. \A p \in Freed : Gone(p)
  BY <1>1 DEF PageInv, CondemnedUnreachable
<1>4. KnownPages'
  BY <1>0, <1>1 DEF PageInv, KnownPages
<1>5. InstalledMapped'
  BY <1>0, <1>3 DEF PageInv, InstalledMapped, Gone
<1>6. HandleInv' /\ CondemnedUnreachable'
  BY <1>0, <1>1 DEF PageInv, HandleInv, CondemnedUnreachable, Gone
<1>7. ReachInv'
  <2>1. \A t \in Threads, p \in Pages : CanReach(t, p)' <=> CanReach(t, p)
    BY <1>0 DEF CanReach, InRoutine, CacheHit
  <2>2. ASSUME NEW t \in Threads, tl_ic[t].gen = g_generation
        PROVE  tl_ic[t].fn \in mapped' \cup {NoPage}
    <3>1. tl_ic[t].fn \in mapped \cup {NoPage}
      BY <2>2 DEF PageInv, ReachInv
    <3>2. ~Gone(tl_ic[t].fn)
      BY <2>2 DEF Gone
    <3>3. tl_ic[t].fn \notin Freed
      BY <1>3, <3>2
    <3> QED
      BY <1>0, <3>1, <3>3
  <2> QED
    BY <1>0, <1>2, <2>1, <2>2 DEF PageInv, ReachInv, InRoutine
<1>8. EpochInv' /\ StragglerPinned' /\ ScanInv'
  BY <1>0 DEF PageInv, EpochInv, StragglerPinned, ScanInv, CanReach,
              InRoutine, CacheHit
<1> QED
  BY <1>4, <1>5, <1>6, <1>7, <1>8 DEF PageInv

\* Every step keeps PageInv, provided that mmap returns fresh pages.
LEMMA PageStep ==
    ASSUME FreshMmap, TypeInv, TypeInv', CacheInv, PageInv, [Next]_vars
    PROVE  PageInv'
<1> USE PageTypes, NullAssumption
        DEF threadVars, pageVars, siteVars, bgVars, epochVars, queueVars, tableVars
<1>0. ASSUME NEW t \in Threads
      PROVE  /\ tl_thread_epoch[t] <= g_epoch
             /\ pc[t] = "store_epoch" =>
                    tl_thread_epoch[t] <= loaded[t] /\ loaded[t] <= g_epoch
  BY DEF PageInv, EpochInv
<1>1. ASSUME NEW t \in Threads, NEW s \in Sites, Malloc(t, s) PROVE PageInv'
  BY <1>0, <1>1, LocalStep DEF Malloc, InRoutine
<1>2. ASSUME NEW t \in Threads, InMalloc(t) PROVE PageInv'
  <2>1. CASE RegisterThread(t)
    <3>1. ASSUME NEW p PROVE ~CanReach(t, p)
      BY <2>1 DEF RegisterThread, CanReach, InRoutine
    <3>2. ScanInv'
      BY <2>1, <3>1 DEF RegisterThread, PageInv, ScanInv, CanReach, InRoutine, CacheHit
    <3> QED
      BY <2>1, <3>2, QuietStep DEF RegisterThread, Condemned, Range
  <2>2. CASE LoadEpoch(t)
    BY <1>0, <2>2, LocalStep DEF LoadEpoch, InRoutine
  <2>3. CASE StoreEpoch(t)
    BY <1>0, <2>3, LocalStep DEF StoreEpoch, InRoutine
  <2>4. CASE ReadGen(t)
    BY <1>0, <2>4, LocalStep DEF ReadGen, InRoutine
  <2>5. CASE Lookup(t)
    BY <2>5, LookupStep
  <2>6. CASE Serve(t)
    BY <1>0, <2>6, LocalStep DEF Serve, Return, InRoutine
  <2>7. CASE GuardFail(t)
    BY <1>0, <2>7, LocalStep DEF GuardFail, HandleEntry, InRoutine
  <2>8. CASE Revert(t)
    BY <2>8, RevertStep
  <2>9. CASE BumpGeneration(t)
    BY <2>9, BumpStep
  <2>10. CASE Enqueue(t)
    BY <2>10, EnqueueStep
  <2>11. CASE TailCall(t)
    BY <1>0, <2>11, LocalStep DEF TailCall, Return, InRoutine
  <2> QED
    BY <1>2, <2>1, <2>2, <2>3, <2>4, <2>5, <2>6, <2>7, <2>8, <2>9, <2>10,
       <2>11 DEF InMalloc
<1>3. ASSUME NEW s \in Sites, ProcessEvent(s) PROVE PageInv'
  <2>1. CASE Resume(s)
    BY <2>1, QuietStep DEF Resume, Condemned, Range, PageInv, ScanInv
  <2>2. CASE SpecializeFails(s)
    BY <2>2, QuietStep DEF SpecializeFails, Condemned, Range, PageInv, ScanInv
  <2>3. CASE PostDrift(s)
    BY <2>3, QuietStep DEF PostDrift, Condemned, Range, PageInv, ScanInv
  <2>4. ASSUME NEW p \in Pages, Specialize(s, p) PROVE PageInv'
    BY <2>4, SpecializeStep
  <2> QED
    BY <1>3, <2>1, <2>2, <2>3, <2>4 DEF ProcessEvent
<1>4. CASE BackgroundStep
  <2>1. CASE Dequeue
    <3>1. g_deopt_queue \in Seq(Deopts)
      BY DEF TypeInv, TypeOK
    <3>2. /\ bgd' \in Range(g_deopt_queue)
          /\ Range(g_deopt_queue') \subseteq Range(g_deopt_queue)
      BY <2>1, <3>1, HeadTailProperties DEF Dequeue, Range
    <3>3. Condemned' \subseteq Condemned
      BY <2>1, <3>2 DEF Dequeue, Condemned
    <3> QED
      BY <2>1, <3>3, QuietStep DEF Dequeue, ScanInv
  <2>2. CASE ResetCallSite
    BY <2>2, ResetStep
  <2>3. CASE DrainEmpty
    <3>1. ScanInv'
      BY <2>3, FlagsAssumption DEF DrainEmpty, ScanInv, PageInv, EpochInv
    <3>2. Condemned' \subseteq Condemned
      BY <2>3 DEF DrainEmpty, Condemned, Range
    <3> QED
      BY <2>3, <3>1, <3>2, QuietStep DEF DrainEmpty
  <2>4. ASSUME NEW t \in Threads, ScanThread(t) PROVE PageInv'
    <3>1. minEpoch' <= tl_thread_epoch[t] /\ minEpoch' <= minEpoch /\ minEpoch' \in Nat
      BY <2>4 DEF ScanThread
    <3>2. ASSUME NEW u \in g_thread_list \ toScan', NEW r \in g_pending, CanReach(u, r.page)
          PROVE  minEpoch' <= r.epoch
      <4>1. CASE u = t
        BY <3>1, <3>2, <4>1 DEF PageInv, StragglerPinned
      <4>2. CASE u # t
        BY <2>4, <3>1, <3>2, <4>2 DEF ScanThread, PageInv, ScanInv
      <4> QED
        BY <4>1, <4>2
    <3>3. ScanInv'
      BY <2>4, <3>2 DEF ScanThread, ScanInv, CanReach, InRoutine, CacheHit
    <3> QED
      BY <2>4, <3>3, QuietStep DEF ScanThread, Condemned, Range
  <2>5. CASE Reclaim
    BY <2>5, ReclaimStep
  <2>6. CASE InstallBump
    BY <2>6, InstallBumpStep
  <2>7. CASE EndEvents
    BY <2>7, QuietStep DEF EndEvents, Condemned, Range, ScanInv
  <2> QED
    BY <1>4, <2>1, <2>2, <2>3, <2>4, <2>5, <2>6, <2>7 DEF BackgroundStep
<1>5. CASE UNCHANGED vars
  <2>1. ScanInv'
    BY <1>5 DEF vars, PageInv, ScanInv, CanReach, InRoutine, CacheHit
  <2> QED
    BY <1>5, <2>1, QuietStep DEF vars, Condemned, Range
<1> QED
  BY <1>1, <1>2, <1>3, <1>4, <1>5 DEF Next

\* The inductive invariant of the code cache holds, provided that mmap does not
\* reuse the address of a code page.
LEMMA PageInvariant ==
    ASSUME FreshMmap
    PROVE  Spec => []PageInv
<1>1. Init => PageInv
  BY PageInit
<1>2. TypeInv /\ TypeInv' /\ CacheInv /\ PageInv /\ [Next]_vars => PageInv'
  BY PageStep
<1> QED
  BY <1>1, <1>2, TypeInit, TypeStep, CacheInit, CacheStep, PTL DEF Spec

\* If mmap does not reuse addresses and every thread is past its first safe
\* point, no thread ever executes, or returns into, a code page that
\* drain_pending has unmapped.
THEOREM PagesSafe ==
    ASSUME FreshMmap, Warm = Threads
    PROVE  Spec => []PageSafe
<1>1. TypeInv /\ PageInv => PageSafe
  BY DEF PageInv, ReachInv, EpochInv, PageSafe, CanReach, InRoutine
<1> QED
  BY <1>1, PageInvariant, TypeInit, TypeStep, PTL DEF Spec

\* A thread is safe from its first safe point on, whenever it registers and
\* whatever the others are: threads that drain_pending does not know of yet are
\* a danger to themselves only.
THEOREM RegisteredThreadsSafe ==
    ASSUME FreshMmap
    PROVE  Spec => [](\A t \in g_thread_list : InRoutine(t) => fn[t] \in mapped)
<1>1. TypeInv /\ PageInv => \A t \in g_thread_list : InRoutine(t) => fn[t] \in mapped
  BY PageTypes DEF PageInv, ReachInv, CanReach
<1> QED
  BY <1>1, PageInvariant, TypeInit, TypeStep, PTL DEF Spec

\* If mmap does not reuse addresses, the dispatch table only points to mapped
\* code of the right call site, whatever reverts and recompilations race and
\* however many threads drain_pending does not know of.
THEOREM InstalledAlwaysMapped ==
    ASSUME FreshMmap
    PROVE  Spec => []InstalledMapped
<1>1. PageInv => InstalledMapped
  BY DEF PageInv
<1> QED
  BY <1>1, PageInvariant, PTL

\* If mmap does not reuse addresses, a page that handle has queued can be entered
\* by no malloc that starts later.
THEOREM GracePeriod ==
    ASSUME FreshMmap
    PROVE  Spec => []CondemnedUnreachable
<1>1. PageInv => CondemnedUnreachable
  BY DEF PageInv
<1> QED
  BY <1>1, PageInvariant, PTL

\* If mmap does not reuse addresses, a thread that can still reach a pending
\* page, from inside it or through a stale inline cache, last published an epoch
\* not above the page's stamp.
THEOREM StragglersPinned ==
    ASSUME FreshMmap
    PROVE  Spec => []StragglerPinned
<1>1. PageInv => StragglerPinned
  BY DEF PageInv
<1> QED
  BY <1>1, PageInvariant, PTL
=============================================================================
