---------------------------- MODULE PickerProofs ----------------------------
(***************************************************************************)
(* Proofs about Picker, for every value of its constants. Coupled says     *)
(* what the windows of a site prove and how the oracle's summary of a site *)
(* relates to the live one; TallyInv relates both to what was really seen; *)
(* the last part derives the figures of the exit dump from them.           *)
(***************************************************************************)
EXTENDS Picker, HistogramProofs, SequenceTheorems

-----------------------------------------------------------------------------
(* The types of a summary, as sets of records.                              *)

Phases    == {"PreSpec", "Compiled", "Deopt"}
Reasons   == {"None", "SizeDrift", "RegionExhaust"}
Lifetimes == {"Unknown", "Reap", "Hold"}
Stacks    == {q \in Seq(Ptrs) : Len(q) <= LifoCap}
Classes   == {c \in SUBSET Nat : Cardinality(c) <= MaxClasses}
Counts    == UNION {[T -> Nat] : T \in SUBSET (0..(MAX_SIZE - 1))}
Hists     == {h \in [counts : Counts, overflow : BOOLEAN, total : Nat] :
                 IsHistogram(h) /\ Accounted(h)}

TidVotes  == Votes(Tids \cup {NoTid})
SiteVotes == Votes(Sites \cup {NoSite})

Summary ==
    [id : Sites, phase : Phases, event_count : Nat, free_count : Nat,
     stable_windows : Nat, deopt_count : Nat, blacklisted : BOOLEAN,
     deopt_reason : Reasons, lifetime : Lifetimes, first_compile_events : Nat,
     alloc_dist : TidVotes, free_dist : TidVotes,
     windows : [0..1 -> Hists], active : 0..1, classes : Classes,
     lifo_stack : Stacks, top_pair : SiteVotes, lifo_count : Nat,
     baseline : Hists, post_window : Hists,
     candidate : Strategies, code_page : BOOLEAN]

\* The knobs are what init() and init_state() leave them at.
LEMMA KnobsOK ==
    ASSUME NEW knobs \in Knobs
    PROVE  /\ knobs.window \in Nat \ {0} /\ knobs.stable \in Nat \ {0}
           /\ knobs.crit \in Nat
  BY DEF Knobs

\* Those of the live process and of a replay.
LEMMA KnobsOfOK ==
    /\ KnobsOf(TRUE) = DefaultKnobs /\ KnobsOf(FALSE) = LiveKnobs
    /\ \A isOracle : KnobsOf(isOracle) \in Knobs
  BY PickerAssumption DEF KnobsOf

\* A window starts empty.
LEMMA EmptyInHists == EmptyHist \in Hists /\ EmptyHist.total = 0
<1>1. EmptyHist.counts \in Counts
  <2>1. [x \in {} |-> 0] \in [{} -> Nat]
    OBVIOUS
  <2> QED
    BY <2>1 DEF EmptyHist, Counts
<1>2. FALSE \in BOOLEAN
  OBVIOUS
<1>3. EmptyHist \in [counts : Counts, overflow : BOOLEAN, total : Nat]
  BY <1>1, <1>2 DEF EmptyHist
<1> QED
  BY <1>3, EmptyHistOK DEF Hists

\* A window keeps its type.
LEMMA RecordInHists ==
    ASSUME NEW h \in Hists, NEW size \in Nat, size < MAX_SIZE
    PROVE  HistRecord(h, size) \in Hists /\ HistRecord(h, size).total = h.total + 1
<1> DEFINE n == HistRecord(h, size)
<1>1. IsHistogram(n) /\ Accounted(n) /\ n.total = h.total + 1
  BY HistRecordOK DEF Hists
<1>2. n = [total |-> n.total, overflow |-> n.overflow, counts |-> n.counts]
  BY HistogramAssumption DEF HistRecord
<1>3. n.counts = [x \in Tracked(n) |-> n.counts[x]]
  BY HistogramAssumption DEF HistRecord, Tracked, Hists, Counts
<1>4. n.counts \in [Tracked(n) -> Nat] /\ Tracked(n) \in SUBSET (0..(MAX_SIZE - 1))
  BY <1>1, <1>3 DEF IsHistogram
<1>5. n.counts \in Counts
  BY <1>4 DEF Counts
<1>6. n.overflow \in BOOLEAN /\ n.total \in Nat
  BY <1>1 DEF IsHistogram
<1> HIDE DEF n
<1>7. n \in [counts : Counts, overflow : BOOLEAN, total : Nat]
  BY <1>2, <1>5, <1>6
<1> QED
  BY <1>1, <1>7 DEF Hists, n

\* A site starts with nothing recorded.
LEMMA NewSummaryOK ==
    ASSUME NEW id \in Sites
    PROVE  NewSummary(id) \in Summary
<1>1. {} \in Classes /\ <<>> \in Stacks
  BY FS_EmptySet, PickerAssumption DEF Classes, Stacks
<1>2. NoVotes(NoTid) \in TidVotes /\ NoVotes(NoSite) \in SiteVotes
  BY DEF NoVotes, TidVotes, SiteVotes, Votes
<1>3. [i \in 0..1 |-> EmptyHist] \in [0..1 -> Hists] /\ EmptyHist \in Hists
  BY EmptyInHists
<1>4. 0 \in Nat /\ 0 \in 0..1 /\ "Generic" \in Strategies
  BY DEF Strategies
<1>5. "PreSpec" \in Phases /\ "None" \in Reasons /\ "Unknown" \in Lifetimes
  BY DEF Phases, Reasons, Lifetimes
<1>6. FALSE \in BOOLEAN
  OBVIOUS
<1> QED
  BY <1>1, <1>2, <1>3, <1>4, <1>5, <1>6 DEF NewSummary, Summary

-----------------------------------------------------------------------------
(* What recording a size does to a summary.                                 *)

\* The fields that recording a size leaves alone.
Kept(r, s) ==
    /\ r.id = s.id /\ r.event_count = s.event_count /\ r.free_count = s.free_count
    /\ r.deopt_count = s.deopt_count /\ r.blacklisted = s.blacklisted
    /\ r.alloc_dist = s.alloc_dist /\ r.free_dist = s.free_dist
    /\ r.lifo_stack = s.lifo_stack /\ r.top_pair = s.top_pair
    /\ r.lifo_count = s.lifo_count

\* The fields that only a compilation changes.
Settled(r, s) ==
    /\ r.baseline = s.baseline /\ r.candidate = s.candidate
    /\ r.first_compile_events = s.first_compile_events
    /\ r.code_page = s.code_page

\* The fields of s with the active window h.
WithWindow(s, h) == [s EXCEPT !.windows[s.active] = h]

\* The roles of the windows.
LEMMA Roles ==
    ASSUME NEW s \in Summary
    PROVE  /\ s.active \in 0..1 /\ 1 - s.active \in 0..1 /\ 1 - s.active # s.active
           /\ 1 - (1 - s.active) = s.active /\ {s.active, 1 - s.active} = 0..1
           /\ s.windows \in [0..1 -> Hists]
           /\ s.windows[s.active] \in Hists /\ s.windows[1 - s.active] \in Hists
<1>1. s.active \in 0..1 /\ s.windows \in [0..1 -> Hists]
  BY DEF Summary
<1>2. s.active = 0 \/ s.active = 1
  BY <1>1
<1>3. 0..1 = {0, 1}
  OBVIOUS
<1> QED
  BY <1>1, <1>2, <1>3

\* A window is recorded.
LEMMA WithWindowOK ==
    ASSUME NEW s \in Summary, NEW h \in Hists
    PROVE  LET r == WithWindow(s, h)
           IN  /\ r \in Summary /\ Kept(r, s) /\ Settled(r, s)
               /\ r.phase = s.phase /\ r.active = s.active
               /\ r.stable_windows = s.stable_windows
               /\ r.windows = [s.windows EXCEPT ![s.active] = h]
               /\ r.windows[s.active] = h
               /\ r.windows[1 - s.active] = s.windows[1 - s.active]
  BY Roles DEF WithWindow, Summary, Kept, Settled

\* The count of stable windows is set.
LEMMA WithStableOK ==
    ASSUME NEW s \in Summary, NEW n \in Nat
    PROVE  LET r == [s EXCEPT !.stable_windows = n]
           IN  /\ r \in Summary /\ Kept(r, s) /\ Settled(r, s)
               /\ r.phase = s.phase /\ r.active = s.active
               /\ r.stable_windows = n /\ r.windows = s.windows
  BY DEF Summary, Kept, Settled

\* The windows change roles.
LEMMA SwapWindowsOK ==
    ASSUME NEW s \in Summary
    PROVE  LET r == SwapWindows(s)
           IN  /\ r \in Summary /\ Kept(r, s) /\ Settled(r, s)
               /\ r.phase = s.phase /\ r.active = 1 - s.active
               /\ r.stable_windows = s.stable_windows
               /\ r.windows = [s.windows EXCEPT ![1 - s.active] = EmptyHist]
               /\ r.windows[1 - s.active] = EmptyHist
               /\ r.windows[s.active] = s.windows[s.active]
<1> DEFINE w == [s.windows EXCEPT ![1 - s.active] = EmptyHist]
<1>1. SwapWindows(s) = [s EXCEPT !.active = 1 - s.active, !.windows = w]
  BY DEF SwapWindows, Summary
<1>2. /\ w \in [0..1 -> Hists] /\ w[1 - s.active] = EmptyHist
      /\ w[s.active] = s.windows[s.active] /\ 1 - s.active \in 0..1
  BY Roles, EmptyInHists
<1> HIDE DEF w
<1>3. LET r == [s EXCEPT !.active = 1 - s.active, !.windows = w]
      IN  /\ r \in Summary /\ Kept(r, s) /\ Settled(r, s)
          /\ r.phase = s.phase /\ r.active = 1 - s.active
          /\ r.stable_windows = s.stable_windows /\ r.windows = w
  BY <1>2 DEF Summary, Kept, Settled
<1> QED
  BY <1>1, <1>2, <1>3 DEF w

\* The picker never decides for a Generic routine, and decides for a strategy
\* that relies on who frees only if the summary says so, unless it is forced.
LEMMA CandidateOK ==
    ASSUME NEW s, NEW h, NEW tag
    PROVE  /\ Candidate(s, h, tag) \in Strategies
           /\ Candidate(s, h, tag) # "Generic"
           /\ Forced = "Generic" =>
                /\ Candidate(s, h, tag) = "PairedStack" => PairedPattern(s)
                /\ Candidate(s, h, tag) = "ProducerConsumer" => PcPattern(s)
  BY PickerAssumption DEF Candidate, Strategies

\* The patterns only look at fields that recording a size leaves alone.
LEMMA PatternsKept ==
    ASSUME NEW r, NEW s, Kept(r, s)
    PROVE  /\ PairedPattern(s) => PairedPattern(r)
           /\ PcPattern(s) => PcPattern(r)
  BY DEF Kept, PairedPattern, PcPattern, Concentrated

\* A compilation.
LEMMA SpecializeOK ==
    ASSUME NEW s \in Summary
    PROVE  LET r == Specialize(s)
           IN  /\ r \in Summary /\ Kept(r, s)
               /\ r.phase = "Compiled" /\ r.active = s.active
               /\ r.stable_windows = s.stable_windows /\ r.windows = s.windows
               /\ r.baseline = s.windows[s.active] /\ r.candidate # "Generic"
               /\ r.first_compile_events = IF s.first_compile_events = 0 THEN s.event_count
                                           ELSE s.first_compile_events
               /\ Forced = "Generic" =>
                    /\ r.candidate = "PairedStack" => PairedPattern(r)
                    /\ r.candidate = "ProducerConsumer" => PcPattern(r)
<1> DEFINE h       == s.windows[s.active]
           tag     == LifetimeTag(s)
           chosen  == Candidate(s, h, tag)
           classes == TopKModes(h, MaxClasses, CoverPct)
           fce     == IF s.first_compile_events = 0 THEN s.event_count
                      ELSE s.first_compile_events
           page    == s.code_page \/ Compiles(chosen, DominantSize(h), classes)
           r       == [s EXCEPT !.baseline = h, !.lifetime = tag, !.classes = classes,
                                !.candidate = chosen, !.phase = "Compiled",
                                !.first_compile_events = fce, !.code_page = page]
<1>1. Specialize(s) = r
  BY DEF Specialize, Summary
<1>2. h \in Hists
  BY Roles
<1>3. tag \in Lifetimes
  BY DEF LifetimeTag, Lifetimes
<1>4. classes \in Classes
  BY <1>2, TopKModesBounded, PickerAssumption DEF Hists, Classes
<1>5. /\ chosen \in Strategies /\ chosen # "Generic"
      /\ Forced = "Generic" => /\ chosen = "PairedStack" => PairedPattern(s)
                               /\ chosen = "ProducerConsumer" => PcPattern(s)
  BY CandidateOK
<1>6. fce \in Nat
  BY DEF Summary
<1>7. page \in BOOLEAN
  OBVIOUS
<1>8. "Compiled" \in Phases
  BY DEF Phases
<1> HIDE DEF h, tag, chosen, classes, fce, page
<1>9. /\ r \in Summary /\ Kept(r, s)
      /\ r.phase = "Compiled" /\ r.active = s.active
      /\ r.stable_windows = s.stable_windows /\ r.windows = s.windows
      /\ r.baseline = h /\ r.candidate = chosen
      /\ r.first_compile_events = fce
  BY <1>2, <1>3, <1>4, <1>5, <1>6, <1>7, <1>8 DEF Summary, Kept
<1> HIDE DEF r
<1>10. Forced = "Generic" =>
         /\ r.candidate = "PairedStack" => PairedPattern(r)
         /\ r.candidate = "ProducerConsumer" => PcPattern(r)
  BY <1>5, <1>9, PatternsKept
<1> QED
  BY <1>1, <1>5, <1>9, <1>10 DEF h, fce

\* Back to square one.
LEMMA StartOverOK ==
    ASSUME NEW s \in Summary
    PROVE  LET r == StartOver(s)
           IN  /\ r \in Summary /\ Kept(r, s) /\ Settled(r, s)
               /\ r.phase = "Deopt" /\ r.active = 0 /\ r.stable_windows = 0
               /\ r.windows = [i \in 0..1 |-> EmptyHist]
<1>1. [i \in 0..1 |-> EmptyHist] \in [0..1 -> Hists]
  BY EmptyInHists
<1>2. 0 \in Nat /\ 0 \in 0..1 /\ "Deopt" \in Phases
  BY DEF Phases
<1> QED
  BY <1>1, <1>2 DEF StartOver, Summary, Kept, Settled

\* The outcomes of recording a size, n being the window with the size in it.
Counting(r, s, n, knobs) ==
    /\ ~Full(n, knobs) /\ Settled(r, s)
    /\ r.phase = s.phase /\ r.active = s.active /\ r.stable_windows = s.stable_windows
    /\ r.windows = [s.windows EXCEPT ![s.active] = n]

\* The window passes the test.
Passes(s, n, knobs) == KsStable(n, s.windows[1 - s.active], knobs.crit)

\* The window is full, and passes the test as the last one needed.
Due(s, n, knobs) ==
    /\ Passes(s, n, knobs)
    /\ ~(s.stable_windows + 1 < knobs.stable)

Swapped(r, s, n, knobs, isOracle) ==
    /\ Full(n, knobs) /\ ~(Due(s, n, knobs) /\ MayCompile(s, isOracle)) /\ Settled(r, s)
    /\ r.phase = s.phase /\ r.active = 1 - s.active
    /\ r.stable_windows = IF Passes(s, n, knobs) /\ ~Due(s, n, knobs)
                          THEN s.stable_windows + 1 ELSE 0
    /\ r.windows = [[s.windows EXCEPT ![s.active] = n] EXCEPT ![1 - s.active] = EmptyHist]

Specialized(r, s, n, knobs, isOracle) ==
    /\ Full(n, knobs) /\ Due(s, n, knobs) /\ MayCompile(s, isOracle)
    /\ r.phase = "Compiled" /\ r.active = s.active
    /\ r.stable_windows = s.stable_windows + 1
    /\ r.windows = [s.windows EXCEPT ![s.active] = n]
    /\ r.baseline = n /\ r.candidate # "Generic"
    /\ r.first_compile_events = IF s.first_compile_events = 0 THEN s.event_count
                                ELSE s.first_compile_events
    /\ Forced = "Generic" => /\ r.candidate = "PairedStack" => PairedPattern(r)
                             /\ r.candidate = "ProducerConsumer" => PcPattern(r)

Serving(r, s) ==
    /\ Settled(r, s) /\ r.phase = s.phase /\ r.active = s.active
    /\ r.stable_windows = s.stable_windows /\ r.windows = s.windows

Drifted(r, s) ==
    /\ Settled(r, s) /\ r.phase = "Deopt" /\ r.active = 0 /\ r.stable_windows = 0
    /\ r.windows = [i \in 0..1 |-> EmptyHist]

\* advance_prespec ends in one of two outcomes.
LEMMA AdvancePrespecOK ==
    ASSUME NEW s \in Summary, NEW n \in Hists, NEW isOracle,
           NEW knobs, knobs = KnobsOf(isOracle), Full(n, knobs)
    PROVE  LET r == AdvancePrespec(WithWindow(s, n), isOracle)
           IN  /\ r \in Summary /\ Kept(r, s)
               /\ Swapped(r, s, n, knobs, isOracle) \/ Specialized(r, s, n, knobs, isOracle)
<1> DEFINE t    == WithWindow(s, n)
           once == [t EXCEPT !.stable_windows = t.stable_windows + 1]
           none == [t EXCEPT !.stable_windows = 0]
<1>0. s.stable_windows \in Nat /\ 0 \in Nat
  BY DEF Summary
<1>1. /\ t \in Summary /\ Kept(t, s) /\ Settled(t, s)
      /\ t.phase = s.phase /\ t.active = s.active
      /\ t.stable_windows = s.stable_windows
      /\ t.windows = [s.windows EXCEPT ![s.active] = n]
      /\ t.windows[s.active] = n
      /\ t.windows[1 - s.active] = s.windows[1 - s.active]
  BY WithWindowOK
<1>2. Stable(t, knobs) = Passes(s, n, knobs)
  BY <1>1 DEF Stable, Passes
<1>3. MayCompile(t, isOracle) <=> MayCompile(s, isOracle)
  BY <1>1 DEF MayCompile, Kept
<1>4. t.stable_windows + 1 \in Nat
  BY <1>0, <1>1
<1> HIDE DEF t
<1>5. /\ once \in Summary /\ Kept(once, t) /\ Settled(once, t)
      /\ once.phase = t.phase /\ once.active = t.active
      /\ once.stable_windows = t.stable_windows + 1 /\ once.windows = t.windows
  BY <1>1, <1>4, WithStableOK
<1>6. /\ none \in Summary /\ Kept(none, t) /\ Settled(none, t)
      /\ none.phase = t.phase /\ none.active = t.active
      /\ none.stable_windows = 0 /\ none.windows = t.windows
  BY <1>0, <1>1, WithStableOK
<1>7. AdvancePrespec(t, isOracle) =
        IF ~Stable(t, knobs) THEN SwapWindows(none)
        ELSE IF once.stable_windows < knobs.stable THEN SwapWindows(once)
        ELSE IF MayCompile(t, isOracle) THEN Specialize(once)
        ELSE SwapWindows(none)
  <2>1. [t EXCEPT !.stable_windows = @ + 1] = once
    BY <1>1 DEF Summary
  <2> QED
    BY <2>1 DEF AdvancePrespec
<1> HIDE DEF once, none
<1>8. ASSUME NEW u \in {once, none}
      PROVE  LET r == SwapWindows(u)
             IN  /\ r \in Summary /\ Kept(r, s) /\ Settled(r, s)
                 /\ r.phase = s.phase /\ r.active = 1 - s.active
                 /\ r.stable_windows = u.stable_windows
                 /\ r.windows = [[s.windows EXCEPT ![s.active] = n] EXCEPT ![1 - s.active] = EmptyHist]
  <2>1. u \in Summary /\ Kept(u, s) /\ Settled(u, s) /\ u.phase = s.phase
        /\ u.active = s.active /\ u.windows = [s.windows EXCEPT ![s.active] = n]
    BY <1>1, <1>5, <1>6 DEF Kept, Settled
  <2>2. LET r == SwapWindows(u)
        IN  /\ r \in Summary /\ Kept(r, u) /\ Settled(r, u)
            /\ r.phase = u.phase /\ r.active = 1 - u.active
            /\ r.stable_windows = u.stable_windows
            /\ r.windows = [u.windows EXCEPT ![1 - u.active] = EmptyHist]
    BY <2>1, SwapWindowsOK
  <2> QED
    BY <2>1, <2>2 DEF Kept, Settled
<1>9. CASE ~Passes(s, n, knobs)
  <2>1. AdvancePrespec(t, isOracle) = SwapWindows(none)
    BY <1>2, <1>7, <1>9
  <2> QED
    BY <1>6, <1>8, <1>9, <2>1 DEF Swapped, Due, t
<1>10. CASE Passes(s, n, knobs) /\ s.stable_windows + 1 < knobs.stable
  <2>1. AdvancePrespec(t, isOracle) = SwapWindows(once) /\ once.stable_windows = s.stable_windows + 1
    BY <1>1, <1>2, <1>5, <1>7, <1>10
  <2> QED
    BY <1>8, <1>10, <2>1 DEF Swapped, Due, t
<1>11. CASE Due(s, n, knobs) /\ ~MayCompile(s, isOracle)
  <2>1. AdvancePrespec(t, isOracle) = SwapWindows(none)
    BY <1>1, <1>2, <1>3, <1>5, <1>7, <1>11 DEF Due
  <2> QED
    BY <1>6, <1>8, <1>11, <2>1 DEF Swapped, t
<1>12. CASE Due(s, n, knobs) /\ MayCompile(s, isOracle)
  <2> DEFINE r == Specialize(once)
  <2>1. AdvancePrespec(t, isOracle) = r
    BY <1>1, <1>2, <1>3, <1>5, <1>7, <1>12 DEF Due
  <2>2. /\ r \in Summary /\ Kept(r, once)
        /\ r.phase = "Compiled" /\ r.active = once.active
        /\ r.stable_windows = once.stable_windows /\ r.windows = once.windows
        /\ r.baseline = once.windows[once.active] /\ r.candidate # "Generic"
        /\ r.first_compile_events = IF once.first_compile_events = 0 THEN once.event_count
                                    ELSE once.first_compile_events
        /\ Forced = "Generic" => /\ r.candidate = "PairedStack" => PairedPattern(r)
                                 /\ r.candidate = "ProducerConsumer" => PcPattern(r)
    BY <1>5, SpecializeOK
  <2> HIDE DEF r
  <2>3. Kept(r, s)
    BY <1>1, <1>5, <2>2 DEF Kept
  <2>4. /\ r.active = s.active /\ r.stable_windows = s.stable_windows + 1
        /\ r.windows = [s.windows EXCEPT ![s.active] = n]
        /\ r.baseline = n
        /\ r.first_compile_events = IF s.first_compile_events = 0 THEN s.event_count
                                    ELSE s.first_compile_events
    BY <1>1, <1>5, <2>2 DEF Kept, Settled
  <2>5. Specialized(r, s, n, knobs, isOracle)
    BY <1>12, <2>2, <2>4 DEF Specialized
  <2> QED
    BY <2>1, <2>2, <2>3, <2>5 DEF t
<1> QED
  BY <1>9, <1>10, <1>11, <1>12 DEF Due

\* The post-compile window is set.
LEMMA WithPostOK ==
    ASSUME NEW s \in Summary, NEW h \in Hists
    PROVE  LET r == [s EXCEPT !.post_window = h]
           IN  /\ r \in Summary /\ Kept(r, s) /\ Serving(r, s) /\ r.post_window = h
  BY DEF Summary, Kept, Settled, Serving

\* check_postspec keeps the routine or starts over; the oracle keeps it.
LEMMA CheckPostspecOK ==
    ASSUME NEW s \in Summary, NEW isOracle
    PROVE  LET r == CheckPostspec(s, isOracle)
           IN  /\ r \in Summary /\ Kept(r, s)
               /\ Serving(r, s) \/ (~isOracle /\ Drifted(r, s))
<1>1. CASE isOracle \/ KsStable(s.post_window, s.baseline, LiveKnobs.crit)
  BY <1>1, WithPostOK, EmptyInHists DEF CheckPostspec
<1>2. CASE ~(isOracle \/ KsStable(s.post_window, s.baseline, LiveKnobs.crit))
  <2> DEFINE t == StartOver(s)
             r == [t EXCEPT !.deopt_reason = "SizeDrift", !.post_window = EmptyHist]
  <2>1. CheckPostspec(s, isOracle) = r
    BY <1>2 DEF CheckPostspec
  <2>2. /\ t \in Summary /\ Kept(t, s) /\ Settled(t, s)
        /\ t.phase = "Deopt" /\ t.active = 0 /\ t.stable_windows = 0
        /\ t.windows = [i \in 0..1 |-> EmptyHist]
    BY StartOverOK
  <2>3. EmptyHist \in Hists /\ "SizeDrift" \in Reasons
    BY EmptyInHists DEF Reasons
  <2> HIDE DEF t
  <2>4. r \in Summary /\ Kept(r, t) /\ Settled(r, t) /\ r.phase = t.phase
        /\ r.active = t.active /\ r.stable_windows = t.stable_windows /\ r.windows = t.windows
    BY <2>2, <2>3 DEF Summary, Kept, Settled
  <2> HIDE DEF r
  <2> QED
    BY <1>2, <2>1, <2>2, <2>4 DEF Kept, Settled, Drifted
<1> QED
  BY <1>1, <1>2

\* What recording a size does: one of five outcomes.
LEMMA RecordSizeOK ==
    ASSUME NEW s \in Summary, NEW size \in Nat, size < MAX_SIZE, NEW isOracle,
           NEW knobs, knobs = KnobsOf(isOracle),
           s.phase # "Compiled" => s.phase = "PreSpec"
    PROVE  LET r == RecordSize(s, size, isOracle)
               n == HistRecord(s.windows[s.active], size)
           IN  /\ r \in Summary /\ Kept(r, s)
               /\ s.phase # "Compiled" => \/ Counting(r, s, n, knobs)
                                          \/ Swapped(r, s, n, knobs, isOracle)
                                          \/ Specialized(r, s, n, knobs, isOracle)
               /\ s.phase = "Compiled" => Serving(r, s) \/ (~isOracle /\ Drifted(r, s))
<1> DEFINE r == RecordSize(s, size, isOracle)
           n == HistRecord(s.windows[s.active], size)
<1>1. n \in Hists
  BY Roles, RecordInHists
<1>2. CASE s.phase # "Compiled"
  <2> DEFINE t == WithWindow(s, n)
  <2>1. r = IF Full(t.windows[t.active], knobs) THEN AdvancePrespec(t, isOracle) ELSE t
    <3>1. [s EXCEPT !.windows[s.active] = HistRecord(@, size)] = t
      BY Roles DEF WithWindow, Summary
    <3> QED
      BY <1>2, <3>1 DEF RecordSize
  <2>2. /\ t \in Summary /\ Kept(t, s) /\ Settled(t, s)
        /\ t.phase = s.phase /\ t.active = s.active
        /\ t.stable_windows = s.stable_windows
        /\ t.windows = [s.windows EXCEPT ![s.active] = n]
        /\ t.windows[s.active] = n
    BY <1>1, WithWindowOK
  <2>3. CASE Full(n, knobs)
    <3>1. r = AdvancePrespec(t, isOracle)
      BY <2>1, <2>2, <2>3
    <3> HIDE DEF r, n
    <3> QED
      BY <1>1, <1>2, <2>3, <3>1, AdvancePrespecOK DEF r, n
  <2>4. CASE ~Full(n, knobs)
    <3>1. r = t
      BY <2>1, <2>2, <2>4
    <3> HIDE DEF r, n, t
    <3>2. Counting(r, s, n, knobs)
      BY <2>2, <2>4, <3>1 DEF Counting
    <3> QED
      BY <1>2, <2>2, <3>1, <3>2 DEF r, n
  <2> QED
    BY <2>3, <2>4
<1>3. CASE s.phase = "Compiled"
  <2> DEFINE m == HistRecord(s.post_window, size)
             t == [s EXCEPT !.post_window = m]
  <2>1. r = IF Full(t.post_window, knobs) THEN CheckPostspec(t, isOracle) ELSE t
    <3>1. [s EXCEPT !.post_window = HistRecord(@, size)] = t
      BY DEF Summary
    <3> QED
      BY <1>3, <3>1 DEF RecordSize
  <2>2. m \in Hists
    BY RecordInHists DEF Summary
  <2> HIDE DEF m
  <2>3. t \in Summary /\ Kept(t, s) /\ Serving(t, s)
    BY <2>2, WithPostOK
  <2> HIDE DEF t, r, n
  <2>4. LET q == CheckPostspec(t, isOracle)
        IN  /\ q \in Summary /\ Kept(q, t)
            /\ Serving(q, t) \/ (~isOracle /\ Drifted(q, t))
    BY <2>3, CheckPostspecOK
  <2>5. /\ r \in Summary /\ Kept(r, s)
        /\ Serving(r, s) \/ (~isOracle /\ Drifted(r, s))
    BY <2>1, <2>3, <2>4 DEF Kept, Serving, Drifted, Settled
  <2> QED
    BY <1>3, <2>5 DEF r
<1> QED
  BY <1>2, <1>3

-----------------------------------------------------------------------------
(* The evidence in the windows. While a site is not Compiled its active     *)
(* window is not full, and the other one is either unused or full; every    *)
(* stable window, and the one before the first of them, is paid for by      *)
(* allocations, k so far.                                                   *)

Gathering(s, k, knobs) ==
    /\ s.windows[s.active].total < knobs.window /\ s.stable_windows < knobs.stable
    /\ \/ /\ s.windows[1 - s.active].total = 0 /\ s.stable_windows = 0
          /\ s.windows[s.active].total <= k
       \/ /\ s.windows[1 - s.active].total = knobs.window
          /\ (s.stable_windows + 1) * knobs.window + s.windows[s.active].total <= k

\* A Compiled site keeps the two full windows that passed the test.
Proven(s, knobs) ==
    /\ s.baseline = s.windows[s.active]
    /\ s.windows[s.active].total = knobs.window
    /\ s.windows[1 - s.active].total = knobs.window
    /\ KsStable(s.windows[s.active], s.windows[1 - s.active], knobs.crit)
    /\ s.stable_windows = knobs.stable
    /\ s.candidate # "Generic" /\ s.first_compile_events # 0

WindowsOK(s, knobs) ==
    /\ s.phase # "Compiled" => Gathering(s, s.event_count, knobs)
    /\ s.phase = "Compiled" => Proven(s, knobs)
    /\ s.first_compile_events # 0 =>
          (knobs.stable + 1) * knobs.window <= s.first_compile_events

\* A site whose windows are empty is gathering.
LEMMA EmptyGathering ==
    ASSUME NEW s \in Summary, s.windows = [i \in 0..1 |-> EmptyHist], s.stable_windows = 0,
           NEW k \in Nat, NEW knobs \in Knobs
    PROVE  Gathering(s, k, knobs)
  BY Roles, EmptyInHists, KnobsOK DEF Gathering

\* Recording the size of the latest allocation keeps the evidence in order.
LEMMA RecordSizeWindows ==
    ASSUME NEW s \in Summary, NEW size \in Nat, size < MAX_SIZE, NEW isOracle,
           NEW knobs \in Knobs, knobs = KnobsOf(isOracle),
           NEW k \in Nat, s.event_count = k + 1,
           s.phase # "Compiled" => s.phase = "PreSpec" /\ Gathering(s, k, knobs),
           s.phase = "Compiled" => Proven(s, knobs),
           s.first_compile_events # 0 =>
              (knobs.stable + 1) * knobs.window <= s.first_compile_events
    PROVE  WindowsOK(RecordSize(s, size, isOracle), knobs)
<1> DEFINE r == RecordSize(s, size, isOracle)
           n == HistRecord(s.windows[s.active], size)
<1>1. /\ r \in Summary /\ Kept(r, s)
      /\ s.phase # "Compiled" => \/ Counting(r, s, n, knobs)
                                 \/ Swapped(r, s, n, knobs, isOracle)
                                 \/ Specialized(r, s, n, knobs, isOracle)
      /\ s.phase = "Compiled" => Serving(r, s) \/ (~isOracle /\ Drifted(r, s))
  BY RecordSizeOK
<1>2. n \in Hists /\ n.total = s.windows[s.active].total + 1
  BY Roles, RecordInHists
<1>3. /\ s.windows[s.active].total \in Nat /\ s.windows[1 - s.active].total \in Nat
      /\ s.stable_windows \in Nat /\ n.total \in Nat
      /\ knobs.window \in Nat \ {0} /\ knobs.stable \in Nat \ {0}
  BY <1>2, Roles, KnobsOK DEF Hists, Summary
<1>4. r.event_count = k + 1
  BY <1>1 DEF Kept
<1>5. s.active \in 0..1 /\ 1 - s.active \in 0..1 /\ 1 - s.active # s.active
      /\ 1 - (1 - s.active) = s.active /\ s.windows \in [0..1 -> Hists]
  BY Roles
<1> SUFFICES WindowsOK(r, knobs)
  OBVIOUS
<1> HIDE DEF r, n
<1>6. CASE s.phase # "Compiled"
  <2>1. Gathering(s, k, knobs) /\ s.phase = "PreSpec"
    BY <1>6
  <2>2. CASE Counting(r, s, n, knobs)
    <3>1. /\ r.windows[r.active] = n /\ r.windows[1 - r.active] = s.windows[1 - s.active]
          /\ r.phase # "Compiled" /\ r.stable_windows = s.stable_windows
          /\ r.first_compile_events = s.first_compile_events
      BY <1>5, <2>1, <2>2 DEF Counting, Settled
    <3>2. n.total < knobs.window
      BY <1>3, <2>2 DEF Counting, Full
    <3>3. (s.stable_windows + 1) * knobs.window \in Nat
      BY <1>3
    <3>4. Gathering(r, k + 1, knobs)
      BY <1>2, <1>3, <2>1, <3>1, <3>2, <3>3 DEF Gathering
    <3> QED
      BY <1>4, <3>1, <3>4 DEF WindowsOK
  <2>3. CASE Swapped(r, s, n, knobs, isOracle)
    <3>1. /\ r.windows[r.active] = EmptyHist /\ r.windows[1 - r.active] = n
          /\ r.phase # "Compiled" /\ r.first_compile_events = s.first_compile_events
          /\ r.stable_windows = IF Passes(s, n, knobs) /\ ~Due(s, n, knobs)
                                THEN s.stable_windows + 1 ELSE 0
      BY <1>5, <2>1, <2>3 DEF Swapped, Settled
    <3>2. n.total = knobs.window /\ s.windows[s.active].total = knobs.window - 1
      BY <1>2, <1>3, <2>1, <2>3 DEF Swapped, Full, Gathering
    <3>3. CASE r.stable_windows = 0
      <4>1. knobs.window <= k + 1
        <5>1. ASSUME NEW a \in Nat, a * knobs.window + (knobs.window - 1) <= k
              PROVE  knobs.window <= k + 1
          <6>1. a * knobs.window \in Nat
            BY <1>3
          <6> QED
            BY <1>3, <5>1, <6>1
        <5>2. s.stable_windows + 1 \in Nat
          BY <1>3
        <5> QED
          BY <1>3, <2>1, <3>2, <5>1, <5>2 DEF Gathering
      <4>2. (r.stable_windows + 1) * knobs.window + 0 = knobs.window
        BY <1>3, <3>3
      <4>3. r.stable_windows < knobs.stable /\ 0 < knobs.window
        BY <1>3, <3>3
      <4> QED
        BY <1>4, <3>1, <3>2, <4>1, <4>2, <4>3, EmptyInHists DEF Gathering, WindowsOK
    <3>4. CASE r.stable_windows # 0
      <4>1. /\ r.stable_windows = s.stable_windows + 1 /\ s.stable_windows + 1 < knobs.stable
            /\ Passes(s, n, knobs)
        BY <3>1, <3>4 DEF Due
      <4>2. (s.stable_windows + 1) * knobs.window + (knobs.window - 1) <= k
        BY <1>3, <2>1, <3>2, <4>1 DEF Gathering, Passes, KsStable
      <4>3. (s.stable_windows + 1 + 1) * knobs.window = (s.stable_windows + 1) * knobs.window + knobs.window
            /\ (s.stable_windows + 1) * knobs.window \in Nat
        BY <1>3
      <4>4. (r.stable_windows + 1) * knobs.window + 0 <= k + 1
        BY <1>3, <4>1, <4>2, <4>3
      <4>5. 0 < knobs.window
        BY <1>3
      <4> QED
        BY <1>4, <3>1, <3>2, <4>1, <4>4, <4>5, EmptyInHists DEF Gathering, WindowsOK
    <3> QED
      BY <3>3, <3>4
  <2>4. CASE Specialized(r, s, n, knobs, isOracle)
    <3>1. /\ r.windows[r.active] = n /\ r.windows[1 - r.active] = s.windows[1 - s.active]
          /\ r.phase = "Compiled" /\ r.baseline = n /\ r.candidate # "Generic"
          /\ Passes(s, n, knobs) /\ r.stable_windows = s.stable_windows + 1
          /\ ~(s.stable_windows + 1 < knobs.stable)
          /\ r.first_compile_events = IF s.first_compile_events = 0 THEN s.event_count
                                      ELSE s.first_compile_events
      BY <1>5, <2>1, <2>4 DEF Specialized, Due
    <3>2. n.total = knobs.window /\ s.windows[s.active].total = knobs.window - 1
      BY <1>2, <1>3, <2>1, <2>4 DEF Specialized, Full, Gathering
    <3>3. /\ s.windows[1 - s.active].total = knobs.window
          /\ (s.stable_windows + 1) * knobs.window + (knobs.window - 1) <= k
      BY <1>3, <2>1, <3>1, <3>2 DEF Gathering, Passes, KsStable
    <3>4. s.stable_windows + 1 = knobs.stable
      BY <1>3, <2>1, <3>1 DEF Gathering
    <3>5. (knobs.stable + 1) * knobs.window = knobs.stable * knobs.window + knobs.window
          /\ knobs.stable * knobs.window \in Nat
      BY <1>3
    <3>6. (knobs.stable + 1) * knobs.window <= k + 1
      BY <1>3, <3>3, <3>4, <3>5
    <3> QED
      BY <3>1, <3>2, <3>3, <3>4, <3>6 DEF WindowsOK, Proven, Passes
  <2> QED
    BY <1>1, <1>6, <2>2, <2>3, <2>4
<1>7. CASE s.phase = "Compiled"
  <2>1. CASE Serving(r, s)
    BY <1>7, <2>1 DEF Serving, Settled, WindowsOK, Proven
  <2>2. CASE Drifted(r, s)
    <3>1. Gathering(r, r.event_count, knobs)
      BY <1>1, <1>4, <2>2, EmptyGathering DEF Drifted
    <3> QED
      BY <2>2, <3>1 DEF Drifted, Settled, WindowsOK
  <2> QED
    BY <1>1, <1>7, <2>1, <2>2
<1> QED
  BY <1>6, <1>7

-----------------------------------------------------------------------------
(* What an event does to the summary of its site.                           *)

\* The stack of addresses keeps its bound; an address more makes it at most one
\* longer.
LEMMA PushLifoOK ==
    ASSUME NEW q \in Stacks, NEW p \in Ptrs \cup {NoPtr}
    PROVE  PushLifo(q, p) \in Stacks /\ Len(PushLifo(q, p)) <= Len(q) + 1
<1>1. q \in Seq(Ptrs) /\ Len(q) <= LifoCap /\ Len(q) \in Nat /\ LifoCap \in Nat \ {0}
  BY PickerAssumption DEF Stacks
<1>2. CASE p = NoPtr
  BY <1>1, <1>2 DEF PushLifo
<1>3. CASE p # NoPtr /\ Len(q) < LifoCap
  <2>1. PushLifo(q, p) = Append(q, p) /\ p \in Ptrs
    BY <1>3 DEF PushLifo
  <2>2. Append(q, p) \in Seq(Ptrs) /\ Len(Append(q, p)) = Len(q) + 1
    BY <1>1, <2>1
  <2> QED
    BY <1>1, <1>3, <2>1, <2>2 DEF Stacks
<1>4. CASE p # NoPtr /\ ~(Len(q) < LifoCap)
  <2>1. PushLifo(q, p) = Append(Tail(q), p) /\ p \in Ptrs /\ q # <<>>
    BY <1>1, <1>4 DEF PushLifo
  <2>2. Tail(q) \in Seq(Ptrs) /\ Len(Tail(q)) = Len(q) - 1
    BY <1>1, <2>1
  <2>3. /\ Append(Tail(q), p) \in Seq(Ptrs)
        /\ Len(Append(Tail(q), p)) = Len(Tail(q)) + 1
    BY <2>1, <2>2
  <2> QED
    BY <1>1, <2>1, <2>2, <2>3 DEF Stacks
<1> QED
  BY <1>2, <1>3, <1>4

\* A vote keeps its type.
LEMMA VoteOK ==
    ASSUME NEW S, NEW v \in Votes(S), NEW x \in S
    PROVE  Vote(v, x) \in Votes(S)
<1>1. v.score \in Nat
  BY DEF Votes
<1>2. CASE v.score = 0 \/ v.top = x
  BY <1>1, <1>2 DEF Vote, Votes
<1>3. CASE v.score = 1 /\ v.top # x
  BY <1>3 DEF Vote, Votes
<1>4. CASE v.score > 1 /\ v.top # x
  <2>1. v.score - 1 \in Nat /\ Vote(v, x) = [v EXCEPT !.score = v.score - 1]
    BY <1>1, <1>4 DEF Vote, Votes
  <2> QED
    BY <2>1 DEF Votes
<1> QED
  BY <1>1, <1>2, <1>3, <1>4

\* An allocation's size is recorded in a summary that already has its other
\* facts.
Noted(s, a) ==
    [s EXCEPT !.event_count = s.event_count + 1,
              !.alloc_dist = Vote(s.alloc_dist, a.tid),
              !.lifo_stack = PushLifo(s.lifo_stack, a.ptr),
              !.phase = IF s.phase = "Deopt" THEN "PreSpec" ELSE s.phase]

\* Recording an allocation is noting it and recording its size.
LEMMA RecordAllocIs ==
    ASSUME NEW s \in Summary, NEW a \in Allocs, NEW isOracle
    PROVE  RecordAlloc(s, a, isOracle) = RecordSize(Noted(s, a), a.size, isOracle)
<1>1. [s EXCEPT !.event_count = @ + 1, !.alloc_dist = Vote(@, a.tid),
                !.lifo_stack = PushLifo(@, a.ptr),
                !.phase = IF @ = "Deopt" THEN "PreSpec" ELSE @] = Noted(s, a)
  BY DEF Noted, Summary
<1> QED
  BY <1>1 DEF RecordAlloc

\* The facts about an allocation that the summary notes before the size.
LEMMA NotedOK ==
    ASSUME NEW s \in Summary, NEW a \in Allocs
    PROVE  LET u == Noted(s, a)
           IN  /\ u \in Summary /\ Settled(u, s)
               /\ u.id = s.id /\ u.event_count = s.event_count + 1
               /\ u.free_count = s.free_count
               /\ u.deopt_count = s.deopt_count /\ u.blacklisted = s.blacklisted
               /\ u.alloc_dist = Vote(s.alloc_dist, a.tid) /\ u.free_dist = s.free_dist
               /\ u.lifo_stack = PushLifo(s.lifo_stack, a.ptr)
               /\ u.top_pair = s.top_pair /\ u.lifo_count = s.lifo_count
               /\ u.phase = IF s.phase = "Deopt" THEN "PreSpec" ELSE s.phase
               /\ u.active = s.active /\ u.windows = s.windows
               /\ u.stable_windows = s.stable_windows
<1> DEFINE u == Noted(s, a)
<1> DEFINE v == Vote(s.alloc_dist, a.tid)
           q == PushLifo(s.lifo_stack, a.ptr)
           f == IF s.phase = "Deopt" THEN "PreSpec" ELSE s.phase
<1>3. v \in TidVotes
  <2>1. a.tid \in Tids \cup {NoTid} /\ s.alloc_dist \in Votes(Tids \cup {NoTid})
    BY DEF Tids, Summary, TidVotes
  <2> QED
    BY <2>1, VoteOK DEF TidVotes
<1>4. q \in Stacks
  BY PushLifoOK, PickerAssumption DEF Summary
<1>5. f \in Phases /\ s.event_count + 1 \in Nat
  BY DEF Phases, Summary
<1>6. u = [s EXCEPT !.event_count = s.event_count + 1, !.alloc_dist = v,
                    !.lifo_stack = q, !.phase = f]
  BY DEF Noted
<1> HIDE DEF u, v, q, f
<1>7. /\ u \in Summary /\ Settled(u, s)
      /\ u.id = s.id /\ u.event_count = s.event_count + 1
      /\ u.free_count = s.free_count
      /\ u.deopt_count = s.deopt_count /\ u.blacklisted = s.blacklisted
      /\ u.alloc_dist = v /\ u.free_dist = s.free_dist
      /\ u.lifo_stack = q
      /\ u.top_pair = s.top_pair /\ u.lifo_count = s.lifo_count
      /\ u.phase = f
      /\ u.active = s.active /\ u.windows = s.windows
      /\ u.stable_windows = s.stable_windows
  BY <1>3, <1>4, <1>5, <1>6 DEF Summary, Settled
<1> QED
  BY <1>7 DEF u, v, q, f

\* An allocation is recorded: the counts, the vote and the stack are updated
\* whatever becomes of the windows, and the evidence stays in order.
LEMMA RecordAllocOK ==
    ASSUME NEW s \in Summary, NEW a \in Allocs, a.size < MAX_SIZE, NEW isOracle,
           NEW knobs \in Knobs, knobs = KnobsOf(isOracle), WindowsOK(s, knobs)
    PROVE  LET r == RecordAlloc(s, a, isOracle)
           IN  /\ r \in Summary /\ WindowsOK(r, knobs)
               /\ r.id = s.id /\ r.event_count = s.event_count + 1
               /\ r.free_count = s.free_count
               /\ r.deopt_count = s.deopt_count /\ r.blacklisted = s.blacklisted
               /\ r.alloc_dist = Vote(s.alloc_dist, a.tid) /\ r.free_dist = s.free_dist
               /\ r.lifo_stack = PushLifo(s.lifo_stack, a.ptr)
               /\ r.top_pair = s.top_pair /\ r.lifo_count = s.lifo_count
<1> DEFINE u == Noted(s, a)
           r == RecordSize(u, a.size, isOracle)
<1>1. /\ RecordAlloc(s, a, isOracle) = r
      /\ u \in Summary /\ Settled(u, s)
      /\ u.id = s.id /\ u.event_count = s.event_count + 1
      /\ u.free_count = s.free_count
      /\ u.deopt_count = s.deopt_count /\ u.blacklisted = s.blacklisted
      /\ u.alloc_dist = Vote(s.alloc_dist, a.tid) /\ u.free_dist = s.free_dist
      /\ u.lifo_stack = PushLifo(s.lifo_stack, a.ptr)
      /\ u.top_pair = s.top_pair /\ u.lifo_count = s.lifo_count
      /\ u.phase = IF s.phase = "Deopt" THEN "PreSpec" ELSE s.phase
      /\ u.active = s.active /\ u.windows = s.windows
      /\ u.stable_windows = s.stable_windows
  BY NotedOK, RecordAllocIs
<1>2. s.phase \in Phases /\ s.event_count \in Nat /\ a.size \in Nat
  BY PickerAssumption DEF Summary
<1> HIDE DEF u
<1>3. /\ u.phase # "Compiled" => u.phase = "PreSpec" /\ Gathering(u, s.event_count, knobs)
      /\ u.phase = "Compiled" => Proven(u, knobs)
      /\ u.first_compile_events # 0 =>
            (knobs.stable + 1) * knobs.window <= u.first_compile_events
  BY <1>1, <1>2 DEF WindowsOK, Gathering, Proven, Settled, Phases
<1>4. WindowsOK(r, knobs)
  BY <1>1, <1>2, <1>3, RecordSizeWindows
<1>5. r \in Summary /\ Kept(r, u)
  BY <1>1, <1>2, <1>3, RecordSizeOK
<1> HIDE DEF r
<1> QED
  BY <1>1, <1>4, <1>5 DEF Kept

\* The oracle's summary o of a site beside the live one, s. If the live knobs
\* are no looser than the oracle's, the two have learned the same until the
\* oracle compiles the site, except that more windows may have passed its test.
Mirrors(o, s) ==
    /\ o.id = s.id /\ o.event_count = s.event_count /\ o.lifo_stack = s.lifo_stack
    /\ o.blacklisted = FALSE /\ o.phase # "Deopt"
    /\ KnobsNoLooser /\ o.phase # "Compiled" =>
          /\ s.phase = "PreSpec" /\ s.code_page = FALSE
          /\ s.active = o.active /\ s.windows = o.windows
          /\ s.stable_windows <= o.stable_windows

\* What passes the live test passes the oracle's, and is due there no later.
LEMMA DueInOracle ==
    ASSUME KnobsNoLooser, NEW u \in Summary, NEW v \in Summary, NEW n \in Hists,
           u.active = v.active, u.windows = v.windows,
           u.stable_windows <= v.stable_windows
    PROVE  /\ Full(n, LiveKnobs) <=> Full(n, DefaultKnobs)
           /\ Passes(u, n, LiveKnobs) => Passes(v, n, DefaultKnobs)
           /\ Due(u, n, LiveKnobs) => Due(v, n, DefaultKnobs)
<1>1. /\ LiveKnobs.stable \in Nat /\ DefaultKnobs.stable \in Nat
      /\ LiveKnobs.crit \in Nat /\ DefaultKnobs.crit \in Nat
      /\ u.stable_windows \in Nat /\ v.stable_windows \in Nat
  BY PickerAssumption, KnobsOK DEF Summary
<1>2. LiveKnobs.crit <= DefaultKnobs.crit /\ LiveKnobs.stable >= DefaultKnobs.stable
      /\ LiveKnobs.window = DefaultKnobs.window
  BY DEF KnobsNoLooser
<1>3. Passes(u, n, LiveKnobs) => Passes(v, n, DefaultKnobs)
  <2> DEFINE w == v.windows[1 - v.active]
  <2>1. IsHistogram(n) /\ IsHistogram(w) /\ u.windows[1 - u.active] = w
    BY Roles DEF Hists
  <2> HIDE DEF w
  <2>2. KsStable(n, w, LiveKnobs.crit) => KsStable(n, w, DefaultKnobs.crit)
    BY <1>1, <1>2, <2>1, KsStableMonotone
  <2> QED
    BY <2>1, <2>2 DEF Passes, w
<1>4. Due(u, n, LiveKnobs) => Due(v, n, DefaultKnobs)
  BY <1>1, <1>2, <1>3 DEF Due
<1> QED
  BY <1>2, <1>3, <1>4 DEF Full

\* An allocation is recorded by both.
LEMMA MirrorsAlloc ==
    ASSUME NEW o \in Summary, NEW s \in Summary, Mirrors(o, s),
           WindowsOK(o, DefaultKnobs), WindowsOK(s, LiveKnobs),
           NEW a \in Allocs, a.size < MAX_SIZE
    PROVE  LET p == RecordAlloc(o, a, TRUE)
               r == RecordAlloc(s, a, FALSE)
           IN  Mirrors(p, r) /\ (o.phase = "Compiled" => p.phase = "Compiled")
<1> DEFINE u == Noted(s, a)
           v == Noted(o, a)
           r == RecordAlloc(s, a, FALSE)
           p == RecordAlloc(o, a, TRUE)
           n == HistRecord(u.windows[u.active], a.size)
           m == HistRecord(v.windows[v.active], a.size)
<1>live. r = RecordSize(u, a.size, FALSE)
  BY RecordAllocIs
<1>orc. p = RecordSize(v, a.size, TRUE)
  BY RecordAllocIs
<1>0. /\ LiveKnobs \in Knobs /\ DefaultKnobs \in Knobs
      /\ LiveKnobs = KnobsOf(FALSE) /\ DefaultKnobs = KnobsOf(TRUE)
  BY PickerAssumption, KnobsOfOK
<1>1. /\ u \in Summary /\ Settled(u, s)
      /\ u.phase = IF s.phase = "Deopt" THEN "PreSpec" ELSE s.phase
      /\ u.active = s.active /\ u.windows = s.windows
      /\ u.stable_windows = s.stable_windows /\ u.blacklisted = s.blacklisted
  BY NotedOK
<1>2. /\ v \in Summary /\ Settled(v, o)
      /\ v.phase = IF o.phase = "Deopt" THEN "PreSpec" ELSE o.phase
      /\ v.active = o.active /\ v.windows = o.windows
      /\ v.stable_windows = o.stable_windows /\ v.blacklisted = o.blacklisted
  BY NotedOK
<1>3. s.phase \in Phases /\ o.phase \in Phases /\ a.size \in Nat
  BY PickerAssumption DEF Summary
<1>4. /\ p.id = r.id /\ p.event_count = r.event_count /\ p.lifo_stack = r.lifo_stack
      /\ p.blacklisted = FALSE /\ r \in Summary /\ p \in Summary
  <2>1. /\ r.id = s.id /\ r.event_count = s.event_count + 1 /\ r \in Summary
        /\ r.lifo_stack = PushLifo(s.lifo_stack, a.ptr)
    BY <1>0, RecordAllocOK
  <2>2. /\ p.id = o.id /\ p.event_count = o.event_count + 1 /\ p \in Summary
        /\ p.lifo_stack = PushLifo(o.lifo_stack, a.ptr) /\ p.blacklisted = o.blacklisted
    BY <1>0, RecordAllocOK
  <2> HIDE DEF r, p
  <2> QED
    BY <2>1, <2>2 DEF Mirrors
<1> SUFFICES Mirrors(p, r) /\ (o.phase = "Compiled" => p.phase = "Compiled")
  OBVIOUS
<1>5. n \in Hists
  <2>1. u.windows[u.active] \in Hists
    BY <1>1, Roles
  <2> HIDE DEF u
  <2> QED
    BY <1>3, <2>1, RecordInHists
<1> HIDE DEF u, v, r, p
<1>6. u.phase = "PreSpec" => \/ Counting(r, u, n, LiveKnobs)
                             \/ Swapped(r, u, n, LiveKnobs, FALSE)
                             \/ Specialized(r, u, n, LiveKnobs, FALSE)
  BY <1>live, <1>0, <1>1, <1>3, RecordSizeOK
<1>7. /\ v.phase # "Compiled" => \/ Counting(p, v, m, DefaultKnobs)
                                 \/ Swapped(p, v, m, DefaultKnobs, TRUE)
                                 \/ Specialized(p, v, m, DefaultKnobs, TRUE)
      /\ v.phase = "Compiled" => Serving(p, v)
  BY <1>orc, <1>0, <1>2, <1>3, RecordSizeOK DEF Phases
<1>8. CASE o.phase = "Compiled"
  BY <1>2, <1>4, <1>7, <1>8 DEF Serving, Mirrors
<1>9. CASE o.phase # "Compiled"
  <2>1. v.phase = "PreSpec" /\ p.phase # "Deopt"
    BY <1>2, <1>3, <1>7, <1>9 DEF Counting, Swapped, Specialized, Phases
  <2>2. ASSUME KnobsNoLooser, p.phase # "Compiled"
        PROVE  /\ r.phase = "PreSpec" /\ r.code_page = FALSE
               /\ r.active = p.active /\ r.windows = p.windows
               /\ r.stable_windows <= p.stable_windows
    <3>1. /\ u.phase = "PreSpec" /\ u.active = v.active
          /\ u.windows = v.windows /\ u.stable_windows <= v.stable_windows /\ n = m
          /\ u.code_page = FALSE /\ MayCompile(v, TRUE)
      BY <1>1, <1>2, <1>3, <1>9, <2>2 DEF Mirrors, Settled, MayCompile, Phases
    <3>2. /\ Full(n, LiveKnobs) <=> Full(n, DefaultKnobs)
          /\ Passes(u, n, LiveKnobs) => Passes(v, n, DefaultKnobs)
          /\ Due(u, n, LiveKnobs) => Due(v, n, DefaultKnobs)
      BY <1>1, <1>2, <1>5, <2>2, <3>1, DueInOracle
    <3> HIDE DEF n, m
    <3>3. CASE Counting(p, v, m, DefaultKnobs)
      <4>1. Counting(r, u, n, LiveKnobs)
        BY <1>6, <3>1, <3>2, <3>3 DEF Counting, Swapped, Specialized
      <4> QED
        BY <3>1, <3>3, <4>1 DEF Counting, Settled
    <3>4. CASE Swapped(p, v, m, DefaultKnobs, TRUE)
      <4>1. ~Due(v, m, DefaultKnobs) /\ Full(m, DefaultKnobs)
        BY <3>1, <3>4 DEF Swapped
      <4>2. Swapped(r, u, n, LiveKnobs, FALSE)
        BY <1>6, <3>1, <3>2, <4>1 DEF Counting, Specialized
      <4>3. r.stable_windows <= p.stable_windows
        <5>1. u.stable_windows \in Nat /\ v.stable_windows \in Nat
          BY <1>1, <1>2 DEF Summary
        <5>2. r.stable_windows = 0 \/ (Passes(u, n, LiveKnobs)
                                       /\ r.stable_windows = u.stable_windows + 1)
          BY <4>2 DEF Swapped
        <5>3. p.stable_windows \in Nat
          BY <1>4 DEF Summary
        <5>4. Passes(v, m, DefaultKnobs) => p.stable_windows = v.stable_windows + 1
          BY <3>4, <4>1 DEF Swapped
        <5> QED
          BY <3>1, <3>2, <5>1, <5>2, <5>3, <5>4
      <4> QED
        BY <3>1, <3>4, <4>2, <4>3 DEF Swapped, Settled
    <3>5. CASE Specialized(p, v, m, DefaultKnobs, TRUE)
      BY <2>2, <3>5 DEF Specialized
    <3> QED
      BY <1>7, <2>1, <3>3, <3>4, <3>5
  <2> QED
    BY <1>4, <1>9, <2>1, <2>2 DEF Mirrors
<1> QED
  BY <1>8, <1>9

\* A free that is attributed to the site.
LEMMA RecordFreeOK ==
    ASSUME NEW s \in Summary, NEW f \in Frees
    PROVE  LET r == RecordFree(s, f)
           IN  /\ r \in Summary /\ Serving(r, s)
               /\ r.id = s.id /\ r.event_count = s.event_count
               /\ r.free_count = s.free_count + 1
               /\ r.deopt_count = s.deopt_count /\ r.blacklisted = s.blacklisted
               /\ r.alloc_dist = s.alloc_dist /\ r.free_dist = Vote(s.free_dist, f.tid)
               /\ r.lifo_stack = s.lifo_stack /\ r.top_pair = s.top_pair
               /\ r.lifo_count = s.lifo_count
<1> DEFINE v == Vote(s.free_dist, f.tid)
<1>1. RecordFree(s, f) = [s EXCEPT !.free_count = s.free_count + 1, !.free_dist = v]
  BY DEF RecordFree, Summary
<1>2. v \in TidVotes
  <2>1. f.tid \in Tids \cup {NoTid} /\ s.free_dist \in Votes(Tids \cup {NoTid})
    BY DEF Tids, Summary, TidVotes
  <2> QED
    BY <2>1, VoteOK DEF TidVotes
<1>3. s.free_count + 1 \in Nat
  BY DEF Summary
<1> HIDE DEF v
<1>4. LET r == [s EXCEPT !.free_count = s.free_count + 1, !.free_dist = v]
      IN  /\ r \in Summary /\ Serving(r, s)
          /\ r.id = s.id /\ r.event_count = s.event_count
          /\ r.free_count = s.free_count + 1
          /\ r.deopt_count = s.deopt_count /\ r.blacklisted = s.blacklisted
          /\ r.alloc_dist = s.alloc_dist /\ r.free_dist = v
          /\ r.lifo_stack = s.lifo_stack /\ r.top_pair = s.top_pair
          /\ r.lifo_count = s.lifo_count
  BY <1>2, <1>3 DEF Summary, Serving, Settled
<1> QED
  BY <1>1, <1>4 DEF v

\* A free of the youngest address on the site's stack, which is taken off.
LEMMA RecordPairOK ==
    ASSUME NEW s \in Summary, NEW f \in Frees, LifoTop(s, f.ptr)
    PROVE  LET r == RecordPair(s, f)
           IN  /\ r \in Summary /\ Serving(r, s)
               /\ r.id = s.id /\ r.event_count = s.event_count
               /\ r.free_count = s.free_count
               /\ r.deopt_count = s.deopt_count /\ r.blacklisted = s.blacklisted
               /\ r.alloc_dist = s.alloc_dist /\ r.free_dist = s.free_dist
               /\ r.lifo_stack = Front(s.lifo_stack)
               /\ Len(r.lifo_stack) + 1 = Len(s.lifo_stack)
               /\ r.top_pair = Vote(s.top_pair, f.site)
<1> DEFINE v == Vote(s.top_pair, f.site)
           q == Front(s.lifo_stack)
           k == IF v.top # s.top_pair.top /\ s.top_pair.score = 1 THEN 0 ELSE s.lifo_count
           n == IF v.top = f.site THEN k + 1 ELSE k
<1>1. RecordPair(s, f) = [s EXCEPT !.top_pair = v, !.lifo_stack = q, !.lifo_count = n]
  BY DEF RecordPair, Summary
<1>2. v \in SiteVotes
  <2>1. f.site \in Sites \cup {NoSite} /\ s.top_pair \in Votes(Sites \cup {NoSite})
    BY DEF Sites, Summary, SiteVotes
  <2> QED
    BY <2>1, VoteOK DEF SiteVotes
<1>3. q \in Stacks /\ Len(q) + 1 = Len(s.lifo_stack)
  <2>1. /\ s.lifo_stack \in Seq(Ptrs) /\ Len(s.lifo_stack) <= LifoCap /\ LifoCap \in Nat
        /\ s.lifo_stack # <<>>
    BY PickerAssumption DEF Summary, Stacks, LifoTop
  <2>2. Len(s.lifo_stack) \in Nat \ {0}
    BY <2>1
  <2>3. /\ SubSeq(s.lifo_stack, 1, Len(s.lifo_stack) - 1) \in Seq(Ptrs)
        /\ Len(SubSeq(s.lifo_stack, 1, Len(s.lifo_stack) - 1)) = Len(s.lifo_stack) - 1
    BY <2>1, <2>2
  <2> QED
    BY <2>1, <2>2, <2>3 DEF Front, Stacks
<1>4. n \in Nat
  BY DEF Summary
<1> HIDE DEF v, q, n
<1>5. LET r == [s EXCEPT !.top_pair = v, !.lifo_stack = q, !.lifo_count = n]
      IN  /\ r \in Summary /\ Serving(r, s)
          /\ r.id = s.id /\ r.event_count = s.event_count
          /\ r.free_count = s.free_count
          /\ r.deopt_count = s.deopt_count /\ r.blacklisted = s.blacklisted
          /\ r.alloc_dist = s.alloc_dist /\ r.free_dist = s.free_dist
          /\ r.lifo_stack = q /\ r.top_pair = v
  BY <1>2, <1>3, <1>4 DEF Summary, Serving, Settled
<1> QED
  BY <1>1, <1>3, <1>5 DEF v, q

\* A free of a libc chunk, attributed by its address.
Paired(s, f) == RecordPair(RecordFree(s, f), f)

\* Such a free is counted, voted on twice and taken off the stack.
LEMMA PairedOK ==
    ASSUME NEW s \in Summary, NEW f \in Frees, LifoTop(s, f.ptr)
    PROVE  LET r == Paired(s, f)
           IN  /\ r \in Summary /\ Serving(r, s)
               /\ r.id = s.id /\ r.event_count = s.event_count
               /\ r.free_count = s.free_count + 1
               /\ r.deopt_count = s.deopt_count /\ r.blacklisted = s.blacklisted
               /\ r.alloc_dist = s.alloc_dist /\ r.free_dist = Vote(s.free_dist, f.tid)
               /\ r.lifo_stack = Front(s.lifo_stack)
               /\ Len(r.lifo_stack) + 1 = Len(s.lifo_stack)
               /\ r.top_pair = Vote(s.top_pair, f.site)
<1> DEFINE t == RecordFree(s, f)
           r == RecordPair(t, f)
<1>1. /\ t \in Summary /\ Serving(t, s)
      /\ t.id = s.id /\ t.event_count = s.event_count
      /\ t.free_count = s.free_count + 1
      /\ t.deopt_count = s.deopt_count /\ t.blacklisted = s.blacklisted
      /\ t.alloc_dist = s.alloc_dist /\ t.free_dist = Vote(s.free_dist, f.tid)
      /\ t.lifo_stack = s.lifo_stack /\ t.top_pair = s.top_pair
  BY RecordFreeOK
<1> HIDE DEF t
<1>2. LifoTop(t, f.ptr)
  BY <1>1 DEF LifoTop
<1>3. /\ r \in Summary /\ Serving(r, t)
      /\ r.id = t.id /\ r.event_count = t.event_count
      /\ r.free_count = t.free_count
      /\ r.deopt_count = t.deopt_count /\ r.blacklisted = t.blacklisted
      /\ r.alloc_dist = t.alloc_dist /\ r.free_dist = t.free_dist
      /\ r.lifo_stack = Front(t.lifo_stack)
      /\ Len(r.lifo_stack) + 1 = Len(t.lifo_stack)
      /\ r.top_pair = Vote(t.top_pair, f.site)
  BY <1>1, <1>2, RecordPairOK
<1> HIDE DEF r
<1>4. Serving(r, s)
  BY <1>1, <1>3 DEF Serving, Settled
<1>5. Paired(s, f) = r
  BY DEF Paired, r, t
<1> QED
  BY <1>1, <1>3, <1>4, <1>5

\* What reset_call_site does to the site's summary.
Reset(s, reason) ==
    [StartOver(s) EXCEPT
        !.deopt_count = @ + 1,
        !.blacklisted = @ \/ s.deopt_count + 1 >= DeoptLimit,
        !.deopt_reason = IF reason # "Other" \/ @ = "None" THEN reason ELSE @,
        !.code_page = FALSE]

\* A guard of the site's routine failed: its windows start over, its counts,
\* votes and stack are kept.
LEMMA ResetOK ==
    ASSUME NEW s \in Summary, NEW reason \in Reasons
    PROVE  LET r == Reset(s, reason)
           IN  /\ r \in Summary
               /\ r.phase = "Deopt" /\ r.active = 0 /\ r.stable_windows = 0
               /\ r.windows = [i \in 0..1 |-> EmptyHist]
               /\ r.first_compile_events = s.first_compile_events
               /\ r.code_page = FALSE
               /\ r.id = s.id /\ r.event_count = s.event_count
               /\ r.free_count = s.free_count
               /\ r.alloc_dist = s.alloc_dist /\ r.free_dist = s.free_dist
               /\ r.lifo_stack = s.lifo_stack /\ r.top_pair = s.top_pair
<1> DEFINE t == StartOver(s)
           b == t.blacklisted \/ s.deopt_count + 1 >= DeoptLimit
           d == IF reason # "Other" \/ t.deopt_reason = "None" THEN reason ELSE t.deopt_reason
           r == [t EXCEPT !.deopt_count = t.deopt_count + 1, !.blacklisted = b,
                          !.deopt_reason = d, !.code_page = FALSE]
<1>1. /\ t \in Summary /\ Kept(t, s) /\ Settled(t, s)
      /\ t.phase = "Deopt" /\ t.active = 0 /\ t.stable_windows = 0
      /\ t.windows = [i \in 0..1 |-> EmptyHist]
  BY StartOverOK
<1> HIDE DEF t
<1>2. Reset(s, reason) = r
  BY <1>1 DEF Reset, Summary, t
<1>3. b \in BOOLEAN /\ FALSE \in BOOLEAN
  OBVIOUS
<1>4. d \in Reasons /\ t.deopt_count + 1 \in Nat
  BY <1>1 DEF Summary
<1> HIDE DEF b, d
<1>5. /\ r \in Summary
      /\ r.phase = t.phase /\ r.active = t.active /\ r.stable_windows = t.stable_windows
      /\ r.windows = t.windows /\ r.first_compile_events = t.first_compile_events
      /\ r.code_page = FALSE
      /\ r.id = t.id /\ r.event_count = t.event_count /\ r.free_count = t.free_count
      /\ r.alloc_dist = t.alloc_dist /\ r.free_dist = t.free_dist
      /\ r.lifo_stack = t.lifo_stack /\ r.top_pair = t.top_pair
  BY <1>1, <1>3, <1>4 DEF Summary
<1> HIDE DEF r
<1> QED
  BY <1>1, <1>2, <1>5 DEF Kept, Settled

\* An allocation gets its site compiled only if the site is not blacklisted, and
\* with a strategy the summary calls for.
LEMMA RecordAllocCompiles ==
    ASSUME NEW s \in Summary, NEW a \in Allocs, a.size < MAX_SIZE, NEW isOracle, s.phase # "Compiled",
           RecordAlloc(s, a, isOracle).phase = "Compiled"
    PROVE  LET r == RecordAlloc(s, a, isOracle)
           IN  /\ s.blacklisted = FALSE
               /\ Forced = "Generic" =>
                    /\ r.candidate = "PairedStack" => PairedPattern(r)
                    /\ r.candidate = "ProducerConsumer" => PcPattern(r)
<1> DEFINE u == Noted(s, a)
           r == RecordAlloc(s, a, isOracle)
           n == HistRecord(u.windows[u.active], a.size)
<1>1. r = RecordSize(u, a.size, isOracle)
  BY RecordAllocIs
<1>2. /\ u \in Summary /\ u.blacklisted = s.blacklisted
      /\ u.phase = IF s.phase = "Deopt" THEN "PreSpec" ELSE s.phase
      /\ u.stable_windows = s.stable_windows
  BY NotedOK
<1>3. s.phase \in Phases /\ s.blacklisted \in BOOLEAN /\ a.size \in Nat
  BY PickerAssumption DEF Summary
<1>4. r.phase = "Compiled"
  OBVIOUS
<1> SUFFICES /\ s.blacklisted = FALSE
             /\ Forced = "Generic" =>
                  /\ r.candidate = "PairedStack" => PairedPattern(r)
                  /\ r.candidate = "ProducerConsumer" => PcPattern(r)
  OBVIOUS
<1> HIDE DEF u, r
<1>5. u.phase = "PreSpec"
  BY <1>2, <1>3 DEF Phases
<1> DEFINE k == KnobsOf(isOracle)
<1>6. \/ Counting(r, u, n, k) \/ Swapped(r, u, n, k, isOracle)
      \/ Specialized(r, u, n, k, isOracle)
  BY <1>1, <1>2, <1>3, <1>5, RecordSizeOK
<1>7. Specialized(r, u, n, k, isOracle)
  BY <1>4, <1>5, <1>6 DEF Counting, Swapped
<1> QED
  BY <1>2, <1>3, <1>7 DEF Specialized, MayCompile

-----------------------------------------------------------------------------
(* The sites on record.                                                     *)

\* The summaries, one for each site on record, fit their table.
Typed(sums) ==
    /\ sums \in Seq(Summary) /\ Len(sums) <= MaxSites
    /\ \A i, j \in 1..Len(sums) : sums[i].id = sums[j].id => i = j

\* The first index in a set of indices.
LEMMA FirstIndex ==
    ASSUME NEW I \in SUBSET Nat, I # {}
    PROVE  Min(I) \in I /\ \A j \in I : Min(I) <= j
<1>1. \E x \in I : \A y \in I : x <= y
  BY NatHasLeast
<1> QED
  BY <1>1 DEF Min

\* The search for a site finds the first summary of it, or none.
LEMMA FindOK ==
    ASSUME NEW sums \in Seq(Summary), NEW id
    PROVE  /\ Find(sums, id) \in 0..Len(sums)
           /\ Find(sums, id) = 0 => \A i \in 1..Len(sums) : sums[i].id # id
           /\ Find(sums, id) # 0 => /\ Find(sums, id) \in 1..Len(sums)
                                    /\ sums[Find(sums, id)].id = id
                                    /\ \A j \in 1..Len(sums) : sums[j].id = id =>
                                          Find(sums, id) <= j
<1> DEFINE I == {i \in 1..Len(sums) : sums[i].id = id}
<1>1. Find(sums, id) = IF I # {} THEN Min(I) ELSE 0
  BY DEF Find, SelectInSeq
<1>2. I \in SUBSET Nat /\ Len(sums) \in Nat
  OBVIOUS
<1>3. I # {} => Min(I) \in I /\ \A j \in I : Min(I) <= j
  BY <1>2, FirstIndex
<1> QED
  BY <1>1, <1>2, <1>3

\* The search by address, likewise.
TopIndex(sums, ptr) == SelectInSeq(sums, LAMBDA s : LifoTop(s, ptr))

\* It finds the first site with the address on top of its stack, or none.
LEMMA TopIndexOK ==
    ASSUME NEW sums \in Seq(Summary), NEW ptr
    PROVE  /\ TopIndex(sums, ptr) \in 0..Len(sums)
           /\ TopIndex(sums, ptr) # 0 => /\ TopIndex(sums, ptr) \in 1..Len(sums)
                                         /\ LifoTop(sums[TopIndex(sums, ptr)], ptr)
<1> DEFINE I == {i \in 1..Len(sums) : LifoTop(sums[i], ptr)}
<1>1. TopIndex(sums, ptr) = IF I # {} THEN Min(I) ELSE 0
  BY DEF TopIndex, SelectInSeq
<1>2. I \in SUBSET Nat /\ Len(sums) \in Nat
  OBVIOUS
<1>3. I # {} => Min(I) \in I
  BY <1>2, FirstIndex
<1> QED
  BY <1>1, <1>2, <1>3

\* In a table without duplicates the search finds every summary.
LEMMA FindSelf ==
    ASSUME NEW sums, Typed(sums), NEW i \in 1..Len(sums)
    PROVE  Find(sums, sums[i].id) = i
  BY FindOK DEF Typed

\* The summary of one site is replaced by t.
Updated(new, sums, i, t) ==
    /\ new \in Seq(Summary) /\ Len(new) = Len(sums) /\ new[i] = t
    /\ \A j \in 1..Len(sums) \ {i} : new[j] = sums[j]

\* That is what an update of the table by index does.
LEMMA UpdatedBy ==
    ASSUME NEW sums \in Seq(Summary), NEW i \in 1..Len(sums), NEW t \in Summary
    PROVE  Updated([sums EXCEPT ![i] = t], sums, i, t)
  BY DEF Updated

\* A summary may be replaced by another one of the same site.
LEMMA TypedUpdate ==
    ASSUME NEW sums, Typed(sums), NEW i \in 1..Len(sums), NEW t \in Summary,
           t.id = sums[i].id, NEW new, Updated(new, sums, i, t)
    PROVE  Typed(new)
<1>1. \A j \in 1..Len(sums) : new[j].id = sums[j].id
  BY DEF Updated
<1> QED
  BY <1>1 DEF Typed, Updated

\* find_or_create: the site is appended if it is new and there is room.
LEMMA FindOrCreateOK ==
    ASSUME NEW sums, Typed(sums), NEW id \in Sites
    PROVE  LET all == FindOrCreate(sums, id)
           IN  /\ Typed(all)
               /\ \/ all = sums
                  \/ /\ all = Append(sums, NewSummary(id))
                     /\ Find(sums, id) = 0
                     /\ Len(all) = Len(sums) + 1
                     /\ all[Len(sums) + 1] = NewSummary(id)
                     /\ \A j \in 1..Len(sums) : all[j] = sums[j]
<1> DEFINE all == FindOrCreate(sums, id)
<1>1. sums \in Seq(Summary) /\ Len(sums) \in Nat /\ Len(sums) <= MaxSites /\ MaxSites \in Nat
  BY PickerAssumption DEF Typed
<1>2. CASE Find(sums, id) # 0 \/ Len(sums) >= MaxSites
  BY <1>2 DEF FindOrCreate
<1>3. CASE ~(Find(sums, id) # 0 \/ Len(sums) >= MaxSites)
  <2> DEFINE n == NewSummary(id)
             app == Append(sums, n)
  <2>1. n \in Summary /\ n.id = id
    <3>1. n \in Summary
      BY NewSummaryOK
    <3>2. n.id = id
      BY DEF NewSummary
    <3> QED
      BY <3>1, <3>2
  <2> HIDE DEF n
  <2>2. all = app
    BY <1>3 DEF FindOrCreate, n
  <2>3. /\ app \in Seq(Summary) /\ Len(app) = Len(sums) + 1 /\ app[Len(sums) + 1] = n
        /\ \A j \in 1..Len(sums) : app[j] = sums[j]
    BY <1>1, <2>1
  <2>4. \A j \in 1..Len(sums) : sums[j].id # id
    BY <1>1, <1>3, FindOK
  <2> HIDE DEF app
  <2>5. 1..(Len(sums) + 1) = (1..Len(sums)) \cup {Len(sums) + 1}
    BY <1>1
  <2>6. Typed(app)
    <3>1. ASSUME NEW i \in 1..Len(app), NEW j \in 1..Len(app), app[i].id = app[j].id
          PROVE  i = j
      <4>1. i \in 1..Len(sums) \/ i = Len(sums) + 1
        BY <2>3, <2>5
      <4>2. j \in 1..Len(sums) \/ j = Len(sums) + 1
        BY <2>3, <2>5
      <4>3. CASE i \in 1..Len(sums) /\ j \in 1..Len(sums)
        BY <2>3, <3>1, <4>3 DEF Typed
      <4>4. CASE i = Len(sums) + 1 /\ j \in 1..Len(sums)
        BY <2>1, <2>3, <2>4, <3>1, <4>4
      <4>5. CASE i \in 1..Len(sums) /\ j = Len(sums) + 1
        BY <2>1, <2>3, <2>4, <3>1, <4>5
      <4> QED
        BY <4>1, <4>2, <4>3, <4>4, <4>5
    <3> QED
      BY <1>1, <1>3, <2>3, <3>1 DEF Typed
  <2> QED
    BY <1>3, <2>2, <2>3, <2>6 DEF n, app
<1> QED
  BY <1>2, <1>3

-----------------------------------------------------------------------------
(* The live summaries and the oracle's.                                     *)

\* A blacklisted site is not compiled.
Barred(s) == s.blacklisted => s.phase # "Compiled"

\* What holds of the live summaries, g, and the oracle's, o, entry by entry.
Coupled(g, o) ==
    /\ Typed(g) /\ Typed(o) /\ Len(o) = Len(g)
    /\ \A i \in 1..Len(g) :
          /\ WindowsOK(g[i], LiveKnobs) /\ WindowsOK(o[i], DefaultKnobs)
          /\ Mirrors(o[i], g[i]) /\ Barred(g[i])

\* A new site is in order in both.
LEMMA NewSummaryCoupled ==
    ASSUME NEW id \in Sites
    PROVE  LET s == NewSummary(id)
           IN  /\ s \in Summary /\ Mirrors(s, s)
               /\ WindowsOK(s, LiveKnobs) /\ WindowsOK(s, DefaultKnobs)
               /\ s.id = id /\ Barred(s)
               /\ s.event_count = 0 /\ s.free_count = 0 /\ s.lifo_stack = <<>>
               /\ s.alloc_dist = NoVotes(NoTid) /\ s.free_dist = NoVotes(NoTid)
               /\ s.top_pair = NoVotes(NoSite)
<1> DEFINE s == NewSummary(id)
<1>1. s \in Summary
  BY NewSummaryOK
<1>2. /\ s.id = id /\ s.blacklisted = FALSE /\ s.phase = "PreSpec" /\ s.code_page = FALSE
      /\ s.event_count = 0 /\ s.free_count = 0 /\ s.lifo_stack = <<>>
      /\ s.alloc_dist = NoVotes(NoTid) /\ s.free_dist = NoVotes(NoTid)
      /\ s.top_pair = NoVotes(NoSite) /\ s.stable_windows = 0
      /\ s.first_compile_events = 0 /\ s.windows = [i \in 0..1 |-> EmptyHist]
  BY DEF NewSummary
<1> HIDE DEF s
<1>3. Gathering(s, 0, LiveKnobs) /\ Gathering(s, 0, DefaultKnobs)
  BY <1>1, <1>2, EmptyGathering, PickerAssumption
<1> QED
  BY <1>1, <1>2, <1>3 DEF WindowsOK, Mirrors, Barred, s

\* Both look for a site at the same index.
LEMMA SameFind ==
    ASSUME NEW g, NEW o, Coupled(g, o), NEW id
    PROVE  Find(g, id) = Find(o, id)
<1>1. \A i \in 1..Len(g) : g[i].id = o[i].id
  BY DEF Coupled, Mirrors
<1>2. {i \in 1..Len(g) : g[i].id = id} = {i \in 1..Len(o) : o[i].id = id}
  BY <1>1 DEF Coupled
<1> QED
  BY <1>2 DEF Find, SelectInSeq

\* Both attribute a free to the same site.
LEMMA SameTopIndex ==
    ASSUME NEW g, NEW o, Coupled(g, o), NEW ptr
    PROVE  TopIndex(g, ptr) = TopIndex(o, ptr)
<1>1. \A i \in 1..Len(g) : LifoTop(g[i], ptr) <=> LifoTop(o[i], ptr)
  BY DEF Coupled, Mirrors, LifoTop
<1>2. {i \in 1..Len(g) : LifoTop(g[i], ptr)} = {i \in 1..Len(o) : LifoTop(o[i], ptr)}
  BY <1>1 DEF Coupled
<1> QED
  BY <1>2 DEF TopIndex, SelectInSeq

\* Both put a site on record, or neither.
LEMMA CoupledCreate ==
    ASSUME NEW g, NEW o, Coupled(g, o), NEW id \in Sites
    PROVE  Coupled(FindOrCreate(g, id), FindOrCreate(o, id))
<1> DEFINE s == NewSummary(id)
           G == FindOrCreate(g, id)
           O == FindOrCreate(o, id)
<1>1. Find(g, id) = Find(o, id) /\ Len(g) = Len(o) /\ Len(g) \in Nat
  BY SameFind DEF Coupled, Typed
<1>2. CASE Find(g, id) # 0 \/ Len(g) >= MaxSites
  BY <1>1, <1>2 DEF FindOrCreate
<1>3. CASE ~(Find(g, id) # 0 \/ Len(g) >= MaxSites)
  <2>1. G = Append(g, s) /\ O = Append(o, s)
    BY <1>1, <1>3 DEF FindOrCreate
  <2>2. Typed(G) /\ Typed(O)
    BY FindOrCreateOK DEF Coupled
  <2>3. g \in Seq(Summary) /\ o \in Seq(Summary)
    BY DEF Coupled, Typed
  <2>4. /\ s \in Summary /\ WindowsOK(s, LiveKnobs)
        /\ WindowsOK(s, DefaultKnobs) /\ Mirrors(s, s) /\ Barred(s)
    BY NewSummaryCoupled
  <2> HIDE DEF s, G, O
  <2>5. /\ Len(G) = Len(g) + 1 /\ Len(O) = Len(o) + 1
        /\ G[Len(g) + 1] = s /\ O[Len(o) + 1] = s
        /\ \A j \in 1..Len(g) : G[j] = g[j] /\ O[j] = o[j]
    BY <1>1, <2>1, <2>3, <2>4
  <2>6. 1..(Len(g) + 1) = (1..Len(g)) \cup {Len(g) + 1}
    BY <1>1
  <2>7. ASSUME NEW i \in 1..Len(G)
        PROVE  /\ WindowsOK(G[i], LiveKnobs) /\ WindowsOK(O[i], DefaultKnobs) /\ Mirrors(O[i], G[i])
               /\ Barred(G[i])
    <3>1. CASE i = Len(g) + 1
      BY <1>1, <2>4, <2>5, <3>1
    <3>2. CASE i \in 1..Len(g)
      BY <2>5, <3>2 DEF Coupled
    <3> QED
      BY <2>5, <2>6, <3>1, <3>2
  <2>8. Coupled(G, O)
    BY <1>1, <2>2, <2>5, <2>7 DEF Coupled
  <2> QED
    BY <2>8 DEF G, O
<1> QED
  BY <1>2, <1>3

\* The summaries of a site are replaced.
LEMMA CoupledUpdate ==
    ASSUME NEW g, NEW o, Coupled(g, o), NEW i \in 1..Len(g),
           NEW r \in Summary, NEW p \in Summary, r.id = g[i].id,
           WindowsOK(r, LiveKnobs), WindowsOK(p, DefaultKnobs), Mirrors(p, r), Barred(r),
           NEW G, NEW O, Updated(G, g, i, r), Updated(O, o, i, p)
    PROVE  Coupled(G, O)
<1>1. p.id = o[i].id /\ i \in 1..Len(o) /\ Typed(g) /\ Typed(o) /\ Len(o) = Len(g)
  BY DEF Coupled, Mirrors
<1>2. Typed(G)
  BY <1>1, TypedUpdate
<1>3. Typed(O)
  BY <1>1, TypedUpdate
<1>4. ASSUME NEW j \in 1..Len(G)
      PROVE  /\ WindowsOK(G[j], LiveKnobs) /\ WindowsOK(O[j], DefaultKnobs) /\ Mirrors(O[j], G[j])
             /\ Barred(G[j])
  <2>1. CASE j = i
    BY <2>1 DEF Updated
  <2>2. CASE j # i
    BY <1>1, <2>2 DEF Coupled, Updated
  <2> QED
    BY <2>1, <2>2
<1> QED
  BY <1>1, <1>2, <1>3, <1>4 DEF Coupled, Updated

\* The live summary alone is replaced.
LEMMA CoupledUpdateLive ==
    ASSUME NEW g, NEW o, Coupled(g, o), NEW i \in 1..Len(g),
           NEW r \in Summary, r.id = g[i].id,
           WindowsOK(r, LiveKnobs), Mirrors(o[i], r), Barred(r),
           NEW G, Updated(G, g, i, r)
    PROVE  Coupled(G, o)
<1>1. o \in Seq(Summary) /\ i \in 1..Len(o) /\ o[i] \in Summary /\ WindowsOK(o[i], DefaultKnobs)
  BY DEF Coupled, Typed
<1>2. Updated(o, o, i, o[i])
  BY <1>1 DEF Updated
<1> QED
  BY <1>1, <1>2, CoupledUpdate

\* Every site that has ever had a routine is on record, and Compiled in the
\* oracle's summaries if the live knobs are no looser.
ServedOK(S, o) ==
    \A id \in S : \E i \in 1..Len(o) :
        o[i].id = id /\ (KnobsNoLooser => o[i].phase = "Compiled")

PickerInv == Coupled(g_summaries, oracle) /\ ServedOK(served, oracle)

-----------------------------------------------------------------------------
(* What the events do to the table.                                         *)

\* An allocation is ignored, or recorded for its site.
LEMMA ProcessAllocOK ==
    ASSUME NEW sums, Typed(sums), NEW a \in Allocs, NEW isOracle,
           NEW all, all = FindOrCreate(sums, a.site),
           NEW knobs \in Knobs, knobs = KnobsOf(isOracle),
           \A j \in 1..Len(all) : WindowsOK(all[j], knobs),
           NEW i, i = Find(all, a.site)
    PROVE  LET new == ProcessAlloc(sums, a, isOracle)
           IN  /\ (a.size >= MAX_SIZE \/ i = 0) => new = sums
               /\ ~(a.size >= MAX_SIZE \/ i = 0) =>
                     /\ a.size < MAX_SIZE /\ i \in 1..Len(all) /\ all[i].id = a.site
                     /\ Updated(new, all, i, RecordAlloc(all[i], a, isOracle))
<1> DEFINE new == ProcessAlloc(sums, a, isOracle)
<1>1. a.site \in Sites /\ a.size \in Nat /\ MAX_SIZE \in Nat
  BY PickerAssumption, HistogramAssumption DEF Sites
<1>2. Typed(all) /\ all \in Seq(Summary)
  BY <1>1, FindOrCreateOK DEF Typed
<1>3. new = IF a.size >= MAX_SIZE \/ i = 0 THEN sums
            ELSE [all EXCEPT ![i] = RecordAlloc(all[i], a, isOracle)]
  BY DEF ProcessAlloc
<1>4. CASE ~(a.size >= MAX_SIZE \/ i = 0)
  <2>1. a.size < MAX_SIZE /\ i \in 1..Len(all) /\ all[i].id = a.site
    BY <1>1, <1>2, <1>4, FindOK
  <2>2. all[i] \in Summary /\ WindowsOK(all[i], knobs)
    BY <1>2, <2>1
  <2>3. RecordAlloc(all[i], a, isOracle) \in Summary
    BY <2>1, <2>2, RecordAllocOK
  <2>4. Updated([all EXCEPT ![i] = RecordAlloc(all[i], a, isOracle)], all, i,
                RecordAlloc(all[i], a, isOracle))
    BY <1>2, <2>1, <2>3, UpdatedBy
  <2>5. new = [all EXCEPT ![i] = RecordAlloc(all[i], a, isOracle)]
    BY <1>3, <1>4
  <2> QED
    BY <1>4, <2>1, <2>4, <2>5
<1>5. CASE a.size >= MAX_SIZE \/ i = 0
  BY <1>3, <1>5
<1> QED
  BY <1>4, <1>5

\* A free of a libc chunk is ignored, or charged to the site with the address on
\* top of its stack.
LEMMA ProcessFreeOK ==
    ASSUME NEW sums \in Seq(Summary), NEW f \in Frees, NEW i, i = TopIndex(sums, f.ptr)
    PROVE  LET new == ProcessFree(sums, f)
           IN  /\ i = 0 => new = sums
               /\ i # 0 => /\ i \in 1..Len(sums) /\ LifoTop(sums[i], f.ptr)
                           /\ Updated(new, sums, i, Paired(sums[i], f))
<1> DEFINE new == ProcessFree(sums, f)
<1>1. new = IF i = 0 THEN sums ELSE [sums EXCEPT ![i] = Paired(sums[i], f)]
  BY DEF ProcessFree, TopIndex, Paired
<1>2. CASE i # 0
  <2>1. i \in 1..Len(sums) /\ LifoTop(sums[i], f.ptr)
    BY <1>2, TopIndexOK
  <2>2. Paired(sums[i], f) \in Summary
    BY <2>1, PairedOK
  <2>3. Updated([sums EXCEPT ![i] = Paired(sums[i], f)], sums, i, Paired(sums[i], f))
    BY <2>1, <2>2, UpdatedBy
  <2>4. new = [sums EXCEPT ![i] = Paired(sums[i], f)]
    BY <1>1, <1>2
  <2> QED
    BY <1>2, <2>1, <2>3, <2>4
<1>3. CASE i = 0
  BY <1>1, <1>3
<1> QED
  BY <1>2, <1>3

\* A free of a managed chunk is charged to the site its segment names, which is
\* on record.
LEMMA ProcessManagedFreeOK ==
    ASSUME NEW sums \in Seq(Summary), NEW f \in Frees, NEW id, Find(sums, id) # 0
    PROVE  LET i == Find(sums, id)
           IN  /\ i \in 1..Len(sums) /\ sums[i].id = id
               /\ Updated(ProcessManagedFree(sums, f, id), sums, i, RecordFree(sums[i], f))
<1> DEFINE i == Find(sums, id)
           new == ProcessManagedFree(sums, f, id)
<1>1. i \in 1..Len(sums) /\ sums[i].id = id
  BY FindOK
<1>2. RecordFree(sums[i], f) \in Summary
  BY <1>1, RecordFreeOK
<1>3. FindOrCreate(sums, id) = sums
  BY DEF FindOrCreate
<1>4. new = [sums EXCEPT ![i] = RecordFree(sums[i], f)]
  BY <1>1, <1>3 DEF ProcessManagedFree
<1> HIDE DEF i
<1>5. Updated([sums EXCEPT ![i] = RecordFree(sums[i], f)], sums, i, RecordFree(sums[i], f))
  BY <1>1, <1>2, UpdatedBy
<1> QED
  BY <1>1, <1>4, <1>5 DEF i

\* A guard failure resets the summary of its site.
LEMMA ResetCallSiteOK ==
    ASSUME NEW sums \in Seq(Summary), NEW id, Find(sums, id) # 0, NEW reason \in Reasons
    PROVE  LET i == Find(sums, id)
           IN  /\ i \in 1..Len(sums) /\ sums[i].id = id
               /\ Updated(ResetCallSite(sums, id, reason), sums, i, Reset(sums[i], reason))
<1> DEFINE i == Find(sums, id)
           new == ResetCallSite(sums, id, reason)
<1>1. i \in 1..Len(sums) /\ sums[i].id = id
  BY FindOK
<1>2. Reset(sums[i], reason) \in Summary
  <2>1. sums[i] \in Summary
    BY <1>1
  <2> HIDE DEF i
  <2> QED
    BY <2>1, ResetOK
<1>3. new = [k \in DOMAIN sums |-> IF k # i THEN sums[k] ELSE Reset(sums[k], reason)]
  BY DEF ResetCallSite, Reset
<1>4. DOMAIN sums = 1..Len(sums) /\ Len(sums) \in Nat /\ \A k \in 1..Len(sums) : sums[k] \in Summary
  OBVIOUS
<1> HIDE DEF i, new
<1>5. new = [k \in 1..Len(sums) |-> IF k # i THEN sums[k] ELSE Reset(sums[k], reason)]
  BY <1>3, <1>4
<1>6. new \in [1..Len(sums) -> Summary]
  BY <1>2, <1>4, <1>5
<1>7. new \in Seq(Summary) /\ Len(new) = Len(sums)
  BY <1>4, <1>6
<1>8. Updated(new, sums, i, Reset(sums[i], reason))
  BY <1>1, <1>5, <1>7 DEF Updated
<1> QED
  BY <1>1, <1>8 DEF i, new

-----------------------------------------------------------------------------
(* The invariant of the two tables.                                         *)

\* A compiled site stays compiled in the oracle.
LEMMA ServedStays ==
    ASSUME NEW S, NEW o, NEW O, ServedOK(S, o), Len(o) \in Nat, Len(O) \in Nat,
           Len(o) <= Len(O),
           \A i \in 1..Len(o) : /\ O[i].id = o[i].id
                                /\ o[i].phase = "Compiled" => O[i].phase = "Compiled"
    PROVE  ServedOK(S, O)
<1> SUFFICES ASSUME NEW id \in S
             PROVE  \E i \in 1..Len(O) : O[i].id = id /\ (KnobsNoLooser => O[i].phase = "Compiled")
  BY DEF ServedOK
<1>1. PICK i \in 1..Len(o) : o[i].id = id /\ (KnobsNoLooser => o[i].phase = "Compiled")
  BY DEF ServedOK
<1>2. i \in 1..Len(O)
  OBVIOUS
<1> QED
  BY <1>1, <1>2

\* A site that has had a routine is on record.
LEMMA ServedOnRecord ==
    ASSUME NEW S, NEW g, NEW o, Coupled(g, o), ServedOK(S, o), NEW id \in S
    PROVE  /\ Find(g, id) # 0 /\ Find(g, id) \in 1..Len(g) /\ g[Find(g, id)].id = id
           /\ KnobsNoLooser => o[Find(g, id)].phase = "Compiled"
<1>1. PICK i \in 1..Len(o) : o[i].id = id /\ (KnobsNoLooser => o[i].phase = "Compiled")
  BY DEF ServedOK
<1>2. g[i].id = id /\ i \in 1..Len(g) /\ Typed(g) /\ g \in Seq(Summary)
  BY <1>1 DEF Coupled, Mirrors, Typed
<1>3. Find(g, id) = i
  BY <1>2, FindSelf
<1> QED
  BY <1>1, <1>2, <1>3

\* An allocation recorded by both keeps them coupled, and nothing that the
\* oracle has compiled is lost.
LEMMA CoupledAlloc ==
    ASSUME NEW g, NEW o, Coupled(g, o), NEW a \in Allocs
    PROVE  LET G == ProcessAlloc(g, a, FALSE)
               O == ProcessAlloc(o, a, TRUE)
           IN  /\ Coupled(G, O) /\ Len(o) <= Len(O)
               /\ \A j \in 1..Len(o) : /\ O[j].id = o[j].id
                                       /\ o[j].phase = "Compiled" => O[j].phase = "Compiled"
<1> DEFINE G == ProcessAlloc(g, a, FALSE)
           O == ProcessAlloc(o, a, TRUE)
<1>1. PICK A : A = FindOrCreate(g, a.site)
  OBVIOUS
<1>2. PICK B : B = FindOrCreate(o, a.site)
  OBVIOUS
<1>3. PICK i : i = Find(A, a.site)
  OBVIOUS
<1>4. a.site \in Sites /\ Typed(g) /\ Typed(o) /\ Len(o) \in Nat
  BY DEF Sites, Coupled, Typed
<1>5. Coupled(A, B)
  BY <1>1, <1>2, <1>4, CoupledCreate
<1>6. i = Find(B, a.site)
  BY <1>3, <1>5, SameFind
<1>7. /\ (a.size >= MAX_SIZE \/ i = 0) => G = g
      /\ ~(a.size >= MAX_SIZE \/ i = 0) =>
            /\ a.size < MAX_SIZE /\ i \in 1..Len(A) /\ A[i].id = a.site
            /\ Updated(G, A, i, RecordAlloc(A[i], a, FALSE))
  <2>1. \A j \in 1..Len(A) : WindowsOK(A[j], LiveKnobs)
    BY <1>5 DEF Coupled
  <2>2. ASSUME NEW isOracle, LiveKnobs = KnobsOf(isOracle)
        PROVE  /\ (a.size >= MAX_SIZE \/ i = 0) => ProcessAlloc(g, a, isOracle) = g
               /\ ~(a.size >= MAX_SIZE \/ i = 0) =>
                     /\ a.size < MAX_SIZE /\ i \in 1..Len(A) /\ A[i].id = a.site
                     /\ Updated(ProcessAlloc(g, a, isOracle), A, i,
                                RecordAlloc(A[i], a, isOracle))
    BY <1>1, <1>3, <1>4, <2>1, <2>2, ProcessAllocOK, PickerAssumption
  <2> QED
    BY <2>2, KnobsOfOK
<1>8. /\ (a.size >= MAX_SIZE \/ i = 0) => O = o
      /\ ~(a.size >= MAX_SIZE \/ i = 0) =>
            Updated(O, B, i, RecordAlloc(B[i], a, TRUE))
  <2>1. \A j \in 1..Len(B) : WindowsOK(B[j], DefaultKnobs)
    BY <1>5 DEF Coupled
  <2>2. DefaultKnobs \in Knobs /\ DefaultKnobs = KnobsOf(TRUE)
    BY PickerAssumption, KnobsOfOK
  <2> QED
    BY <1>2, <1>4, <1>6, <2>1, <2>2, ProcessAllocOK
<1>9. /\ Len(o) <= Len(B) /\ Len(B) \in Nat
      /\ \A j \in 1..Len(o) : B[j] = o[j]
  <2>1. Typed(B) /\ \/ B = o
                    \/ Len(B) = Len(o) + 1 /\ \A j \in 1..Len(o) : B[j] = o[j]
    BY <1>2, <1>4, FindOrCreateOK
  <2> QED
    BY <1>4, <2>1 DEF Typed
<1> SUFFICES /\ Coupled(G, O) /\ Len(o) <= Len(O)
             /\ \A j \in 1..Len(o) : /\ O[j].id = o[j].id
                                     /\ o[j].phase = "Compiled" => O[j].phase = "Compiled"
  OBVIOUS
<1> HIDE DEF G, O
<1>10. CASE a.size >= MAX_SIZE \/ i = 0
  BY <1>4, <1>7, <1>8, <1>10
<1>11. CASE ~(a.size >= MAX_SIZE \/ i = 0)
  <2>1. PICK r : r = RecordAlloc(A[i], a, FALSE)
    OBVIOUS
  <2>2. PICK p : p = RecordAlloc(B[i], a, TRUE)
    OBVIOUS
  <2>3. /\ a.size < MAX_SIZE /\ i \in 1..Len(A) /\ i \in 1..Len(B)
        /\ A[i] \in Summary /\ B[i] \in Summary
        /\ WindowsOK(A[i], LiveKnobs) /\ WindowsOK(B[i], DefaultKnobs)
        /\ Mirrors(B[i], A[i]) /\ Barred(A[i])
    BY <1>5, <1>7, <1>11 DEF Coupled, Typed
  <2>4. /\ r \in Summary /\ WindowsOK(r, LiveKnobs)
        /\ r.id = A[i].id /\ r.blacklisted = A[i].blacklisted
    <3>1. ASSUME NEW isOracle, LiveKnobs = KnobsOf(isOracle)
          PROVE  LET q == RecordAlloc(A[i], a, isOracle)
                 IN  /\ q \in Summary /\ WindowsOK(q, LiveKnobs) /\ q.id = A[i].id
                     /\ q.blacklisted = A[i].blacklisted
      BY <2>3, <3>1, RecordAllocOK, PickerAssumption
    <3> QED
      BY <2>1, <3>1, KnobsOfOK
  <2>5. p \in Summary /\ WindowsOK(p, DefaultKnobs) /\ p.id = B[i].id
    <3>1. DefaultKnobs \in Knobs /\ DefaultKnobs = KnobsOf(TRUE)
      BY PickerAssumption, KnobsOfOK
    <3> QED
      BY <2>2, <2>3, <3>1, RecordAllocOK
  <2>6. Mirrors(p, r) /\ (B[i].phase = "Compiled" => p.phase = "Compiled")
    BY <2>1, <2>2, <2>3, MirrorsAlloc
  <2>7. Barred(r)
    <3>1. A[i].phase # "Compiled" /\ r.phase = "Compiled" => A[i].blacklisted = FALSE
      BY <2>1, <2>3, RecordAllocCompiles
    <3> QED
      BY <2>3, <2>4, <3>1 DEF Barred
  <2>8. Updated(G, A, i, r) /\ Updated(O, B, i, p)
    BY <1>7, <1>8, <1>11, <2>1, <2>2
  <2>9. Coupled(G, O)
    BY <1>5, <2>3, <2>4, <2>5, <2>6, <2>7, <2>8, CoupledUpdate
  <2>10. Len(O) = Len(B) /\ O[i] = p /\ \A j \in 1..Len(B) \ {i} : O[j] = B[j]
    BY <2>8 DEF Updated
  <2>11. ASSUME NEW j \in 1..Len(o)
         PROVE  /\ O[j].id = o[j].id
                /\ o[j].phase = "Compiled" => O[j].phase = "Compiled"
    <3>1. j \in 1..Len(B) /\ B[j] = o[j]
      BY <1>4, <1>9
    <3> QED
      BY <2>5, <2>6, <2>10, <3>1
  <2> QED
    BY <1>9, <2>9, <2>10, <2>11
<1> QED
  BY <1>10, <1>11

\* A free of a libc chunk keeps them coupled.
LEMMA CoupledFree ==
    ASSUME NEW g, NEW o, Coupled(g, o), NEW f \in Frees
    PROVE  LET G == ProcessFree(g, f)
               O == ProcessFree(o, f)
           IN  /\ Coupled(G, O) /\ Len(O) = Len(o)
               /\ \A j \in 1..Len(o) : O[j].id = o[j].id /\ O[j].phase = o[j].phase
<1> DEFINE G == ProcessFree(g, f)
           O == ProcessFree(o, f)
<1>1. PICK i : i = TopIndex(g, f.ptr)
  OBVIOUS
<1>2. i = TopIndex(o, f.ptr)
  BY <1>1, SameTopIndex
<1>3. g \in Seq(Summary) /\ o \in Seq(Summary)
  BY DEF Coupled, Typed
<1>4. /\ i = 0 => G = g
      /\ i # 0 => /\ i \in 1..Len(g) /\ LifoTop(g[i], f.ptr)
                  /\ Updated(G, g, i, Paired(g[i], f))
  BY <1>1, <1>3, ProcessFreeOK
<1>5. /\ i = 0 => O = o
      /\ i # 0 => /\ i \in 1..Len(o) /\ LifoTop(o[i], f.ptr)
                  /\ Updated(O, o, i, Paired(o[i], f))
  BY <1>2, <1>3, ProcessFreeOK
<1> SUFFICES /\ Coupled(G, O) /\ Len(O) = Len(o)
             /\ \A j \in 1..Len(o) : O[j].id = o[j].id /\ O[j].phase = o[j].phase
  OBVIOUS
<1> HIDE DEF G, O
<1>6. CASE i = 0
  BY <1>4, <1>5, <1>6
<1>7. CASE i # 0
  <2>1. PICK r : r = Paired(g[i], f)
    OBVIOUS
  <2>2. PICK p : p = Paired(o[i], f)
    OBVIOUS
  <2>3. /\ i \in 1..Len(g) /\ i \in 1..Len(o) /\ g[i] \in Summary /\ o[i] \in Summary
        /\ WindowsOK(g[i], LiveKnobs) /\ WindowsOK(o[i], DefaultKnobs)
        /\ Mirrors(o[i], g[i]) /\ Barred(g[i])
    BY <1>3, <1>4, <1>5, <1>7 DEF Coupled
  <2>4. /\ r \in Summary /\ Serving(r, g[i]) /\ r.id = g[i].id
        /\ r.event_count = g[i].event_count /\ r.blacklisted = g[i].blacklisted
        /\ r.lifo_stack = Front(g[i].lifo_stack)
    BY <1>4, <1>7, <2>1, <2>3, PairedOK
  <2>5. /\ p \in Summary /\ Serving(p, o[i]) /\ p.id = o[i].id
        /\ p.event_count = o[i].event_count /\ p.blacklisted = o[i].blacklisted
        /\ p.lifo_stack = Front(o[i].lifo_stack)
    BY <1>5, <1>7, <2>2, <2>3, PairedOK
  <2>6. WindowsOK(r, LiveKnobs) /\ WindowsOK(p, DefaultKnobs)
    BY <2>3, <2>4, <2>5 DEF Serving, Settled, WindowsOK, Gathering, Proven
  <2>7. Mirrors(p, r)
    BY <2>3, <2>4, <2>5 DEF Serving, Settled, Mirrors
  <2>8. Barred(r)
    BY <2>3, <2>4 DEF Serving, Barred
  <2>9. Updated(G, g, i, r) /\ Updated(O, o, i, p)
    BY <1>4, <1>5, <1>7, <2>1, <2>2
  <2>10. Coupled(G, O)
    BY <2>3, <2>4, <2>5, <2>6, <2>7, <2>8, <2>9, CoupledUpdate
  <2>11. p.phase = o[i].phase
    BY <2>5 DEF Serving
  <2> QED
    BY <2>5, <2>9, <2>10, <2>11 DEF Updated
<1> QED
  BY <1>6, <1>7

\* No site is on record at first.
LEMMA InitPickerInv == Init => PickerInv
<1> SUFFICES ASSUME Init
             PROVE  PickerInv
  OBVIOUS
<1>1. g_summaries = <<>> /\ oracle = <<>> /\ served = {}
  BY DEF Init
<1>2. <<>> \in Seq(Summary) /\ Len(<<>>) = 0 /\ 1..0 = {}
  OBVIOUS
<1>3. Typed(<<>>)
  BY <1>2, PickerAssumption DEF Typed
<1> QED
  BY <1>1, <1>2, <1>3 DEF PickerInv, Coupled, ServedOK

\* An allocation event.
LEMMA AllocPickerInv ==
    ASSUME PickerInv, NEW a \in Allocs, AllocEvent(a)
    PROVE  PickerInv'
<1>1. PICK G : G = g_summaries'
  OBVIOUS
<1>2. PICK O : O = oracle'
  OBVIOUS
<1>3. G = ProcessAlloc(g_summaries, a, FALSE) /\ O = ProcessAlloc(oracle, a, TRUE)
  BY <1>1, <1>2 DEF AllocEvent
<1>4. served' = served \cup {s.id : s \in {x \in Range(G) : x.code_page}}
  BY <1>1 DEF AllocEvent, NoteRoutines
<1>5. /\ Coupled(G, O) /\ Len(oracle) <= Len(O)
      /\ \A j \in 1..Len(oracle) :
            /\ O[j].id = oracle[j].id
            /\ oracle[j].phase = "Compiled" => O[j].phase = "Compiled"
  BY <1>3, CoupledAlloc DEF PickerInv
<1>6. Len(oracle) \in Nat /\ Len(O) \in Nat /\ O \in Seq(Summary) /\ G \in Seq(Summary)
  BY <1>5 DEF PickerInv, Coupled, Typed
<1>7. ServedOK(served, O)
  BY <1>5, <1>6, ServedStays DEF PickerInv
<1>8. ASSUME NEW s \in Range(G), s.code_page
      PROVE  \E i \in 1..Len(O) : O[i].id = s.id /\ (KnobsNoLooser => O[i].phase = "Compiled")
  <2>1. PICK i \in 1..Len(G) : s = G[i]
    BY <1>6 DEF Range
  <2>2. Mirrors(O[i], G[i]) /\ Len(O) = Len(G)
    BY <1>5, <2>1 DEF Coupled
  <2>3. G[i].code_page # FALSE
    BY <1>8, <2>1
  <2> QED
    BY <2>1, <2>2, <2>3 DEF Mirrors
<1>9. ServedOK(served', O)
  BY <1>4, <1>7, <1>8 DEF ServedOK
<1> QED
  BY <1>1, <1>2, <1>5, <1>9 DEF PickerInv

\* A free event.
LEMMA FreePickerInv ==
    ASSUME PickerInv, NEW f \in Frees, FreeEvent(f)
    PROVE  PickerInv'
<1>1. PICK G : G = g_summaries'
  OBVIOUS
<1>2. PICK O : O = oracle'
  OBVIOUS
<1>3. G = ProcessFree(g_summaries, f) /\ O = ProcessFree(oracle, f) /\ served' = served
  BY <1>1, <1>2 DEF FreeEvent
<1>4. /\ Coupled(G, O) /\ Len(O) = Len(oracle)
      /\ \A j \in 1..Len(oracle) : O[j].id = oracle[j].id /\ O[j].phase = oracle[j].phase
  BY <1>3, CoupledFree DEF PickerInv
<1>5. Len(oracle) \in Nat
  BY DEF PickerInv, Coupled, Typed
<1>6. ServedOK(served, O)
  BY <1>4, <1>5, ServedStays DEF PickerInv
<1> QED
  BY <1>1, <1>2, <1>3, <1>4, <1>6 DEF PickerInv

\* A free of a managed chunk.
LEMMA ManagedFreePickerInv ==
    ASSUME PickerInv, NEW f \in Frees, NEW id \in Sites, ManagedFreeEvent(f, id)
    PROVE  PickerInv'
<1>1. PICK G : G = g_summaries'
  OBVIOUS
<1>2. PICK i : i = Find(g_summaries, id)
  OBVIOUS
<1>3. /\ G = ProcessManagedFree(g_summaries, f, id)
      /\ oracle' = oracle /\ served' = served /\ id \in served
  BY <1>1 DEF ManagedFreeEvent
<1>4. i # 0 /\ g_summaries \in Seq(Summary)
  BY <1>2, <1>3, ServedOnRecord DEF PickerInv, Coupled, Typed
<1>5. i \in 1..Len(g_summaries) /\ Updated(G, g_summaries, i, RecordFree(g_summaries[i], f))
  BY <1>2, <1>3, <1>4, ProcessManagedFreeOK
<1>6. PICK s : s = g_summaries[i]
  OBVIOUS
<1>7. PICK r : r = RecordFree(s, f)
  OBVIOUS
<1>8. s \in Summary /\ WindowsOK(s, LiveKnobs) /\ Mirrors(oracle[i], s) /\ Barred(s)
  BY <1>4, <1>5, <1>6 DEF PickerInv, Coupled
<1>9. /\ r \in Summary /\ Serving(r, s) /\ r.id = s.id
      /\ r.event_count = s.event_count /\ r.blacklisted = s.blacklisted
      /\ r.lifo_stack = s.lifo_stack
  BY <1>7, <1>8, RecordFreeOK
<1>10. WindowsOK(r, LiveKnobs) /\ Mirrors(oracle[i], r) /\ Barred(r)
  BY <1>8, <1>9 DEF Serving, Settled, WindowsOK, Gathering, Proven, Mirrors, Barred
<1>11. Coupled(G, oracle)
  BY <1>5, <1>6, <1>7, <1>9, <1>10, CoupledUpdateLive DEF PickerInv
<1> QED
  BY <1>1, <1>3, <1>11 DEF PickerInv

\* A guard failure.
LEMMA GuardPickerInv ==
    ASSUME PickerInv, NEW id \in Sites, GuardFailed(id)
    PROVE  PickerInv'
<1>1. PICK G : G = g_summaries'
  OBVIOUS
<1>2. PICK i : i = Find(g_summaries, id)
  OBVIOUS
<1>3. PICK reason \in Reasons : reason = Reason(g_summaries[i].candidate)
  BY DEF Reason, Reasons
<1>4. /\ G = ResetCallSite(g_summaries, id, reason)
      /\ oracle' = oracle /\ served' = served /\ id \in served
  BY <1>1, <1>2, <1>3 DEF GuardFailed
<1>5. /\ i # 0 /\ i \in 1..Len(g_summaries)
      /\ KnobsNoLooser => oracle[i].phase = "Compiled"
      /\ g_summaries \in Seq(Summary)
  BY <1>2, <1>4, ServedOnRecord DEF PickerInv, Coupled, Typed
<1>6. Updated(G, g_summaries, i, Reset(g_summaries[i], reason))
  BY <1>2, <1>4, <1>5, ResetCallSiteOK
<1>7. PICK s : s = g_summaries[i]
  OBVIOUS
<1>8. PICK r : r = Reset(s, reason)
  OBVIOUS
<1>9. s \in Summary /\ WindowsOK(s, LiveKnobs) /\ Mirrors(oracle[i], s)
  BY <1>5, <1>7 DEF PickerInv, Coupled
<1>10. /\ r \in Summary /\ r.id = s.id /\ r.phase = "Deopt" /\ r.stable_windows = 0
       /\ r.windows = [k \in 0..1 |-> EmptyHist]
       /\ r.first_compile_events = s.first_compile_events
       /\ r.event_count = s.event_count /\ r.lifo_stack = s.lifo_stack
  BY <1>8, <1>9, ResetOK
<1>11. Gathering(r, r.event_count, LiveKnobs)
  <2>1. r.event_count \in Nat
    BY <1>10 DEF Summary
  <2> QED
    BY <1>10, <2>1, EmptyGathering, PickerAssumption
<1>12. WindowsOK(r, LiveKnobs) /\ Mirrors(oracle[i], r) /\ Barred(r)
  BY <1>5, <1>9, <1>10, <1>11 DEF WindowsOK, Mirrors, Barred
<1>13. Coupled(G, oracle)
  BY <1>5, <1>6, <1>7, <1>8, <1>10, <1>12, CoupledUpdateLive DEF PickerInv
<1> QED
  BY <1>1, <1>4, <1>13 DEF PickerInv

\* The invariant of the two tables is preserved.
LEMMA NextPickerInv == PickerInv /\ [Next]_vars => PickerInv'
<1> SUFFICES ASSUME PickerInv, [Next]_vars
             PROVE  PickerInv'
  OBVIOUS
<1>1. CASE \E a \in Allocs : AllocEvent(a)
  BY <1>1, AllocPickerInv
<1>2. CASE \E f \in Frees : FreeEvent(f)
  BY <1>2, FreePickerInv
<1>3. CASE \E f \in Frees, id \in Sites : ManagedFreeEvent(f, id)
  BY <1>3, ManagedFreePickerInv
<1>4. CASE \E id \in Sites : GuardFailed(id)
  BY <1>4, GuardPickerInv
<1>5. CASE UNCHANGED vars
  BY <1>5 DEF vars, PickerInv
<1> QED
  BY <1>1, <1>2, <1>3, <1>4, <1>5 DEF Next

\* The live picker and the oracle stay coupled, whatever events arrive.
THEOREM PickerInvariant == Spec => []PickerInv
  BY InitPickerInv, NextPickerInv, PTL DEF Spec

-----------------------------------------------------------------------------
(* What follows from the invariant of the two tables.                       *)

\* A summary of the right type is what IsSummary asks for.
LEMMA SummaryIs ==
    ASSUME NEW s \in Summary, NEW knobs \in Knobs, WindowsOK(s, knobs)
    PROVE  IsSummary(s, knobs)
<1>1. \A h \in {s.windows[0], s.windows[1], s.post_window, s.baseline} : IsHistogram(h)
  <2>1. s.windows \in [0..1 -> Hists] /\ s.post_window \in Hists /\ s.baseline \in Hists
    BY DEF Summary
  <2>2. s.windows[0] \in Hists /\ s.windows[1] \in Hists
    BY <2>1
  <2> QED
    BY <2>1, <2>2 DEF Hists
<1>2. s.blacklisted \in BOOLEAN /\ s.code_page \in BOOLEAN
  BY DEF Summary
<1>3. s.lifo_stack \in Seq(Ptrs) /\ Len(s.lifo_stack) <= LifoCap
  BY DEF Summary, Stacks
<1>4. s.classes \subseteq Nat /\ Cardinality(s.classes) <= MaxClasses
  BY DEF Summary, Classes
<1>5. s.stable_windows \in 0..knobs.stable
  <2>1. s.stable_windows \in Nat /\ knobs.stable \in Nat
    BY KnobsOK DEF Summary
  <2>2. s.stable_windows <= knobs.stable
    BY <2>1 DEF WindowsOK, Gathering, Proven
  <2> QED
    BY <2>1, <2>2
<1>6. /\ s.id \in Sites /\ s.phase \in Phases
      /\ {s.event_count, s.free_count, s.deopt_count, s.first_compile_events,
          s.lifo_count} \subseteq Nat
      /\ s.active \in 0..1
      /\ s.deopt_reason \in Reasons /\ s.lifetime \in Lifetimes /\ s.candidate \in Strategies
      /\ {s.alloc_dist, s.free_dist} \subseteq TidVotes /\ s.top_pair \in SiteVotes
  BY DEF Summary
<1> QED
  BY <1>1, <1>2, <1>3, <1>4, <1>5, <1>6
  DEF IsSummary, Phases, Reasons, Lifetimes, TidVotes, SiteVotes

\* A table that fits is what TableOK asks for.
LEMMA TableIs ==
    ASSUME NEW sums, Typed(sums), NEW knobs \in Knobs,
           \A i \in 1..Len(sums) : WindowsOK(sums[i], knobs)
    PROVE  TableOK(sums, knobs)
<1>1. sums \in Seq(Summary) /\ DOMAIN sums = 1..Len(sums) /\ Len(sums) <= MaxSites
  BY DEF Typed
<1>2. ASSUME NEW i \in 1..Len(sums)
      PROVE  IsSummary(sums[i], knobs) /\ Find(sums, sums[i].id) = i
  <2>1. sums[i] \in Summary
    BY <1>1
  <2> QED
    BY <2>1, SummaryIs, FindSelf
<1> QED
  BY <1>1, <1>2 DEF TableOK

\* The summaries are well typed, no array of theirs is overrun, and a site is on
\* record once: in the live tables and in the oracle's.
THEOREM PickerTypeOK == Spec => []TypeOK
<1>1. PickerInv => TypeOK
  <2> SUFFICES ASSUME PickerInv
               PROVE  TypeOK
    OBVIOUS
  <2>1. /\ Typed(g_summaries) /\ Typed(oracle)
        /\ \A i \in 1..Len(g_summaries) : WindowsOK(g_summaries[i], LiveKnobs)
        /\ \A i \in 1..Len(oracle) : WindowsOK(oracle[i], DefaultKnobs)
    BY DEF PickerInv, Coupled
  <2> QED
    BY <2>1, TableIs, PickerAssumption DEF TypeOK
<1> QED
  BY <1>1, PickerInvariant, PTL

\* The values of a table are its entries.
LEMMA InTable ==
    ASSUME NEW sums \in Seq(Summary), NEW s \in Range(sums)
    PROVE  \E i \in 1..Len(sums) : s = sums[i]
  BY DEF Range

\* A site whose guards have failed too often is never compiled again: however
\* many stable windows it fills afterwards.
THEOREM BlacklistFinalHolds == Spec => []BlacklistFinal
<1>1. PickerInv => BlacklistFinal
  <2> SUFFICES ASSUME PickerInv, NEW s \in Range(g_summaries)
               PROVE  s.blacklisted => s.phase # "Compiled"
    BY DEF BlacklistFinal
  <2>1. g_summaries \in Seq(Summary)
    BY DEF PickerInv, Coupled, Typed
  <2>2. PICK i \in 1..Len(g_summaries) : s = g_summaries[i]
    BY <2>1, InTable
  <2>3. Barred(s)
    BY <2>2 DEF PickerInv, Coupled
  <2> QED
    BY <2>3 DEF Barred
<1> QED
  BY <1>1, PickerInvariant, PTL

\* A Compiled summary's windows hold what CompiledOnEvidence asks for.
LEMMA ProvenEvidence ==
    ASSUME NEW s \in Summary, NEW knobs \in Knobs, Proven(s, knobs)
    PROVE  Evident(s, knobs)
<1>1. /\ s.active \in 0..1 /\ s.windows \in [0..1 -> Hists]
      /\ s.windows[s.active] \in Hists /\ s.windows[1 - s.active] \in Hists
  BY Roles
<1>2. s.active = 0 \/ s.active = 1
  BY <1>1
<1>3. 1 - 0 = 1 /\ 1 - 1 = 0
  OBVIOUS
<1>4. PICK a : a = s.windows[0]
  OBVIOUS
<1>5. PICK b : b = s.windows[1]
  OBVIOUS
<1>6. a \in Hists /\ b \in Hists /\ a.total = knobs.window /\ b.total = knobs.window
      /\ (KsStable(a, b, knobs.crit) \/ KsStable(b, a, knobs.crit))
  BY <1>1, <1>2, <1>3, <1>4, <1>5 DEF Proven
<1>7. IsHistogram(a) /\ IsHistogram(b) /\ Accounted(a) /\ Accounted(b)
  BY <1>6 DEF Hists
<1>8. KsStable(a, b, knobs.crit)
  BY <1>6, <1>7, KsStableSymmetric, KnobsOK
<1>9. Mass(a, Tracked(a)) = knobs.window /\ Mass(b, Tracked(b)) = knobs.window
  BY <1>6, <1>7, <1>8 DEF KsStable, Accounted
<1>10. \A i \in 0..1 : i = 0 \/ i = 1
  OBVIOUS
<1> QED
  BY <1>4, <1>5, <1>8, <1>9, <1>10 DEF Proven, Evident

\* A site is Compiled, live or in the replay, only on the evidence of two full
\* windows that pass the test, with every one of their events counted.
THEOREM CompiledOnEvidenceHolds == Spec => []CompiledOnEvidence
<1>1. PickerInv => CompiledOnEvidence
  <2> SUFFICES ASSUME PickerInv
               PROVE  CompiledOnEvidence
    OBVIOUS
  <2>1. /\ g_summaries \in Seq(Summary) /\ oracle \in Seq(Summary)
        /\ Len(oracle) = Len(g_summaries)
    BY DEF PickerInv, Coupled, Typed
  <2>2. ASSUME NEW s \in Range(g_summaries), s.phase = "Compiled"
        PROVE  Evident(s, LiveKnobs)
    <3>1. PICK i \in 1..Len(g_summaries) : s = g_summaries[i]
      BY <2>1, InTable
    <3>2. s \in Summary /\ WindowsOK(s, LiveKnobs)
      BY <2>1, <3>1 DEF PickerInv, Coupled
    <3> QED
      BY <2>2, <3>2, ProvenEvidence, PickerAssumption DEF WindowsOK
  <2>3. ASSUME NEW s \in Range(oracle), s.phase = "Compiled"
        PROVE  Evident(s, DefaultKnobs)
    <3>1. PICK i \in 1..Len(oracle) : s = oracle[i]
      BY <2>1, InTable
    <3>2. s \in Summary /\ WindowsOK(s, DefaultKnobs)
      BY <2>1, <3>1 DEF PickerInv, Coupled
    <3> QED
      BY <2>3, <3>2, ProvenEvidence, PickerAssumption DEF WindowsOK
  <2> QED
    BY <2>2, <2>3 DEF CompiledOnEvidence
<1> QED
  BY <1>1, PickerInvariant, PTL

\* A table's entries, as CapturedEvents adds them up.
Captured(sums) ==
    [i \in DOMAIN sums |-> IF sums[i].phase = "Compiled" THEN sums[i].event_count ELSE 0]

\* The replay's total is a bound if each of its entries is.
LEMMA CapturedBound ==
    ASSUME KnobsNoLooser, NEW g, NEW o, Coupled(g, o)
    PROVE  /\ \A i \in 1..Len(g) :
                 /\ o[i].id = g[i].id /\ o[i].event_count = g[i].event_count
                 /\ g[i].phase = "Compiled" => o[i].phase = "Compiled"
           /\ CapturedEvents(o) >= CapturedEvents(g)
<1>1. /\ g \in Seq(Summary) /\ o \in Seq(Summary) /\ Len(o) = Len(g) /\ Len(g) \in Nat
      /\ DOMAIN g = 1..Len(g) /\ DOMAIN o = 1..Len(g)
  BY DEF Coupled, Typed
<1>2. \A i \in 1..Len(g) : g[i].event_count \in Nat /\ o[i].event_count \in Nat
  <2>1. \A i \in 1..Len(g) : g[i] \in Summary /\ o[i] \in Summary
    BY <1>1
  <2> QED
    BY <2>1 DEF Summary
<1>3. \A i \in 1..Len(g) : /\ o[i].id = g[i].id /\ o[i].event_count = g[i].event_count
                           /\ g[i].phase = "Compiled" => o[i].phase = "Compiled"
  BY DEF Coupled, Mirrors
<1>4. PICK G : G = Captured(g)
  OBVIOUS
<1>5. PICK O : O = Captured(o)
  OBVIOUS
<1>6. /\ DOMAIN G = 1..Len(g) /\ DOMAIN O = 1..Len(g)
      /\ \A i \in 1..Len(g) : G[i] = IF g[i].phase = "Compiled" THEN g[i].event_count ELSE 0
      /\ \A i \in 1..Len(g) : O[i] = IF o[i].phase = "Compiled" THEN o[i].event_count ELSE 0
  BY <1>1, <1>4, <1>5 DEF Captured
<1>7. NatOn(G, 1..Len(g)) /\ NatOn(O, 1..Len(g)) /\ \A i \in 1..Len(g) : G[i] <= O[i]
  BY <1>2, <1>3, <1>6 DEF NatOn
<1>8. IsFiniteSet(1..Len(g))
  BY <1>1, FS_Interval
<1>9. SumFunctionOnSet(G, 1..Len(g)) <= SumFunctionOnSet(O, 1..Len(g))
  BY <1>7, <1>8, SumMonotone
<1>10. SumFunctionOnSet(G, 1..Len(g)) \in Nat /\ SumFunctionOnSet(O, 1..Len(g)) \in Nat
  BY <1>7, <1>8, SumNat
<1>11. CapturedEvents(g) = SumFunctionOnSet(G, 1..Len(g))
  BY <1>4, <1>6 DEF CapturedEvents, SumOver, SumFunction, Captured
<1>12. CapturedEvents(o) = SumFunctionOnSet(O, 1..Len(g))
  BY <1>5, <1>6 DEF CapturedEvents, SumOver, SumFunction, Captured
<1> QED
  BY <1>3, <1>9, <1>10, <1>11, <1>12

\* What the oracle replay reports bounds what the live picker captured from
\* above, site by site and in total, through any deoptimisations, provided that
\* the knobs set for the live process ask for no less than the defaults, which
\* are all that the replay knows.
THEOREM OracleUpperBoundHolds ==
    ASSUME KnobsNoLooser
    PROVE  Spec => []OracleUpperBound
<1>1. PickerInv => OracleUpperBound
  <2> SUFFICES ASSUME PickerInv
               PROVE  OracleUpperBound
    OBVIOUS
  <2>1. /\ \A i \in 1..Len(g_summaries) :
              /\ oracle[i].id = g_summaries[i].id
              /\ oracle[i].event_count = g_summaries[i].event_count
              /\ g_summaries[i].phase = "Compiled" => oracle[i].phase = "Compiled"
        /\ CapturedEvents(oracle) >= CapturedEvents(g_summaries)
    BY CapturedBound DEF PickerInv
  <2>2. DOMAIN g_summaries = 1..Len(g_summaries)
    BY DEF PickerInv, Coupled, Typed
  <2> QED
    BY <2>1, <2>2 DEF OracleUpperBound
<1> QED
  BY <1>1, PickerInvariant, PTL

-----------------------------------------------------------------------------
(* What was really seen, t, beside what the summaries say of it.            *)

Tallies == [allocs  : [Allocs -> Nat],
            frees   : [Sites -> [Frees -> Nat]],
            managed : [Sites -> [Frees -> Nat]]]

\* AllocsBy, FreesBy and PairsBy of any tallies t.
AllocTally(t, id) == [x \in Tids |-> SumFunctionOnSet(t.allocs,
                                         {a \in Allocs : a.site = id /\ a.tid = x})]
FreeTally(t, id) == [x \in Tids |->
    LET F == {f \in Frees : f.tid = x}
    IN  SumFunctionOnSet(t.frees[id], F) + SumFunctionOnSet(t.managed[id], F)]
PairTally(t, id) == [x \in Sites |-> SumFunctionOnSet(t.frees[id], {f \in Frees : f.site = x})]

\* The frees of all sites.
FreesOf(F) == SumFunctionOnSet([id \in Sites |-> SumFunction(F[id])], Sites)

\* The values of a function on a finite set are finitely many.
LEMMA FiniteValues ==
    ASSUME NEW S, IsFiniteSet(S), NEW fun, DOMAIN fun = S, fun = [x \in S |-> fun[x]]
    PROVE  IsFiniteSet({fun[x] : x \in S})
<1>1. fun \in Surjection(S, {fun[x] : x \in S})
  BY DEF Surjection
<1> QED
  BY <1>1, FS_Surjection

\* The events are of finitely many sites and threads.
LEMMA FiniteEvents ==
    IsFiniteSet(Allocs) /\ IsFiniteSet(Frees) /\ IsFiniteSet(Sites) /\ IsFiniteSet(Tids)
<1>1. IsFiniteSet(Allocs) /\ IsFiniteSet(Frees)
  BY PickerAssumption
<1>2. PICK asite : asite = [a \in Allocs |-> a.site]
  OBVIOUS
<1>3. PICK fsite : fsite = [f \in Frees |-> f.site]
  OBVIOUS
<1>4. PICK atid : atid = [a \in Allocs |-> a.tid]
  OBVIOUS
<1>5. PICK ftid : ftid = [f \in Frees |-> f.tid]
  OBVIOUS
<1>6. IsFiniteSet({asite[x] : x \in Allocs}) /\ IsFiniteSet({atid[x] : x \in Allocs})
  <2>1. IsFiniteSet({asite[x] : x \in Allocs})
    <3>1. DOMAIN asite = Allocs /\ asite = [x \in Allocs |-> asite[x]]
      BY <1>2
    <3> QED
      BY <1>1, <3>1, FiniteValues
  <2>2. IsFiniteSet({atid[x] : x \in Allocs})
    <3>1. DOMAIN atid = Allocs /\ atid = [x \in Allocs |-> atid[x]]
      BY <1>4
    <3> QED
      BY <1>1, <3>1, FiniteValues
  <2> QED
    BY <2>1, <2>2
<1>7. IsFiniteSet({fsite[x] : x \in Frees}) /\ IsFiniteSet({ftid[x] : x \in Frees})
  <2>1. IsFiniteSet({fsite[x] : x \in Frees})
    <3>1. DOMAIN fsite = Frees /\ fsite = [x \in Frees |-> fsite[x]]
      BY <1>3
    <3> QED
      BY <1>1, <3>1, FiniteValues
  <2>2. IsFiniteSet({ftid[x] : x \in Frees})
    <3>1. DOMAIN ftid = Frees /\ ftid = [x \in Frees |-> ftid[x]]
      BY <1>5
    <3> QED
      BY <1>1, <3>1, FiniteValues
  <2> QED
    BY <2>1, <2>2
<1>8. Sites = {asite[x] : x \in Allocs} \cup {fsite[x] : x \in Frees}
  BY <1>2, <1>3 DEF Sites
<1>9. Tids = {atid[x] : x \in Allocs} \cup {ftid[x] : x \in Frees}
  BY <1>4, <1>5 DEF Tids
<1>10. IsFiniteSet(Sites)
  BY <1>6, <1>7, <1>8, FS_Union
<1>11. IsFiniteSet(Tids)
  BY <1>6, <1>7, <1>9, FS_Union
<1> QED
  BY <1>1, <1>10, <1>11

\* The event x is counted in f, which becomes g.
OneMore(g, f, S, x) ==
    x \in S /\ NatOn(f, S) /\ g[x] = f[x] + 1 /\ \A y \in S \ {x} : g[y] = f[y]

\* A sum over some of the events grows if x is one of them.
LEMMA SumPart ==
    ASSUME NEW f, NEW g, NEW S, IsFiniteSet(S), NEW x, OneMore(g, f, S, x),
           NEW T \in SUBSET S
    PROVE  /\ SumFunctionOnSet(f, T) \in Nat /\ SumFunctionOnSet(g, T) \in Nat
           /\ x \in T => SumFunctionOnSet(g, T) = SumFunctionOnSet(f, T) + 1
           /\ x \notin T => SumFunctionOnSet(g, T) = SumFunctionOnSet(f, T)
<1>1. IsFiniteSet(T)
  BY FS_Subset
<1>2. NatOn(f, T) /\ NatOn(g, T)
  BY DEF NatOn, OneMore
<1>3. SumFunctionOnSet(f, T) \in Nat
  BY <1>1, <1>2, SumNat
<1>4. SumFunctionOnSet(g, T) \in Nat
  BY <1>1, <1>2, SumNat
<1>5. CASE x \in T
  <2>1. g[x] = f[x] + 1 /\ \A y \in T \ {x} : g[y] = f[y]
    BY DEF OneMore
  <2>2. SumFunctionOnSet(g, T) = SumFunctionOnSet(f, T) + 1
    BY <1>1, <1>2, <1>5, <2>1, SumBump
  <2> QED
    BY <1>3, <1>4, <1>5, <2>2
<1>6. CASE x \notin T
  <2>1. \A y \in T : f[y] = g[y]
    BY <1>6 DEF OneMore
  <2>2. SumFunctionOnSet(f, T) = SumFunctionOnSet(g, T)
    BY <1>1, <1>2, <2>1, SumSame
  <2> QED
    BY <1>3, <1>4, <1>6, <2>2
<1> QED
  BY <1>5, <1>6

\* One more event of x in a tally.
Bumped(d, c, x) ==
    /\ DOMAIN d = DOMAIN c /\ x \in DOMAIN c /\ d[x] = c[x] + 1
    /\ \A y \in DOMAIN c \ {x} : d[y] = c[y]

\* One more allocation, a, has been seen: T after t.
AllocSeen(T, t, a) ==
    /\ t \in Tallies /\ T \in Tallies /\ T.frees = t.frees /\ T.managed = t.managed
    /\ OneMore(T.allocs, t.allocs, Allocs, a)

\* It is in the tally of its site, and in no other.
LEMMA AllocSeenOK ==
    ASSUME NEW t, NEW T, NEW a \in Allocs, AllocSeen(T, t, a)
    PROVE  /\ Bumped(AllocTally(T, a.site), AllocTally(t, a.site), a.tid)
           /\ \A id : id # a.site => AllocTally(T, id) = AllocTally(t, id)
           /\ \A id : FreeTally(T, id) = FreeTally(t, id) /\ PairTally(T, id) = PairTally(t, id)
           /\ SumFunction(T.allocs) = SumFunction(t.allocs) + 1
<1> DEFINE Of(id, x) == {b \in Allocs : b.site = id /\ b.tid = x}
<1>1. T.frees = t.frees /\ T.managed = t.managed /\ OneMore(T.allocs, t.allocs, Allocs, a)
      /\ DOMAIN T.allocs = Allocs /\ DOMAIN t.allocs = Allocs
  BY DEF AllocSeen, Tallies
<1>2. \A id, x : Of(id, x) \in SUBSET Allocs
  OBVIOUS
<1>3. ASSUME NEW id, NEW x
      PROVE  /\ a \in Of(id, x) => SumFunctionOnSet(T.allocs, Of(id, x))
                                     = SumFunctionOnSet(t.allocs, Of(id, x)) + 1
             /\ a \notin Of(id, x) => SumFunctionOnSet(T.allocs, Of(id, x))
                                        = SumFunctionOnSet(t.allocs, Of(id, x))
  <2>1. PICK S : S = Of(id, x)
    OBVIOUS
  <2>2. S \in SUBSET Allocs
    BY <1>2, <2>1
  <2>3. /\ a \in S => SumFunctionOnSet(T.allocs, S) = SumFunctionOnSet(t.allocs, S) + 1
        /\ a \notin S => SumFunctionOnSet(T.allocs, S) = SumFunctionOnSet(t.allocs, S)
    BY <1>1, <2>2, FiniteEvents, SumPart
  <2> HIDE DEF Of
  <2> QED
    BY <2>1, <2>3
<1>4. \A id, x : a \in Of(id, x) <=> (id = a.site /\ x = a.tid)
  OBVIOUS
<1>5. \A id : /\ AllocTally(T, id) = [x \in Tids |-> SumFunctionOnSet(T.allocs, Of(id, x))]
              /\ AllocTally(t, id) = [x \in Tids |-> SumFunctionOnSet(t.allocs, Of(id, x))]
  BY DEF AllocTally
<1> HIDE DEF Of
<1>6. a.tid \in Tids
  BY DEF Tids
<1>7. Bumped(AllocTally(T, a.site), AllocTally(t, a.site), a.tid)
  <2>1. PICK d : d = AllocTally(T, a.site)
    OBVIOUS
  <2>2. PICK c : c = AllocTally(t, a.site)
    OBVIOUS
  <2>3. /\ DOMAIN d = Tids /\ DOMAIN c = Tids
        /\ \A x \in Tids : d[x] = SumFunctionOnSet(T.allocs, Of(a.site, x))
        /\ \A x \in Tids : c[x] = SumFunctionOnSet(t.allocs, Of(a.site, x))
    BY <1>5, <2>1, <2>2
  <2>4. d[a.tid] = c[a.tid] + 1 /\ \A y \in Tids \ {a.tid} : d[y] = c[y]
    BY <1>3, <1>4, <1>6, <2>3
  <2> QED
    BY <1>6, <2>1, <2>2, <2>3, <2>4 DEF Bumped
<1>8. ASSUME NEW id, id # a.site
      PROVE  AllocTally(T, id) = AllocTally(t, id)
  <2>1. \A x \in Tids : SumFunctionOnSet(T.allocs, Of(id, x)) = SumFunctionOnSet(t.allocs, Of(id, x))
    BY <1>3, <1>4, <1>8
  <2> QED
    BY <1>5, <2>1
<1>9. SumFunction(T.allocs) = SumFunction(t.allocs) + 1
  <2>1. SumFunctionOnSet(T.allocs, Allocs) = SumFunctionOnSet(t.allocs, Allocs) + 1
    BY <1>1, FiniteEvents, SumPart
  <2> QED
    BY <1>1, <2>1 DEF SumFunction
<1>10. \A id : FreeTally(T, id) = FreeTally(t, id) /\ PairTally(T, id) = PairTally(t, id)
  BY <1>1 DEF FreeTally, PairTally
<1> QED
  BY <1>7, <1>8, <1>9, <1>10

\* One more free, f, is charged to the site id: H after F.
FreeCounted(H, F, id, f) ==
    /\ F \in [Sites -> [Frees -> Nat]] /\ H \in [Sites -> [Frees -> Nat]]
    /\ id \in Sites /\ f \in Frees
    /\ OneMore(H[id], F[id], Frees, f) /\ \A j \in Sites \ {id} : H[j] = F[j]

\* The sums over all frees, of the site and in total, grow by one; a sum over
\* some of the site's frees grows if f is among them.
LEMMA FreeCountedOK ==
    ASSUME NEW H, NEW F, NEW id, NEW f, FreeCounted(H, F, id, f)
    PROVE  /\ SumFunction(F[id]) \in Nat /\ SumFunction(H[id]) = SumFunction(F[id]) + 1
           /\ FreesOf(F) \in Nat /\ FreesOf(H) = FreesOf(F) + 1
           /\ \A R \in SUBSET Frees :
                 /\ SumFunctionOnSet(F[id], R) \in Nat
                 /\ SumFunctionOnSet(H[id], R)
                      = SumFunctionOnSet(F[id], R) + (IF f \in R THEN 1 ELSE 0)
<1>1. /\ id \in Sites /\ f \in Frees /\ OneMore(H[id], F[id], Frees, f)
      /\ DOMAIN H[id] = Frees /\ DOMAIN F[id] = Frees
      /\ \A j \in Sites : DOMAIN F[j] = Frees /\ F[j] \in [Frees -> Nat]
      /\ \A j \in Sites \ {id} : H[j] = F[j]
  BY DEF FreeCounted
<1>2. IsFiniteSet(Frees) /\ IsFiniteSet(Sites)
  BY FiniteEvents
<1>3. ASSUME NEW R \in SUBSET Frees
      PROVE  /\ SumFunctionOnSet(F[id], R) \in Nat
             /\ SumFunctionOnSet(H[id], R)
                  = SumFunctionOnSet(F[id], R) + (IF f \in R THEN 1 ELSE 0)
  <2>1. /\ SumFunctionOnSet(F[id], R) \in Nat /\ SumFunctionOnSet(H[id], R) \in Nat
        /\ f \in R => SumFunctionOnSet(H[id], R) = SumFunctionOnSet(F[id], R) + 1
        /\ f \notin R => SumFunctionOnSet(H[id], R) = SumFunctionOnSet(F[id], R)
    BY <1>1, <1>2, SumPart
  <2> QED
    BY <2>1
<1>4. SumFunction(F[id]) \in Nat /\ SumFunction(H[id]) = SumFunction(F[id]) + 1
  BY <1>1, <1>3 DEF SumFunction
<1>5. \A j \in Sites : SumFunction(F[j]) \in Nat
  <2> SUFFICES ASSUME NEW j \in Sites
               PROVE  SumFunction(F[j]) \in Nat
    OBVIOUS
  <2>1. NatOn(F[j], Frees)
    BY <1>1 DEF NatOn
  <2>2. SumFunctionOnSet(F[j], Frees) \in Nat
    BY <1>2, <2>1, SumNat
  <2> QED
    BY <1>1, <2>2 DEF SumFunction
<1>6. PICK u : u = [j \in Sites |-> SumFunction(F[j])]
  OBVIOUS
<1>7. PICK v : v = [j \in Sites |-> SumFunction(H[j])]
  OBVIOUS
<1>8. OneMore(v, u, Sites, id)
  BY <1>1, <1>4, <1>5, <1>6, <1>7 DEF OneMore, NatOn
<1>9. /\ SumFunctionOnSet(u, Sites) \in Nat
      /\ SumFunctionOnSet(v, Sites) = SumFunctionOnSet(u, Sites) + 1
  BY <1>1, <1>2, <1>8, SumPart
<1>10. FreesOf(F) = SumFunctionOnSet(u, Sites) /\ FreesOf(H) = SumFunctionOnSet(v, Sites)
  BY <1>6, <1>7 DEF FreesOf
<1> QED
  BY <1>3, <1>4, <1>9, <1>10

\* A free of a libc chunk (how = "libc") or of a managed one has been seen.
FreeSeen(T, t, id, f, how) ==
    /\ t \in Tallies /\ T \in Tallies /\ T.allocs = t.allocs
    /\ IF how = "managed" THEN FreeCounted(T.managed, t.managed, id, f) /\ T.frees = t.frees
       ELSE FreeCounted(T.frees, t.frees, id, f) /\ T.managed = t.managed

\* Its thread's tally grows, of its site only, and so does its freeing site's if
\* it is a libc chunk's.
LEMMA FreeSeenOK ==
    ASSUME NEW t, NEW T, NEW id \in Sites, NEW f \in Frees, NEW how,
           FreeSeen(T, t, id, f, how)
    PROVE  /\ Bumped(FreeTally(T, id), FreeTally(t, id), f.tid)
           /\ IF how = "managed"
              THEN /\ PairTally(T, id) = PairTally(t, id)
                   /\ SumFunction(T.frees[id]) = SumFunction(t.frees[id])
              ELSE /\ Bumped(PairTally(T, id), PairTally(t, id), f.site)
                   /\ SumFunction(t.frees[id]) \in Nat
                   /\ SumFunction(T.frees[id]) = SumFunction(t.frees[id]) + 1
           /\ \A j : AllocTally(T, j) = AllocTally(t, j)
           /\ \A j \in Sites \ {id} : /\ FreeTally(T, j) = FreeTally(t, j)
                                      /\ PairTally(T, j) = PairTally(t, j)
                                      /\ SumFunction(T.frees[j]) = SumFunction(t.frees[j])
           /\ FreesOf(T.frees) + FreesOf(T.managed) = FreesOf(t.frees) + FreesOf(t.managed) + 1
<1> DEFINE By(x)  == {g \in Frees : g.tid = x}
           Via(x) == {g \in Frees : g.site = x}
<1>1. \A x : By(x) \in SUBSET Frees /\ Via(x) \in SUBSET Frees
  OBVIOUS
<1>2. f.tid \in Tids /\ f.site \in Sites
  BY DEF Tids, Sites
<1>3. \A x : (f \in By(x) <=> x = f.tid) /\ (f \in Via(x) <=> x = f.site)
  OBVIOUS
<1>4. \A j : /\ FreeTally(T, j) = [x \in Tids |-> SumFunctionOnSet(T.frees[j], By(x))
                                                 + SumFunctionOnSet(T.managed[j], By(x))]
             /\ FreeTally(t, j) = [x \in Tids |-> SumFunctionOnSet(t.frees[j], By(x))
                                                 + SumFunctionOnSet(t.managed[j], By(x))]
             /\ PairTally(T, j) = [x \in Sites |-> SumFunctionOnSet(T.frees[j], Via(x))]
             /\ PairTally(t, j) = [x \in Sites |-> SumFunctionOnSet(t.frees[j], Via(x))]
  BY DEF FreeTally, PairTally
<1> HIDE DEF By, Via
<1>5. \A j : AllocTally(T, j) = AllocTally(t, j)
  BY DEF AllocTally, FreeSeen
<1>6. ASSUME NEW F \in [Sites -> [Frees -> Nat]], NEW R \in SUBSET Frees
      PROVE  SumFunctionOnSet(F[id], R) \in Nat
  <2>1. NatOn(F[id], R) /\ IsFiniteSet(R)
    BY FiniteEvents, FS_Subset DEF NatOn
  <2> QED
    BY <2>1, SumNat
<1>7. ASSUME NEW F \in [Sites -> [Frees -> Nat]]
      PROVE  FreesOf(F) \in Nat
  <2>1. PICK u : u = [j \in Sites |-> SumFunction(F[j])]
    OBVIOUS
  <2>2. ASSUME NEW j \in Sites
        PROVE  SumFunction(F[j]) \in Nat
    <3>1. NatOn(F[j], Frees) /\ DOMAIN F[j] = Frees
      BY DEF NatOn
    <3>2. SumFunctionOnSet(F[j], Frees) \in Nat
      BY <3>1, FiniteEvents, SumNat
    <3> QED
      BY <3>1, <3>2 DEF SumFunction
  <2>3. NatOn(u, Sites)
    BY <2>1, <2>2 DEF NatOn
  <2>4. SumFunctionOnSet(u, Sites) \in Nat
    BY <2>3, FiniteEvents, SumNat
  <2> QED
    BY <2>1, <2>4 DEF FreesOf
<1>8. /\ t.frees \in [Sites -> [Frees -> Nat]] /\ t.managed \in [Sites -> [Frees -> Nat]]
      /\ T.frees \in [Sites -> [Frees -> Nat]] /\ T.managed \in [Sites -> [Frees -> Nat]]
  BY DEF FreeSeen, Tallies
<1>9. /\ FreesOf(t.frees) \in Nat /\ FreesOf(t.managed) \in Nat
      /\ FreesOf(T.frees) \in Nat /\ FreesOf(T.managed) \in Nat
  BY <1>7, <1>8
<1>10. CASE how = "managed"
  <2>1. FreeCounted(T.managed, t.managed, id, f) /\ T.frees = t.frees
    BY <1>10 DEF FreeSeen
  <2>2. /\ FreesOf(T.managed) = FreesOf(t.managed) + 1
        /\ \A R \in SUBSET Frees :
              /\ SumFunctionOnSet(t.managed[id], R) \in Nat
              /\ SumFunctionOnSet(T.managed[id], R)
                   = SumFunctionOnSet(t.managed[id], R) + (IF f \in R THEN 1 ELSE 0)
    BY <2>1, FreeCountedOK
  <2>3. \A j \in Sites \ {id} : T.managed[j] = t.managed[j]
    BY <2>1 DEF FreeCounted
  <2>4. ASSUME NEW x \in Tids
        PROVE  FreeTally(T, id)[x] = FreeTally(t, id)[x] + (IF x = f.tid THEN 1 ELSE 0)
    <3>1. SumFunctionOnSet(T.managed[id], By(x))
             = SumFunctionOnSet(t.managed[id], By(x)) + (IF x = f.tid THEN 1 ELSE 0)
      BY <1>1, <1>3, <2>2
    <3>2. SumFunctionOnSet(t.frees[id], By(x)) \in Nat
          /\ SumFunctionOnSet(t.managed[id], By(x)) \in Nat
      BY <1>1, <1>6, <1>8
    <3> QED
      BY <1>4, <2>1, <3>1, <3>2
  <2>5. ASSUME NEW x \in Tids
        PROVE  FreeTally(t, id)[x] \in Nat
    <3>1. SumFunctionOnSet(t.frees[id], By(x)) \in Nat
          /\ SumFunctionOnSet(t.managed[id], By(x)) \in Nat
      BY <1>1, <1>6, <1>8
    <3> QED
      BY <1>4, <3>1
  <2>6. Bumped(FreeTally(T, id), FreeTally(t, id), f.tid)
    <3>1. DOMAIN FreeTally(T, id) = Tids /\ DOMAIN FreeTally(t, id) = Tids
      BY <1>4
    <3> QED
      BY <1>2, <2>4, <2>5, <3>1 DEF Bumped
  <2>7. PairTally(T, id) = PairTally(t, id)
    BY <1>4, <2>1
  <2>8. \A j \in Sites \ {id} : FreeTally(T, j) = FreeTally(t, j) /\ PairTally(T, j) = PairTally(t, j)
    BY <1>4, <2>1, <2>3
  <2>9. FreesOf(T.frees) + FreesOf(T.managed) = FreesOf(t.frees) + FreesOf(t.managed) + 1
    BY <1>9, <2>1, <2>2
  <2> QED
    BY <1>5, <1>10, <2>1, <2>6, <2>7, <2>8, <2>9
<1>11. CASE how # "managed"
  <2>1. FreeCounted(T.frees, t.frees, id, f) /\ T.managed = t.managed
    BY <1>11 DEF FreeSeen
  <2>2. /\ SumFunction(t.frees[id]) \in Nat
        /\ SumFunction(T.frees[id]) = SumFunction(t.frees[id]) + 1
        /\ FreesOf(T.frees) = FreesOf(t.frees) + 1
        /\ \A R \in SUBSET Frees :
              /\ SumFunctionOnSet(t.frees[id], R) \in Nat
              /\ SumFunctionOnSet(T.frees[id], R)
                   = SumFunctionOnSet(t.frees[id], R) + (IF f \in R THEN 1 ELSE 0)
    BY <2>1, FreeCountedOK
  <2>3. \A j \in Sites \ {id} : T.frees[j] = t.frees[j]
    BY <2>1 DEF FreeCounted
  <2>4. ASSUME NEW x \in Tids
        PROVE  FreeTally(T, id)[x] = FreeTally(t, id)[x] + (IF x = f.tid THEN 1 ELSE 0)
    <3>1. SumFunctionOnSet(T.frees[id], By(x))
             = SumFunctionOnSet(t.frees[id], By(x)) + (IF x = f.tid THEN 1 ELSE 0)
      BY <1>1, <1>3, <2>2
    <3>2. SumFunctionOnSet(t.frees[id], By(x)) \in Nat
          /\ SumFunctionOnSet(t.managed[id], By(x)) \in Nat
      BY <1>1, <1>6, <1>8
    <3> QED
      BY <1>4, <2>1, <3>1, <3>2
  <2>5. ASSUME NEW x \in Tids
        PROVE  FreeTally(t, id)[x] \in Nat
    <3>1. SumFunctionOnSet(t.frees[id], By(x)) \in Nat
          /\ SumFunctionOnSet(t.managed[id], By(x)) \in Nat
      BY <1>1, <1>6, <1>8
    <3> QED
      BY <1>4, <3>1
  <2>6. Bumped(FreeTally(T, id), FreeTally(t, id), f.tid)
    <3>1. DOMAIN FreeTally(T, id) = Tids /\ DOMAIN FreeTally(t, id) = Tids
      BY <1>4
    <3> QED
      BY <1>2, <2>4, <2>5, <3>1 DEF Bumped
  <2>7. Bumped(PairTally(T, id), PairTally(t, id), f.site)
    <3>1. DOMAIN PairTally(T, id) = Sites /\ DOMAIN PairTally(t, id) = Sites
      BY <1>4
    <3>2. ASSUME NEW x \in Sites
          PROVE  /\ PairTally(T, id)[x] = PairTally(t, id)[x] + (IF x = f.site THEN 1 ELSE 0)
                 /\ PairTally(t, id)[x] \in Nat
      BY <1>1, <1>3, <1>4, <2>2
    <3> QED
      BY <1>2, <3>1, <3>2 DEF Bumped
  <2>8. \A j \in Sites \ {id} : FreeTally(T, j) = FreeTally(t, j) /\ PairTally(T, j) = PairTally(t, j)
    BY <1>4, <2>1, <2>3
  <2>9. FreesOf(T.frees) + FreesOf(T.managed) = FreesOf(t.frees) + FreesOf(t.managed) + 1
    BY <1>9, <2>1, <2>2
  <2> QED
    BY <1>5, <1>11, <2>2, <2>3, <2>6, <2>7, <2>8, <2>9
<1> QED
  BY <1>10, <1>11

\* What is true of the summary s when t has been seen: its votes lead, and the
\* frees charged to it by address and the addresses on its stack are covered by
\* its allocations.
Tallied(s, t) ==
    /\ Leads(s.alloc_dist, AllocTally(t, s.id), s.event_count)
    /\ Leads(s.free_dist, FreeTally(t, s.id), s.free_count)
    /\ Leads(s.top_pair, PairTally(t, s.id), SumFunction(t.frees[s.id]))
    /\ SumFunction(t.frees[s.id]) + Len(s.lifo_stack) <= s.event_count

\* Nothing has been seen of the site.
Untouched(t, id) ==
    /\ \A a \in Allocs : a.site = id => t.allocs[a] = 0
    /\ \A f \in Frees : t.frees[id][f] = 0 /\ t.managed[id][f] = 0

\* Before the first event nobody leads.
LEMMA NobodyLeads ==
    ASSUME NEW c, NEW nobody, \A x \in DOMAIN c : c[x] = 0
    PROVE  Leads(NoVotes(nobody), c, 0)
<1>1. NoVotes(nobody).score = 0
  BY DEF NoVotes
<1> QED
  BY <1>1 DEF Leads

\* A site of which nothing has been seen starts with a new summary.
LEMMA NewTallied ==
    ASSUME NEW id \in Sites, NEW t \in Tallies, Untouched(t, id)
    PROVE  Tallied(NewSummary(id), t)
<1>1. PICK s : s = NewSummary(id)
  OBVIOUS
<1>2. /\ s.id = id /\ s.event_count = 0 /\ s.free_count = 0 /\ s.lifo_stack = <<>>
      /\ s.alloc_dist = NoVotes(NoTid) /\ s.free_dist = NoVotes(NoTid)
      /\ s.top_pair = NoVotes(NoSite)
  BY <1>1, NewSummaryCoupled
<1>3. \A x \in Tids : AllocTally(t, id)[x] = 0
  <2> SUFFICES ASSUME NEW x \in Tids
               PROVE  AllocTally(t, id)[x] = 0
    OBVIOUS
  <2>1. PICK S : S = {a \in Allocs : a.site = id /\ a.tid = x}
    OBVIOUS
  <2>2. \A a \in S : t.allocs[a] = 0
    BY <2>1 DEF Untouched
  <2>3. IsFiniteSet(S)
    BY <2>1, FiniteEvents, FS_Subset
  <2>4. SumFunctionOnSet(t.allocs, S) = 0
    BY <2>2, <2>3, SumZero
  <2> QED
    BY <2>1, <2>4 DEF AllocTally
<1>4. ASSUME NEW S \in SUBSET Frees
      PROVE  SumFunctionOnSet(t.frees[id], S) = 0 /\ SumFunctionOnSet(t.managed[id], S) = 0
  <2>1. /\ \A f \in S : t.frees[id][f] = 0
        /\ \A f \in S : t.managed[id][f] = 0
    BY DEF Untouched
  <2>2. IsFiniteSet(S)
    BY FiniteEvents, FS_Subset
  <2>3. SumFunctionOnSet(t.frees[id], S) = 0
    BY <2>1, <2>2, SumZero
  <2>4. SumFunctionOnSet(t.managed[id], S) = 0
    BY <2>1, <2>2, SumZero
  <2> QED
    BY <2>3, <2>4
<1>5. \A x \in Tids : FreeTally(t, id)[x] = 0
  <2> SUFFICES ASSUME NEW x \in Tids
               PROVE  FreeTally(t, id)[x] = 0
    OBVIOUS
  <2>1. PICK S : S = {f \in Frees : f.tid = x}
    OBVIOUS
  <2>2. SumFunctionOnSet(t.frees[id], S) = 0 /\ SumFunctionOnSet(t.managed[id], S) = 0
    BY <1>4, <2>1
  <2> QED
    BY <2>1, <2>2 DEF FreeTally
<1>6. \A x \in Sites : PairTally(t, id)[x] = 0
  <2> SUFFICES ASSUME NEW x \in Sites
               PROVE  PairTally(t, id)[x] = 0
    OBVIOUS
  <2>1. PICK S : S = {f \in Frees : f.site = x}
    OBVIOUS
  <2>2. SumFunctionOnSet(t.frees[id], S) = 0
    BY <1>4, <2>1
  <2> QED
    BY <2>1, <2>2 DEF PairTally
<1>7. SumFunction(t.frees[id]) = 0
  <2>1. DOMAIN t.frees[id] = Frees
    BY DEF Tallies
  <2> QED
    BY <1>4, <2>1 DEF SumFunction
<1>8. DOMAIN AllocTally(t, id) = Tids /\ DOMAIN FreeTally(t, id) = Tids
      /\ DOMAIN PairTally(t, id) = Sites
  BY DEF AllocTally, FreeTally, PairTally
<1>9. Leads(NoVotes(NoTid), AllocTally(t, id), 0)
  BY <1>3, <1>8, NobodyLeads
<1>10. Leads(NoVotes(NoTid), FreeTally(t, id), 0)
  BY <1>5, <1>8, NobodyLeads
<1>11. Leads(NoVotes(NoSite), PairTally(t, id), 0)
  BY <1>6, <1>8, NobodyLeads
<1>12. Len(s.lifo_stack) = 0
  BY <1>2
<1> QED
  BY <1>1, <1>2, <1>7, <1>9, <1>10, <1>11, <1>12 DEF Tallied

\* A vote on one more event, which is in the tally.
LEMMA BumpedLeads ==
    ASSUME NEW S, NEW v \in Votes(S), NEW c, NEW d, NEW n, Leads(v, c, n),
           NEW x \in S, Bumped(d, c, x)
    PROVE  Leads(Vote(v, x), d, n + 1)
<1>1. v \in [top : S, score : Nat]
  BY DEF Votes
<1>2. x \in DOMAIN c /\ DOMAIN d = DOMAIN c /\ d[x] = c[x] + 1
      /\ \A y \in DOMAIN c \ {x} : d[y] = c[y]
  BY DEF Bumped
<1> QED
  BY <1>1, <1>2, VoteLeads

\* The stack is as long as its length says.
LEMMA StackLen ==
    ASSUME NEW s \in Summary
    PROVE  /\ s.lifo_stack \in Stacks /\ Len(s.lifo_stack) \in Nat
           /\ s.event_count \in Nat /\ s.free_count \in Nat
           /\ s.alloc_dist \in TidVotes /\ s.free_dist \in TidVotes /\ s.top_pair \in SiteVotes
           /\ s.id \in Sites
  BY DEF Summary, Stacks

\* An allocation is recorded and seen.
LEMMA TalliedAlloc ==
    ASSUME NEW s \in Summary, NEW r \in Summary, NEW t, NEW T, NEW a \in Allocs,
           AllocSeen(T, t, a), Tallied(s, t), s.id = a.site, r.id = s.id,
           r.event_count = s.event_count + 1, r.free_count = s.free_count,
           r.alloc_dist = Vote(s.alloc_dist, a.tid), r.free_dist = s.free_dist,
           r.lifo_stack = PushLifo(s.lifo_stack, a.ptr), r.top_pair = s.top_pair
    PROVE  Tallied(r, T)
<1>1. /\ Bumped(AllocTally(T, a.site), AllocTally(t, a.site), a.tid)
      /\ FreeTally(T, a.site) = FreeTally(t, a.site) /\ PairTally(T, a.site) = PairTally(t, a.site)
      /\ T.frees = t.frees
  BY AllocSeenOK DEF AllocSeen
<1>2. s.alloc_dist \in Votes(Tids \cup {NoTid}) /\ a.tid \in Tids \cup {NoTid}
  BY StackLen DEF TidVotes, Tids
<1>3. Leads(s.alloc_dist, AllocTally(t, a.site), s.event_count)
  BY DEF Tallied
<1>4. Leads(Vote(s.alloc_dist, a.tid), AllocTally(T, a.site), s.event_count + 1)
  BY <1>1, <1>2, <1>3, BumpedLeads
<1>5. Len(r.lifo_stack) <= Len(s.lifo_stack) + 1 /\ Len(s.lifo_stack) \in Nat
      /\ Len(r.lifo_stack) \in Nat /\ s.event_count \in Nat
  BY StackLen, PushLifoOK, PickerAssumption
<1>6. /\ Leads(s.top_pair, PairTally(t, a.site), SumFunction(t.frees[a.site]))
      /\ SumFunction(t.frees[a.site]) + Len(s.lifo_stack) <= s.event_count
      /\ Leads(s.free_dist, FreeTally(t, a.site), s.free_count)
  BY DEF Tallied
<1>7. SumFunction(t.frees[a.site]) \in Nat
  BY <1>6 DEF Leads
<1>8. SumFunction(T.frees[r.id]) + Len(r.lifo_stack) <= r.event_count
  <2>1. PICK m : m = SumFunction(t.frees[a.site])
    OBVIOUS
  <2>2. SumFunction(T.frees[r.id]) = m /\ m \in Nat /\ m + Len(s.lifo_stack) <= s.event_count
    BY <1>1, <1>6, <1>7, <2>1
  <2> QED
    BY <1>5, <2>2
<1> QED
  BY <1>1, <1>4, <1>6, <1>8 DEF Tallied

\* A free is charged to the site, by address or by its segment, and seen.
LEMMA TalliedFree ==
    ASSUME NEW s \in Summary, NEW r \in Summary, NEW t, NEW T, NEW f \in Frees, NEW how,
           FreeSeen(T, t, s.id, f, how), Tallied(s, t), r.id = s.id,
           r.event_count = s.event_count, r.free_count = s.free_count + 1,
           r.alloc_dist = s.alloc_dist, r.free_dist = Vote(s.free_dist, f.tid),
           how = "managed" => r.lifo_stack = s.lifo_stack /\ r.top_pair = s.top_pair,
           how # "managed" => /\ Len(r.lifo_stack) + 1 = Len(s.lifo_stack)
                       /\ r.top_pair = Vote(s.top_pair, f.site)
    PROVE  Tallied(r, T)
<1>1. PICK id \in Sites : id = s.id
  BY StackLen
<1>2. /\ Bumped(FreeTally(T, id), FreeTally(t, id), f.tid)
      /\ IF how = "managed"
         THEN /\ PairTally(T, id) = PairTally(t, id)
              /\ SumFunction(T.frees[id]) = SumFunction(t.frees[id])
         ELSE /\ Bumped(PairTally(T, id), PairTally(t, id), f.site)
              /\ SumFunction(t.frees[id]) \in Nat
              /\ SumFunction(T.frees[id]) = SumFunction(t.frees[id]) + 1
      /\ AllocTally(T, id) = AllocTally(t, id)
  BY <1>1, FreeSeenOK
<1>3. /\ s.free_dist \in Votes(Tids \cup {NoTid}) /\ f.tid \in Tids \cup {NoTid}
      /\ s.top_pair \in Votes(Sites \cup {NoSite}) /\ f.site \in Sites \cup {NoSite}
  BY StackLen DEF TidVotes, SiteVotes, Tids, Sites
<1>4. /\ Leads(s.alloc_dist, AllocTally(t, id), s.event_count)
      /\ Leads(s.free_dist, FreeTally(t, id), s.free_count)
      /\ Leads(s.top_pair, PairTally(t, id), SumFunction(t.frees[id]))
      /\ SumFunction(t.frees[id]) + Len(s.lifo_stack) <= s.event_count
  BY <1>1 DEF Tallied
<1>5. Leads(Vote(s.free_dist, f.tid), FreeTally(T, id), s.free_count + 1)
  BY <1>2, <1>3, <1>4, BumpedLeads
<1>6. SumFunction(t.frees[id]) \in Nat /\ Len(s.lifo_stack) \in Nat /\ Len(r.lifo_stack) \in Nat
      /\ s.event_count \in Nat
  BY <1>4, StackLen DEF Leads
<1>7. CASE how = "managed"
  <2>1. r.lifo_stack = s.lifo_stack /\ r.top_pair = s.top_pair
        /\ PairTally(T, id) = PairTally(t, id)
        /\ SumFunction(T.frees[id]) = SumFunction(t.frees[id])
    BY <1>2, <1>7
  <2> QED
    BY <1>1, <1>2, <1>4, <1>5, <2>1 DEF Tallied
<1>8. CASE how # "managed"
  <2>1. PICK m : m = SumFunction(t.frees[id])
    OBVIOUS
  <2>2. /\ Len(r.lifo_stack) + 1 = Len(s.lifo_stack) /\ r.top_pair = Vote(s.top_pair, f.site)
        /\ Bumped(PairTally(T, id), PairTally(t, id), f.site)
        /\ SumFunction(T.frees[id]) = m + 1 /\ m \in Nat
        /\ m + Len(s.lifo_stack) <= s.event_count
        /\ Leads(s.top_pair, PairTally(t, id), m)
    BY <1>2, <1>4, <1>6, <1>8, <2>1
  <2>3. Leads(Vote(s.top_pair, f.site), PairTally(T, id), m + 1)
    BY <1>3, <2>2, BumpedLeads
  <2>4. m + 1 + Len(r.lifo_stack) <= s.event_count
    <3>1. ASSUME NEW p \in Nat, NEW q \in Nat, p + 1 = q, m + q <= s.event_count
          PROVE  m + 1 + p <= s.event_count
      BY <1>6, <2>2, <3>1
    <3> QED
      BY <1>6, <2>2, <3>1
  <2> QED
    BY <1>1, <1>2, <1>4, <1>5, <2>2, <2>3, <2>4 DEF Tallied
<1> QED
  BY <1>7, <1>8

\* A summary is in order if the tallies of its site are the same and so is what
\* it says of them.
LEMMA TalliedSame ==
    ASSUME NEW s, NEW r, NEW t, NEW T, Tallied(s, t), r.id = s.id,
           AllocTally(T, s.id) = AllocTally(t, s.id), FreeTally(T, s.id) = FreeTally(t, s.id),
           PairTally(T, s.id) = PairTally(t, s.id),
           SumFunction(T.frees[s.id]) = SumFunction(t.frees[s.id]),
           r.event_count = s.event_count, r.free_count = s.free_count,
           r.alloc_dist = s.alloc_dist, r.free_dist = s.free_dist,
           r.lifo_stack = s.lifo_stack, r.top_pair = s.top_pair
    PROVE  Tallied(r, T)
  BY DEF Tallied

-----------------------------------------------------------------------------
(* The tallies and the table.                                               *)

Events(g)  == [i \in DOMAIN g |-> g[i].event_count]
FreesIn(g) == [i \in DOMAIN g |-> g[i].free_count]

\* No event is missing from the totals of the table, and none is in them twice.
TotalsOK(g, t) ==
    /\ SumFunction(Events(g)) = SumFunction(t.allocs)
    /\ SumFunction(FreesIn(g)) = FreesOf(t.frees) + FreesOf(t.managed)

\* The table g when t has been seen.
TallyInv(g, t) ==
    /\ t \in Tallies /\ TotalsOK(g, t)
    /\ \A i \in 1..Len(g) : Tallied(g[i], t)
    /\ \A id \in Sites : (\A i \in 1..Len(g) : g[i].id # id) => Untouched(t, id)

\* The columns of a table are counts.
LEMMA Columns ==
    ASSUME NEW g \in Seq(Summary)
    PROVE  /\ Len(g) \in Nat /\ IsFiniteSet(1..Len(g))
           /\ DOMAIN Events(g) = 1..Len(g) /\ DOMAIN FreesIn(g) = 1..Len(g)
           /\ \A i \in 1..Len(g) : Events(g)[i] = g[i].event_count /\ FreesIn(g)[i] = g[i].free_count
           /\ NatOn(Events(g), 1..Len(g)) /\ NatOn(FreesIn(g), 1..Len(g))
<1>1. Len(g) \in Nat /\ DOMAIN g = 1..Len(g) /\ \A i \in 1..Len(g) : g[i] \in Summary
  OBVIOUS
<1>2. IsFiniteSet(1..Len(g))
  BY <1>1, FS_Interval
<1>3. \A i \in 1..Len(g) : g[i].event_count \in Nat /\ g[i].free_count \in Nat
  BY <1>1 DEF Summary
<1> QED
  BY <1>1, <1>2, <1>3 DEF Events, FreesIn, NatOn

\* A column's sum when one entry is replaced.
LEMMA ColumnsUpdated ==
    ASSUME NEW g \in Seq(Summary), NEW G, NEW i \in 1..Len(g), NEW r \in Summary,
           Updated(G, g, i, r)
    PROVE  /\ r.event_count = g[i].event_count + 1 =>
                 SumFunction(Events(G)) = SumFunction(Events(g)) + 1
           /\ r.event_count = g[i].event_count => SumFunction(Events(G)) = SumFunction(Events(g))
           /\ r.free_count = g[i].free_count + 1 =>
                 SumFunction(FreesIn(G)) = SumFunction(FreesIn(g)) + 1
           /\ r.free_count = g[i].free_count => SumFunction(FreesIn(G)) = SumFunction(FreesIn(g))
<1>1. /\ G \in Seq(Summary) /\ Len(G) = Len(g) /\ G[i] = r
      /\ \A j \in 1..Len(g) \ {i} : G[j] = g[j]
  BY DEF Updated
<1>2. PICK S : S = 1..Len(g)
  OBVIOUS
<1>3. PICK u : u = Events(g)
  OBVIOUS
<1>4. PICK v : v = Events(G)
  OBVIOUS
<1>5. PICK p : p = FreesIn(g)
  OBVIOUS
<1>6. PICK q : q = FreesIn(G)
  OBVIOUS
<1>7. /\ IsFiniteSet(S) /\ i \in S
      /\ DOMAIN u = S /\ DOMAIN v = S /\ DOMAIN p = S /\ DOMAIN q = S
      /\ NatOn(u, S) /\ NatOn(p, S)
      /\ u[i] = g[i].event_count /\ v[i] = r.event_count
      /\ p[i] = g[i].free_count /\ q[i] = r.free_count
      /\ \A j \in S \ {i} : u[j] = v[j] /\ p[j] = q[j]
  BY <1>1, <1>2, <1>3, <1>4, <1>5, <1>6, Columns
<1>8. /\ SumFunction(Events(g)) = SumFunctionOnSet(u, S)
      /\ SumFunction(Events(G)) = SumFunctionOnSet(v, S)
      /\ SumFunction(FreesIn(g)) = SumFunctionOnSet(p, S)
      /\ SumFunction(FreesIn(G)) = SumFunctionOnSet(q, S)
  BY <1>3, <1>4, <1>5, <1>6, <1>7 DEF SumFunction
<1>9. ASSUME v[i] = u[i] + 1
      PROVE  SumFunctionOnSet(v, S) = SumFunctionOnSet(u, S) + 1
  BY <1>7, <1>9, SumBump
<1>10. ASSUME q[i] = p[i] + 1
       PROVE  SumFunctionOnSet(q, S) = SumFunctionOnSet(p, S) + 1
  BY <1>7, <1>10, SumBump
<1>11. ASSUME v[i] = u[i]
       PROVE  SumFunctionOnSet(u, S) = SumFunctionOnSet(v, S)
  <2>1. \A j \in S : u[j] = v[j]
    BY <1>7, <1>11
  <2> QED
    BY <1>7, <2>1, SumSame
<1>12. ASSUME q[i] = p[i]
       PROVE  SumFunctionOnSet(p, S) = SumFunctionOnSet(q, S)
  <2>1. \A j \in S : p[j] = q[j]
    BY <1>7, <1>12
  <2> QED
    BY <1>7, <2>1, SumSame
<1> QED
  BY <1>7, <1>8, <1>9, <1>10, <1>11, <1>12

\* A site is put on record before anything has been seen of it.
LEMMA TallyCreate ==
    ASSUME NEW g, Typed(g), NEW t, TallyInv(g, t), NEW id \in Sites
    PROVE  TallyInv(FindOrCreate(g, id), t)
<1>1. PICK A : A = FindOrCreate(g, id)
  OBVIOUS
<1>2. /\ Typed(A)
      /\ \/ A = g
         \/ /\ Find(g, id) = 0 /\ Len(A) = Len(g) + 1 /\ A[Len(g) + 1] = NewSummary(id)
            /\ \A j \in 1..Len(g) : A[j] = g[j]
  BY <1>1, FindOrCreateOK
<1>3. g \in Seq(Summary) /\ A \in Seq(Summary) /\ Len(g) \in Nat
  BY <1>2 DEF Typed
<1>4. CASE A = g
  BY <1>1, <1>4
<1>5. CASE /\ Find(g, id) = 0 /\ Len(A) = Len(g) + 1 /\ A[Len(g) + 1] = NewSummary(id)
           /\ \A j \in 1..Len(g) : A[j] = g[j]
  <2>1. \A j \in 1..Len(g) : g[j].id # id
    BY <1>3, <1>5, FindOK
  <2>2. t \in Tallies /\ Untouched(t, id) /\ TotalsOK(g, t)
    BY <2>1 DEF TallyInv
  <2>3. Tallied(NewSummary(id), t)
    BY <2>2, NewTallied
  <2>4. PICK n : n = Len(g) + 1
    OBVIOUS
  <2>5. n \in 1..n /\ (1..n) \ {n} = 1..Len(g) /\ 1..n = (1..Len(g)) \cup {n} /\ n \in Nat
    BY <1>3, <2>4
  <2>6. NewSummary(id).event_count = 0 /\ NewSummary(id).free_count = 0
    BY NewSummaryCoupled
  <2>7. SumFunction(Events(A)) = SumFunction(Events(g))
    <3>1. PICK u : u = Events(g)
      OBVIOUS
    <3>2. PICK v : v = Events(A)
      OBVIOUS
    <3>3. /\ DOMAIN u = 1..Len(g) /\ DOMAIN v = 1..n /\ IsFiniteSet(1..n) /\ IsFiniteSet(1..Len(g))
          /\ NatOn(v, 1..n) /\ NatOn(u, 1..Len(g)) /\ v[n] = 0
          /\ \A j \in 1..Len(g) : u[j] = v[j]
      BY <1>3, <1>5, <2>4, <2>5, <2>6, <3>1, <3>2, Columns
    <3>4. SumFunctionOnSet(v, 1..n) = v[n] + SumFunctionOnSet(v, (1..n) \ {n})
      BY <2>5, <3>3, SumTakeOut
    <3>5. SumFunctionOnSet(u, 1..Len(g)) = SumFunctionOnSet(v, 1..Len(g))
      BY <3>3, SumSame
    <3>6. SumFunctionOnSet(u, 1..Len(g)) \in Nat
      BY <3>3, SumNat
    <3>7. SumFunctionOnSet(v, 1..n) = SumFunctionOnSet(u, 1..Len(g))
      <4>1. (1..n) \ {n} = 1..Len(g)
        BY <2>5
      <4>2. SumFunctionOnSet(v, (1..n) \ {n}) = SumFunctionOnSet(v, 1..Len(g))
        BY <4>1, Zenon
      <4> QED
        BY <3>3, <3>4, <3>5, <3>6, <4>2
    <3> QED
      BY <3>1, <3>2, <3>3, <3>7 DEF SumFunction
  <2>8. SumFunction(FreesIn(A)) = SumFunction(FreesIn(g))
    <3>1. PICK u : u = FreesIn(g)
      OBVIOUS
    <3>2. PICK v : v = FreesIn(A)
      OBVIOUS
    <3>3. /\ DOMAIN u = 1..Len(g) /\ DOMAIN v = 1..n /\ IsFiniteSet(1..n) /\ IsFiniteSet(1..Len(g))
          /\ NatOn(v, 1..n) /\ NatOn(u, 1..Len(g)) /\ v[n] = 0
          /\ \A j \in 1..Len(g) : u[j] = v[j]
      BY <1>3, <1>5, <2>4, <2>5, <2>6, <3>1, <3>2, Columns
    <3>4. SumFunctionOnSet(v, 1..n) = v[n] + SumFunctionOnSet(v, (1..n) \ {n})
      BY <2>5, <3>3, SumTakeOut
    <3>5. SumFunctionOnSet(u, 1..Len(g)) = SumFunctionOnSet(v, 1..Len(g))
      BY <3>3, SumSame
    <3>6. SumFunctionOnSet(u, 1..Len(g)) \in Nat
      BY <3>3, SumNat
    <3>7. SumFunctionOnSet(v, 1..n) = SumFunctionOnSet(u, 1..Len(g))
      <4>1. (1..n) \ {n} = 1..Len(g)
        BY <2>5
      <4>2. SumFunctionOnSet(v, (1..n) \ {n}) = SumFunctionOnSet(v, 1..Len(g))
        BY <4>1, Zenon
      <4> QED
        BY <3>3, <3>4, <3>5, <3>6, <4>2
    <3> QED
      BY <3>1, <3>2, <3>3, <3>7 DEF SumFunction
  <2>9. TotalsOK(A, t)
    BY <2>2, <2>7, <2>8 DEF TotalsOK
  <2>10. \A i \in 1..Len(A) : Tallied(A[i], t)
    BY <1>5, <2>3, <2>4, <2>5 DEF TallyInv
  <2>11. ASSUME NEW j \in Sites, \A i \in 1..Len(A) : A[i].id # j
         PROVE  Untouched(t, j)
    <3>1. \A i \in 1..Len(g) : i \in 1..Len(A) /\ A[i] = g[i]
      BY <1>5, <2>4, <2>5
    <3> QED
      BY <2>11, <3>1 DEF TallyInv
  <2>12. TallyInv(A, t)
    BY <2>2, <2>9, <2>10, <2>11 DEF TallyInv
  <2> QED
    BY <1>1, <2>12
<1> QED
  BY <1>2, <1>4, <1>5

\* A summary is replaced by one that tallies with what has been seen meanwhile.
LEMMA TallyUpdate ==
    ASSUME NEW g, Typed(g), NEW t, TallyInv(g, t), NEW i \in 1..Len(g), NEW r, NEW G,
           Updated(G, g, i, r), r.id = g[i].id, NEW T \in Tallies, TotalsOK(G, T), Tallied(r, T),
           \A id \in Sites \ {r.id} :
              /\ AllocTally(T, id) = AllocTally(t, id) /\ FreeTally(T, id) = FreeTally(t, id)
              /\ PairTally(T, id) = PairTally(t, id)
              /\ SumFunction(T.frees[id]) = SumFunction(t.frees[id])
              /\ Untouched(t, id) => Untouched(T, id)
    PROVE  TallyInv(G, T)
<1>1. /\ g \in Seq(Summary) /\ Len(G) = Len(g) /\ G[i] = r
      /\ \A j \in 1..Len(g) \ {i} : G[j] = g[j]
  BY DEF Updated, Typed
<1>2. ASSUME NEW j \in 1..Len(G)
      PROVE  Tallied(G[j], T)
  <2>1. CASE j = i
    BY <1>1, <2>1
  <2>2. CASE j # i
    <3>1. G[j] = g[j] /\ Tallied(g[j], t) /\ g[j].id # r.id /\ g[j] \in Summary
      BY <1>1, <2>2 DEF Typed, TallyInv
    <3>2. g[j].id \in Sites \ {r.id}
      BY <3>1, StackLen
    <3> QED
      BY <3>1, <3>2, TalliedSame
  <2> QED
    BY <2>1, <2>2
<1>3. ASSUME NEW id \in Sites, \A j \in 1..Len(G) : G[j].id # id
      PROVE  Untouched(T, id)
  <2>1. id # r.id /\ \A j \in 1..Len(g) : g[j].id # id
    BY <1>1, <1>3
  <2> QED
    BY <2>1 DEF TallyInv
<1> QED
  BY <1>2, <1>3 DEF TallyInv

\* What is seen is what the events add to the tallies.
LEMMA SeenIs ==
    ASSUME NEW t \in Tallies
    PROVE  /\ \A a \in Allocs : AllocSeen([t EXCEPT !.allocs[a] = @ + 1], t, a)
           /\ \A id \in Sites, f \in Frees :
                 /\ FreeSeen([t EXCEPT !.frees[id][f] = @ + 1], t, id, f, "libc")
                 /\ FreeSeen([t EXCEPT !.managed[id][f] = @ + 1], t, id, f, "managed")
<1>1. /\ t.allocs \in [Allocs -> Nat] /\ t.frees \in [Sites -> [Frees -> Nat]]
      /\ t.managed \in [Sites -> [Frees -> Nat]]
  BY DEF Tallies
<1>2. ASSUME NEW a \in Allocs
      PROVE  AllocSeen([t EXCEPT !.allocs[a] = @ + 1], t, a)
  <2>1. PICK T : T = [t EXCEPT !.allocs[a] = @ + 1]
    OBVIOUS
  <2>2. /\ T \in Tallies /\ T.frees = t.frees /\ T.managed = t.managed
        /\ T.allocs = [t.allocs EXCEPT ![a] = t.allocs[a] + 1]
    BY <1>1, <2>1 DEF Tallies
  <2>3. OneMore(T.allocs, t.allocs, Allocs, a)
    BY <1>1, <2>2 DEF OneMore, NatOn
  <2>4. AllocSeen(T, t, a)
    BY <2>2, <2>3 DEF AllocSeen
  <2> QED
    BY <2>1, <2>4
<1>3. ASSUME NEW id \in Sites, NEW f \in Frees
      PROVE  FreeSeen([t EXCEPT !.frees[id][f] = @ + 1], t, id, f, "libc")
  <2>1. PICK T : T = [t EXCEPT !.frees[id][f] = @ + 1]
    OBVIOUS
  <2>2. /\ T \in Tallies /\ T.allocs = t.allocs /\ T.managed = t.managed
        /\ T.frees = [t.frees EXCEPT ![id] = [t.frees[id] EXCEPT ![f] = t.frees[id][f] + 1]]
    <3>1. PICK W : W = [t.frees EXCEPT ![id] = [t.frees[id] EXCEPT ![f] = t.frees[id][f] + 1]]
      OBVIOUS
    <3>2. t.frees[id] \in [Frees -> Nat] /\ t.frees[id][f] + 1 \in Nat
      BY <1>1
    <3>3. W \in [Sites -> [Frees -> Nat]]
      BY <1>1, <3>1, <3>2
    <3>4. T = [t EXCEPT !.frees = W]
      BY <1>1, <2>1, <3>1 DEF Tallies
    <3>5. T \in Tallies /\ T.allocs = t.allocs /\ T.managed = t.managed /\ T.frees = W
      BY <3>3, <3>4 DEF Tallies
    <3> QED
      BY <3>1, <3>5
  <2>3. /\ T.frees[id] = [t.frees[id] EXCEPT ![f] = t.frees[id][f] + 1]
        /\ \A j \in Sites \ {id} : T.frees[j] = t.frees[j]
    BY <1>1, <2>2
  <2>4. OneMore(T.frees[id], t.frees[id], Frees, f)
    BY <1>1, <2>3 DEF OneMore, NatOn
  <2>5. T.frees \in [Sites -> [Frees -> Nat]]
    BY <2>2 DEF Tallies
  <2>6. FreeCounted(T.frees, t.frees, id, f)
    BY <1>1, <2>3, <2>4, <2>5 DEF FreeCounted
  <2>7. FreeSeen(T, t, id, f, "libc")
    BY <2>2, <2>6 DEF FreeSeen
  <2> QED
    BY <2>1, <2>7
<1>4. ASSUME NEW id \in Sites, NEW f \in Frees
      PROVE  FreeSeen([t EXCEPT !.managed[id][f] = @ + 1], t, id, f, "managed")
  <2>1. PICK T : T = [t EXCEPT !.managed[id][f] = @ + 1]
    OBVIOUS
  <2>2. /\ T \in Tallies /\ T.allocs = t.allocs /\ T.frees = t.frees
        /\ T.managed = [t.managed EXCEPT ![id] = [t.managed[id] EXCEPT ![f] = t.managed[id][f] + 1]]
    <3>1. PICK W : W = [t.managed EXCEPT ![id] = [t.managed[id] EXCEPT ![f] = t.managed[id][f] + 1]]
      OBVIOUS
    <3>2. t.managed[id] \in [Frees -> Nat] /\ t.managed[id][f] + 1 \in Nat
      BY <1>1
    <3>3. W \in [Sites -> [Frees -> Nat]]
      BY <1>1, <3>1, <3>2
    <3>4. T = [t EXCEPT !.managed = W]
      BY <1>1, <2>1, <3>1 DEF Tallies
    <3>5. T \in Tallies /\ T.allocs = t.allocs /\ T.frees = t.frees /\ T.managed = W
      BY <3>3, <3>4 DEF Tallies
    <3> QED
      BY <3>1, <3>5
  <2>3. /\ T.managed[id] = [t.managed[id] EXCEPT ![f] = t.managed[id][f] + 1]
        /\ \A j \in Sites \ {id} : T.managed[j] = t.managed[j]
    BY <1>1, <2>2
  <2>4. OneMore(T.managed[id], t.managed[id], Frees, f)
    BY <1>1, <2>3 DEF OneMore, NatOn
  <2>5. T.managed \in [Sites -> [Frees -> Nat]]
    BY <2>2 DEF Tallies
  <2>6. FreeCounted(T.managed, t.managed, id, f)
    BY <1>1, <2>3, <2>4, <2>5 DEF FreeCounted
  <2>7. FreeSeen(T, t, id, f, "managed")
    BY <2>2, <2>6 DEF FreeSeen
  <2> QED
    BY <2>1, <2>7
<1> QED
  BY <1>2, <1>3, <1>4

\* An allocation is seen if it changes the table.
Noticed(G, g, T, t, a) ==
    /\ G = ProcessAlloc(g, a, FALSE)
    /\ G = g => T = t
    /\ G # g => AllocSeen(T, t, a)

\* An allocation: nothing is recorded, or it is recorded for its site and seen.
LEMMA TallyAlloc ==
    ASSUME NEW g, NEW o, Coupled(g, o), NEW t, TallyInv(g, t), NEW a \in Allocs,
           NEW G, NEW T, Noticed(G, g, T, t, a)
    PROVE  TallyInv(G, T)
<1>1. PICK A : A = FindOrCreate(g, a.site)
  OBVIOUS
<1>2. PICK B : B = FindOrCreate(o, a.site)
  OBVIOUS
<1>3. PICK i : i = Find(A, a.site)
  OBVIOUS
<1>4. a.site \in Sites /\ Typed(g)
  BY DEF Sites, Coupled
<1>5. Coupled(A, B)
  BY <1>1, <1>2, <1>4, CoupledCreate
<1>6. TallyInv(A, t)
  BY <1>1, <1>4, TallyCreate
<1>7. /\ (a.size >= MAX_SIZE \/ i = 0) => G = g
      /\ ~(a.size >= MAX_SIZE \/ i = 0) =>
            /\ a.size < MAX_SIZE /\ i \in 1..Len(A) /\ A[i].id = a.site
            /\ Updated(G, A, i, RecordAlloc(A[i], a, FALSE))
  <2>1. \A j \in 1..Len(A) : WindowsOK(A[j], LiveKnobs)
    BY <1>5 DEF Coupled
  <2>2. ASSUME NEW isOracle, LiveKnobs = KnobsOf(isOracle)
        PROVE  /\ (a.size >= MAX_SIZE \/ i = 0) => ProcessAlloc(g, a, isOracle) = g
               /\ ~(a.size >= MAX_SIZE \/ i = 0) =>
                     /\ a.size < MAX_SIZE /\ i \in 1..Len(A) /\ A[i].id = a.site
                     /\ Updated(ProcessAlloc(g, a, isOracle), A, i,
                                RecordAlloc(A[i], a, isOracle))
    BY <1>1, <1>3, <1>4, <2>1, <2>2, ProcessAllocOK, PickerAssumption
  <2>3. G = ProcessAlloc(g, a, FALSE)
    BY DEF Noticed
  <2> QED
    BY <2>2, <2>3, KnobsOfOK
<1>8. CASE a.size >= MAX_SIZE \/ i = 0
  BY <1>7, <1>8 DEF Noticed
<1>9. CASE ~(a.size >= MAX_SIZE \/ i = 0)
  <2>1. PICK r : r = RecordAlloc(A[i], a, FALSE)
    OBVIOUS
  <2>2. PICK s : s = A[i]
    OBVIOUS
  <2>3. /\ a.size < MAX_SIZE /\ i \in 1..Len(A) /\ s \in Summary /\ WindowsOK(s, LiveKnobs)
        /\ s.id = a.site /\ Updated(G, A, i, r) /\ Typed(A) /\ A \in Seq(Summary)
    <3>1. Typed(A) /\ A \in Seq(Summary) /\ \A j \in 1..Len(A) : WindowsOK(A[j], LiveKnobs)
      BY <1>5 DEF Coupled, Typed
    <3>2. /\ a.size < MAX_SIZE /\ i \in 1..Len(A) /\ A[i].id = a.site
          /\ Updated(G, A, i, r)
      BY <1>7, <1>9, <2>1
    <3> QED
      BY <2>2, <3>1, <3>2
  <2>4. /\ r \in Summary /\ r.id = s.id /\ r.event_count = s.event_count + 1
        /\ r.free_count = s.free_count
        /\ r.alloc_dist = Vote(s.alloc_dist, a.tid) /\ r.free_dist = s.free_dist
        /\ r.lifo_stack = PushLifo(s.lifo_stack, a.ptr) /\ r.top_pair = s.top_pair
    <3>1. ASSUME NEW isOracle, LiveKnobs = KnobsOf(isOracle)
          PROVE  LET q == RecordAlloc(s, a, isOracle)
                 IN  /\ q \in Summary /\ q.id = s.id /\ q.event_count = s.event_count + 1
                     /\ q.free_count = s.free_count
                     /\ q.alloc_dist = Vote(s.alloc_dist, a.tid) /\ q.free_dist = s.free_dist
                     /\ q.lifo_stack = PushLifo(s.lifo_stack, a.ptr)
                     /\ q.top_pair = s.top_pair
      BY <2>3, <3>1, RecordAllocOK, PickerAssumption
    <3> QED
      BY <2>1, <2>2, <3>1, KnobsOfOK
  <2>5. G # g
    <3>1. A = g \/ Len(A) = Len(g) + 1
      BY <1>1, <1>4, FindOrCreateOK
    <3>2. Len(G) = Len(A) /\ G[i] = r
      BY <2>3 DEF Updated
    <3>3. Len(g) \in Nat
      BY <1>4 DEF Typed
    <3>4. r.event_count # s.event_count
      BY <2>3, <2>4, StackLen
    <3>5. CASE A = g
      <4>1. G[i] # g[i]
        BY <2>2, <3>2, <3>4, <3>5
      <4> QED
        BY <4>1, Zenon
    <3>6. CASE Len(A) = Len(g) + 1
      <4>1. Len(G) # Len(g)
        BY <3>2, <3>3, <3>6
      <4> QED
        BY <4>1, Zenon
    <3> QED
      BY <3>1, <3>5, <3>6
  <2>6. AllocSeen(T, t, a)
    BY <2>5 DEF Noticed
  <2>7. /\ T \in Tallies /\ T.frees = t.frees /\ T.managed = t.managed
        /\ \A b \in Allocs \ {a} : T.allocs[b] = t.allocs[b]
    BY <2>6 DEF AllocSeen, OneMore
  <2>8. /\ \A id : id # a.site => AllocTally(T, id) = AllocTally(t, id)
        /\ \A id : FreeTally(T, id) = FreeTally(t, id) /\ PairTally(T, id) = PairTally(t, id)
        /\ SumFunction(T.allocs) = SumFunction(t.allocs) + 1
    BY <2>6, AllocSeenOK
  <2>9. Tallied(s, t)
    BY <1>6, <2>2, <2>3 DEF TallyInv
  <2>10. Tallied(r, T)
    BY <2>3, <2>4, <2>6, <2>9, TalliedAlloc
  <2>11. /\ SumFunction(Events(G)) = SumFunction(Events(A)) + 1
         /\ SumFunction(FreesIn(G)) = SumFunction(FreesIn(A))
    BY <2>2, <2>3, <2>4, ColumnsUpdated
  <2>12. TotalsOK(G, T)
    BY <1>6, <2>7, <2>8, <2>11 DEF TallyInv, TotalsOK
  <2>13. \A id \in Sites \ {r.id} :
            /\ AllocTally(T, id) = AllocTally(t, id) /\ FreeTally(T, id) = FreeTally(t, id)
            /\ PairTally(T, id) = PairTally(t, id)
            /\ SumFunction(T.frees[id]) = SumFunction(t.frees[id])
            /\ Untouched(t, id) => Untouched(T, id)
    BY <2>3, <2>4, <2>7, <2>8 DEF Untouched
  <2> QED
    BY <1>6, <2>2, <2>3, <2>4, <2>7, <2>10, <2>12, <2>13, TallyUpdate
<1> QED
  BY <1>8, <1>9

\* A free is charged to a site and seen: by the address on top of its stack, or
\* by its segment.
LEMMA TallyFree ==
    ASSUME NEW g, Typed(g), NEW t, TallyInv(g, t), NEW f \in Frees, NEW i \in 1..Len(g),
           NEW how, NEW T, FreeSeen(T, t, g[i].id, f, how), NEW G, NEW r \in Summary,
           Updated(G, g, i, r), r.id = g[i].id,
           r.event_count = g[i].event_count, r.free_count = g[i].free_count + 1,
           r.alloc_dist = g[i].alloc_dist, r.free_dist = Vote(g[i].free_dist, f.tid),
           how = "managed" => r.lifo_stack = g[i].lifo_stack /\ r.top_pair = g[i].top_pair,
           how # "managed" => /\ Len(r.lifo_stack) + 1 = Len(g[i].lifo_stack)
                              /\ r.top_pair = Vote(g[i].top_pair, f.site)
    PROVE  TallyInv(G, T)
<1>1. PICK s : s = g[i]
  OBVIOUS
<1>2. g \in Seq(Summary) /\ s \in Summary /\ Tallied(s, t) /\ s.id \in Sites
  BY <1>1, StackLen DEF Typed, TallyInv
<1>3. Tallied(r, T)
  BY <1>1, <1>2, TalliedFree
<1>4. /\ \A j : AllocTally(T, j) = AllocTally(t, j)
      /\ \A j \in Sites \ {s.id} : /\ FreeTally(T, j) = FreeTally(t, j)
                                   /\ PairTally(T, j) = PairTally(t, j)
                                   /\ SumFunction(T.frees[j]) = SumFunction(t.frees[j])
      /\ FreesOf(T.frees) + FreesOf(T.managed) = FreesOf(t.frees) + FreesOf(t.managed) + 1
  <2>1. PICK id \in Sites : id = s.id
    BY <1>2
  <2>2. FreeSeen(T, t, id, f, how)
    BY <1>1, <2>1
  <2>3. /\ \A j : AllocTally(T, j) = AllocTally(t, j)
        /\ \A j \in Sites \ {id} : /\ FreeTally(T, j) = FreeTally(t, j)
                                   /\ PairTally(T, j) = PairTally(t, j)
                                   /\ SumFunction(T.frees[j]) = SumFunction(t.frees[j])
        /\ FreesOf(T.frees) + FreesOf(T.managed) = FreesOf(t.frees) + FreesOf(t.managed) + 1
    BY <2>2, FreeSeenOK
  <2> QED
    BY <2>1, <2>3
<1>5. /\ SumFunction(Events(G)) = SumFunction(Events(g))
      /\ SumFunction(FreesIn(G)) = SumFunction(FreesIn(g)) + 1
  BY <1>2, ColumnsUpdated
<1>6. T \in Tallies /\ T.allocs = t.allocs
  BY DEF FreeSeen
<1>7. TotalsOK(G, T)
  BY <1>4, <1>5, <1>6 DEF TallyInv, TotalsOK
<1>8. ASSUME NEW j \in Sites \ {s.id}
      PROVE  T.frees[j] = t.frees[j] /\ T.managed[j] = t.managed[j]
  BY <1>1, <1>2 DEF FreeSeen, FreeCounted
<1>9. \A id \in Sites \ {r.id} :
         /\ AllocTally(T, id) = AllocTally(t, id) /\ FreeTally(T, id) = FreeTally(t, id)
         /\ PairTally(T, id) = PairTally(t, id)
         /\ SumFunction(T.frees[id]) = SumFunction(t.frees[id])
         /\ Untouched(t, id) => Untouched(T, id)
  BY <1>1, <1>4, <1>6, <1>8 DEF Untouched
<1> QED
  BY <1>3, <1>6, <1>7, <1>9, TallyUpdate

-----------------------------------------------------------------------------
(* The invariant of the tallies.                                            *)

TalliedInv == PickerInv /\ TallyInv(g_summaries, seen)

\* Nothing is on record and nothing has been seen at first.
LEMMA InitTalliedInv == Init => TalliedInv
<1> SUFFICES ASSUME Init
             PROVE  TalliedInv
  OBVIOUS
<1>1. PICK t : t = seen
  OBVIOUS
<1>2. PICK z : z = [f \in Frees |-> 0]
  OBVIOUS
<1>3. t = [allocs |-> [a \in Allocs |-> 0], frees |-> [s \in Sites |-> z],
           managed |-> [s \in Sites |-> z]]
  BY <1>1, <1>2 DEF Init
<1>4. z \in [Frees -> Nat] /\ DOMAIN z = Frees /\ \A f \in Frees : z[f] = 0
  BY <1>2
<1>5. [a \in Allocs |-> 0] \in [Allocs -> Nat] /\ [s \in Sites |-> z] \in [Sites -> [Frees -> Nat]]
  BY <1>4
<1>6. t \in Tallies
  BY <1>3, <1>5 DEF Tallies
<1>7. /\ t.allocs = [a \in Allocs |-> 0] /\ t.frees = [s \in Sites |-> z]
      /\ t.managed = [s \in Sites |-> z]
  BY <1>3
<1>8. \A id \in Sites : Untouched(t, id)
  BY <1>4, <1>7 DEF Untouched
<1>9. SumFunction(t.allocs) = 0
  <2>1. PICK u : u = t.allocs
    OBVIOUS
  <2>2. DOMAIN u = Allocs /\ \A a \in Allocs : u[a] = 0
    BY <1>7, <2>1
  <2>3. SumFunctionOnSet(u, Allocs) = 0
    BY <2>2, FiniteEvents, SumZero
  <2> QED
    BY <2>1, <2>2, <2>3 DEF SumFunction
<1>10. SumFunction(z) = 0
  <2>1. SumFunctionOnSet(z, Frees) = 0
    BY <1>4, FiniteEvents, SumZero
  <2> QED
    BY <1>4, <2>1 DEF SumFunction
<1>11. ASSUME NEW F, F = [s \in Sites |-> z]
       PROVE  FreesOf(F) = 0
  <2>1. PICK u : u = [id \in Sites |-> SumFunction(F[id])]
    OBVIOUS
  <2>2. \A id \in Sites : u[id] = 0
    BY <1>10, <1>11, <2>1
  <2>3. SumFunctionOnSet(u, Sites) = 0
    BY <2>2, FiniteEvents, SumZero
  <2> QED
    BY <2>1, <2>3 DEF FreesOf
<1>12. FreesOf(t.frees) = 0 /\ FreesOf(t.managed) = 0
  BY <1>7, <1>11
<1>13. g_summaries = <<>> /\ Len(<<>>) = 0 /\ 1..0 = {} /\ <<>> \in Seq(Summary)
  BY DEF Init
<1>14. SumFunction(Events(<<>>)) = 0 /\ SumFunction(FreesIn(<<>>)) = 0
  <2>1. DOMAIN Events(<<>>) = {} /\ DOMAIN FreesIn(<<>>) = {}
    BY <1>13, Columns
  <2> QED
    BY <2>1, SumEmpty DEF SumFunction
<1>15. TotalsOK(<<>>, t)
  BY <1>9, <1>12, <1>14 DEF TotalsOK
<1>16. TallyInv(<<>>, t)
  BY <1>6, <1>8, <1>13, <1>15 DEF TallyInv
<1> QED
  BY <1>1, <1>13, <1>16, InitPickerInv DEF TalliedInv

\* An allocation event and what it adds to what has been seen.
LEMMA NoticedAlloc ==
    ASSUME TalliedInv, NEW a \in Allocs, AllocEvent(a)
    PROVE  Noticed(g_summaries', g_summaries, seen', seen, a)
<1>1. PICK G : G = g_summaries'
  OBVIOUS
<1>2. PICK T : T = seen'
  OBVIOUS
<1>3. PICK U : U = [seen EXCEPT !.allocs[a] = @ + 1]
  OBVIOUS
<1>4. G = ProcessAlloc(g_summaries, a, FALSE) /\ T = IF G = g_summaries THEN seen ELSE U
  BY <1>1, <1>2, <1>3 DEF AllocEvent
<1>5. AllocSeen(U, seen, a)
  BY <1>3, SeenIs DEF TalliedInv, TallyInv
<1>6. Noticed(G, g_summaries, T, seen, a)
  BY <1>4, <1>5 DEF Noticed
<1> QED
  BY <1>1, <1>2, <1>6

\* An allocation event.
LEMMA AllocTalliedInv ==
    ASSUME TalliedInv, NEW a \in Allocs, AllocEvent(a)
    PROVE  TalliedInv'
<1>1. PICK G : G = g_summaries'
  OBVIOUS
<1>2. PICK T : T = seen'
  OBVIOUS
<1>3. Noticed(G, g_summaries, T, seen, a)
  BY <1>1, <1>2, NoticedAlloc
<1>4. TallyInv(G, T)
  BY <1>3, TallyAlloc DEF TalliedInv, PickerInv
<1>5. PickerInv'
  BY AllocPickerInv DEF TalliedInv
<1> QED
  BY <1>1, <1>2, <1>4, <1>5 DEF TalliedInv

\* A free event.
LEMMA FreeTalliedInv ==
    ASSUME TalliedInv, NEW f \in Frees, FreeEvent(f)
    PROVE  TalliedInv'
<1>1. PICK G : G = g_summaries'
  OBVIOUS
<1>2. PICK T : T = seen'
  OBVIOUS
<1>3. PICK i : i = TopIndex(g_summaries, f.ptr)
  OBVIOUS
<1>4. PICK U : U = [seen EXCEPT !.frees[g_summaries[i].id][f] = @ + 1]
  OBVIOUS
<1>5. G = ProcessFree(g_summaries, f) /\ T = IF i = 0 THEN seen ELSE U
  BY <1>1, <1>2, <1>3, <1>4 DEF FreeEvent, TopIndex
<1>6. Typed(g_summaries) /\ g_summaries \in Seq(Summary) /\ seen \in Tallies
      /\ TallyInv(g_summaries, seen)
  BY DEF TalliedInv, PickerInv, Coupled, Typed, TallyInv
<1>7. /\ i = 0 => G = g_summaries
      /\ i # 0 => /\ i \in 1..Len(g_summaries) /\ LifoTop(g_summaries[i], f.ptr)
                  /\ Updated(G, g_summaries, i, Paired(g_summaries[i], f))
  BY <1>3, <1>5, <1>6, ProcessFreeOK
<1>8. TallyInv(G, T)
  <2>1. CASE i = 0
    BY <1>5, <1>6, <1>7, <2>1
  <2>2. CASE i # 0
    <3>1. PICK s : s = g_summaries[i]
      OBVIOUS
    <3>2. PICK r : r = Paired(s, f)
      OBVIOUS
    <3>3. /\ i \in 1..Len(g_summaries) /\ LifoTop(s, f.ptr) /\ s \in Summary
          /\ Updated(G, g_summaries, i, r) /\ T = U
      BY <1>5, <1>6, <1>7, <2>2, <3>1, <3>2
    <3>4. s.id \in Sites
      BY <3>3, StackLen
    <3>5. FreeSeen(U, seen, s.id, f, "libc")
      BY <1>4, <1>6, <3>1, <3>4, SeenIs
    <3>6. /\ r \in Summary /\ r.id = s.id /\ r.event_count = s.event_count
          /\ r.free_count = s.free_count + 1
          /\ r.alloc_dist = s.alloc_dist /\ r.free_dist = Vote(s.free_dist, f.tid)
          /\ Len(r.lifo_stack) + 1 = Len(s.lifo_stack)
          /\ r.top_pair = Vote(s.top_pair, f.site)
      BY <3>2, <3>3, PairedOK
    <3>7. "libc" # "managed"
      OBVIOUS
    <3> QED
      BY <1>6, <3>1, <3>3, <3>5, <3>6, <3>7, TallyFree
  <2> QED
    BY <2>1, <2>2
<1>9. PickerInv'
  BY FreePickerInv DEF TalliedInv
<1> QED
  BY <1>1, <1>2, <1>8, <1>9 DEF TalliedInv

\* A free of a managed chunk.
LEMMA ManagedFreeTalliedInv ==
    ASSUME TalliedInv, NEW f \in Frees, NEW id \in Sites, ManagedFreeEvent(f, id)
    PROVE  TalliedInv'
<1>1. PICK G : G = g_summaries'
  OBVIOUS
<1>2. PICK T : T = seen'
  OBVIOUS
<1>3. PICK i : i = Find(g_summaries, id)
  OBVIOUS
<1>4. /\ G = ProcessManagedFree(g_summaries, f, id) /\ id \in served
      /\ T = [seen EXCEPT !.managed[id][f] = @ + 1]
  BY <1>1, <1>2 DEF ManagedFreeEvent
<1>5. Typed(g_summaries) /\ g_summaries \in Seq(Summary) /\ seen \in Tallies
      /\ TallyInv(g_summaries, seen)
  BY DEF TalliedInv, PickerInv, Coupled, Typed, TallyInv
<1>6. i # 0
  BY <1>3, <1>4, ServedOnRecord DEF TalliedInv, PickerInv
<1>7. /\ i \in 1..Len(g_summaries) /\ g_summaries[i].id = id
      /\ Updated(G, g_summaries, i, RecordFree(g_summaries[i], f))
  BY <1>3, <1>4, <1>5, <1>6, ProcessManagedFreeOK
<1>8. PICK s : s = g_summaries[i]
  OBVIOUS
<1>9. PICK r : r = RecordFree(s, f)
  OBVIOUS
<1>10. s \in Summary /\ s.id = id /\ Updated(G, g_summaries, i, r)
  BY <1>5, <1>7, <1>8, <1>9
<1>11. FreeSeen(T, seen, s.id, f, "managed")
  BY <1>4, <1>5, <1>10, SeenIs
<1>12. /\ r \in Summary /\ r.id = s.id /\ r.event_count = s.event_count
       /\ r.free_count = s.free_count + 1
       /\ r.alloc_dist = s.alloc_dist /\ r.free_dist = Vote(s.free_dist, f.tid)
       /\ r.lifo_stack = s.lifo_stack /\ r.top_pair = s.top_pair
  BY <1>9, <1>10, RecordFreeOK
<1>13. TallyInv(G, T)
  BY <1>5, <1>7, <1>8, <1>10, <1>11, <1>12, TallyFree
<1>14. PickerInv'
  BY ManagedFreePickerInv DEF TalliedInv
<1> QED
  BY <1>1, <1>2, <1>13, <1>14 DEF TalliedInv

\* A guard failure: nothing is counted.
LEMMA GuardTalliedInv ==
    ASSUME TalliedInv, NEW id \in Sites, GuardFailed(id)
    PROVE  TalliedInv'
<1>1. PICK G : G = g_summaries'
  OBVIOUS
<1>2. PICK i : i = Find(g_summaries, id)
  OBVIOUS
<1>3. PICK reason \in Reasons : reason = Reason(g_summaries[i].candidate)
  BY DEF Reason, Reasons
<1>4. G = ResetCallSite(g_summaries, id, reason) /\ id \in served /\ seen' = seen
  BY <1>1, <1>2, <1>3 DEF GuardFailed
<1>5. Typed(g_summaries) /\ g_summaries \in Seq(Summary) /\ seen \in Tallies
      /\ TallyInv(g_summaries, seen)
  BY DEF TalliedInv, PickerInv, Coupled, Typed, TallyInv
<1>6. i # 0
  BY <1>2, <1>4, ServedOnRecord DEF TalliedInv, PickerInv
<1>7. i \in 1..Len(g_summaries) /\ Updated(G, g_summaries, i, Reset(g_summaries[i], reason))
  BY <1>2, <1>4, <1>5, <1>6, ResetCallSiteOK
<1>8. PICK s : s = g_summaries[i]
  OBVIOUS
<1>9. PICK r : r = Reset(s, reason)
  OBVIOUS
<1>10. s \in Summary /\ Updated(G, g_summaries, i, r) /\ Tallied(s, seen)
  BY <1>5, <1>7, <1>8, <1>9 DEF TallyInv
<1>11. /\ r \in Summary /\ r.id = s.id /\ r.event_count = s.event_count
       /\ r.free_count = s.free_count
       /\ r.alloc_dist = s.alloc_dist /\ r.free_dist = s.free_dist
       /\ r.lifo_stack = s.lifo_stack /\ r.top_pair = s.top_pair
  BY <1>9, <1>10, ResetOK
<1>12. Tallied(r, seen)
  BY <1>10, <1>11, TalliedSame
<1>13. /\ SumFunction(Events(G)) = SumFunction(Events(g_summaries))
       /\ SumFunction(FreesIn(G)) = SumFunction(FreesIn(g_summaries))
  BY <1>5, <1>7, <1>8, <1>10, <1>11, ColumnsUpdated
<1>14. TotalsOK(G, seen)
  BY <1>5, <1>13 DEF TallyInv, TotalsOK
<1>15. TallyInv(G, seen)
  BY <1>5, <1>7, <1>8, <1>10, <1>11, <1>12, <1>14, TallyUpdate
<1>16. PickerInv'
  BY GuardPickerInv DEF TalliedInv
<1> QED
  BY <1>1, <1>4, <1>15, <1>16 DEF TalliedInv

\* The invariant of the tallies is preserved.
LEMMA NextTalliedInv == TalliedInv /\ [Next]_vars => TalliedInv'
<1> SUFFICES ASSUME TalliedInv, [Next]_vars
             PROVE  TalliedInv'
  OBVIOUS
<1>1. CASE \E a \in Allocs : AllocEvent(a)
  BY <1>1, AllocTalliedInv
<1>2. CASE \E f \in Frees : FreeEvent(f)
  BY <1>2, FreeTalliedInv
<1>3. CASE \E f \in Frees, id \in Sites : ManagedFreeEvent(f, id)
  BY <1>3, ManagedFreeTalliedInv
<1>4. CASE \E id \in Sites : GuardFailed(id)
  BY <1>4, GuardTalliedInv
<1>5. CASE UNCHANGED vars
  BY <1>5 DEF vars, TalliedInv, PickerInv
<1> QED
  BY <1>1, <1>2, <1>3, <1>4, <1>5 DEF Next

\* What the summaries say tallies with what happened, whatever events arrive.
THEOREM TalliedInvariant == Spec => []TalliedInv
  BY InitTalliedInv, NextTalliedInv, PTL DEF Spec

\* A vote that leads is sound.
LEMMA LeadsSound ==
    ASSUME NEW S, NEW v \in Votes(S), NEW counts, NEW total, Leads(v, counts, total)
    PROVE  VoteSound(v, counts, total)
<1>1. v.score \in Nat /\ total \in Nat /\ \A x \in DOMAIN counts : counts[x] \in Nat
  BY DEF Votes, Leads
<1>2. total > 0 => v.score > 0 /\ v.score <= counts[v.top]
  BY DEF Leads
<1>3. ASSUME NEW x \in DOMAIN counts
      PROVE  2 * counts[x] <= total + (IF x = v.top THEN v.score ELSE 0)
  <2>1. counts[x] \in Nat
    BY <1>1
  <2>2. IF x = v.top THEN 2 * counts[x] <= total + v.score
        ELSE 2 * counts[x] + v.score <= total + 1
    BY DEF Leads
  <2>3. total = 0 \/ v.score > 0
    BY <1>1, <1>2
  <2> QED
    BY <1>1, <2>1, <2>2, <2>3
<1> QED
  BY <1>2, <1>3 DEF VoteSound

\* The tallies of what has been seen are the ones the properties name.
LEMMA TalliesAre ==
    ASSUME NEW id
    PROVE  /\ AllocsBy(id) = AllocTally(seen, id) /\ FreesBy(id) = FreeTally(seen, id)
           /\ PairsBy(id) = PairTally(seen, id)
  BY DEF AllocsBy, FreesBy, PairsBy, AllocTally, FreeTally, PairTally

\* The three votes of every site on record tell the truth about the threads that
\* allocate and free and the sites that free, as far as a majority vote can.
THEOREM VotesSoundHolds == Spec => []VotesSound
<1>1. TalliedInv => VotesSound
  <2> SUFFICES ASSUME TalliedInv, NEW s \in Range(g_summaries)
               PROVE  /\ VoteSound(s.alloc_dist, AllocsBy(s.id), s.event_count)
                      /\ VoteSound(s.free_dist, FreesBy(s.id), s.free_count)
                      /\ VoteSound(s.top_pair, PairsBy(s.id), SumFunction(seen.frees[s.id]))
    BY DEF VotesSound
  <2>1. g_summaries \in Seq(Summary)
    BY DEF TalliedInv, PickerInv, Coupled, Typed
  <2>2. PICK i \in 1..Len(g_summaries) : s = g_summaries[i]
    BY <2>1, InTable
  <2>3. s \in Summary /\ Tallied(s, seen)
    BY <2>1, <2>2 DEF TalliedInv, TallyInv
  <2>4. /\ s.alloc_dist \in Votes(Tids \cup {NoTid}) /\ s.free_dist \in Votes(Tids \cup {NoTid})
        /\ s.top_pair \in Votes(Sites \cup {NoSite})
    BY <2>3, StackLen DEF TidVotes, SiteVotes
  <2>5. /\ Leads(s.alloc_dist, AllocTally(seen, s.id), s.event_count)
        /\ Leads(s.free_dist, FreeTally(seen, s.id), s.free_count)
        /\ Leads(s.top_pair, PairTally(seen, s.id), SumFunction(seen.frees[s.id]))
    BY <2>3 DEF Tallied
  <2>6. VoteSound(s.alloc_dist, AllocTally(seen, s.id), s.event_count)
    BY <2>4, <2>5, LeadsSound
  <2>7. VoteSound(s.free_dist, FreeTally(seen, s.id), s.free_count)
    BY <2>4, <2>5, LeadsSound
  <2>8. VoteSound(s.top_pair, PairTally(seen, s.id), SumFunction(seen.frees[s.id]))
    BY <2>4, <2>5, LeadsSound
  <2> QED
    BY <2>6, <2>7, <2>8, TalliesAre
<1> QED
  BY <1>1, TalliedInvariant, PTL

\* No site is charged with more frees of libc chunks than it had allocations,
\* however stale the stack by which they are attributed.
THEOREM FreesConservedHolds == Spec => []FreesConserved
<1>1. TalliedInv => FreesConserved
  <2> SUFFICES ASSUME TalliedInv, NEW s \in Range(g_summaries)
               PROVE  SumFunction(seen.frees[s.id]) + Len(s.lifo_stack) <= s.event_count
    BY DEF FreesConserved
  <2>1. g_summaries \in Seq(Summary)
    BY DEF TalliedInv, PickerInv, Coupled, Typed
  <2>2. PICK i \in 1..Len(g_summaries) : s = g_summaries[i]
    BY <2>1, InTable
  <2>3. Tallied(s, seen)
    BY <2>2 DEF TalliedInv, TallyInv
  <2> QED
    BY <2>3 DEF Tallied
<1> QED
  BY <1>1, TalliedInvariant, PTL

\* What StrategyEarned asks of a step of the site's summary from s to r, when t
\* had been seen before it and T after it.
Earned(s, r, t, T) ==
    (Forced = "Generic" /\ s.phase # "Compiled" /\ r.phase = "Compiled") =>
        /\ r.candidate = "PairedStack" =>
              \E f \in Sites : 100 * PairTally(t, s.id)[f] >= PairPct * r.event_count
        /\ r.candidate = "ProducerConsumer" =>
              \E x, y \in Tids : /\ x # y
                                 /\ 100 * AllocTally(T, r.id)[x] >= TidPct * r.event_count
                                 /\ 100 * FreeTally(t, s.id)[y] >= TidPct * r.free_count

\* An allocation compiles a site with a strategy it has earned.
LEMMA EarnedByAlloc ==
    ASSUME NEW s \in Summary, NEW r \in Summary, NEW t, NEW T, Tallied(s, t), Tallied(r, T),
           r.free_count = s.free_count, r.free_dist = s.free_dist, r.top_pair = s.top_pair,
           Forced = "Generic" => /\ r.candidate = "PairedStack" => PairedPattern(r)
                                 /\ r.candidate = "ProducerConsumer" => PcPattern(r)
    PROVE  Earned(s, r, t, T)
<1>1. /\ r.event_count \in Nat /\ r.free_count \in Nat
      /\ r.top_pair.score \in Nat /\ r.alloc_dist.score \in Nat /\ r.free_dist.score \in Nat
  BY StackLen DEF TidVotes, SiteVotes, Votes
<1>2. /\ Leads(r.alloc_dist, AllocTally(T, r.id), r.event_count)
      /\ Leads(r.free_dist, FreeTally(t, s.id), r.free_count)
      /\ Leads(r.top_pair, PairTally(t, s.id), SumFunction(t.frees[s.id]))
  BY DEF Tallied
<1>3. /\ DOMAIN AllocTally(T, r.id) = Tids /\ DOMAIN FreeTally(t, s.id) = Tids
      /\ DOMAIN PairTally(t, s.id) = Sites
  BY DEF AllocTally, FreeTally, PairTally
<1>4. PairPct \in Nat /\ TidPct \in Nat
  BY PickerAssumption
<1>5. ASSUME PairedPattern(r)
      PROVE  \E f \in Sites : 100 * PairTally(t, s.id)[f] >= PairPct * r.event_count
  <2>1. PICK n : n = SumFunction(t.frees[s.id])
    OBVIOUS
  <2>2. r.top_pair.score > 0 /\ 100 * r.top_pair.score >= PairPct * r.event_count
    BY <1>5 DEF PairedPattern
  <2>3. /\ n \in Nat /\ n > 0 /\ r.top_pair.top \in Sites
        /\ r.top_pair.score <= PairTally(t, s.id)[r.top_pair.top]
        /\ PairTally(t, s.id)[r.top_pair.top] \in Nat
    BY <1>1, <1>2, <1>3, <2>1, <2>2 DEF Leads
  <2>4. PairPct * r.event_count \in Nat
    BY <1>1, <1>4
  <2>5. 100 * PairTally(t, s.id)[r.top_pair.top] >= PairPct * r.event_count
    BY <1>1, <2>2, <2>3, <2>4
  <2> QED
    BY <2>3, <2>5
<1>6. ASSUME PcPattern(r)
      PROVE  \E x, y \in Tids : /\ x # y
                                /\ 100 * AllocTally(T, r.id)[x] >= TidPct * r.event_count
                                /\ 100 * FreeTally(t, s.id)[y] >= TidPct * r.free_count
  <2>1. /\ r.event_count > 0 /\ 100 * r.alloc_dist.score >= TidPct * r.event_count
        /\ r.free_count > 0 /\ 100 * r.free_dist.score >= TidPct * r.free_count
        /\ r.alloc_dist.top # r.free_dist.top
    BY <1>6 DEF PcPattern, Concentrated
  <2>2. /\ r.alloc_dist.top \in Tids
        /\ r.alloc_dist.score <= AllocTally(T, r.id)[r.alloc_dist.top]
        /\ AllocTally(T, r.id)[r.alloc_dist.top] \in Nat
    BY <1>2, <1>3, <2>1 DEF Leads
  <2>3. /\ r.free_dist.top \in Tids
        /\ r.free_dist.score <= FreeTally(t, s.id)[r.free_dist.top]
        /\ FreeTally(t, s.id)[r.free_dist.top] \in Nat
    BY <1>2, <1>3, <2>1 DEF Leads
  <2>4. TidPct * r.event_count \in Nat /\ TidPct * r.free_count \in Nat
    BY <1>1, <1>4
  <2>5. 100 * AllocTally(T, r.id)[r.alloc_dist.top] >= TidPct * r.event_count
    BY <1>1, <2>1, <2>2, <2>4
  <2>6. 100 * FreeTally(t, s.id)[r.free_dist.top] >= TidPct * r.free_count
    BY <1>1, <2>1, <2>3, <2>4
  <2> QED
    BY <2>1, <2>2, <2>3, <2>5, <2>6
<1> QED
  BY <1>5, <1>6 DEF Earned

\* An allocation event, whatever it does to the table.
LEMMA EarnedOnAlloc ==
    ASSUME NEW g, NEW o, Coupled(g, o), NEW t, TallyInv(g, t), NEW a \in Allocs,
           NEW G, NEW T, Noticed(G, g, T, t, a), NEW k \in 1..Len(g)
    PROVE  Earned(g[k], G[k], t, T) /\ G[k].id = g[k].id
<1>1. PICK A : A = FindOrCreate(g, a.site)
  OBVIOUS
<1>2. PICK B : B = FindOrCreate(o, a.site)
  OBVIOUS
<1>3. PICK i : i = Find(A, a.site)
  OBVIOUS
<1>4. a.site \in Sites /\ Typed(g) /\ g \in Seq(Summary) /\ Len(g) \in Nat
  BY DEF Sites, Coupled, Typed
<1>5. Coupled(A, B)
  BY <1>1, <1>2, <1>4, CoupledCreate
<1>6. Typed(A) /\ A \in Seq(Summary) /\ \A j \in 1..Len(A) : WindowsOK(A[j], LiveKnobs)
  BY <1>5 DEF Coupled, Typed
<1>7. TallyInv(G, T)
  BY TallyAlloc
<1>8. k \in 1..Len(A) /\ A[k] = g[k]
  <2>1. A = g \/ (Len(A) = Len(g) + 1 /\ \A j \in 1..Len(g) : A[j] = g[j])
    BY <1>1, <1>4, FindOrCreateOK
  <2> QED
    BY <1>4, <2>1
<1>9. /\ (a.size >= MAX_SIZE \/ i = 0) => G = g
      /\ ~(a.size >= MAX_SIZE \/ i = 0) =>
            /\ a.size < MAX_SIZE /\ i \in 1..Len(A) /\ A[i].id = a.site
            /\ Updated(G, A, i, RecordAlloc(A[i], a, FALSE))
  <2>1. ASSUME NEW isOracle, LiveKnobs = KnobsOf(isOracle)
        PROVE  /\ (a.size >= MAX_SIZE \/ i = 0) => ProcessAlloc(g, a, isOracle) = g
               /\ ~(a.size >= MAX_SIZE \/ i = 0) =>
                     /\ a.size < MAX_SIZE /\ i \in 1..Len(A) /\ A[i].id = a.site
                     /\ Updated(ProcessAlloc(g, a, isOracle), A, i,
                                RecordAlloc(A[i], a, isOracle))
    BY <1>1, <1>3, <1>4, <1>6, <2>1, ProcessAllocOK, PickerAssumption
  <2>2. G = ProcessAlloc(g, a, FALSE)
    BY DEF Noticed
  <2> QED
    BY <2>1, <2>2, KnobsOfOK
<1>10. CASE a.size >= MAX_SIZE \/ i = 0
  BY <1>9, <1>10 DEF Earned
<1>11. CASE ~(a.size >= MAX_SIZE \/ i = 0)
  <2>1. PICK r : r = RecordAlloc(A[i], a, FALSE)
    OBVIOUS
  <2>2. PICK s : s = A[i]
    OBVIOUS
  <2>3. a.size < MAX_SIZE /\ i \in 1..Len(A) /\ Updated(G, A, i, r)
    BY <1>9, <1>11, <2>1
  <2>4. s \in Summary /\ WindowsOK(s, LiveKnobs)
    BY <1>6, <2>2, <2>3
  <2>5. CASE k # i
    <3>1. G[k] = g[k]
      BY <1>8, <2>3, <2>5 DEF Updated
    <3> QED
      BY <3>1 DEF Earned
  <2>6. CASE k = i
    <3>1. /\ r \in Summary /\ r.id = s.id /\ r.free_count = s.free_count
          /\ r.free_dist = s.free_dist /\ r.top_pair = s.top_pair
      <4>1. ASSUME NEW isOracle, LiveKnobs = KnobsOf(isOracle)
            PROVE  LET q == RecordAlloc(s, a, isOracle)
                   IN  /\ q \in Summary /\ q.id = s.id /\ q.free_count = s.free_count
                       /\ q.free_dist = s.free_dist /\ q.top_pair = s.top_pair
        BY <2>3, <2>4, <4>1, RecordAllocOK, PickerAssumption
      <4> QED
        BY <2>1, <2>2, <4>1, KnobsOfOK
    <3>2. G[k] = r /\ g[k] = s /\ Len(G) = Len(A)
      BY <1>8, <2>2, <2>3, <2>6 DEF Updated
    <3>3. CASE s.phase # "Compiled" /\ r.phase = "Compiled"
      <4>1. Forced = "Generic" => /\ r.candidate = "PairedStack" => PairedPattern(r)
                                  /\ r.candidate = "ProducerConsumer" => PcPattern(r)
        BY <2>1, <2>2, <2>3, <2>4, <3>3, RecordAllocCompiles
      <4>2. Tallied(s, t) /\ Tallied(r, T)
        <5>1. Tallied(g[k], t)
          BY DEF TallyInv
        <5>2. Tallied(G[k], T)
          BY <1>7, <1>8, <3>2 DEF TallyInv
        <5> QED
          BY <3>2, <5>1, <5>2
      <4>3. Earned(s, r, t, T)
        BY <2>4, <3>1, <4>1, <4>2, EarnedByAlloc
      <4> QED
        BY <3>1, <3>2, <4>3
    <3>4. CASE ~(s.phase # "Compiled" /\ r.phase = "Compiled")
      BY <3>1, <3>2, <3>4 DEF Earned
    <3> QED
      BY <3>3, <3>4
  <2> QED
    BY <2>5, <2>6
<1> QED
  BY <1>10, <1>11

\* A step that replaces a summary by one that is not newly Compiled.
LEMMA EarnedOnUpdate ==
    ASSUME NEW g \in Seq(Summary), NEW i \in 1..Len(g), NEW r, NEW G, Updated(G, g, i, r),
           r.id = g[i].id, r.phase = g[i].phase \/ r.phase # "Compiled", NEW k \in 1..Len(g),
           NEW t, NEW T
    PROVE  Earned(g[k], G[k], t, T) /\ G[k].id = g[k].id
<1>1. CASE k = i
  <2>1. G[k] = r
    BY <1>1 DEF Updated
  <2> QED
    BY <1>1, <2>1 DEF Earned
<1>2. CASE k # i
  <2>1. G[k] = g[k]
    BY <1>2 DEF Updated
  <2> QED
    BY <2>1 DEF Earned
<1> QED
  BY <1>1, <1>2

\* Every step of the picker earns what it compiles.
LEMMA NextEarned ==
    ASSUME TalliedInv, [Next]_vars, NEW k \in 1..Len(g_summaries)
    PROVE  /\ Earned(g_summaries[k], g_summaries'[k], seen, seen')
           /\ g_summaries'[k].id = g_summaries[k].id
<1>1. PICK G : G = g_summaries'
  OBVIOUS
<1>2. PICK T : T = seen'
  OBVIOUS
<1>3. g_summaries \in Seq(Summary)
  BY DEF TalliedInv, PickerInv, Coupled, Typed
<1>4. \A s, t, U : Earned(s, s, t, U)
  BY DEF Earned
<1>5. ASSUME NEW a \in Allocs, AllocEvent(a)
      PROVE  Earned(g_summaries[k], G[k], seen, T) /\ G[k].id = g_summaries[k].id
  <2>1. Noticed(G, g_summaries, T, seen, a)
    BY <1>1, <1>2, <1>5, NoticedAlloc
  <2> QED
    BY <2>1, EarnedOnAlloc DEF TalliedInv, PickerInv
<1>6. ASSUME NEW f \in Frees, FreeEvent(f)
      PROVE  Earned(g_summaries[k], G[k], seen, T) /\ G[k].id = g_summaries[k].id
  <2>1. PICK i : i = TopIndex(g_summaries, f.ptr)
    OBVIOUS
  <2>2. G = ProcessFree(g_summaries, f)
    BY <1>1, <1>6 DEF FreeEvent
  <2>3. /\ i = 0 => G = g_summaries
        /\ i # 0 => /\ i \in 1..Len(g_summaries) /\ LifoTop(g_summaries[i], f.ptr)
                    /\ Updated(G, g_summaries, i, Paired(g_summaries[i], f))
    BY <1>3, <2>1, <2>2, ProcessFreeOK
  <2>4. CASE i = 0
    BY <1>4, <2>3, <2>4
  <2>5. CASE i # 0
    <3>1. PICK s : s = g_summaries[i]
      OBVIOUS
    <3>2. PICK r : r = Paired(s, f)
      OBVIOUS
    <3>3. /\ i \in 1..Len(g_summaries) /\ LifoTop(s, f.ptr) /\ s \in Summary
          /\ Updated(G, g_summaries, i, r)
      BY <1>3, <2>3, <2>5, <3>1, <3>2
    <3>4. r.id = s.id /\ r.phase = s.phase
      BY <3>2, <3>3, PairedOK DEF Serving
    <3> QED
      BY <1>3, <3>1, <3>3, <3>4, EarnedOnUpdate
  <2> QED
    BY <2>4, <2>5
<1>7. ASSUME NEW f \in Frees, NEW id \in Sites, ManagedFreeEvent(f, id)
      PROVE  Earned(g_summaries[k], G[k], seen, T) /\ G[k].id = g_summaries[k].id
  <2>1. PICK i : i = Find(g_summaries, id)
    OBVIOUS
  <2>2. G = ProcessManagedFree(g_summaries, f, id) /\ id \in served
    BY <1>1, <1>7 DEF ManagedFreeEvent
  <2>3. i # 0
    BY <2>1, <2>2, ServedOnRecord DEF TalliedInv, PickerInv
  <2>4. i \in 1..Len(g_summaries) /\ Updated(G, g_summaries, i, RecordFree(g_summaries[i], f))
    BY <1>3, <2>1, <2>2, <2>3, ProcessManagedFreeOK
  <2>5. PICK s : s = g_summaries[i]
    OBVIOUS
  <2>6. PICK r : r = RecordFree(s, f)
    OBVIOUS
  <2>7. s \in Summary /\ Updated(G, g_summaries, i, r)
    BY <1>3, <2>4, <2>5, <2>6
  <2>8. r.id = s.id /\ r.phase = s.phase
    BY <2>6, <2>7, RecordFreeOK DEF Serving
  <2> QED
    BY <1>3, <2>4, <2>5, <2>7, <2>8, EarnedOnUpdate
<1>8. ASSUME NEW id \in Sites, GuardFailed(id)
      PROVE  Earned(g_summaries[k], G[k], seen, T) /\ G[k].id = g_summaries[k].id
  <2>1. PICK i : i = Find(g_summaries, id)
    OBVIOUS
  <2>2. PICK reason \in Reasons : reason = Reason(g_summaries[i].candidate)
    BY DEF Reason, Reasons
  <2>3. G = ResetCallSite(g_summaries, id, reason) /\ id \in served
    BY <1>1, <1>8, <2>1, <2>2 DEF GuardFailed
  <2>4. i # 0
    BY <2>1, <2>3, ServedOnRecord DEF TalliedInv, PickerInv
  <2>5. i \in 1..Len(g_summaries) /\ Updated(G, g_summaries, i, Reset(g_summaries[i], reason))
    BY <1>3, <2>1, <2>3, <2>4, ResetCallSiteOK
  <2>6. PICK s : s = g_summaries[i]
    OBVIOUS
  <2>7. PICK r : r = Reset(s, reason)
    OBVIOUS
  <2>8. s \in Summary /\ Updated(G, g_summaries, i, r)
    BY <1>3, <2>5, <2>6, <2>7
  <2>9. r.id = s.id /\ r.phase = "Deopt"
    BY <2>7, <2>8, ResetOK
  <2> QED
    BY <1>3, <2>5, <2>6, <2>8, <2>9, EarnedOnUpdate
<1>9. Earned(g_summaries[k], G[k], seen, T) /\ G[k].id = g_summaries[k].id
  <2>1. CASE \E a \in Allocs : AllocEvent(a)
    BY <1>5, <2>1
  <2>2. CASE \E f \in Frees : FreeEvent(f)
    BY <1>6, <2>2
  <2>3. CASE \E f \in Frees, id \in Sites : ManagedFreeEvent(f, id)
    BY <1>7, <2>3
  <2>4. CASE \E id \in Sites : GuardFailed(id)
    BY <1>8, <2>4
  <2>5. CASE UNCHANGED vars
    <3>1. G = g_summaries
      BY <1>1, <2>5 DEF vars
    <3> QED
      BY <1>4, <3>1
  <2> QED
    BY <2>1, <2>2, <2>3, <2>4, <2>5 DEF Next
<1> QED
  BY <1>1, <1>2, <1>9

\* A site is never compiled as a PairedStack or a ProducerConsumer, unless that
\* is forced, without having been used as one so far.
THEOREM StrategyEarnedHolds == Spec => StrategyEarned
<1> DEFINE Step ==
      \A i \in DOMAIN g_summaries :
        LET id == g_summaries[i].id
            s  == g_summaries'[i]
        IN  (Forced = "Generic" /\ g_summaries[i].phase # "Compiled" /\ s.phase = "Compiled") =>
            /\ s.candidate = "PairedStack" =>
                  \E f \in Sites : 100 * PairsBy(id)[f] >= PairPct * s.event_count
            /\ s.candidate = "ProducerConsumer" =>
                  \E t, u \in Tids : /\ t # u
                                     /\ 100 * AllocsBy(id)'[t] >= TidPct * s.event_count
                                     /\ 100 * FreesBy(id)[u] >= TidPct * s.free_count
<1>1. TalliedInv /\ [Next]_vars => Step
  <2> SUFFICES ASSUME TalliedInv, [Next]_vars
               PROVE  Step
    OBVIOUS
  <2>1. DOMAIN g_summaries = 1..Len(g_summaries)
    BY DEF TalliedInv, PickerInv, Coupled, Typed
  <2> SUFFICES ASSUME NEW i \in 1..Len(g_summaries)
               PROVE  LET id == g_summaries[i].id
                          s  == g_summaries'[i]
                      IN  (Forced = "Generic" /\ g_summaries[i].phase # "Compiled" /\ s.phase = "Compiled") =>
                          /\ s.candidate = "PairedStack" =>
                                \E f \in Sites : 100 * PairsBy(id)[f] >= PairPct * s.event_count
                          /\ s.candidate = "ProducerConsumer" =>
                                \E t, u \in Tids : /\ t # u
                                                   /\ 100 * AllocsBy(id)'[t] >= TidPct * s.event_count
                                                   /\ 100 * FreesBy(id)[u] >= TidPct * s.free_count
    BY <2>1
  <2>2. /\ Earned(g_summaries[i], g_summaries'[i], seen, seen')
        /\ g_summaries'[i].id = g_summaries[i].id
    BY NextEarned
  <2>3. /\ PairsBy(g_summaries[i].id) = PairTally(seen, g_summaries[i].id)
        /\ FreesBy(g_summaries[i].id) = FreeTally(seen, g_summaries[i].id)
        /\ AllocsBy(g_summaries[i].id)' = AllocTally(seen', g_summaries'[i].id)
    BY DEF PairsBy, FreesBy, AllocsBy, PairTally, FreeTally, AllocTally
  <2> QED
    BY <2>2, <2>3 DEF Earned
<1>2. TalliedInv /\ [Next]_vars => [Step]_vars
  BY <1>1
<1> HIDE DEF Step
<1>3. StrategyEarned <=> [][Step]_vars
  BY PTL DEF StrategyEarned, Step
<1> QED
  BY <1>2, <1>3, TalliedInvariant, PTL DEF Spec

-----------------------------------------------------------------------------
(* The exit dump.                                                           *)

\* A set has the size of any other way to write it.
LEMMA SameSize ==
    ASSUME NEW S, NEW T, \A x : x \in S <=> x \in T
    PROVE  Cardinality(S) = Cardinality(T)
<1>1. S = T
  OBVIOUS
<1> QED
  BY <1>1, Zenon

\* The lines of the table tally with the summary's phases.
LEMMA PhasesTally ==
    ASSUME NEW g \in Seq(Summary)
    PROVE  LET r     == BuildSummary(g)
               lines == [i \in DOMAIN g |-> SiteLine(g[i])]
           IN  \A p \in DOMAIN r.by_phase :
                  r.by_phase[p] = SitesWith(lines, LAMBDA l : l.phase = p)
<1>1. PICK lines : lines = [i \in DOMAIN g |-> SiteLine(g[i])]
  OBVIOUS
<1>2. PICK t : t = BuildSummary(g).by_phase
  OBVIOUS
<1>3. t = [Blacklisted |-> Cardinality({i \in DOMAIN g : g[i].blacklisted}),
           Compiled    |-> Cardinality({i \in DOMAIN g : g[i].phase = "Compiled" /\ ~g[i].blacklisted}),
           Deopt       |-> Cardinality({i \in DOMAIN g : ~g[i].blacklisted /\ g[i].phase = "Deopt"}),
           PreSpec     |-> Cardinality({i \in DOMAIN g : ~g[i].blacklisted /\ g[i].phase = "PreSpec"})]
  BY <1>2 DEF BuildSummary, SitesWith
<1>4. DOMAIN t = {"Blacklisted", "Compiled", "Deopt", "PreSpec"}
  BY <1>3
<1>5. /\ t["Blacklisted"] = Cardinality({i \in DOMAIN g : g[i].blacklisted})
      /\ t["Compiled"] = Cardinality({i \in DOMAIN g : g[i].phase = "Compiled" /\ ~g[i].blacklisted})
      /\ t["Deopt"] = Cardinality({i \in DOMAIN g : ~g[i].blacklisted /\ g[i].phase = "Deopt"})
      /\ t["PreSpec"] = Cardinality({i \in DOMAIN g : ~g[i].blacklisted /\ g[i].phase = "PreSpec"})
  BY <1>3
<1>6. DOMAIN lines = DOMAIN g /\ \A i \in DOMAIN g : lines[i].phase = PhaseName(g[i])
  BY <1>1 DEF SiteLine
<1>7. \A i \in DOMAIN g : g[i].phase \in {"PreSpec", "Compiled", "Deopt"}
  <2>1. \A i \in DOMAIN g : g[i] \in Summary
    OBVIOUS
  <2> QED
    BY <2>1 DEF Summary, Phases
<1>8. ASSUME NEW p
      PROVE  SitesWith(lines, LAMBDA l : l.phase = p)
               = Cardinality({i \in DOMAIN lines : lines[i].phase = p})
  BY DEF SitesWith
<1>9. Cardinality({i \in DOMAIN lines : lines[i].phase = "Blacklisted"})
        = Cardinality({i \in DOMAIN g : g[i].blacklisted})
  <2>1. \A i : i \in {j \in DOMAIN lines : lines[j].phase = "Blacklisted"}
               <=> i \in {j \in DOMAIN g : g[j].blacklisted}
    BY <1>6, <1>7 DEF PhaseName
  <2> QED
    BY <2>1, SameSize
<1>10. Cardinality({i \in DOMAIN lines : lines[i].phase = "Compiled"})
         = Cardinality({i \in DOMAIN g : g[i].phase = "Compiled" /\ ~g[i].blacklisted})
  <2>1. \A i : i \in {j \in DOMAIN lines : lines[j].phase = "Compiled"}
               <=> i \in {j \in DOMAIN g : g[j].phase = "Compiled" /\ ~g[j].blacklisted}
    BY <1>6, <1>7 DEF PhaseName
  <2> QED
    BY <2>1, SameSize
<1>11. Cardinality({i \in DOMAIN lines : lines[i].phase = "Deopt"})
         = Cardinality({i \in DOMAIN g : ~g[i].blacklisted /\ g[i].phase = "Deopt"})
  <2>1. \A i : i \in {j \in DOMAIN lines : lines[j].phase = "Deopt"}
               <=> i \in {j \in DOMAIN g : ~g[j].blacklisted /\ g[j].phase = "Deopt"}
    BY <1>6, <1>7 DEF PhaseName
  <2> QED
    BY <2>1, SameSize
<1>12. Cardinality({i \in DOMAIN lines : lines[i].phase = "PreSpec"})
         = Cardinality({i \in DOMAIN g : ~g[i].blacklisted /\ g[i].phase = "PreSpec"})
  <2>1. \A i : i \in {j \in DOMAIN lines : lines[j].phase = "PreSpec"}
               <=> i \in {j \in DOMAIN g : ~g[j].blacklisted /\ g[j].phase = "PreSpec"}
    BY <1>6, <1>7 DEF PhaseName
  <2> QED
    BY <2>1, SameSize
<1>13. ASSUME NEW p \in DOMAIN t
       PROVE  t[p] = SitesWith(lines, LAMBDA l : l.phase = p)
  <2>1. p \in {"Blacklisted", "Compiled", "Deopt", "PreSpec"}
    BY <1>4
  <2>2. t[p] = Cardinality({i \in DOMAIN lines : lines[i].phase = p})
    <3>1. CASE p = "Blacklisted"
      BY <1>5, <1>9, <3>1
    <3>2. CASE p = "Compiled"
      BY <1>5, <1>10, <3>2
    <3>3. CASE p = "Deopt"
      BY <1>5, <1>11, <3>3
    <3>4. CASE p = "PreSpec"
      BY <1>5, <1>12, <3>4
    <3> QED
      BY <2>1, <3>1, <3>2, <3>3, <3>4
  <2> QED
    BY <1>8, <2>2
<1> QED
  BY <1>1, <1>2, <1>13

\* The percentiles of a line are in order.
LEMMA LineOrdered ==
    ASSUME NEW s \in Summary
    PROVE  SiteLine(s).p50 <= SiteLine(s).p95 /\ SiteLine(s).p95 <= SiteLine(s).p99
<1>1. PICK h : h = IF s.phase = "Compiled" THEN s.baseline ELSE s.windows[s.active]
  OBVIOUS
<1>2. h \in Hists
  BY <1>1, Roles DEF Summary
<1>3. IsHistogram(h) /\ Accounted(h)
  BY <1>2 DEF Hists
<1>4. Quantile(h, 50) <= Quantile(h, 95)
  BY <1>3, QuantilesOrdered
<1>5. Quantile(h, 95) <= Quantile(h, 99)
  BY <1>3, QuantilesOrdered
<1>6. /\ SiteLine(s).p50 = Quantile(h, 50) /\ SiteLine(s).p95 = Quantile(h, 95)
      /\ SiteLine(s).p99 = Quantile(h, 99)
  BY <1>1 DEF SiteLine
<1> QED
  BY <1>4, <1>5, <1>6

\* How many entries of the column c over S are at most x, and the values that
\* more than k of them do not exceed.
UpTo(c, S, x)   == Cardinality({i \in S : c[i] <= x})
Beyond(c, S, k) == {x \in {c[i] : i \in S} : UpTo(c, S, x) > k}

\* The least of them.
Ranked(c, S, k) == CHOOSE x \in Beyond(c, S, k) : \A y \in Beyond(c, S, k) : x <= y

\* A finite column has a greatest value, so every rank below its size is taken.
LEMMA RankedOK ==
    ASSUME NEW c, NEW S, IsFiniteSet(S), NatOn(c, S), NEW k \in Nat, k < Cardinality(S)
    PROVE  /\ Ranked(c, S, k) \in Beyond(c, S, k)
           /\ \A y \in Beyond(c, S, k) : Ranked(c, S, k) <= y
           /\ Beyond(c, S, k) \subseteq {c[i] : i \in S} /\ {c[i] : i \in S} \subseteq Nat
<1>1. {c[i] : i \in S} \subseteq Nat
  BY DEF NatOn
<1>2. S # {}
  BY FS_EmptySet
<1>3. PICK m \in Nat : \A x \in {c[i] : i \in S} : x <= m
  <2>1. PICK m : m = SumFunctionOnSet(c, S)
    OBVIOUS
  <2>2. m \in Nat
    BY <2>1, SumNat
  <2>3. ASSUME NEW i \in S
        PROVE  c[i] <= m
    <3>1. m = c[i] + SumFunctionOnSet(c, S \ {i})
      BY <2>1, SumTakeOut
    <3>2. SumFunctionOnSet(c, S \ {i}) \in Nat
      <4>1. IsFiniteSet(S \ {i}) /\ NatOn(c, S \ {i})
        BY FS_Subset DEF NatOn
      <4> QED
        BY <4>1, SumNat
    <3>3. c[i] \in Nat
      BY DEF NatOn
    <3> QED
      BY <2>2, <3>1, <3>2, <3>3
  <2> QED
    BY <2>2, <2>3
<1>4. PICK x \in {c[i] : i \in S} : \A y \in {c[i] : i \in S} : y <= x
  BY <1>1, <1>2, <1>3, NatHasGreatest
<1>5. UpTo(c, S, x) = Cardinality(S)
  <2>1. \A i : i \in {j \in S : c[j] <= x} <=> i \in S
    BY <1>4
  <2>2. Cardinality({j \in S : c[j] <= x}) = Cardinality(S)
    BY <2>1, SameSize
  <2> QED
    BY <2>2 DEF UpTo
<1>6. x \in Beyond(c, S, k)
  BY <1>4, <1>5, FS_CardinalityType DEF Beyond
<1>7. Beyond(c, S, k) \subseteq {c[i] : i \in S}
  BY DEF Beyond
<1>8. \E z \in Beyond(c, S, k) : \A y \in Beyond(c, S, k) : z <= y
  <2>1. PICK B : B = Beyond(c, S, k)
    OBVIOUS
  <2>2. B \in SUBSET Nat /\ B # {}
    BY <1>1, <1>6, <1>7, <2>1
  <2> QED
    BY <2>1, <2>2, NatHasLeast
<1>9. /\ Ranked(c, S, k) \in Beyond(c, S, k)
      /\ \A y \in Beyond(c, S, k) : Ranked(c, S, k) <= y
  BY <1>8 DEF Ranked
<1> QED
  BY <1>1, <1>7, <1>9

\* A higher rank has no smaller value.
LEMMA RankedMonotone ==
    ASSUME NEW c, NEW S, IsFiniteSet(S), NatOn(c, S), NEW j \in Nat, NEW k \in Nat,
           j <= k, k < Cardinality(S)
    PROVE  Ranked(c, S, j) <= Ranked(c, S, k)
<1>1. Cardinality(S) \in Nat /\ j < Cardinality(S)
  BY FS_CardinalityType
<1>2. Ranked(c, S, k) \in Beyond(c, S, k)
  BY RankedOK
<1>3. ASSUME NEW x
      PROVE  UpTo(c, S, x) \in Nat
  <2>1. IsFiniteSet({i \in S : c[i] <= x})
    BY FS_Subset
  <2> QED
    BY <2>1, FS_CardinalityType DEF UpTo
<1>4. Ranked(c, S, k) \in Beyond(c, S, j)
  BY <1>2, <1>3 DEF Beyond
<1> QED
  BY <1>1, <1>4, RankedOK

\* The percentiles of a column that print_summary takes have ranks in order.
LEMMA RanksOrdered ==
    ASSUME NEW n \in Nat, n > 0
    PROVE  /\ 0 \in Nat /\ n \div 2 \in Nat /\ (n * 95) \div 100 \in Nat /\ n - 1 \in Nat
           /\ 0 <= n \div 2 /\ n \div 2 <= (n * 95) \div 100 /\ (n * 95) \div 100 <= n - 1
           /\ n - 1 < n
  OBVIOUS

\* Sites are first compiled after as many events as two windows hold, and the
\* numbers that print_summary gives of them are in order.
LEMMA FirstCompilesOrdered ==
    ASSUME NEW g \in Seq(Summary), \A i \in 1..Len(g) : WindowsOK(g[i], LiveKnobs),
           Cardinality(EverCompiled(g)) > 0
    PROVE  LET e == EventsToSpecialize(g)
           IN  /\ (LiveKnobs.stable + 1) * LiveKnobs.window <= e.min
               /\ e.min <= e.p50 /\ e.p50 <= e.p95 /\ e.p95 <= e.max
<1>1. PICK S : S = EverCompiled(g)
  OBVIOUS
<1>2. PICK c : c = [i \in S |-> g[i].first_compile_events]
  OBVIOUS
<1>3. S \subseteq 1..Len(g) /\ \A i \in S : g[i] \in Summary /\ g[i].first_compile_events # 0
  BY <1>1 DEF EverCompiled
<1>4. IsFiniteSet(S)
  <2>1. IsFiniteSet(1..Len(g))
    BY FS_Interval
  <2> QED
    BY <1>3, <2>1, FS_Subset
<1>5. \A i \in S : c[i] = g[i].first_compile_events
  BY <1>2
<1>6. NatOn(c, S)
  BY <1>3, <1>5 DEF NatOn, Summary
<1>7. PICK n : n = Cardinality(S)
  OBVIOUS
<1>8. n \in Nat /\ n > 0 /\ n = Cardinality(EverCompiled(g))
  BY <1>1, <1>4, <1>7, FS_CardinalityType
<1>9. ASSUME NEW k
      PROVE  CompileAt(g, k) = Ranked(c, S, k)
  <2>1. {g[i].first_compile_events : i \in S} = {c[i] : i \in S}
    BY <1>5
  <2>2. ASSUME NEW x
        PROVE  Cardinality({i \in S : g[i].first_compile_events <= x}) = UpTo(c, S, x)
    <3>1. \A i : i \in {j \in S : g[j].first_compile_events <= x} <=> i \in {j \in S : c[j] <= x}
      BY <1>5
    <3> QED
      BY <3>1, SameSize DEF UpTo
  <2> DEFINE B == {x \in {g[i].first_compile_events : i \in S} :
                       Cardinality({i \in S : g[i].first_compile_events <= x}) > k}
  <2>3. CompileAt(g, k) = CHOOSE x \in B : \A y \in B : x <= y
    BY <1>1 DEF CompileAt
  <2>4. B = Beyond(c, S, k)
    BY <2>1, <2>2 DEF Beyond
  <2> HIDE DEF B
  <2> QED
    BY <2>3, <2>4 DEF Ranked
<1>10. /\ EventsToSpecialize(g).min = Ranked(c, S, 0)
       /\ EventsToSpecialize(g).p50 = Ranked(c, S, n \div 2)
       /\ EventsToSpecialize(g).p95 = Ranked(c, S, (n * 95) \div 100)
       /\ EventsToSpecialize(g).max = Ranked(c, S, n - 1)
  BY <1>8, <1>9 DEF EventsToSpecialize
<1>11. /\ 0 \in Nat /\ n \div 2 \in Nat /\ (n * 95) \div 100 \in Nat /\ n - 1 \in Nat
       /\ 0 <= n \div 2 /\ n \div 2 <= (n * 95) \div 100 /\ (n * 95) \div 100 <= n - 1
       /\ n - 1 < n
  BY <1>8, RanksOrdered
<1>12. (LiveKnobs.stable + 1) * LiveKnobs.window <= Ranked(c, S, 0)
  <2>1. Ranked(c, S, 0) \in {c[i] : i \in S}
    BY <1>4, <1>6, <1>7, <1>8, RankedOK
  <2>2. PICK i \in S : Ranked(c, S, 0) = g[i].first_compile_events
    BY <1>5, <2>1
  <2>3. WindowsOK(g[i], LiveKnobs) /\ g[i].first_compile_events # 0
    BY <1>3
  <2> QED
    BY <2>2, <2>3 DEF WindowsOK
<1>13. Ranked(c, S, 0) <= Ranked(c, S, n \div 2)
  <2>1. n \div 2 < Cardinality(S)
    BY <1>7, <1>8, <1>11
  <2> QED
    BY <1>4, <1>6, <1>11, <2>1, RankedMonotone
<1>14. Ranked(c, S, n \div 2) <= Ranked(c, S, (n * 95) \div 100)
  <2>1. (n * 95) \div 100 < Cardinality(S)
    BY <1>7, <1>8, <1>11
  <2> QED
    BY <1>4, <1>6, <1>11, <2>1, RankedMonotone
<1>15. Ranked(c, S, (n * 95) \div 100) <= Ranked(c, S, n - 1)
  BY <1>4, <1>6, <1>7, <1>11, RankedMonotone
<1> QED
  BY <1>10, <1>12, <1>13, <1>14, <1>15

\* Every site that is Compiled now counts among those that ever were, and none
\* has the strategy that is no strategy.
LEMMA CompiledSites ==
    ASSUME NEW g \in Seq(Summary), \A i \in 1..Len(g) : WindowsOK(g[i], LiveKnobs)
    PROVE  LET r == BuildSummary(g)
           IN  /\ r.by_strategy["Generic"] = 0
               /\ r.by_phase.Compiled \in Nat
               /\ EventsToSpecialize(g).n \in Nat
               /\ r.by_phase.Compiled <= EventsToSpecialize(g).n
<1> DEFINE C == {i \in DOMAIN g : g[i].phase = "Compiled" /\ ~g[i].blacklisted}
           G == {i \in DOMAIN g : (g[i].phase = "Compiled" /\ ~g[i].blacklisted)
                                  /\ g[i].candidate = "Generic"}
<1>1. \A i \in DOMAIN g : g[i].phase = "Compiled" =>
                             g[i].candidate # "Generic" /\ g[i].first_compile_events # 0
  BY DEF WindowsOK, Proven
<1>2. BuildSummary(g).by_phase.Compiled = Cardinality(C)
  BY DEF BuildSummary, SitesWith
<1>3. BuildSummary(g).by_strategy["Generic"] = Cardinality(G)
  <2>1. "Generic" \in Strategies
    BY DEF Strategies
  <2> QED
    BY <2>1 DEF BuildSummary, SitesWith
<1>4. EventsToSpecialize(g).n = Cardinality(EverCompiled(g))
  BY DEF EventsToSpecialize
<1>5. G = {} /\ C \subseteq EverCompiled(g) /\ EverCompiled(g) \subseteq 1..Len(g)
  BY <1>1 DEF EverCompiled
<1> HIDE DEF C, G
<1>6. IsFiniteSet(EverCompiled(g))
  <2>1. IsFiniteSet(1..Len(g))
    BY FS_Interval
  <2> QED
    BY <1>5, <2>1, FS_Subset
<1>7. IsFiniteSet(C) /\ Cardinality(C) <= Cardinality(EverCompiled(g))
  BY <1>5, <1>6, FS_Subset
<1>8. Cardinality(C) \in Nat /\ Cardinality(EverCompiled(g)) \in Nat
  BY <1>6, <1>7, FS_CardinalityType
<1>9. Cardinality(G) = 0
  BY <1>5, FS_EmptySet
<1> QED
  BY <1>2, <1>3, <1>4, <1>7, <1>8, <1>9

\* The exit dump agrees with the table it is made from and with what happened:
\* every count of events, frees, phases and strategies adds up, a line's
\* percentiles are in order, and so are the events to specialize, none of which
\* is less than the windows a compile takes.
THEOREM ReportAddsUpHolds == Spec => []ReportAddsUp
<1>1. TalliedInv => ReportAddsUp
  <2> SUFFICES ASSUME TalliedInv
               PROVE  ReportAddsUp
    OBVIOUS
  <2> DEFINE r     == BuildSummary(g_summaries)
             lines == [i \in DOMAIN g_summaries |-> SiteLine(g_summaries[i])]
             e     == EventsToSpecialize(g_summaries)
  <2>1. g_summaries \in Seq(Summary) /\ \A i \in 1..Len(g_summaries) : WindowsOK(g_summaries[i], LiveKnobs)
    BY DEF TalliedInv, PickerInv, Coupled, Typed
  <2>2. \A p \in DOMAIN r.by_phase : r.by_phase[p] = SitesWith(lines, LAMBDA l : l.phase = p)
    BY <2>1, PhasesTally
  <2>3. TotalsOK(g_summaries, seen) /\ seen \in Tallies
    BY DEF TalliedInv, TallyInv
  <2>4. r.total_events = SumFunction(seen.allocs)
    <3>1. r.total_events = SumFunction(Events(g_summaries))
      BY DEF BuildSummary, SumOver, Events
    <3> QED
      BY <2>3, <3>1 DEF TotalsOK
  <2>5. r.total_frees = SumOver(seen.frees, SumFunction) + SumOver(seen.managed, SumFunction)
    <3>1. r.total_frees = SumFunction(FreesIn(g_summaries))
      BY DEF BuildSummary, SumOver, FreesIn
    <3>2. DOMAIN seen.frees = Sites /\ DOMAIN seen.managed = Sites
      BY <2>3 DEF Tallies
    <3>3. ASSUME NEW F, DOMAIN F = Sites
          PROVE  SumOver(F, SumFunction) = FreesOf(F)
      <4>1. PICK h : h = [id \in Sites |-> SumFunction(F[id])]
        OBVIOUS
      <4>2. SumOver(F, SumFunction) = SumFunction(h)
        BY <3>3, <4>1 DEF SumOver
      <4>3. DOMAIN h = Sites
        BY <4>1
      <4>4. SumFunction(h) = SumFunctionOnSet(h, Sites)
        BY <4>3 DEF SumFunction
      <4> QED
        BY <4>1, <4>2, <4>4 DEF FreesOf
    <3> QED
      BY <2>3, <3>1, <3>2, <3>3 DEF TotalsOK
  <2>6. \A l \in Range(lines) : l.p50 <= l.p95 /\ l.p95 <= l.p99
    <3> SUFFICES ASSUME NEW l \in Range(lines)
                 PROVE  l.p50 <= l.p95 /\ l.p95 <= l.p99
      OBVIOUS
    <3>1. PICK i \in DOMAIN g_summaries : l = SiteLine(g_summaries[i])
      BY DEF Range
    <3>2. g_summaries[i] \in Summary
      BY <2>1
    <3> QED
      BY <3>1, <3>2, LineOrdered
  <2>7. /\ r.by_strategy["Generic"] = 0
        /\ r.by_phase.Compiled \in Nat /\ e.n \in Nat /\ r.by_phase.Compiled <= e.n
    BY <2>1, CompiledSites
  <2>8. e.n = Cardinality(EverCompiled(g_summaries))
    BY DEF EventsToSpecialize
  <2>9. ASSUME r.by_phase.Compiled > 0
        PROVE  /\ e.n >= r.by_phase.Compiled
               /\ (LiveKnobs.stable + 1) * LiveKnobs.window <= e.min
               /\ e.min <= e.p50 /\ e.p50 <= e.p95 /\ e.p95 <= e.max
    <3>1. Cardinality(EverCompiled(g_summaries)) > 0
      BY <2>7, <2>8, <2>9
    <3>2. /\ (LiveKnobs.stable + 1) * LiveKnobs.window <= e.min
          /\ e.min <= e.p50 /\ e.p50 <= e.p95 /\ e.p95 <= e.max
      BY <2>1, <3>1, FirstCompilesOrdered
    <3> QED
      BY <2>7, <3>2
  <2> QED
    BY <2>2, <2>4, <2>5, <2>6, <2>7, <2>9 DEF ReportAddsUp
<1> QED
  BY <1>1, TalliedInvariant, PTL
=============================================================================
