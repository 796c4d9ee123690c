--------------------------- MODULE InterposeProofs ---------------------------
(***************************************************************************)
(* Proofs about Interpose, for every value of its constants. RouteInv says *)
(* what a thread's nested calls look like, when its guard is set and what  *)
(* has been resolved where; OwnerInv says who has an address and whose it  *)
(* is; RecordInv says which chunks the shadow validator has on record. The *)
(* third part is about the validator's table on its own: placing an entry  *)
(* and removing one keep every other entry where a search finds it.        *)
(***************************************************************************)
EXTENDS Interpose, FiniteSums, SequenceTheorems, TLAPS

-----------------------------------------------------------------------------
(* Stacks, seen from the bottom: the frame of height 1 was called first.    *)

Up(s, h) == s[(Len(s) + 1) - h]

\* s with f for its top frame.
Swap(s, f) == <<f>> \o Tail(s)

\* Pushing a frame adds one on top and moves none below.
LEMMA UpPush ==
    ASSUME NEW S, NEW s \in Seq(S), NEW f \in S
    PROVE  /\ <<f>> \o s \in Seq(S) /\ Len(<<f>> \o s) = Len(s) + 1
           /\ (<<f>> \o s)[1] = f
           /\ Up(<<f>> \o s, Len(s) + 1) = f
           /\ \A h \in 1..Len(s) : Up(<<f>> \o s, h) = Up(s, h)
<1> DEFINE r == <<f>> \o s
<1>1. <<f>> \in Seq(S) /\ Len(<<f>>) = 1 /\ <<f>>[1] = f
  OBVIOUS
<1>2. r \in Seq(S) /\ Len(r) = 1 + Len(s)
      /\ \A i \in 1..(1 + Len(s)) : r[i] = IF i <= 1 THEN <<f>>[i] ELSE s[i - 1]
  BY <1>1, ConcatProperties
<1>3. Len(s) \in Nat
  OBVIOUS
<1> HIDE DEF r
<1>4. r[1] = f
  BY <1>1, <1>2, <1>3
<1>5. ASSUME NEW h \in 1..Len(s) PROVE Up(r, h) = Up(s, h)
  <2>1. (Len(r) + 1) - h \in 2..(1 + Len(s)) /\ ((Len(r) + 1) - h) - 1 = (Len(s) + 1) - h
    BY <1>2, <1>3
  <2> QED BY <2>1, <1>2 DEF Up
<1>6. (Len(r) + 1) - (Len(s) + 1) = 1 /\ 1 + Len(s) = Len(s) + 1
  BY <1>2, <1>3
<1> QED BY <1>2, <1>4, <1>5, <1>6 DEF Up, r

\* What is left when the top frame is taken off.
LEMMA UpPop ==
    ASSUME NEW S, NEW s \in Seq(S), s # <<>>
    PROVE  /\ Tail(s) \in Seq(S) /\ Len(Tail(s)) = Len(s) - 1 /\ Len(s) \in Nat \ {0}
           /\ s[1] \in S /\ Up(s, Len(s)) = s[1]
           /\ \A h \in 1..(Len(s) - 1) : Up(Tail(s), h) = Up(s, h)
           /\ Tail(s) # <<>> => Len(s) > 1 /\ Tail(s)[1] = Up(s, Len(s) - 1)
<1>1. Len(s) \in Nat \ {0} /\ s[1] \in S
  OBVIOUS
<1>2. Tail(s) \in Seq(S) /\ Len(Tail(s)) = Len(s) - 1 /\ \A i \in 1..(Len(s) - 1) : Tail(s)[i] = s[i + 1]
  OBVIOUS
<1>3. Up(s, Len(s)) = s[1]
  BY <1>1 DEF Up
<1>4. ASSUME NEW h \in 1..(Len(s) - 1) PROVE Up(Tail(s), h) = Up(s, h)
  <2>1. ((Len(s) - 1) + 1) - h \in 1..(Len(s) - 1)
        /\ (((Len(s) - 1) + 1) - h) + 1 = (Len(s) + 1) - h
    BY <1>1
  <2> QED BY <2>1, <1>2 DEF Up
<1>5. Tail(s) # <<>> => Len(s) > 1 /\ Tail(s)[1] = Up(s, Len(s) - 1)
  <2> HAVE Tail(s) # <<>>
  <2>1. Len(Tail(s)) # 0
    BY <1>2, EmptySeq
  <2>2. Len(s) > 1 /\ 1 \in 1..(Len(s) - 1) /\ (Len(s) + 1) - (Len(s) - 1) = 1 + 1
    BY <2>1, <1>1, <1>2
  <2> QED BY <2>2, <1>2 DEF Up
<1> QED BY <1>1, <1>2, <1>3, <1>4, <1>5

\* Replacing the top frame moves none below.
LEMMA UpSwap ==
    ASSUME NEW S, NEW s \in Seq(S), s # <<>>, NEW f \in S
    PROVE  /\ Swap(s, f) \in Seq(S) /\ Len(Swap(s, f)) = Len(s) /\ Swap(s, f)[1] = f
           /\ Swap(s, f) # <<>> /\ Tail(Swap(s, f)) = Tail(s)
           /\ Up(Swap(s, f), Len(s)) = f
           /\ \A h \in 1..(Len(s) - 1) : Up(Swap(s, f), h) = Up(s, h)
<1>1. /\ Tail(s) \in Seq(S) /\ Len(Tail(s)) = Len(s) - 1 /\ Len(s) \in Nat \ {0}
      /\ \A h \in 1..(Len(s) - 1) : Up(Tail(s), h) = Up(s, h)
  BY UpPop
<1>2. /\ Swap(s, f) \in Seq(S) /\ Len(Swap(s, f)) = Len(Tail(s)) + 1 /\ Swap(s, f)[1] = f
      /\ Up(Swap(s, f), Len(Tail(s)) + 1) = f
      /\ \A h \in 1..Len(Tail(s)) : Up(Swap(s, f), h) = Up(Tail(s), h)
  <2>1. ASSUME NEW u \in Seq(S)
        PROVE  /\ <<f>> \o u \in Seq(S) /\ Len(<<f>> \o u) = Len(u) + 1 /\ (<<f>> \o u)[1] = f
               /\ Up(<<f>> \o u, Len(u) + 1) = f
               /\ \A h \in 1..Len(u) : Up(<<f>> \o u, h) = Up(u, h)
    BY UpPush
  <2>2. Tail(s) \in Seq(S)
    BY <1>1
  <2> QED BY <2>1, <2>2, Zenon DEF Swap
<1>3. Len(Tail(s)) + 1 = Len(s)
  BY <1>1
<1>4. Swap(s, f) # <<>>
  BY <1>1, <1>2, <1>3
<1>5. Tail(Swap(s, f)) = Tail(s)
  BY <1>1 DEF Swap
<1> QED BY <1>1, <1>2, <1>3, <1>4, <1>5

-----------------------------------------------------------------------------
(* The calls of one thread.                                                 *)

\* What each function has in its frame, and where it can be.
FrameShape(f) ==
    \/ /\ f.fn = "malloc" /\ f.p = Null
       /\ f.at \in {"enter", "direct", "gate", "serve", "validate", "libc"}
       /\ f.out # Null => f.at = "validate"
    \/ /\ f.fn = "free" /\ f.p # Null /\ f.out = Null
       /\ f.at \in {"enter", "direct", "gate", "validate", "route", "managed", "unmanaged", "libc"}
       /\ f.at # "enter" => f.p \in Addrs
    \/ /\ f.fn = "realloc"
       /\ f.at \in {"enter", "direct", "gate", "libc", "copy", "done"}
       /\ f.at \notin {"enter", "done"} => f.p \notin Boots
       /\ f.at = "copy" => f.p # Null
       /\ f.out # Null => f.at \in {"copy", "done"}
    \/ /\ f.fn = "resolve" /\ f.p = Null /\ f.out = Null
       /\ f.at \in Funs \cup {"enter", "end"}
    \/ f.fn = "init" /\ f.at = "enter" /\ f.p = Null /\ f.out = Null

\* Which calls c, where it is now, can be waiting for f.
Waits(c, f) ==
    \/ c.fn = "resolve" /\ c.at \in Funs /\ f.fn \in Funs
    \/ c.fn = "init" /\ f.fn = "resolve"
    \/ c.fn \in Funs /\ c.at = "direct" /\ f.fn = "resolve"
    \/ c.fn = "realloc" /\ c.at = "done" /\ f.fn \in {"malloc", "free"}
    \/ c.fn = "realloc" /\ c.at = "copy" /\ f.fn = "malloc"

\* A thread's stack, and its guard gd: at most one call is in a guarded section.
StackOK(s, gd) ==
    /\ \A h \in 1..Len(s) : FrameShape(Up(s, h))
    /\ \A h \in 1..(Len(s) - 1) : Waits(Up(s, h), Up(s, h + 1))
    /\ s # <<>> => Up(s, 1).fn # "resolve"
    /\ \A h, k \in 1..Len(s) : Guarded(Up(s, h)) /\ Guarded(Up(s, k)) => h = k
    /\ gd <=> \E h \in 1..Len(s) : Guarded(Up(s, h))

\* A call made where the caller may wait for it keeps the stack well-formed.
LEMMA StackPush ==
    ASSUME NEW s \in Seq(Frames), NEW gd, StackOK(s, gd), NEW f \in Frames,
           FrameShape(f), Guarded(f) => ~gd, NEW gd2, gd2 <=> gd \/ Guarded(f),
           s = <<>> => f.fn # "resolve", s # <<>> => Waits(s[1], f)
    PROVE  StackOK(<<f>> \o s, gd2)
<1> DEFINE r == <<f>> \o s
           n == Len(s)
<1>1. /\ Len(r) = n + 1 /\ Up(r, n + 1) = f
      /\ \A h \in 1..n : Up(r, h) = Up(s, h)
  BY UpPush
<1>2. n \in Nat /\ (s = <<>> => n = 0) /\ (s # <<>> => n > 0 /\ Up(s, n) = s[1])
  BY DEF Up
<1> HIDE DEF r, n
<1>3. \A h \in 1..(n + 1) : (h \in 1..n /\ Up(r, h) = Up(s, h)) \/ (h = n + 1 /\ Up(r, h) = f)
  BY <1>1, <1>2
<1>0. /\ \A h \in 1..n : FrameShape(Up(s, h))
      /\ \A h \in 1..(n - 1) : Waits(Up(s, h), Up(s, h + 1))
      /\ s # <<>> => Up(s, 1).fn # "resolve"
      /\ \A h, k \in 1..n : Guarded(Up(s, h)) /\ Guarded(Up(s, k)) => h = k
      /\ gd <=> \E h \in 1..n : Guarded(Up(s, h))
  BY DEF StackOK, n
<1>4. \A h \in 1..(n + 1) : FrameShape(Up(r, h))
  BY <1>3, <1>0
<1>5. ASSUME NEW h \in 1..((n + 1) - 1) PROVE Waits(Up(r, h), Up(r, h + 1))
  <2>1. CASE h = n
    <3>1. s # <<>> /\ Up(r, h) = s[1] /\ Up(r, h + 1) = f
      BY <2>1, <1>1, <1>2
    <3> QED BY <3>1
  <2>2. CASE h # n
    <3>1. h \in 1..(n - 1) /\ h + 1 \in 1..n /\ h \in 1..n
      BY <2>2, <1>2
    <3> QED BY <3>1, <1>1, <1>0
  <2> QED BY <2>1, <2>2
<1>6. Up(r, 1).fn # "resolve"
  <2>1. CASE s = <<>>
    BY <2>1, <1>1, <1>2
  <2>2. CASE s # <<>>
    <3>1. Up(r, 1) = Up(s, 1)
      BY <2>2, <1>1, <1>2
    <3> QED BY <3>1, <2>2, <1>0
  <2> QED BY <2>1, <2>2
<1>7. \A h, k \in 1..(n + 1) : Guarded(Up(r, h)) /\ Guarded(Up(r, k)) => h = k
  BY <1>3, <1>0
<1>8. gd2 <=> \E h \in 1..(n + 1) : Guarded(Up(r, h))
  <2>1. ASSUME NEW h \in 1..n PROVE h \in 1..(n + 1) /\ Up(r, h) = Up(s, h)
    BY <1>1, <1>2
  <2>2. n + 1 \in 1..(n + 1)
    BY <1>2
  <2> QED BY <2>1, <2>2, <1>1, <1>3, <1>0
<1> QED BY <1>1, <1>4, <1>5, <1>6, <1>7, <1>8 DEF StackOK, r

\* A return keeps the stack well-formed; the guard goes with the section it covers.
LEMMA StackPop ==
    ASSUME NEW s \in Seq(Frames), s # <<>>, NEW gd, StackOK(s, gd), NEW gd2,
           gd2 <=> gd /\ ~Guarded(s[1])
    PROVE  /\ StackOK(Tail(s), gd2) /\ FrameShape(s[1])
           /\ Tail(s) # <<>> => Waits(Tail(s)[1], s[1])
           /\ Tail(s) = <<>> => s[1].fn # "resolve"
<1> DEFINE r == Tail(s)
           n == Len(s)
<1>1. /\ Len(r) = n - 1 /\ n \in Nat \ {0} /\ Up(s, n) = s[1] /\ r \in Seq(Frames)
      /\ \A h \in 1..(n - 1) : Up(r, h) = Up(s, h)
      /\ r # <<>> => n > 1 /\ r[1] = Up(s, n - 1)
  BY UpPop
<1>2. r = <<>> => n = 1
  <2> HIDE DEF r, n
  <2>1. r = <<>> => Len(r) = 0
    OBVIOUS
  <2> QED BY <2>1, <1>1
<1>0. /\ \A h \in 1..n : FrameShape(Up(s, h))
      /\ \A h \in 1..(n - 1) : Waits(Up(s, h), Up(s, h + 1))
      /\ Up(s, 1).fn # "resolve"
      /\ \A h, k \in 1..n : Guarded(Up(s, h)) /\ Guarded(Up(s, k)) => h = k
      /\ gd <=> \E h \in 1..n : Guarded(Up(s, h))
  BY DEF StackOK, n
<1> HIDE DEF r, n
<1>3. FrameShape(s[1]) /\ (r = <<>> => s[1].fn # "resolve")
  BY <1>0, <1>1, <1>2
<1>4. r # <<>> => Waits(r[1], s[1])
  <2> HAVE r # <<>>
  <2>1. n - 1 \in 1..(n - 1) /\ (n - 1) + 1 = n
    BY <1>1
  <2> QED BY <2>1, <1>0, <1>1
<1>5. \A h \in 1..(n - 1) : h \in 1..n /\ h # n /\ Up(r, h) = Up(s, h)
  BY <1>1
<1>6. \A h \in 1..(n - 1) : FrameShape(Up(r, h))
  BY <1>5, <1>0
<1>7. \A h \in 1..((n - 1) - 1) : Waits(Up(r, h), Up(r, h + 1))
  <2> TAKE h \in 1..((n - 1) - 1)
  <2>1. h \in 1..(n - 1) /\ h + 1 \in 1..(n - 1)
    BY <1>1
  <2> QED BY <2>1, <1>5, <1>0
<1>8. r # <<>> => Up(r, 1).fn # "resolve"
  <2> HAVE r # <<>>
  <2>1. 1 \in 1..(n - 1)
    BY <1>1
  <2> QED BY <2>1, <1>5, <1>0
<1>9. \A h, k \in 1..(n - 1) : Guarded(Up(r, h)) /\ Guarded(Up(r, k)) => h = k
  BY <1>5, <1>0
<1>10. gd2 <=> \E h \in 1..(n - 1) : Guarded(Up(r, h))
  <2>1. n \in 1..n /\ \A h \in 1..n : h = n \/ h \in 1..(n - 1)
    BY <1>1
  <2>2. ASSUME gd2 PROVE \E h \in 1..(n - 1) : Guarded(Up(r, h))
    <3>1. PICK h \in 1..n : Guarded(Up(s, h))
      BY <2>2, <1>0
    <3>2. h # n
      BY <3>1, <2>2, <1>1
    <3> QED BY <3>1, <3>2, <2>1, <1>5
  <2>3. ASSUME NEW h \in 1..(n - 1), Guarded(Up(r, h)) PROVE gd2
    <3>1. h \in 1..n /\ h # n /\ Guarded(Up(s, h))
      BY <2>3, <1>5
    <3>2. ~Guarded(Up(s, n))
      BY <3>1, <2>1, <1>0
    <3>3. gd
      BY <3>1, <1>0
    <3> QED BY <3>2, <3>3, <1>1
  <2> QED BY <2>2, <2>3
<1> QED BY <1>1, <1>3, <1>4, <1>6, <1>7, <1>8, <1>9, <1>10 DEF StackOK, r

\* A call that moves on keeps the stack well-formed.
LEMMA StackSwap ==
    ASSUME NEW s \in Seq(Frames), s # <<>>, NEW gd, StackOK(s, gd), NEW f \in Frames,
           FrameShape(f), f.fn = s[1].fn, Guarded(f) => ~gd \/ Guarded(s[1]),
           NEW gd2, gd2 <=> (gd /\ ~Guarded(s[1])) \/ Guarded(f)
    PROVE  StackOK(Swap(s, f), gd2)
<1> DEFINE gd1 == gd /\ ~Guarded(s[1])
<1>1. /\ StackOK(Tail(s), gd1) /\ FrameShape(s[1])
      /\ Tail(s) # <<>> => Waits(Tail(s)[1], s[1])
      /\ Tail(s) = <<>> => s[1].fn # "resolve"
  BY StackPop
<1>2. Tail(s) \in Seq(Frames)
  BY UpPop
<1>3. Tail(s) # <<>> => Waits(Tail(s)[1], f)
  BY <1>1 DEF Waits
<1>4. (Guarded(f) => ~gd1) /\ (gd2 <=> gd1 \/ Guarded(f)) /\ (Tail(s) = <<>> => f.fn # "resolve")
  BY <1>1
<1> DEFINE u == Tail(s)
<1>5. /\ u \in Seq(Frames) /\ StackOK(u, gd1) /\ (Guarded(f) => ~gd1)
      /\ (gd2 <=> gd1 \/ Guarded(f)) /\ (u = <<>> => f.fn # "resolve") /\ (u # <<>> => Waits(u[1], f))
  BY <1>1, <1>2, <1>3, <1>4
<1> HIDE DEF gd1, u
<1>6. StackOK(<<f>> \o u, gd2)
  BY <1>5, StackPush
<1> QED BY <1>6 DEF Swap, u

\* A call that waits is in a guarded section only inside dlsym.
LEMMA GuardBelow ==
    ASSUME NEW s \in Seq(Frames), NEW gd, StackOK(s, gd), s # <<>>, gd, ~Guarded(s[1])
    PROVE  \E h \in 1..(Len(s) - 1) : Up(s, h).fn = "resolve"
<1>1. PICK h \in 1..Len(s) : Guarded(Up(s, h))
  BY DEF StackOK
<1>2. Len(s) \in Nat \ {0} /\ Up(s, Len(s)) = s[1]
  BY UpPop
<1>3. h \in 1..(Len(s) - 1)
  BY <1>1, <1>2
<1>4. Waits(Up(s, h), Up(s, h + 1))
  BY <1>3 DEF StackOK
<1>5. Up(s, h).fn = "resolve"
  BY <1>1, <1>4 DEF Waits, Guarded
<1> QED BY <1>3, <1>5

\* Six calls at most: a second resolve finds the guard set and returns.
LEMMA StackBounded ==
    ASSUME NEW s \in Seq(Frames), NEW gd, StackOK(s, gd)
    PROVE  Len(s) <= 6
<1> SUFFICES ASSUME Len(s) > 6 PROVE FALSE
  BY DEF StackOK
<1>1. Len(s) \in Nat /\ s # <<>>
  OBVIOUS
<1>2. \A h \in 1..6 : h \in 1..Len(s) /\ h \in 1..(Len(s) - 1)
  BY <1>1
<1>3. \A h \in 1..6 : FrameShape(Up(s, h)) /\ Waits(Up(s, h), Up(s, h + 1))
  BY <1>2 DEF StackOK
<1>4. \A h \in 1..6 : Up(s, h).fn = "resolve" => Guarded(Up(s, h))
  BY <1>3 DEF Waits, Guarded, Funs
<1>5. \A h, k \in 1..6 : Up(s, h).fn = "resolve" /\ Up(s, k).fn = "resolve" => h = k
  BY <1>2, <1>4 DEF StackOK
<1>6. \A h \in 1..4 :
        Up(s, h).fn \in Funs =>
            Up(s, h + 1).fn = "resolve" \/ (Up(s, h + 1).fn \in Funs /\ Up(s, (h + 1) + 1).fn = "resolve")
  <2> TAKE h \in 1..4
  <2>1. h \in 1..6 /\ h + 1 \in 1..6
    OBVIOUS
  <2>2. Waits(Up(s, h), Up(s, h + 1)) /\ Waits(Up(s, h + 1), Up(s, (h + 1) + 1))
    BY <2>1, <1>3
  <2> QED BY <2>2 DEF Waits, Funs
<1>7. \E h \in 1..3 : Up(s, h).fn = "resolve"
  <2>1. FrameShape(Up(s, 1)) /\ Up(s, 1).fn # "resolve" /\ Waits(Up(s, 1), Up(s, 2))
    BY <1>1, <1>3 DEF StackOK
  <2>2. CASE Up(s, 1).fn = "init"
    BY <2>1, <2>2 DEF Waits, Funs
  <2>3. CASE Up(s, 1).fn \in Funs
    BY <2>3, <1>6
  <2> QED BY <2>1, <2>2, <2>3 DEF FrameShape, Funs
<1>8. PICK h \in 1..3 : Up(s, h).fn = "resolve"
  BY <1>7
<1>9. Up(s, h + 1).fn \in Funs
  BY <1>3, <1>8 DEF Waits, Funs
<1>10. \E k \in 1..6 : k > h /\ Up(s, k).fn = "resolve"
  BY <1>6, <1>8, <1>9
<1> QED BY <1>5, <1>8, <1>10

-----------------------------------------------------------------------------
(* The invariant of the calls, and what is known when.                      *)

GlobalTypes ==
    /\ g_initialized \in BOOLEAN /\ g_shutting_down \in BOOLEAN
    /\ real \subseteq Funs /\ guard \in [Threads -> BOOLEAN]
    /\ boot_used \in 0..BootCap
    /\ owner \in [Addrs -> {"none", "libc", "seg"}]
    /\ pagemap \subseteq Addrs /\ reaping \in Addrs \cup {Null}
    /\ held \subseteq Ptrs \ {Null} /\ dropped \subseteq Addrs
    /\ life \in {"loaded", "starting", "up", "stopping", "down"}

StackTypes == stack \in [Threads -> Seq(Frames)]

CallsInv == \A t \in Threads : StackOK(stack[t], guard[t])

\* What has happened before a call can be where it is.
FrameReady(f) ==
    /\ f.fn = "resolve" =>
          /\ f.at \in {"free", "realloc", "end"} => "malloc" \in real
          /\ f.at \in {"realloc", "end"} => "free" \in real
          /\ f.at = "end" => "realloc" \in real
    /\ f.fn \in Funs /\ f.at \in {"gate", "serve", "validate", "route", "managed", "unmanaged", "copy"} =>
          g_initialized
    /\ f.at = "libc" => f.fn \in real

\* The calls in progress on a stack.
Calls(s) == {Up(s, h) : h \in 1..Len(s)}

LifeInv ==
    /\ g_initialized => real = Funs
    /\ g_initialized <=> life \in {"up", "stopping", "down"}
    /\ ~g_initialized => pagemap = {} /\ reaping = Null

ReadyInv ==
    \A t \in Threads :
        /\ \A f \in Calls(stack[t]) : FrameReady(f)
        /\ stack[t] # <<>> /\ stack[t][1].fn = "init" => real = Funs

RouteInv == GlobalTypes /\ StackTypes /\ CallsInv /\ LifeInv /\ ReadyInv

\* Two frames at the same place of the same function.
SameSpot(f, c) == f.fn = c.fn /\ f.at = c.at

\* The frames of a stack after a call ...
LEMMA CallsPush ==
    ASSUME NEW s \in Seq(Frames), NEW f \in Frames
    PROVE  Calls(<<f>> \o s) = Calls(s) \cup {f}
<1> DEFINE r == <<f>> \o s
           n == Len(s)
<1>1. /\ Len(r) = n + 1 /\ Up(r, n + 1) = f
      /\ \A h \in 1..n : Up(r, h) = Up(s, h)
  BY UpPush
<1>2. n \in Nat
  OBVIOUS
<1> HIDE DEF r, n
<1>3. 1..(n + 1) = (1..n) \cup {n + 1}
  BY <1>2
<1>4. {Up(r, h) : h \in 1..(n + 1)} = {Up(s, h) : h \in 1..n} \cup {f}
  BY <1>1, <1>3
<1> QED BY <1>1, <1>4 DEF Calls, r, n

\* ... after a return ...
LEMMA CallsPop ==
    ASSUME NEW s \in Seq(Frames), s # <<>>
    PROVE  /\ Calls(Tail(s)) \subseteq Calls(s) /\ s[1] \in Calls(s)
           /\ Tail(s) # <<>> => Tail(s)[1] \in Calls(s)
<1> DEFINE r == Tail(s)
           n == Len(s)
<1>1. /\ Len(r) = n - 1 /\ n \in Nat \ {0} /\ Up(s, n) = s[1] /\ r \in Seq(Frames)
      /\ \A h \in 1..(n - 1) : Up(r, h) = Up(s, h)
      /\ r # <<>> => n > 1 /\ r[1] = Up(s, n - 1)
  BY UpPop
<1> HIDE DEF r, n
<1>3. {Up(r, h) : h \in 1..(n - 1)} \subseteq {Up(s, h) : h \in 1..n}
  BY <1>1
<1>4. s[1] \in {Up(s, h) : h \in 1..n}
  BY <1>1
<1>5. r # <<>> => r[1] \in {Up(s, h) : h \in 1..n}
  BY <1>1
<1> QED BY <1>1, <1>3, <1>4, <1>5 DEF Calls, r, n

\* ... and after the top frame has changed.
LEMMA CallsSwap ==
    ASSUME NEW s \in Seq(Frames), s # <<>>, NEW f \in Frames
    PROVE  Calls(Swap(s, f)) \subseteq Calls(s) \cup {f}
<1>1. Tail(s) \in Seq(Frames)
  BY UpPop
<1> DEFINE u == Tail(s)
<1>2. Calls(u) \subseteq Calls(s) /\ u \in Seq(Frames)
  BY <1>1, CallsPop
<1> HIDE DEF u
<1>3. Calls(<<f>> \o u) = Calls(u) \cup {f}
  BY <1>2, CallsPush
<1> QED BY <1>2, <1>3 DEF Swap, u

\* A step that changes one thread's stack to s.
LEMMA OneStack ==
    ASSUME RouteInv, NEW t \in Threads, NEW s \in Seq(Frames),
           stack' = [stack EXCEPT ![t] = s], StackOK(s, guard'[t]),
           \A u \in Threads \ {t} : guard'[u] = guard[u],
           \A f \in Calls(s) : (\E c \in Calls(stack[t]) : SameSpot(f, c)) \/ FrameReady(f)',
           s # <<>> /\ s[1].fn = "init" => real' = Funs,
           real \subseteq real', real' \subseteq Funs, g_initialized => g_initialized'
    PROVE  StackTypes' /\ CallsInv' /\ ReadyInv'
<1>1. /\ stack \in [Threads -> Seq(Frames)] /\ \A u \in Threads : StackOK(stack[u], guard[u])
      /\ \A u \in Threads : \A f \in Calls(stack[u]) : FrameReady(f)
      /\ \A u \in Threads : stack[u] # <<>> /\ stack[u][1].fn = "init" => real = Funs
  BY DEF RouteInv, StackTypes, CallsInv, ReadyInv
<1>2. stack'[t] = s /\ \A u \in Threads \ {t} : stack'[u] = stack[u]
  BY <1>1
<1>3. StackTypes'
  BY <1>1 DEF StackTypes
<1>4. ASSUME NEW u \in Threads PROVE StackOK(stack'[u], guard'[u])
  BY <1>1, <1>2
<1>4a. CallsInv'
  BY <1>4 DEF CallsInv, StackOK, FrameShape, Waits, Guarded, Up, Boots, Funs
<1>5. ASSUME NEW f, NEW c, SameSpot(f, c), FrameReady(c) PROVE FrameReady(f)'
  BY <1>5 DEF SameSpot, FrameReady
<1>6. ASSUME NEW u \in Threads, NEW f \in Calls(stack'[u]) PROVE FrameReady(f)'
  <2>1. CASE u = t
    <3>1. f \in Calls(s)
      BY <2>1, <1>2
    <3> QED BY <3>1, <1>1, <1>5
  <2>2. CASE u # t
    <3>1. f \in Calls(stack[u]) /\ SameSpot(f, f)
      BY <2>2, <1>2 DEF SameSpot
    <3> QED BY <3>1, <1>1, <1>5
  <2> QED BY <2>1, <2>2
<1>7. ASSUME NEW u \in Threads, stack'[u] # <<>>, stack'[u][1].fn = "init" PROVE real' = Funs
  BY <1>1, <1>2, <1>7
<1>8. ReadyInv'
  BY <1>6, <1>7 DEF ReadyInv, Calls, Up
<1> QED BY <1>3, <1>4a, <1>8

-----------------------------------------------------------------------------
(* The ways a stack changes.                                                *)

\* What the invariant says of the call thread t is in, and of its caller.
LEMMA TopFrame ==
    ASSUME RouteInv, NEW t \in Threads, stack[t] # <<>>
    PROVE  /\ stack[t] \in Seq(Frames) /\ stack[t][1] \in Frames /\ FrameShape(stack[t][1])
           /\ FrameReady(stack[t][1]) /\ stack[t][1] \in Calls(stack[t])
           /\ Tail(stack[t]) \in Seq(Frames) /\ StackOK(stack[t], guard[t])
           /\ Tail(stack[t]) # <<>> => Waits(Tail(stack[t])[1], stack[t][1])
           /\ Tail(stack[t]) = <<>> => stack[t][1].fn # "resolve"
<1>1. /\ stack[t] \in Seq(Frames) /\ StackOK(stack[t], guard[t])
      /\ \A f \in Calls(stack[t]) : FrameReady(f)
  BY DEF RouteInv, StackTypes, CallsInv, ReadyInv
<1> DEFINE s == stack[t]
           gd == guard[t]
           gd2 == guard[t] /\ ~Guarded(stack[t][1])
<1>2. s \in Seq(Frames) /\ s # <<>> /\ StackOK(s, gd) /\ (gd2 <=> gd /\ ~Guarded(s[1]))
  BY <1>1
<1> HIDE DEF s, gd, gd2
<1>3. /\ Tail(s) \in Seq(Frames) /\ s[1] \in Frames
  BY <1>2, UpPop
<1>4. /\ FrameShape(s[1])
      /\ Tail(s) # <<>> => Waits(Tail(s)[1], s[1])
      /\ Tail(s) = <<>> => s[1].fn # "resolve"
  BY <1>2, StackPop
<1>5. s[1] \in Calls(s)
  BY <1>2, CallsPop
<1> QED BY <1>1, <1>3, <1>4, <1>5 DEF s

\* The top frame becomes f.
LEMMA SwapStep ==
    ASSUME RouteInv, NEW t \in Threads, stack[t] # <<>>, NEW f \in Frames,
           FrameShape(f), f.fn = stack[t][1].fn, f.fn # "init",
           Guarded(f) => ~guard[t] \/ Guarded(stack[t][1]),
           guard'[t] <=> (guard[t] /\ ~Guarded(stack[t][1])) \/ Guarded(f),
           FrameReady(f)' \/ (\E c \in Calls(stack[t]) : SameSpot(f, c)),
           \A u \in Threads \ {t} : guard'[u] = guard[u],
           stack' = [stack EXCEPT ![t] = <<f>> \o Tail(stack[t])],
           real \subseteq real', real' \subseteq Funs, g_initialized => g_initialized'
    PROVE  StackTypes' /\ CallsInv' /\ ReadyInv'
<1> DEFINE s == stack[t]
           gd == guard[t]
           gd2 == guard'[t]
           r == Swap(s, f)
<1>1. s \in Seq(Frames) /\ s # <<>> /\ StackOK(s, gd)
  BY TopFrame
<1>2. f.fn = s[1].fn /\ (Guarded(f) => ~gd \/ Guarded(s[1])) /\ (gd2 <=> (gd /\ ~Guarded(s[1])) \/ Guarded(f))
  OBVIOUS
<1>3. stack' = [stack EXCEPT ![t] = r]
  BY DEF Swap
<1>4. \A c \in Calls(s) : SameSpot(c, c)
  BY DEF SameSpot
<1> HIDE DEF s, gd, gd2
<1>5. StackOK(r, gd2)
  BY <1>1, <1>2, StackSwap
<1>6. Calls(r) \subseteq Calls(s) \cup {f}
  BY <1>1, CallsSwap
<1>7. r \in Seq(Frames) /\ r[1] = f
  BY <1>1, UpSwap
<1> HIDE DEF r
<1>8. \A g \in Calls(r) : (\E c \in Calls(stack[t]) : SameSpot(g, c)) \/ FrameReady(g)'
  BY <1>4, <1>6 DEF s
<1>9. StackOK(r, guard'[t])
  BY <1>5 DEF gd2
<1> QED BY <1>3, <1>7, <1>8, <1>9, OneStack

\* A call that only moves on keeps what the invariant says of calls.
LEMMA GotoStep ==
    ASSUME RouteInv, NEW t \in Threads, stack[t] # <<>>, NEW label,
           NEW f, f = [stack[t][1] EXCEPT !.at = label], Goto(t, label),
           f \in Frames, FrameShape(f), f.fn # "init",
           Guarded(f) => ~guard[t] \/ Guarded(stack[t][1]),
           guard'[t] <=> (guard[t] /\ ~Guarded(stack[t][1])) \/ Guarded(f),
           FrameReady(f)',
           \A u \in Threads \ {t} : guard'[u] = guard[u],
           real \subseteq real', real' \subseteq Funs, g_initialized => g_initialized'
    PROVE  StackTypes' /\ CallsInv' /\ ReadyInv' /\ held' = held
<1>1. stack' = [stack EXCEPT ![t] = <<f>> \o Tail(stack[t])] /\ held' = held
  BY DEF Goto, Moved
<1>2. f.fn = stack[t][1].fn
  BY TopFrame DEF Frames
<1> QED BY <1>1, <1>2, SwapStep

\* A new frame f on top of s, the stack with its top frame moved on.
LEMMA PushStep ==
    ASSUME RouteInv, NEW t \in Threads, NEW s \in Seq(Frames), StackOK(s, guard[t]),
           \A g \in Calls(s) : (\E c \in Calls(stack[t]) : SameSpot(g, c)) \/ FrameReady(g)',
           NEW f \in Frames, FrameShape(f), f.at = "enter", f.fn # "init",
           s = <<>> => f.fn # "resolve", s # <<>> => Waits(s[1], f),
           \A u \in Threads : guard'[u] = guard[u],
           stack' = [stack EXCEPT ![t] = <<f>> \o s],
           real \subseteq real', real' \subseteq Funs, g_initialized => g_initialized'
    PROVE  StackTypes' /\ CallsInv' /\ ReadyInv'
<1> DEFINE r == <<f>> \o s
           gd == guard[t]
           gd2 == guard'[t]
<1>1. ~Guarded(f) /\ FrameReady(f)'
  BY DEF Guarded, FrameReady
<1>2. gd2 = gd /\ StackOK(s, gd)
  OBVIOUS
<1>3. r \in Seq(Frames) /\ r[1] = f
  BY UpPush
<1>4. Calls(r) = Calls(s) \cup {f}
  BY CallsPush
<1> HIDE DEF gd, gd2
<1>5. StackOK(r, gd2)
  BY <1>1, <1>2, StackPush
<1>6. stack' = [stack EXCEPT ![t] = r]
  OBVIOUS
<1> HIDE DEF r
<1>7. \A g \in Calls(r) : (\E c \in Calls(stack[t]) : SameSpot(g, c)) \/ FrameReady(g)'
  BY <1>1, <1>4
<1>8. StackOK(r, guard'[t])
  BY <1>5 DEF gd2
<1> QED BY <1>3, <1>6, <1>7, <1>8, OneStack

\* So does one that moves on and calls g ...
LEMMA SwapPushStep ==
    ASSUME RouteInv, NEW t \in Threads, stack[t] # <<>>, NEW f \in Frames,
           NEW g \in Frames, g.fn = stack[t][1].fn,
           stack' = [stack EXCEPT ![t] = <<f>> \o (<<g>> \o Tail(stack[t]))],
           FrameShape(g), ~Guarded(g), ~Guarded(stack[t][1]), FrameReady(g),
           FrameShape(f), f.at = "enter", f.fn # "init", Waits(g, f),
           \A u \in Threads : guard'[u] = guard[u],
           real' = real, g_initialized' = g_initialized
    PROVE  StackTypes' /\ CallsInv' /\ ReadyInv'
<1> DEFINE s == stack[t]
           gd == guard[t]
           gd2 == guard'[t]
           r == Swap(s, g)
<1>1. s \in Seq(Frames) /\ s # <<>> /\ StackOK(s, gd)
  BY TopFrame
<1>2. g.fn = s[1].fn /\ (Guarded(g) => ~gd \/ Guarded(s[1])) /\ (gd2 <=> (gd /\ ~Guarded(s[1])) \/ Guarded(g))
  OBVIOUS
<1>3. stack' = [stack EXCEPT ![t] = <<f>> \o r]
  BY DEF Swap
<1>4. \A c \in Calls(s) : SameSpot(c, c)
  BY DEF SameSpot
<1>0. real \subseteq Funs
  BY DEF RouteInv, GlobalTypes
<1>0a. FrameReady(g)'
  BY DEF FrameReady
<1> HIDE DEF s, gd, gd2
<1>5. StackOK(r, gd2)
  BY <1>1, <1>2, StackSwap
<1>6. Calls(r) \subseteq Calls(s) \cup {g}
  BY <1>1, CallsSwap
<1>7. r \in Seq(Frames) /\ r[1] = g /\ r # <<>>
  BY <1>1, UpSwap
<1> HIDE DEF r
<1>8. \A c \in Calls(r) : (\E d \in Calls(stack[t]) : SameSpot(c, d)) \/ FrameReady(c)'
  BY <1>4, <1>6, <1>0a DEF s
<1>9. StackOK(r, guard[t])
  BY <1>5 DEF gd2
<1> QED BY <1>0, <1>3, <1>7, <1>8, <1>9, PushStep

\* ... by Call ...
LEMMA CallStep ==
    ASSUME RouteInv, NEW t \in Threads, stack[t] # <<>>, NEW label, NEW f \in Frames,
           NEW g, g = [stack[t][1] EXCEPT !.at = label], Call(t, label, f),
           g \in Frames, FrameShape(g), ~Guarded(g), ~Guarded(stack[t][1]), FrameReady(g),
           FrameShape(f), f.at = "enter", f.fn # "init", Waits(g, f),
           \A u \in Threads : guard'[u] = guard[u],
           real' = real, g_initialized' = g_initialized
    PROVE  StackTypes' /\ CallsInv' /\ ReadyInv' /\ held' = held
<1>1. stack' = [stack EXCEPT ![t] = <<f>> \o (<<g>> \o Tail(stack[t]))] /\ held' = held
  BY DEF Call, Moved
<1>2. g.fn = stack[t][1].fn
  BY TopFrame DEF Frames
<1> QED BY <1>1, <1>2, SwapPushStep

\* ... and a call from the program or from dlsym.
LEMMA EntersStep ==
    ASSUME RouteInv, NEW t \in Threads, Enters(t),
           stack[t] # <<>> => stack[t][1].fn = "resolve" /\ stack[t][1].at \in Funs,
           \A u \in Threads : guard'[u] = guard[u],
           real' = real, g_initialized' = g_initialized
    PROVE  StackTypes' /\ CallsInv' /\ ReadyInv' /\ held' \subseteq held
<1>1. \E fn \in Funs : \E p \in held \cup {Null} : \E zero \in BOOLEAN :
          /\ stack' = [stack EXCEPT ![t] = <<Frame(fn, p, zero)>> \o stack[t]]
          /\ fn = "free" => p \in held
          /\ fn = "malloc" => p = Null
          /\ held' \subseteq held
  BY DEF Enters, Funs
<1>2. PICK fn \in Funs, p \in held \cup {Null}, zero \in BOOLEAN :
          /\ stack' = [stack EXCEPT ![t] = <<Frame(fn, p, zero)>> \o stack[t]]
          /\ fn = "free" => p \in held
          /\ fn = "malloc" => p = Null
          /\ held' \subseteq held
  BY <1>1
<1> DEFINE f == Frame(fn, p, zero)
           s == stack[t]
<1>3. held \subseteq Ptrs \ {Null} /\ real \subseteq Funs
  BY DEF RouteInv, GlobalTypes
<1>4. f \in Frames /\ f.fn = fn /\ f.at = "enter" /\ f.p = p /\ f.out = Null
  BY <1>3 DEF Frame, Frames, Ptrs
<1>5. s \in Seq(Frames) /\ StackOK(s, guard[t])
  BY DEF RouteInv, StackTypes, CallsInv
<1>6. \A c \in Calls(s) : SameSpot(c, c)
  BY DEF SameSpot
<1> HIDE DEF f
<1>7. FrameShape(f) /\ f.fn \in Funs /\ f.fn # "init" /\ f.fn # "resolve"
  BY <1>2, <1>3, <1>4 DEF FrameShape, Funs
<1>8. s # <<>> => Waits(s[1], f)
  BY <1>7 DEF Waits
<1>9. \A c \in Calls(s) : (\E d \in Calls(stack[t]) : SameSpot(c, d)) \/ FrameReady(c)'
  BY <1>6
<1>10. stack' = [stack EXCEPT ![t] = <<f>> \o s]
  BY <1>2 DEF f
<1>11. StackTypes' /\ CallsInv' /\ ReadyInv'
  <2> HIDE DEF s
  <2> QED BY <1>3, <1>4, <1>5, <1>7, <1>8, <1>9, <1>10, PushStep
<1> QED BY <1>2, <1>11

\* Under init there is nothing, and resolve is all it calls.
LEMMA InitAtBottom ==
    ASSUME NEW s \in Seq(Frames), s # <<>>, NEW gd, StackOK(s, gd),
           Tail(s) # <<>>, Tail(s)[1].fn = "init"
    PROVE  s[1].fn = "resolve" /\ (s[1].at = "enter" => ~gd)
<1> DEFINE n == Len(s)
<1>1. n \in Nat \ {0} /\ n > 1 /\ Up(s, n - 1).fn = "init" /\ Up(s, n) = s[1]
  BY UpPop
<1> HIDE DEF n
<1>2. \A h \in 1..(n - 1) : Waits(Up(s, h), Up(s, h + 1))
  BY DEF StackOK, n
<1>3. s[1].fn = "resolve"
  <2>1. n - 1 \in 1..(n - 1) /\ (n - 1) + 1 = n
    BY <1>1
  <2>2. Waits(Up(s, n - 1), Up(s, n))
    BY <2>1, <1>2
  <2> QED BY <2>2, <1>1 DEF Waits, Funs
<1>4. n = 2
  <2> SUFFICES ASSUME n # 2 PROVE FALSE
    OBVIOUS
  <2>1. n - 2 \in 1..(n - 1) /\ (n - 2) + 1 = n - 1
    BY <1>1
  <2>2. Waits(Up(s, n - 2), Up(s, n - 1))
    BY <2>1, <1>2
  <2> QED BY <2>2, <1>1 DEF Waits, Funs
<1>5. ASSUME s[1].at = "enter", gd PROVE FALSE
  <2>1. ~Guarded(s[1])
    BY <1>3, <1>5 DEF Guarded
  <2>2. PICK h \in 1..(Len(s) - 1) : Up(s, h).fn = "resolve"
    BY <2>1, <1>5, GuardBelow
  <2>3. h = n - 1
    BY <1>4 DEF n
  <2> QED BY <2>2, <2>3, <1>1
<1> QED BY <1>3, <1>5

\* The caller is dlsym, the program, tbjit_init, or a realloc that keeps v.
LEMMA ReturnStep ==
    ASSUME RouteInv, NEW t \in Threads, stack[t] # <<>>, NEW v \in Ptrs, Return(t, v),
           guard'[t] <=> guard[t] /\ ~Guarded(stack[t][1]),
           \A u \in Threads \ {t} : guard'[u] = guard[u],
           stack[t][1].fn = "resolve" => real = Funs \/ (stack[t][1].at = "enter" /\ guard[t]),
           real' = real, g_initialized => g_initialized'
    PROVE  StackTypes' /\ CallsInv' /\ ReadyInv' /\ held' \subseteq Ptrs \ {Null}
<1> DEFINE s == stack[t]
           r == Tail(s)
           gd == guard[t]
           gd2 == guard'[t]
           f == [r[1] EXCEPT !.out = v]
<1>1. /\ s \in Seq(Frames) /\ s # <<>> /\ StackOK(s, gd) /\ s[1] \in Frames /\ FrameShape(s[1])
      /\ r \in Seq(Frames) /\ (r # <<>> => Waits(r[1], s[1]))
      /\ gd2 <=> gd /\ ~Guarded(s[1])
  BY TopFrame
<1>2. real \subseteq Funs /\ held \subseteq Ptrs \ {Null}
  BY DEF RouteInv, GlobalTypes
<1>3. held' \subseteq Ptrs \ {Null}
  BY <1>2 DEF Return
<1>4. \/ stack' = [stack EXCEPT ![t] = r]
      \/ /\ stack' = [stack EXCEPT ![t] = <<f>> \o Tail(r)]
         /\ s[1].fn = "malloc" /\ r # <<>> /\ r[1].fn # "resolve"
  BY DEF Return
<1>5. s[1].fn = "resolve" => real = Funs \/ (s[1].at = "enter" /\ gd)
  OBVIOUS
<1> HIDE DEF s, gd, gd2
<1>6. StackOK(Tail(s), gd2)
  BY <1>1, StackPop
<1>7. Calls(Tail(s)) \subseteq Calls(s) /\ (Tail(s) # <<>> => Tail(s)[1] \in Calls(s))
  BY <1>1, CallsPop
<1>8. Tail(s) # <<>> /\ Tail(s)[1].fn = "init" => real = Funs
  BY <1>1, <1>5, InitAtBottom
<1>9. \A c : SameSpot(c, c)
  BY DEF SameSpot
<1>10. CASE stack' = [stack EXCEPT ![t] = r]
  <2>1. StackOK(r, guard'[t])
    BY <1>6 DEF gd2
  <2>2. \A g \in Calls(r) : (\E c \in Calls(stack[t]) : SameSpot(g, c)) \/ FrameReady(g)'
    BY <1>7, <1>9 DEF s
  <2>3. r # <<>> /\ r[1].fn = "init" => real' = Funs
    BY <1>8
  <2> HIDE DEF r, f
  <2> QED BY <1>1, <1>2, <1>3, <1>10, <2>1, <2>2, <2>3, OneStack
<1>11. CASE /\ stack' = [stack EXCEPT ![t] = <<f>> \o Tail(r)]
            /\ s[1].fn = "malloc" /\ r # <<>> /\ r[1].fn # "resolve"
  <2>0. r \in Seq(Frames) /\ r # <<>> /\ StackOK(r, gd2)
    BY <1>1, <1>6, <1>11
  <2>1. Waits(r[1], s[1]) /\ r[1] \in Calls(s)
    BY <1>1, <1>7, <1>11
  <2> HIDE DEF r
  <2>2. r[1].fn = "realloc" /\ r[1].at \in {"copy", "done"}
    BY <2>1, <1>11 DEF Waits, Funs
  <2>3. r[1] \in Frames
    BY <2>0, UpPop
  <2>4. f \in Frames /\ f.fn = r[1].fn /\ f.at = r[1].at /\ f.p = r[1].p
    BY <2>3 DEF Frames
  <2>5. FrameShape(r[1])
    <3>1. gd2 <=> gd2 /\ ~Guarded(r[1])
      BY <2>2 DEF Guarded
    <3> QED BY <3>1, <2>0, StackPop
  <2> HIDE DEF f
  <2>6. FrameShape(f) /\ ~Guarded(f) /\ ~Guarded(r[1]) /\ SameSpot(f, r[1])
    BY <2>2, <2>4, <2>5 DEF FrameShape, Guarded, SameSpot
  <2>7. gd2 <=> (gd2 /\ ~Guarded(r[1])) \/ Guarded(f)
    BY <2>6
  <2>8. StackOK(Swap(r, f), gd2)
    BY <2>0, <2>4, <2>6, <2>7, StackSwap
  <2>9. Calls(Swap(r, f)) \subseteq Calls(r) \cup {f}
    BY <2>0, <2>4, CallsSwap
  <2>10. Swap(r, f) \in Seq(Frames) /\ Swap(r, f)[1] = f
    BY <2>0, <2>4, UpSwap
  <2>11. \A g \in Calls(Swap(r, f)) : (\E c \in Calls(stack[t]) : SameSpot(g, c)) \/ FrameReady(g)'
    BY <1>7, <1>9, <2>1, <2>6, <2>9 DEF s, r
  <2>12. stack' = [stack EXCEPT ![t] = Swap(r, f)]
    BY <1>11 DEF Swap
  <2>13. StackOK(Swap(r, f), guard'[t])
    BY <2>8 DEF gd2
  <2> DEFINE q == Swap(r, f)
  <2>14. /\ q \in Seq(Frames) /\ stack' = [stack EXCEPT ![t] = q] /\ StackOK(q, guard'[t])
         /\ \A g \in Calls(q) : (\E c \in Calls(stack[t]) : SameSpot(g, c)) \/ FrameReady(g)'
         /\ q[1].fn # "init"
    BY <2>2, <2>4, <2>10, <2>11, <2>12, <2>13
  <2> HIDE DEF q
  <2> QED BY <1>2, <1>3, <2>14, OneStack
<1> QED BY <1>4, <1>10, <1>11

-----------------------------------------------------------------------------
(* Every step keeps RouteInv.                                               *)

Labels == Funs \cup {"enter", "direct", "gate", "serve", "libc", "validate", "route",
                     "managed", "unmanaged", "copy", "done", "end"}

\* A frame at another label.
LEMMA MovedFrame ==
    ASSUME NEW c \in Frames, NEW label \in Labels
    PROVE  /\ [c EXCEPT !.at = label] \in Frames
           /\ [c EXCEPT !.at = label].fn = c.fn /\ [c EXCEPT !.at = label].at = label
           /\ [c EXCEPT !.at = label].p = c.p /\ [c EXCEPT !.at = label].out = c.out
           /\ [c EXCEPT !.at = label].zero = c.zero
  BY DEF Frames, Labels

\* The frame of a new call.
LEMMA NewFrame ==
    ASSUME NEW fn \in Funs \cup {"resolve", "init"}, NEW p \in Ptrs, NEW zero \in BOOLEAN
    PROVE  /\ Frame(fn, p, zero) \in Frames
           /\ Frame(fn, p, zero).fn = fn /\ Frame(fn, p, zero).at = "enter"
           /\ Frame(fn, p, zero).p = p /\ Frame(fn, p, zero).out = Null
  BY DEF Frame, Frames, Ptrs

\* An assignment to one thread's guard.
LEMMA GuardFrame ==
    ASSUME RouteInv, NEW t \in Threads, NEW b \in BOOLEAN,
           guard' = [guard EXCEPT ![t] = b]
    PROVE  guard' \in [Threads -> BOOLEAN] /\ guard'[t] = b /\ \A u \in Threads \ {t} : guard'[u] = guard[u]
  BY DEF RouteInv, GlobalTypes

\* A step that touches neither the heap nor the life of the library.
LEMMA QuietStep ==
    ASSUME RouteInv, UNCHANGED <<lifeVars, owner, pagemap, reaping, dropped>>,
           real \subseteq real', real' \subseteq Funs, boot_used' \in 0..BootCap,
           guard' \in [Threads -> BOOLEAN], held' \subseteq Ptrs \ {Null}
    PROVE  GlobalTypes' /\ LifeInv'
<1>1. GlobalTypes'
  BY DEF RouteInv, GlobalTypes, lifeVars, Ptrs, Boots, Funs
<1>2. LifeInv'
  BY DEF RouteInv, GlobalTypes, LifeInv, lifeVars, Funs
<1> QED BY <1>1, <1>2

\* A step that changes the heap, and not the life of the library.
LEMMA HeapStep ==
    ASSUME RouteInv, UNCHANGED lifeVars, UNCHANGED <<real, boot_used>>,
           owner' \in [Addrs -> {"none", "libc", "seg"}], pagemap' \subseteq Addrs,
           reaping' \in Addrs \cup {Null}, dropped' \subseteq Addrs,
           guard' \in [Threads -> BOOLEAN], held' \subseteq Ptrs \ {Null},
           ~g_initialized => pagemap' = {} /\ reaping' = Null
    PROVE  GlobalTypes' /\ LifeInv'
<1>1. GlobalTypes'
  BY DEF RouteInv, GlobalTypes, lifeVars, Ptrs, Boots, Funs
<1>2. LifeInv'
  BY DEF RouteInv, GlobalTypes, LifeInv, lifeVars, Funs
<1> QED BY <1>1, <1>2

\* A call moves on and the heap stays as it is.
LEMMA GotoQuiet ==
    ASSUME RouteInv, NEW t \in Threads, stack[t] # <<>>, NEW c, c = stack[t][1],
           NEW label \in Labels, NEW f, f = [c EXCEPT !.at = label], Goto(t, label),
           FrameShape(f), f.fn # "init",
           Guarded(f) => ~guard[t] \/ Guarded(c),
           guard' \in [Threads -> BOOLEAN],
           guard'[t] <=> (guard[t] /\ ~Guarded(c)) \/ Guarded(f),
           \A u \in Threads \ {t} : guard'[u] = guard[u],
           FrameReady(f)',
           UNCHANGED <<lifeVars, boot_used, owner, pagemap, reaping, dropped>>,
           real \subseteq real', real' \subseteq Funs
    PROVE  RouteInv'
<1>1. c \in Frames
  BY TopFrame
<1>2. f \in Frames
  BY <1>1, MovedFrame
<1>3. g_initialized' = g_initialized /\ boot_used' \in 0..BootCap /\ held \subseteq Ptrs \ {Null}
  BY DEF lifeVars, RouteInv, GlobalTypes
<1>4. StackTypes' /\ CallsInv' /\ ReadyInv' /\ held' = held
  BY <1>2, <1>3, GotoStep
<1>5. GlobalTypes' /\ LifeInv'
  BY <1>3, <1>4, QuietStep
<1> QED BY <1>4, <1>5 DEF RouteInv

\* A call makes another and the heap stays as it is.
LEMMA CallQuiet ==
    ASSUME RouteInv, NEW t \in Threads, stack[t] # <<>>, NEW c, c = stack[t][1],
           NEW label \in Labels, NEW f, f = [c EXCEPT !.at = label], NEW g \in Frames, Call(t, label, g),
           FrameShape(f), ~Guarded(f), ~Guarded(c), FrameReady(f),
           FrameShape(g), g.at = "enter", g.fn # "init", Waits(f, g),
           UNCHANGED <<lifeVars, real, guard, boot_used, heapVars>>
    PROVE  RouteInv'
<1>1. c \in Frames
  BY TopFrame
<1>2. f \in Frames
  BY <1>1, MovedFrame
<1>3. /\ g_initialized' = g_initialized /\ real' = real /\ guard' = guard
      /\ boot_used' \in 0..BootCap /\ held \subseteq Ptrs \ {Null}
      /\ guard \in [Threads -> BOOLEAN] /\ real \subseteq Funs
      /\ UNCHANGED <<lifeVars, owner, pagemap, reaping, dropped>>
  BY DEF lifeVars, heapVars, RouteInv, GlobalTypes
<1>4. StackTypes' /\ CallsInv' /\ ReadyInv' /\ held' = held
  BY <1>2, <1>3, CallStep
<1>5. GlobalTypes' /\ LifeInv'
  BY <1>3, <1>4, QuietStep
<1> QED BY <1>4, <1>5 DEF RouteInv

\* A call returns and the heap stays as it is.
LEMMA ReturnQuiet ==
    ASSUME RouteInv, NEW t \in Threads, stack[t] # <<>>, NEW v \in Ptrs, Return(t, v),
           NEW c, c = stack[t][1],
           guard' \in [Threads -> BOOLEAN],
           guard'[t] <=> guard[t] /\ ~Guarded(c),
           \A u \in Threads \ {t} : guard'[u] = guard[u],
           c.fn = "resolve" => real = Funs \/ (c.at = "enter" /\ guard[t]),
           UNCHANGED <<lifeVars, real, owner, pagemap, reaping, dropped>>,
           boot_used' \in 0..BootCap
    PROVE  RouteInv'
<1>1. real' = real /\ g_initialized' = g_initialized /\ real \subseteq Funs
  BY DEF lifeVars, RouteInv, GlobalTypes
<1>2. StackTypes' /\ CallsInv' /\ ReadyInv' /\ held' \subseteq Ptrs \ {Null}
  BY <1>1, ReturnStep
<1>3. GlobalTypes' /\ LifeInv'
  BY <1>1, <1>2, QuietStep
<1> QED BY <1>2, <1>3 DEF RouteInv

\* What is known of a call at the point where a step finds it.
LEMMA AtFacts ==
    ASSUME RouteInv, NEW t \in Threads, NEW fn, NEW label, At(t, fn, label)
    PROVE  /\ stack[t] # <<>> /\ stack[t][1] \in Frames
           /\ stack[t][1].fn = fn /\ stack[t][1].at = label
           /\ FrameShape(stack[t][1]) /\ FrameReady(stack[t][1])
           /\ stack[t][1].p \in Ptrs /\ stack[t][1].out \in Ptrs /\ Null \in Ptrs
           /\ guard \in [Threads -> BOOLEAN] /\ real \subseteq Funs /\ boot_used \in 0..BootCap
           /\ held \subseteq Ptrs \ {Null}
<1>1. stack[t] # <<>> /\ stack[t][1].fn = fn /\ stack[t][1].at = label
  BY DEF At
<1>2. stack[t][1] \in Frames /\ FrameShape(stack[t][1]) /\ FrameReady(stack[t][1])
  BY <1>1, TopFrame
<1>3. stack[t][1].p \in Ptrs /\ stack[t][1].out \in Ptrs /\ Null \in Ptrs
  BY <1>2 DEF Frames, Ptrs
<1> QED BY <1>1, <1>2, <1>3 DEF RouteInv, GlobalTypes

\* A resolve that finds the guard set returns, and sets it otherwise.
LEMMA ResolveEnterRoute ==
    ASSUME RouteInv, NEW t \in Threads, ResolveEnter(t)
    PROVE  RouteInv'
<1>0. PICK c : c = stack[t][1]
  OBVIOUS
<1>1. At(t, "resolve", "enter") /\ UNCHANGED <<lifeVars, real, boot_used, owner, pagemap, reaping, dropped>>
  BY DEF ResolveEnter, heapVars
<1>2. /\ stack[t] # <<>> /\ c \in Frames /\ c.fn = "resolve" /\ c.at = "enter" /\ FrameShape(c)
      /\ ~Guarded(c) /\ guard \in [Threads -> BOOLEAN] /\ real \subseteq Funs
      /\ Null \in Ptrs /\ boot_used' \in 0..BootCap /\ real' = real
  BY <1>0, <1>1, AtFacts DEF Guarded
<1>3. CASE guard[t]
  <2>1. Return(t, Null) /\ guard' = guard
    BY <1>3 DEF ResolveEnter
  <2> QED BY <1>0, <1>1, <1>2, <1>3, <2>1, ReturnQuiet
<1>4. CASE ~guard[t]
  <2> DEFINE f == [c EXCEPT !.at = "malloc"]
  <2>1. Goto(t, "malloc") /\ guard' = [guard EXCEPT ![t] = TRUE]
    BY <1>4 DEF ResolveEnter
  <2>2. guard' \in [Threads -> BOOLEAN] /\ guard'[t] /\ \A u \in Threads \ {t} : guard'[u] = guard[u]
    BY <2>1, GuardFrame
  <2>3. f.fn = "resolve" /\ f.at = "malloc" /\ f.p = c.p /\ f.out = c.out
    BY <1>2, MovedFrame DEF Labels, Funs
  <2>4. FrameShape(f) /\ Guarded(f) /\ FrameReady(f)' /\ "malloc" \in Labels
    BY <1>2, <2>3 DEF FrameShape, Guarded, FrameReady, Funs, Labels
  <2> QED BY <1>0, <1>1, <1>2, <1>4, <2>1, <2>2, <2>3, <2>4, GotoQuiet
<1> QED BY <1>3, <1>4

\* dlsym calls back, or finds a function.
LEMMA DlsymRoute ==
    ASSUME RouteInv, NEW t \in Threads, NEW fun \in Funs, DlsymReenters(t, fun) \/ DlsymFinds(t, fun)
    PROVE  RouteInv'
<1>0. PICK c : c = stack[t][1]
  OBVIOUS
<1>1. At(t, "resolve", fun) /\ UNCHANGED <<lifeVars, guard, boot_used, owner, pagemap, reaping, dropped>>
  BY DEF DlsymReenters, DlsymFinds, heapVars
<1>2. /\ stack[t] # <<>> /\ c \in Frames /\ c.fn = "resolve" /\ c.at = fun /\ FrameShape(c) /\ FrameReady(c)
      /\ Guarded(c) /\ guard \in [Threads -> BOOLEAN] /\ real \subseteq Funs
      /\ boot_used' \in 0..BootCap /\ held \subseteq Ptrs \ {Null} /\ g_initialized' = g_initialized
  BY <1>0, <1>1, AtFacts DEF Guarded, Funs, lifeVars
<1>3. CASE DlsymReenters(t, fun)
  <2>1. Enters(t) /\ real' = real
    BY <1>3 DEF DlsymReenters
  <2>2. StackTypes' /\ CallsInv' /\ ReadyInv' /\ held' \subseteq held
    BY <1>0, <1>1, <1>2, <2>1, EntersStep
  <2>3. held' \subseteq Ptrs \ {Null}
    BY <1>2, <2>2
  <2>4. GlobalTypes' /\ LifeInv'
    BY <1>1, <1>2, <2>1, <2>3, QuietStep
  <2> QED BY <2>2, <2>4 DEF RouteInv
<1>4. CASE DlsymFinds(t, fun)
  <2> DEFINE label == After[fun]
             f == [c EXCEPT !.at = label]
  <2>1. Goto(t, label) /\ real' = real \cup {fun}
    BY <1>4 DEF DlsymFinds
  <2>2. /\ fun = "malloc" => label = "free"
        /\ fun = "free" => label = "realloc"
        /\ fun = "realloc" => label = "end"
        /\ label \in Labels
    BY DEF After, Labels, Funs
  <2> HIDE DEF label
  <2>3. f.fn = "resolve" /\ f.at = label /\ f.p = c.p /\ f.out = c.out
    BY <1>2, <2>2, MovedFrame
  <2>4. FrameShape(f) /\ Guarded(f)
    BY <1>2, <2>2, <2>3 DEF FrameShape, Guarded, Funs
  <2>5. FrameReady(f)'
    BY <1>2, <2>1, <2>2, <2>3 DEF FrameReady, Funs
  <2>6. guard[t] /\ guard' = guard
    BY <1>0, <1>1, <1>2, TopFrame, UpPop DEF StackOK
  <2> QED BY <1>0, <1>1, <1>2, <2>1, <2>2, <2>3, <2>4, <2>5, <2>6, GotoQuiet
<1> QED BY <1>3, <1>4

\* The guard is reset when all three functions are known.
LEMMA ResolveEndRoute ==
    ASSUME RouteInv, NEW t \in Threads, ResolveEnd(t)
    PROVE  RouteInv'
<1>0. PICK c : c = stack[t][1]
  OBVIOUS
<1>1. /\ At(t, "resolve", "end") /\ UNCHANGED <<lifeVars, real, boot_used, owner, pagemap, reaping, dropped>>
      /\ guard' = [guard EXCEPT ![t] = FALSE] /\ Return(t, Null)
  BY DEF ResolveEnd, heapVars
<1>2. /\ stack[t] # <<>> /\ c \in Frames /\ c.fn = "resolve" /\ c.at = "end" /\ FrameReady(c)
      /\ Guarded(c) /\ real \subseteq Funs /\ Null \in Ptrs /\ boot_used' \in 0..BootCap
  BY <1>0, <1>1, AtFacts DEF Guarded
<1>3. guard' \in [Threads -> BOOLEAN] /\ ~guard'[t] /\ \A u \in Threads \ {t} : guard'[u] = guard[u]
  BY <1>1, GuardFrame
<1>4. real = Funs
  BY <1>2 DEF FrameReady, Funs
<1> QED BY <1>0, <1>1, <1>2, <1>3, <1>4, ReturnQuiet

\* A thread in a guarded section has its guard set.
LEMMA GuardedTop ==
    ASSUME RouteInv, NEW t \in Threads, stack[t] # <<>>, Guarded(stack[t][1])
    PROVE  guard[t]
  BY TopFrame, UpPop DEF StackOK

\* The test of g_initialized, with the resolution it may need.
LEMMA PreambleRoute ==
    ASSUME RouteInv, NEW t \in Threads, NEW fn \in Funs, Preamble(t, fn),
           fn # "malloc" => Arg(t) \notin Boots
    PROVE  RouteInv'
<1>0. PICK c : c = stack[t][1]
  OBVIOUS
<1>1. /\ At(t, fn, "enter") /\ UNCHANGED <<lifeVars, real, guard, boot_used, heapVars>>
      /\ UNCHANGED <<lifeVars, boot_used, owner, pagemap, reaping, dropped>>
      /\ real' = real /\ guard' = guard /\ g_initialized' = g_initialized
  BY DEF Preamble, heapVars, lifeVars
<1>2. /\ stack[t] # <<>> /\ c \in Frames /\ c.fn = fn /\ c.at = "enter" /\ FrameShape(c) /\ FrameReady(c)
      /\ ~Guarded(c) /\ real \subseteq Funs /\ c.p \in Ptrs /\ Null \in Ptrs /\ guard \in [Threads -> BOOLEAN]
      /\ (fn # "malloc" => c.p \notin Boots)
  BY <1>0, <1>1, AtFacts DEF Guarded, Arg, Funs
<1>3. ASSUME NEW label \in {"gate", "direct"}
      PROVE  LET f == [c EXCEPT !.at = label]
             IN  f.fn = fn /\ f.at = label /\ FrameShape(f) /\ ~Guarded(f) /\ label \in Labels
  <2> DEFINE f == [c EXCEPT !.at = label]
  <2>1. f.fn = fn /\ f.at = label /\ f.p = c.p /\ f.out = c.out /\ label \in Labels
    BY <1>2, MovedFrame DEF Labels
  <2> HIDE DEF f
  <2>2. FrameShape(f) /\ ~Guarded(f)
    BY <1>2, <2>1 DEF FrameShape, Guarded, Ptrs, Funs
  <2> QED BY <2>1, <2>2 DEF f
<1>4. CASE g_initialized /\ Goto(t, "gate")
  <2> DEFINE f == [c EXCEPT !.at = "gate"]
  <2>1. f.fn = fn /\ f.at = "gate" /\ FrameShape(f) /\ ~Guarded(f) /\ "gate" \in Labels
    BY <1>3
  <2>2. FrameReady(f)'
    BY <1>1, <1>4, <2>1 DEF FrameReady, Funs
  <2> QED BY <1>0, <1>1, <1>2, <1>4, <2>1, <2>2, GotoQuiet DEF Funs
<1>5. CASE Goto(t, "direct")
  <2> DEFINE f == [c EXCEPT !.at = "direct"]
  <2>1. f.fn = fn /\ f.at = "direct" /\ FrameShape(f) /\ ~Guarded(f) /\ "direct" \in Labels
    BY <1>3
  <2>2. FrameReady(f)'
    BY <1>1, <1>5, <2>1 DEF FrameReady, Funs
  <2> QED BY <1>0, <1>1, <1>2, <1>5, <2>1, <2>2, GotoQuiet DEF Funs
<1>6. CASE Call(t, "direct", Frame("resolve", Null, FALSE))
  <2> DEFINE f == [c EXCEPT !.at = "direct"]
             g == Frame("resolve", Null, FALSE)
  <2>1. f.fn = fn /\ f.at = "direct" /\ FrameShape(f) /\ ~Guarded(f) /\ "direct" \in Labels
    BY <1>3
  <2>2. g \in Frames /\ g.fn = "resolve" /\ g.at = "enter" /\ g.p = Null /\ g.out = Null
    BY <1>2 DEF Frame, Frames
  <2> HIDE DEF f, g
  <2>3. FrameReady(f) /\ FrameShape(g) /\ g.fn # "init" /\ Waits(f, g)
    BY <1>2, <2>1, <2>2 DEF FrameReady, FrameShape, Waits, Funs
  <2> QED BY <1>0, <1>1, <1>2, <1>6, <2>1, <2>2, <2>3, CallQuiet DEF f, g
<1> QED BY <1>4, <1>5, <1>6 DEF Preamble

\* bootstrap_alloc, called by malloc or realloc.
LEMMA BootstrapRoute ==
    ASSUME RouteInv, NEW t \in Threads, stack[t] # <<>>, stack[t][1].fn \in Funs,
           ~Guarded(stack[t][1]), BootstrapAlloc(t),
           UNCHANGED <<lifeVars, real, guard, heapVars>>
    PROVE  RouteInv'
<1>0. PICK c : c = stack[t][1]
  OBVIOUS
<1>1. boot_used \in 0..BootCap /\ BootCap \in Nat /\ guard' = guard /\ guard \in [Threads -> BOOLEAN]
      /\ UNCHANGED <<lifeVars, real, owner, pagemap, reaping, dropped>>
  BY InterposeAssumption DEF RouteInv, GlobalTypes, heapVars
<1>2. \E v \in Ptrs : Return(t, v) /\ boot_used' \in 0..BootCap
  <2>1. CASE boot_used < BootCap
    <3>1. boot_used + 1 \in Boots
      BY <1>1, <2>1 DEF Boots
    <3>2. boot_used + 1 \in Ptrs /\ boot_used' \in 0..BootCap /\ Return(t, boot_used + 1)
      BY <1>1, <2>1, <3>1 DEF Ptrs, Boots, BootstrapAlloc, BootstrapFits
    <3> QED BY <3>2
  <2>2. CASE ~(boot_used < BootCap)
    BY <1>1, <2>2 DEF Ptrs, BootstrapAlloc, BootstrapFits
  <2> QED BY <2>1, <2>2
<1>3. PICK v \in Ptrs : Return(t, v) /\ boot_used' \in 0..BootCap
  BY <1>2
<1> QED BY <1>0, <1>1, <1>3, ReturnQuiet DEF Funs

\* malloc before initialisation.
LEMMA MallocDirectRoute ==
    ASSUME RouteInv, NEW t \in Threads, MallocDirect(t)
    PROVE  RouteInv'
<1>0. PICK c : c = stack[t][1]
  OBVIOUS
<1>1. /\ At(t, "malloc", "direct") /\ UNCHANGED <<lifeVars, real, guard, heapVars>>
      /\ UNCHANGED <<lifeVars, owner, pagemap, reaping, dropped>>
      /\ real' = real /\ guard' = guard
  BY DEF MallocDirect, heapVars
<1>2. /\ stack[t] # <<>> /\ c \in Frames /\ c.fn = "malloc" /\ c.at = "direct" /\ FrameShape(c)
      /\ ~Guarded(c) /\ real \subseteq Funs /\ guard \in [Threads -> BOOLEAN]
  BY <1>0, <1>1, AtFacts DEF Guarded
<1>3. CASE "malloc" \in real
  <2> DEFINE f == [c EXCEPT !.at = "libc"]
  <2>1. Goto(t, "libc") /\ boot_used' = boot_used
    BY <1>3 DEF MallocDirect
  <2>2. f.fn = "malloc" /\ f.at = "libc" /\ f.p = c.p /\ f.out = c.out /\ "libc" \in Labels
    BY <1>2, MovedFrame DEF Labels
  <2>3. FrameShape(f) /\ ~Guarded(f) /\ FrameReady(f)'
    BY <1>1, <1>2, <1>3, <2>2 DEF FrameShape, Guarded, FrameReady
  <2> QED BY <1>0, <1>1, <1>2, <2>1, <2>2, <2>3, GotoQuiet
<1>4. CASE "malloc" \notin real
  BY <1>0, <1>1, <1>2, <1>4, BootstrapRoute DEF MallocDirect, Funs
<1> QED BY <1>3, <1>4

\* malloc after it: to libc, or under the guard to the routine.
LEMMA MallocGateRoute ==
    ASSUME RouteInv, NEW t \in Threads, MallocGate(t)
    PROVE  RouteInv'
<1>0. PICK c : c = stack[t][1]
  OBVIOUS
<1>1. /\ At(t, "malloc", "gate") /\ UNCHANGED <<lifeVars, boot_used, owner, pagemap, reaping, dropped>>
      /\ real' = real /\ g_initialized' = g_initialized
  BY DEF MallocGate, heapVars, lifeVars
<1>2. /\ stack[t] # <<>> /\ c \in Frames /\ c.fn = "malloc" /\ c.at = "gate" /\ FrameShape(c) /\ FrameReady(c)
      /\ ~Guarded(c) /\ real \subseteq Funs /\ guard \in [Threads -> BOOLEAN]
  BY <1>0, <1>1, AtFacts DEF Guarded
<1>3. g_initialized /\ real = Funs
  BY <1>2 DEF FrameReady, Funs, RouteInv, LifeInv
<1>4. CASE g_shutting_down \/ guard[t]
  <2> DEFINE f == [c EXCEPT !.at = "libc"]
  <2>1. Goto(t, "libc") /\ guard' = guard
    BY <1>4 DEF MallocGate
  <2>2. f.fn = "malloc" /\ f.at = "libc" /\ f.p = c.p /\ f.out = c.out /\ "libc" \in Labels
    BY <1>2, MovedFrame DEF Labels
  <2>3. FrameShape(f) /\ ~Guarded(f) /\ FrameReady(f)'
    BY <1>1, <1>2, <1>3, <2>2 DEF FrameShape, Guarded, FrameReady, Funs
  <2> QED BY <1>0, <1>1, <1>2, <2>1, <2>2, <2>3, GotoQuiet
<1>5. CASE ~(g_shutting_down \/ guard[t])
  <2> DEFINE f == [c EXCEPT !.at = "serve"]
  <2>1. Goto(t, "serve") /\ guard' = [guard EXCEPT ![t] = TRUE]
    BY <1>5 DEF MallocGate
  <2>2. guard' \in [Threads -> BOOLEAN] /\ guard'[t] /\ \A u \in Threads \ {t} : guard'[u] = guard[u]
    BY <2>1, GuardFrame
  <2>3. f.fn = "malloc" /\ f.at = "serve" /\ f.p = c.p /\ f.out = c.out /\ "serve" \in Labels
    BY <1>2, MovedFrame DEF Labels
  <2>4. FrameShape(f) /\ Guarded(f) /\ FrameReady(f)'
    BY <1>1, <1>2, <1>3, <2>3 DEF FrameShape, Guarded, FrameReady, Funs
  <2> QED BY <1>0, <1>1, <1>2, <1>5, <2>1, <2>2, <2>3, <2>4, GotoQuiet
<1> QED BY <1>4, <1>5

\* The routine or libc serves malloc with a.
LEMMA ServedRoute ==
    ASSUME RouteInv, NEW t \in Threads, NEW a \in Addrs, ServeChunk(t, a) \/ ServeGeneric(t, a)
    PROVE  RouteInv'
<1>0. PICK c : c = stack[t][1]
  OBVIOUS
<1> DEFINE f == [c EXCEPT !.out = a, !.at = "validate"]
<1>1. /\ At(t, "malloc", "serve") /\ UNCHANGED lifeVars /\ UNCHANGED <<real, boot_used>>
      /\ UNCHANGED <<reaping, dropped>> /\ real' = real /\ guard' = guard /\ Served(t, a)
      /\ g_initialized' = g_initialized
  BY DEF ServeChunk, ServeGeneric, lifeVars
<1>2. /\ stack[t] # <<>> /\ c \in Frames /\ c.fn = "malloc" /\ c.at = "serve" /\ FrameShape(c) /\ FrameReady(c)
      /\ Guarded(c) /\ real \subseteq Funs /\ guard \in [Threads -> BOOLEAN] /\ held \subseteq Ptrs \ {Null}
  BY <1>0, <1>1, AtFacts DEF Guarded
<1>3. f \in Frames /\ f.fn = "malloc" /\ f.at = "validate" /\ f.p = c.p
  BY <1>2 DEF Frames, Ptrs
<1>4. stack' = [stack EXCEPT ![t] = <<f>> \o Tail(stack[t])] /\ held' = held
  BY <1>0, <1>1 DEF Served
<1>5. guard[t]
  BY <1>0, <1>2, GuardedTop
<1> HIDE DEF f
<1>6. FrameShape(f) /\ Guarded(f) /\ FrameReady(f)' /\ g_initialized
  BY <1>1, <1>2, <1>3 DEF FrameShape, Guarded, FrameReady, Funs
<1>7. StackTypes' /\ CallsInv' /\ ReadyInv'
  BY <1>0, <1>1, <1>2, <1>3, <1>4, <1>5, <1>6, SwapStep
<1>8. owner' \in [Addrs -> {"none", "libc", "seg"}] /\ pagemap' \subseteq Addrs
      /\ reaping' \in Addrs \cup {Null} /\ dropped' \subseteq Addrs
  BY <1>1 DEF RouteInv, GlobalTypes, ServeChunk, ServeGeneric, LibcTakes
<1>9. GlobalTypes' /\ LifeInv'
  BY <1>1, <1>2, <1>4, <1>6, <1>8, HeapStep
<1> QED BY <1>7, <1>9 DEF RouteInv

\* malloc leaves its guarded section.
LEMMA ValidateAllocRoute ==
    ASSUME RouteInv, NEW t \in Threads, ValidateAlloc(t)
    PROVE  RouteInv'
<1>0. PICK c : c = stack[t][1]
  OBVIOUS
<1>1. /\ At(t, "malloc", "validate") /\ UNCHANGED <<lifeVars, real, boot_used, owner, pagemap, reaping, dropped>>
      /\ guard' = [guard EXCEPT ![t] = FALSE] /\ Return(t, c.out)
  BY <1>0 DEF ValidateAlloc
<1>2. /\ stack[t] # <<>> /\ c.fn = "malloc" /\ Guarded(c) /\ c.out \in Ptrs /\ boot_used' \in 0..BootCap
  BY <1>0, <1>1, AtFacts DEF Guarded
<1>3. guard' \in [Threads -> BOOLEAN] /\ ~guard'[t] /\ \A u \in Threads \ {t} : guard'[u] = guard[u]
  BY <1>1, GuardFrame
<1> QED BY <1>0, <1>1, <1>2, <1>3, ReturnQuiet

\* libc's malloc returns.
LEMMA LibcMallocRoute ==
    ASSUME RouteInv, NEW t \in Threads, NEW a \in Addrs, LibcMalloc(t, a)
    PROVE  RouteInv'
<1>0. PICK c : c = stack[t][1]
  OBVIOUS
<1>1. /\ At(t, "malloc", "libc") /\ UNCHANGED lifeVars /\ UNCHANGED <<real, boot_used>>
      /\ UNCHANGED <<pagemap, reaping, dropped>> /\ real' = real /\ guard' = guard /\ Return(t, a)
      /\ g_initialized' = g_initialized
  BY DEF LibcMalloc, lifeVars
<1>2. stack[t] # <<>> /\ c.fn = "malloc" /\ ~Guarded(c) /\ a \in Ptrs /\ guard \in [Threads -> BOOLEAN]
  BY <1>0, <1>1, AtFacts DEF Guarded, Ptrs
<1>3. StackTypes' /\ CallsInv' /\ ReadyInv' /\ held' \subseteq Ptrs \ {Null}
  BY <1>0, <1>1, <1>2, ReturnStep
<1>4. owner' \in [Addrs -> {"none", "libc", "seg"}] /\ pagemap' \subseteq Addrs
      /\ reaping' \in Addrs \cup {Null} /\ dropped' \subseteq Addrs
      /\ (~g_initialized => pagemap' = {} /\ reaping' = Null)
  BY <1>1 DEF RouteInv, GlobalTypes, LifeInv, LibcMalloc, LibcTakes
<1>5. GlobalTypes' /\ LifeInv'
  BY <1>1, <1>2, <1>3, <1>4, HeapStep
<1> QED BY <1>3, <1>5 DEF RouteInv

\* free of a bootstrap chunk, or before initialisation.
LEMMA FreeDirectRoute ==
    ASSUME RouteInv, NEW t \in Threads, FreeBootstrap(t) \/ FreeDirect(t)
    PROVE  RouteInv'
<1>0. PICK c : c = stack[t][1]
  OBVIOUS
<1>1. /\ At(t, "free", "enter") \/ At(t, "free", "direct")
      /\ UNCHANGED <<lifeVars, real, boot_used, owner, pagemap, reaping, dropped>>
      /\ real' = real /\ guard' = guard /\ boot_used' = boot_used
  BY DEF FreeBootstrap, FreeDirect, heapVars
<1>2. /\ stack[t] # <<>> /\ c \in Frames /\ c.fn = "free" /\ c.at \in {"enter", "direct"} /\ FrameShape(c)
      /\ ~Guarded(c) /\ real \subseteq Funs /\ guard \in [Threads -> BOOLEAN]
      /\ Null \in Ptrs /\ boot_used' \in 0..BootCap
  BY <1>0, <1>1, AtFacts DEF Guarded
<1>3. CASE Return(t, Null)
  BY <1>0, <1>1, <1>2, <1>3, ReturnQuiet
<1>4. CASE ~Return(t, Null)
  <2> DEFINE f == [c EXCEPT !.at = "libc"]
  <2>1. Goto(t, "libc") /\ "free" \in real /\ At(t, "free", "direct")
    BY <1>4 DEF FreeBootstrap, FreeDirect
  <2>2. f.fn = "free" /\ f.at = "libc" /\ f.p = c.p /\ f.out = c.out /\ "libc" \in Labels
    BY <1>2, MovedFrame DEF Labels
  <2>3. c.at = "direct"
    BY <1>0, <2>1 DEF At
  <2> HIDE DEF f
  <2>4. FrameShape(f) /\ ~Guarded(f) /\ FrameReady(f)'
    BY <1>1, <1>2, <2>1, <2>2, <2>3 DEF FrameShape, Guarded, FrameReady, Funs
  <2> QED BY <1>0, <1>1, <1>2, <2>1, <2>2, <2>4, GotoQuiet DEF f
<1> QED BY <1>3, <1>4

\* free after initialisation.
LEMMA FreeGateRoute ==
    ASSUME RouteInv, NEW t \in Threads, FreeGate(t)
    PROVE  RouteInv'
<1>0. PICK c : c = stack[t][1]
  OBVIOUS
<1>1. /\ At(t, "free", "gate") /\ UNCHANGED <<lifeVars, boot_used, owner, pagemap, reaping>>
      /\ real' = real /\ g_initialized' = g_initialized
  BY DEF FreeGate, lifeVars
<1>2. /\ stack[t] # <<>> /\ c \in Frames /\ c.fn = "free" /\ c.at = "gate" /\ FrameShape(c) /\ FrameReady(c)
      /\ ~Guarded(c) /\ real \subseteq Funs /\ guard \in [Threads -> BOOLEAN] /\ Null \in Ptrs
  BY <1>0, <1>1, AtFacts DEF Guarded
<1>3. g_initialized /\ real = Funs
  BY <1>2 DEF FrameReady, Funs, RouteInv, LifeInv
<1>4. CASE Return(t, Null) /\ guard' = guard /\ dropped' = dropped \cup {Arg(t)} /\ Managed(Arg(t))
  <2>1. StackTypes' /\ CallsInv' /\ ReadyInv' /\ held' \subseteq Ptrs \ {Null}
    BY <1>0, <1>1, <1>2, <1>4, ReturnStep
  <2>2. owner' \in [Addrs -> {"none", "libc", "seg"}] /\ pagemap' \subseteq Addrs
        /\ reaping' \in Addrs \cup {Null} /\ dropped' \subseteq Addrs
    BY <1>1, <1>4 DEF RouteInv, GlobalTypes, Managed
  <2>3. UNCHANGED lifeVars /\ UNCHANGED <<real, boot_used>>
    BY <1>1
  <2>4. GlobalTypes' /\ LifeInv'
    BY <1>2, <1>3, <1>4, <2>1, <2>2, <2>3, HeapStep
  <2> QED BY <2>1, <2>4 DEF RouteInv
<1>5. CASE Goto(t, "libc") /\ guard' = guard /\ dropped' = dropped
  <2> DEFINE f == [c EXCEPT !.at = "libc"]
  <2>1. f.fn = "free" /\ f.at = "libc" /\ f.p = c.p /\ f.out = c.out /\ "libc" \in Labels
    BY <1>2, MovedFrame DEF Labels
  <2> HIDE DEF f
  <2>2. FrameShape(f) /\ ~Guarded(f) /\ FrameReady(f)'
    BY <1>1, <1>2, <1>3, <2>1 DEF FrameShape, Guarded, FrameReady, Funs
  <2> QED BY <1>0, <1>1, <1>2, <1>5, <2>1, <2>2, GotoQuiet DEF f
<1>6. CASE ~guard[t] /\ Goto(t, "validate") /\ guard' = [guard EXCEPT ![t] = TRUE] /\ dropped' = dropped
  <2> DEFINE f == [c EXCEPT !.at = "validate"]
  <2>1. f.fn = "free" /\ f.at = "validate" /\ f.p = c.p /\ f.out = c.out /\ "validate" \in Labels
    BY <1>2, MovedFrame DEF Labels
  <2>2. guard' \in [Threads -> BOOLEAN] /\ guard'[t] /\ \A u \in Threads \ {t} : guard'[u] = guard[u]
    BY <1>6, GuardFrame
  <2> HIDE DEF f
  <2>3. FrameShape(f) /\ Guarded(f) /\ FrameReady(f)'
    BY <1>1, <1>2, <1>3, <2>1 DEF FrameShape, Guarded, FrameReady, Funs
  <2> QED BY <1>0, <1>1, <1>2, <1>6, <2>1, <2>2, <2>3, GotoQuiet DEF f
<1> QED BY <1>4, <1>5, <1>6 DEF FreeGate

\* The steps of free within its guarded section.
LEMMA FreeUnderGuardRoute ==
    ASSUME RouteInv, NEW t \in Threads, ValidateFree(t) \/ FreeRoute(t)
    PROVE  RouteInv'
<1>0. PICK c : c = stack[t][1]
  OBVIOUS
<1>1. /\ At(t, "free", "validate") \/ At(t, "free", "route")
      /\ UNCHANGED <<lifeVars, boot_used, owner, pagemap, reaping, dropped>>
      /\ real' = real /\ guard' = guard /\ g_initialized' = g_initialized
  BY DEF ValidateFree, FreeRoute, heapVars, lifeVars
<1>2. /\ stack[t] # <<>> /\ c \in Frames /\ c.fn = "free" /\ c.at \in {"validate", "route"}
      /\ FrameShape(c) /\ FrameReady(c)
      /\ Guarded(c) /\ real \subseteq Funs /\ guard \in [Threads -> BOOLEAN]
  BY <1>0, <1>1, AtFacts DEF Guarded
<1>3. PICK label \in {"route", "managed", "unmanaged"} : Goto(t, label)
  BY DEF ValidateFree, FreeRoute
<1> DEFINE f == [c EXCEPT !.at = label]
<1>4. f.fn = "free" /\ f.at = label /\ f.p = c.p /\ f.out = c.out /\ label \in Labels
  BY <1>2, <1>3, MovedFrame DEF Labels
<1>5. guard[t]
  BY <1>0, <1>2, GuardedTop
<1> HIDE DEF f
<1>6. FrameShape(f) /\ Guarded(f) /\ FrameReady(f)'
  BY <1>1, <1>2, <1>3, <1>4 DEF FrameShape, Guarded, FrameReady, Funs
<1> QED BY <1>0, <1>1, <1>2, <1>3, <1>4, <1>5, <1>6, GotoQuiet DEF f

\* free_managed leaves the guarded section.
LEMMA FreeManagedRoute ==
    ASSUME RouteInv, NEW t \in Threads, FreeManaged(t)
    PROVE  RouteInv'
<1>0. PICK c : c = stack[t][1]
  OBVIOUS
<1>1. /\ At(t, "free", "managed") /\ UNCHANGED <<lifeVars, real, boot_used, owner, pagemap, reaping, dropped>>
      /\ guard' = [guard EXCEPT ![t] = FALSE] /\ Return(t, Null)
  BY DEF FreeManaged, heapVars
<1>2. /\ stack[t] # <<>> /\ c.fn = "free" /\ Guarded(c) /\ Null \in Ptrs /\ boot_used' \in 0..BootCap
  BY <1>0, <1>1, AtFacts DEF Guarded
<1>3. guard' \in [Threads -> BOOLEAN] /\ ~guard'[t] /\ \A u \in Threads \ {t} : guard'[u] = guard[u]
  BY <1>1, GuardFrame
<1> QED BY <1>0, <1>1, <1>2, <1>3, ReturnQuiet

\* libc's free returns, and resets the guard only where free had set it.
LEMMA LibcFreeRoute ==
    ASSUME RouteInv, NEW t \in Threads, LibcFree(t)
    PROVE  RouteInv'
<1>0. PICK c : c = stack[t][1]
  OBVIOUS
<1>1. /\ At(t, "free", "libc") \/ At(t, "free", "unmanaged")
      /\ UNCHANGED lifeVars /\ UNCHANGED <<real, boot_used>>
      /\ UNCHANGED <<pagemap, reaping, dropped>> /\ real' = real /\ Return(t, Null)
      /\ g_initialized' = g_initialized
      /\ guard' = [guard EXCEPT ![t] = guard[t] /\ At(t, "free", "libc")]
  BY DEF LibcFree, lifeVars
<1>2. /\ stack[t] # <<>> /\ c.fn = "free" /\ Null \in Ptrs /\ guard \in [Threads -> BOOLEAN]
      /\ (Guarded(c) <=> ~At(t, "free", "libc"))
  BY <1>0, <1>1, AtFacts DEF Guarded, At
<1>3. /\ guard' \in [Threads -> BOOLEAN] /\ \A u \in Threads \ {t} : guard'[u] = guard[u]
      /\ guard'[t] <=> guard[t] /\ ~Guarded(c)
  <2>1. CASE At(t, "free", "libc")
    <3>1. guard' = guard
      BY <1>1, <1>2, <2>1
    <3> QED BY <3>1, <1>2, <2>1
  <2>2. CASE ~At(t, "free", "libc")
    <3>1. guard' = [guard EXCEPT ![t] = FALSE]
      BY <1>1, <1>2, <2>2
    <3>2. guard' \in [Threads -> BOOLEAN] /\ guard'[t] = FALSE /\ \A u \in Threads \ {t} : guard'[u] = guard[u]
      BY <3>1, GuardFrame
    <3> QED BY <3>2, <1>2, <2>2
  <2> QED BY <2>1, <2>2
<1>4. StackTypes' /\ CallsInv' /\ ReadyInv' /\ held' \subseteq Ptrs \ {Null}
  BY <1>0, <1>1, <1>2, <1>3, ReturnStep
<1>5. owner' \in [Addrs -> {"none", "libc", "seg"}] /\ pagemap' \subseteq Addrs
      /\ reaping' \in Addrs \cup {Null} /\ dropped' \subseteq Addrs
      /\ (~g_initialized => pagemap' = {} /\ reaping' = Null)
  BY <1>1 DEF RouteInv, GlobalTypes, LifeInv, LibcFree, LibcReleases
<1>6. GlobalTypes' /\ LifeInv'
  BY <1>1, <1>3, <1>4, <1>5, HeapStep
<1> QED BY <1>4, <1>6 DEF RouteInv

\* realloc calls malloc or free.
LEMMA ReallocCallRoute ==
    ASSUME RouteInv, NEW t \in Threads, NEW from, NEW to, NEW fn \in {"malloc", "free"},
           NEW p, p = IF fn = "malloc" THEN Null ELSE stack[t][1].p,
           At(t, "realloc", from), Call(t, to, Frame(fn, p, FALSE)),
           to = "done" \/ (to = "copy" /\ from = "gate" /\ fn = "malloc" /\ stack[t][1].p # Null),
           fn = "free" => stack[t][1].p # Null,
           UNCHANGED <<lifeVars, real, guard, boot_used, heapVars>>
    PROVE  RouteInv'
<1>0. PICK c : c = stack[t][1]
  OBVIOUS
<1> DEFINE f == [c EXCEPT !.at = to]
           g == Frame(fn, p, FALSE)
<1>1. /\ stack[t] # <<>> /\ c \in Frames /\ c.fn = "realloc" /\ c.at = from /\ FrameShape(c) /\ FrameReady(c)
      /\ ~Guarded(c) /\ c.p \in Ptrs /\ Null \in Ptrs
  BY <1>0, AtFacts DEF Guarded
<1>2. f.fn = "realloc" /\ f.at = to /\ f.p = c.p /\ f.out = c.out /\ to \in Labels
  BY <1>1, MovedFrame DEF Labels
<1>3. p \in Ptrs /\ (fn = "malloc" => p = Null) /\ (fn = "free" => p # Null)
  BY <1>0, <1>1
<1>4. g \in Frames /\ g.fn = fn /\ g.at = "enter" /\ g.p = p /\ g.out = Null
  BY <1>1, <1>3 DEF Frame, Frames, Funs
<1> HIDE DEF f, g
<1>5. FrameShape(f) /\ ~Guarded(f)
  BY <1>0, <1>1, <1>2 DEF FrameShape, Guarded
<1>6. FrameReady(f)
  BY <1>0, <1>1, <1>2 DEF FrameReady, Funs
<1>7. FrameShape(g) /\ g.fn # "init" /\ Waits(f, g)
  BY <1>2, <1>3, <1>4 DEF FrameShape, Waits
<1> QED BY <1>0, <1>1, <1>2, <1>4, <1>5, <1>6, <1>7, CallQuiet DEF f, g

\* realloc goes on in libc.
LEMMA ReallocLibcRoute ==
    ASSUME RouteInv, NEW t \in Threads, NEW from \in {"direct", "gate"},
           At(t, "realloc", from), Goto(t, "libc"), "realloc" \in real,
           UNCHANGED <<lifeVars, real, guard, boot_used, heapVars>>
    PROVE  RouteInv'
<1>0. PICK c : c = stack[t][1]
  OBVIOUS
<1> DEFINE f == [c EXCEPT !.at = "libc"]
<1>1. /\ stack[t] # <<>> /\ c \in Frames /\ c.fn = "realloc" /\ c.at = from /\ FrameShape(c)
      /\ ~Guarded(c) /\ guard \in [Threads -> BOOLEAN] /\ real \subseteq Funs
      /\ UNCHANGED <<lifeVars, boot_used, owner, pagemap, reaping, dropped>>
      /\ real' = real /\ guard' = guard
  BY <1>0, AtFacts DEF Guarded, heapVars
<1>2. f.fn = "realloc" /\ f.at = "libc" /\ f.p = c.p /\ f.out = c.out /\ "libc" \in Labels
  BY <1>1, MovedFrame DEF Labels
<1> HIDE DEF f
<1>3. FrameShape(f) /\ ~Guarded(f) /\ FrameReady(f)'
  BY <1>1, <1>2 DEF FrameShape, Guarded, FrameReady, Funs
<1> QED BY <1>0, <1>1, <1>2, <1>3, GotoQuiet DEF f

\* The steps of realloc before it reaches libc.
LEMMA ReallocRoute ==
    ASSUME RouteInv, NEW t \in Threads,
           ReallocBootstrap(t) \/ ReallocDirect(t) \/ ReallocGate(t) \/ ReallocCopy(t) \/ ReallocDone(t)
    PROVE  RouteInv'
<1>1. CASE ReallocBootstrap(t)
  BY <1>1, ReallocCallRoute DEF ReallocBootstrap
<1>2. CASE ReallocDirect(t)
  <2>1. /\ At(t, "realloc", "direct") /\ UNCHANGED <<lifeVars, real, guard, heapVars>>
        /\ UNCHANGED <<lifeVars, real, owner, pagemap, reaping, dropped>> /\ guard' = guard
    BY <1>2 DEF ReallocDirect, heapVars
  <2>2. /\ stack[t] # <<>> /\ stack[t][1].fn = "realloc" /\ stack[t][1].p \in Ptrs /\ boot_used \in 0..BootCap
        /\ guard \in [Threads -> BOOLEAN] /\ ~Guarded(stack[t][1])
    BY <2>1, AtFacts DEF Guarded
  <2>3. CASE "realloc" \in real /\ Goto(t, "libc") /\ UNCHANGED boot_used
    BY <2>1, <2>3, ReallocLibcRoute
  <2>4. CASE Return(t, Arg(t)) /\ UNCHANGED boot_used
    BY <2>1, <2>2, <2>4, ReturnQuiet DEF Arg
  <2>5. CASE BootstrapAlloc(t)
    BY <2>1, <2>2, <2>5, BootstrapRoute DEF Funs
  <2> QED BY <1>2, <2>3, <2>4, <2>5 DEF ReallocDirect
<1>3. CASE ReallocGate(t)
  <2>1. At(t, "realloc", "gate") /\ UNCHANGED <<lifeVars, real, guard, boot_used, heapVars>>
    BY <1>3 DEF ReallocGate
  <2>2. FrameReady(stack[t][1]) /\ stack[t][1].fn = "realloc" /\ stack[t][1].at = "gate"
    BY <2>1, AtFacts
  <2>3. "realloc" \in real
    BY <2>2 DEF FrameReady, Funs, RouteInv, LifeInv
  <2>4. Managed(Arg(t)) => stack[t][1].p # Null
    BY InterposeAssumption DEF Managed, Arg, RouteInv, GlobalTypes
  <2>5. CASE Goto(t, "libc")
    BY <2>1, <2>3, <2>5, ReallocLibcRoute
  <2>6. CASE Call(t, "done", Frame("malloc", Null, FALSE))
    BY <2>1, <2>6, ReallocCallRoute
  <2>7. CASE Managed(Arg(t)) /\ Call(t, "done", Frame("free", Arg(t), FALSE))
    BY <2>1, <2>4, <2>7, ReallocCallRoute DEF Arg
  <2>8. CASE Managed(Arg(t)) /\ Call(t, "copy", Frame("malloc", Null, FALSE))
    BY <2>1, <2>4, <2>8, ReallocCallRoute
  <2> QED BY <1>3, <2>5, <2>6, <2>7, <2>8 DEF ReallocGate
<1>4. CASE ReallocCopy(t)
  <2>1. /\ At(t, "realloc", "copy") /\ UNCHANGED <<lifeVars, real, guard, boot_used, heapVars>>
        /\ Call(t, "done", Frame("free", Arg(t), FALSE))
    BY <1>4 DEF ReallocCopy
  <2>2. FrameShape(stack[t][1]) /\ stack[t][1].fn = "realloc" /\ stack[t][1].at = "copy"
    BY <2>1, AtFacts
  <2>3. stack[t][1].p # Null
    BY <2>2 DEF FrameShape
  <2> QED BY <2>1, <2>3, ReallocCallRoute DEF Arg
<1>5. CASE ReallocDone(t)
  <2>1. /\ At(t, "realloc", "done") /\ Return(t, stack[t][1].out)
        /\ UNCHANGED <<lifeVars, real, owner, pagemap, reaping, dropped>>
        /\ guard' = guard /\ boot_used' = boot_used
    BY <1>5 DEF ReallocDone, heapVars
  <2>2. /\ stack[t] # <<>> /\ stack[t][1].fn = "realloc" /\ stack[t][1].out \in Ptrs /\ boot_used \in 0..BootCap
        /\ guard \in [Threads -> BOOLEAN] /\ ~Guarded(stack[t][1])
    BY <2>1, AtFacts DEF Guarded
  <2> QED BY <2>1, <2>2, ReturnQuiet
<1> QED BY <1>1, <1>2, <1>3, <1>4, <1>5

\* libc's realloc returns.
LEMMA LibcReallocRoute ==
    ASSUME RouteInv, NEW t \in Threads, LibcRealloc(t)
    PROVE  RouteInv'
<1>1. /\ At(t, "realloc", "libc") /\ UNCHANGED lifeVars /\ UNCHANGED <<real, boot_used>>
      /\ UNCHANGED <<pagemap, reaping, dropped>> /\ real' = real /\ guard' = guard
      /\ g_initialized' = g_initialized
  BY DEF LibcRealloc, lifeVars
<1>2. /\ stack[t] # <<>> /\ stack[t][1].fn = "realloc" /\ ~Guarded(stack[t][1]) /\ Arg(t) \in Ptrs /\ Null \in Ptrs
      /\ guard \in [Threads -> BOOLEAN]
  BY <1>1, AtFacts DEF Guarded, Arg
<1>3. PICK v \in Ptrs : Return(t, v)
  BY <1>2 DEF LibcRealloc, Ptrs
<1>4. StackTypes' /\ CallsInv' /\ ReadyInv' /\ held' \subseteq Ptrs \ {Null}
  BY <1>1, <1>2, <1>3, ReturnStep
<1>5. pagemap' \subseteq Addrs
      /\ reaping' \in Addrs \cup {Null} /\ dropped' \subseteq Addrs
      /\ (~g_initialized => pagemap' = {} /\ reaping' = Null)
  BY <1>1 DEF RouteInv, GlobalTypes, LifeInv
<1>6. owner' \in [Addrs -> {"none", "libc", "seg"}]
  <2>1. owner \in [Addrs -> {"none", "libc", "seg"}]
    BY DEF RouteInv, GlobalTypes
  <2> QED BY <2>1 DEF LibcRealloc, LibcReleases, LibcTakes
<1>7. GlobalTypes' /\ LifeInv'
  BY <1>1, <1>2, <1>4, <1>5, <1>6, HeapStep
<1> QED BY <1>4, <1>7 DEF RouteInv

\* The program calls.
LEMMA ProgramRoute ==
    ASSUME RouteInv, NEW t \in Threads, Program(t)
    PROVE  RouteInv'
<1>1. /\ stack[t] = <<>> /\ Enters(t) /\ real' = real /\ guard' = guard /\ g_initialized' = g_initialized
      /\ UNCHANGED <<lifeVars, boot_used, owner, pagemap, reaping, dropped>>
  BY DEF Program, lifeVars, heapVars
<1>2. /\ held \subseteq Ptrs \ {Null} /\ real \subseteq Funs /\ guard \in [Threads -> BOOLEAN]
      /\ boot_used' \in 0..BootCap
  BY <1>1 DEF RouteInv, GlobalTypes
<1>3. StackTypes' /\ CallsInv' /\ ReadyInv' /\ held' \subseteq held
  BY <1>1, EntersStep
<1>4. held' \subseteq Ptrs \ {Null}
  BY <1>2, <1>3
<1>5. GlobalTypes' /\ LifeInv'
  BY <1>1, <1>2, <1>4, QuietStep
<1> QED BY <1>3, <1>5 DEF RouteInv

\* tbjit_init begins and ends.
LEMMA InitRoute ==
    ASSUME RouteInv, NEW t \in Threads, InitBegin(t) \/ InitEnd(t)
    PROVE  RouteInv'
<1>1. CASE InitBegin(t)
  <2> DEFINE f == Frame("init", Null, FALSE)
             g == Frame("resolve", Null, FALSE)
             r == <<g, f>>
  <2>1. f \in Frames /\ g \in Frames /\ f.fn = "init" /\ g.fn = "resolve" /\ f.at = "enter" /\ g.at = "enter"
        /\ f.p = Null /\ f.out = Null /\ g.p = Null /\ g.out = Null
    BY DEF Frame, Frames, Ptrs
  <2>2. /\ stack[t] = <<>> /\ stack' = [stack EXCEPT ![t] = r]
        /\ real' = real /\ guard' = guard /\ g_initialized' = g_initialized /\ held' = held
        /\ life = "loaded" /\ life' = "starting"
        /\ UNCHANGED <<g_shutting_down, boot_used, owner, pagemap, reaping, dropped>>
    BY <1>1 DEF InitBegin, heapVars
  <2>3. ~guard[t] /\ real \subseteq Funs
    BY <2>2 DEF RouteInv, CallsInv, StackOK, GlobalTypes
  <2> HIDE DEF f, g
  <2>4. FrameShape(f) /\ ~Guarded(f) /\ FrameShape(g) /\ ~Guarded(g) /\ Waits(f, g)
    BY <2>1 DEF FrameShape, Guarded, Waits, Funs
  <2>5. FrameReady(f)' /\ FrameReady(g)'
    BY <2>1 DEF FrameReady, Funs
  <2>6. r \in Seq(Frames) /\ Len(r) = 2 /\ r # <<>> /\ r[1] = g /\ r[2] = f
    BY <2>1
  <2> HIDE DEF r
  <2>7. Up(r, 1) = f /\ Up(r, 2) = g /\ 1..2 = {1, 2} /\ 1..(2 - 1) = {1}
    BY <2>6 DEF Up
  <2>8. StackOK(r, guard'[t])
    BY <2>1, <2>2, <2>3, <2>4, <2>6, <2>7 DEF StackOK
  <2>9. \A d \in Calls(r) : d = f \/ d = g
    BY <2>6, <2>7 DEF Calls
  <2>10. StackTypes' /\ CallsInv' /\ ReadyInv'
    BY <2>1, <2>2, <2>3, <2>5, <2>6, <2>8, <2>9, OneStack
  <2>11. GlobalTypes' /\ LifeInv'
    BY <2>2 DEF RouteInv, GlobalTypes, LifeInv, Ptrs, Boots, Funs
  <2> QED BY <2>10, <2>11 DEF RouteInv
<1>2. CASE InitEnd(t)
  <2>1. /\ At(t, "init", "enter") /\ g_initialized' = TRUE /\ life' = "up" /\ Return(t, Null)
        /\ UNCHANGED <<g_shutting_down, real, guard, boot_used, owner, pagemap, reaping, dropped>>
    BY <1>2 DEF InitEnd, heapVars
  <2>2. /\ stack[t] # <<>> /\ stack[t][1].fn = "init" /\ ~Guarded(stack[t][1]) /\ Null \in Ptrs
    BY <2>1, AtFacts DEF Guarded
  <2>3. real = Funs
    BY <2>2 DEF RouteInv, ReadyInv
  <2>4. StackTypes' /\ CallsInv' /\ ReadyInv' /\ held' \subseteq Ptrs \ {Null}
    BY <2>1, <2>2, <2>3, ReturnStep
  <2>5. GlobalTypes' /\ LifeInv'
    BY <2>1, <2>3, <2>4 DEF RouteInv, GlobalTypes, LifeInv, Ptrs, Boots, Funs
  <2> QED BY <2>4, <2>5 DEF RouteInv
<1> QED BY <1>1, <1>2

\* The destructor and the reaper leave the calls alone.
LEMMA LifeRoute ==
    ASSUME RouteInv, FiniBegin \/ FiniEnd \/ ReapUnmap \/ \E a \in Addrs : ReapUnregister(a)
    PROVE  RouteInv'
<1>1. /\ stack' = stack /\ guard' = guard /\ real' = real /\ g_initialized' = g_initialized
      /\ held' = held /\ boot_used' = boot_used /\ dropped' = dropped
  BY DEF FiniBegin, FiniEnd, ReapUnmap, ReapUnregister, heapVars, lifeVars
<1>2. StackTypes' /\ CallsInv' /\ ReadyInv'
  BY <1>1 DEF RouteInv, StackTypes, CallsInv, ReadyInv, StackOK, FrameShape, Waits, Guarded, Up, Calls, FrameReady
<1>3. GlobalTypes' /\ LifeInv'
  <2>1. CASE FiniBegin \/ FiniEnd
    BY <1>1, <2>1 DEF FiniBegin, FiniEnd, heapVars, RouteInv, GlobalTypes, LifeInv
  <2>2. CASE ReapUnmap
    BY <1>1, <2>2 DEF ReapUnmap, lifeVars, RouteInv, GlobalTypes, LifeInv
  <2>3. CASE \E a \in Addrs : ReapUnregister(a)
    BY <1>1, <2>3 DEF ReapUnregister, lifeVars, RouteInv, GlobalTypes, LifeInv
  <2> QED BY <2>1, <2>2, <2>3
<1> QED BY <1>2, <1>3 DEF RouteInv

\* Every step keeps RouteInv.
LEMMA RouteInductive ==
    ASSUME RouteInv, [Next]_vars
    PROVE  RouteInv'
<1>1. ASSUME NEW t \in Threads, Resolve(t) PROVE RouteInv'
  BY <1>1, ResolveEnterRoute, ResolveEndRoute, DlsymRoute DEF Resolve
<1>2. ASSUME NEW t \in Threads, Malloc(t) PROVE RouteInv'
  BY <1>2, PreambleRoute, MallocDirectRoute, MallocGateRoute, ValidateAllocRoute, ServedRoute, LibcMallocRoute
     DEF Malloc, Funs
<1>3. ASSUME NEW t \in Threads, Free(t) PROVE RouteInv'
  BY <1>3, PreambleRoute, FreeDirectRoute, FreeGateRoute, FreeUnderGuardRoute, FreeManagedRoute, LibcFreeRoute
     DEF Free, Funs
<1>4. ASSUME NEW t \in Threads, Realloc(t) PROVE RouteInv'
  BY <1>4, PreambleRoute, ReallocRoute, LibcReallocRoute DEF Realloc, Funs
<1>5. CASE UNCHANGED vars
  <2>1. /\ UNCHANGED <<g_initialized, g_shutting_down, life, real, guard, boot_used>>
        /\ UNCHANGED <<owner, pagemap, reaping, dropped, held, stack>>
    BY <1>5 DEF vars, lifeVars, heapVars
  <2>2. StackTypes' /\ CallsInv' /\ ReadyInv'
    BY <2>1 DEF RouteInv, StackTypes, CallsInv, ReadyInv, StackOK, FrameShape, Waits, Guarded, Up, Calls, FrameReady
  <2>3. GlobalTypes' /\ LifeInv'
    BY <2>1 DEF RouteInv, GlobalTypes, LifeInv
  <2> QED BY <2>2, <2>3 DEF RouteInv
<1> QED BY <1>1, <1>2, <1>3, <1>4, <1>5, ProgramRoute, InitRoute, LifeRoute DEF Next

\* RouteInv holds when the library has been loaded ...
LEMMA RouteInit == Init => RouteInv
<1> SUFFICES ASSUME Init PROVE RouteInv
  OBVIOUS
<1>0. BootCap \in Nat
  BY InterposeAssumption
<1>1a. GlobalTypes
  <2>1. g_initialized \in BOOLEAN /\ g_shutting_down \in BOOLEAN /\ guard \in [Threads -> BOOLEAN]
    BY DEF Init
  <2>2. boot_used \in 0..BootCap
    BY <1>0 DEF Init
  <2>3. /\ owner \in [Addrs -> {"none", "libc", "seg"}] /\ reaping \in Addrs \cup {Null}
        /\ life \in {"loaded", "starting", "up", "stopping", "down"}
    BY DEF Init
  <2>4. real \subseteq Funs /\ pagemap \subseteq Addrs /\ held \subseteq Ptrs \ {Null} /\ dropped \subseteq Addrs
    BY DEF Init
  <2> QED BY <2>1, <2>2, <2>3, <2>4 DEF GlobalTypes
<1>1. GlobalTypes /\ LifeInv
  BY <1>1a DEF Init, LifeInv
<1>2. StackTypes /\ \A t \in Threads : stack[t] = <<>> /\ guard[t] = FALSE
  BY DEF Init, StackTypes
<1>3. CallsInv
  BY <1>2 DEF CallsInv, StackOK
<1>4. ReadyInv
  BY <1>2 DEF ReadyInv, Calls
<1> QED BY <1>1, <1>2, <1>3, <1>4 DEF RouteInv

\* ... and always.
LEMMA RouteAlways == Spec => []RouteInv
  BY RouteInit, RouteInductive, PTL DEF Spec

-----------------------------------------------------------------------------
(* Theorems.                                                                *)

\* A thread's reentrancy guard is set exactly while one of its calls is in a
\* section under the guard, however calls nest and dlsym calls back.
THEOREM GuardAlwaysExact == Spec => []GuardExact
<1>1. RouteInv => GuardExact
  <2> SUFFICES ASSUME RouteInv, NEW t \in Threads
               PROVE  guard[t] <=> \E i \in 1..Len(stack[t]) : Guarded(stack[t][i])
    BY DEF GuardExact
  <2> DEFINE s == stack[t]
             n == Len(s)
  <2>1. s \in Seq(Frames) /\ (guard[t] <=> \E h \in 1..n : Guarded(Up(s, h)))
    BY DEF RouteInv, StackTypes, CallsInv, StackOK
  <2>2. n \in Nat
    BY <2>1
  <2>3. ASSUME NEW i \in 1..n PROVE (n + 1) - i \in 1..n /\ Up(s, (n + 1) - i) = s[i]
    BY <2>2 DEF Up
  <2>4. ASSUME NEW h \in 1..n PROVE (n + 1) - h \in 1..n /\ Up(s, h) = s[(n + 1) - h]
    BY <2>2 DEF Up
  <2> HIDE DEF s, n
  <2>5. (\E h \in 1..n : Guarded(Up(s, h))) <=> (\E i \in 1..n : Guarded(s[i]))
    BY <2>3, <2>4
  <2> QED BY <2>1, <2>5 DEF s, n
<1> QED BY <1>1, RouteAlways, PTL

\* No function of libc is called through a pointer that is not set, neither by
\* a call that started before tbjit_init was done nor by one that came later.
THEOREM AlwaysResolvedBeforeUse == Spec => []ResolvedBeforeUse
<1>1. RouteInv => ResolvedBeforeUse
  <2> SUFFICES ASSUME RouteInv, NEW t \in Threads
               PROVE  /\ At(t, "malloc", "libc") \/ At(t, "malloc", "serve") => "malloc" \in real
                      /\ At(t, "free", "libc") \/ At(t, "free", "validate") => "free" \in real
                      /\ At(t, "realloc", "libc") => "realloc" \in real
    BY DEF ResolvedBeforeUse
  <2>1. g_initialized => real = Funs
    BY DEF RouteInv, LifeInv
  <2>2. stack[t] # <<>> => FrameReady(stack[t][1])
    BY TopFrame
  <2> QED BY <2>1, <2>2 DEF At, FrameReady, Funs
<1> QED BY <1>1, RouteAlways, PTL

\* Calls nest at most six deep: what dlsym calls does not resolve again.
THEOREM RecursionAlwaysBounded == Spec => []RecursionBounded
<1>1. RouteInv => RecursionBounded
  <2> SUFFICES ASSUME RouteInv, NEW t \in Threads PROVE Len(stack[t]) <= 6
    BY DEF RecursionBounded
  <2> DEFINE s == stack[t]
             gd == guard[t]
  <2>1. s \in Seq(Frames) /\ StackOK(s, gd)
    BY DEF RouteInv, StackTypes, CallsInv
  <2> HIDE DEF s, gd
  <2>2. Len(s) <= 6
    BY <2>1, StackBounded
  <2> QED BY <2>2 DEF s
<1> QED BY <1>1, RouteAlways, PTL

-----------------------------------------------------------------------------
(* Who has an address.                                                      *)

\* The call f has address a: as an argument not yet given back or as a result.
Uses(f, a) == f.out = a \/ (f.p = a /\ f.at # "done")

\* Memory that an allocator has handed out, or can: libc's, or a chunk's.
Live(a) == owner[a] = "libc" \/ a \in pagemap

\* The pagemap and the reaper agree with the owner.
SegmentsInv ==
    /\ \A a \in pagemap : owner[a] = "seg"
    /\ reaping # Null => reaping \notin pagemap /\ owner[reaping] = "seg"

\* An address that is in use is live, and in one place.
PlacesInv ==
    /\ \A t \in Threads : \A h \in 1..Len(stack[t]) : \A a \in Addrs :
          Uses(Up(stack[t], h), a) => Live(a) /\ a \notin held /\ a \notin dropped
    /\ \A t, u \in Threads : \A h \in 1..Len(stack[t]), k \in 1..Len(stack[u]) : \A a \in Addrs :
          Uses(Up(stack[t], h), a) /\ Uses(Up(stack[u], k), a) => t = u /\ h = k
    /\ \A a \in Addrs : a \in held => Live(a) /\ a \notin dropped
    /\ \A a \in Addrs : a \in dropped => Live(a)

\* A call has not its argument for a result.
Apart(f) == f.p \in Addrs /\ f.at # "done" => f.out # f.p

\* What a call that has found the way for its argument relies on.
FrameOwner(f, own, map, down) ==
    /\ f.fn = "free" /\ f.at \in {"libc", "unmanaged"} => own[f.p] = "libc"
    /\ f.fn = "free" /\ f.at = "managed" => f.p \in map
    /\ f.fn = "realloc" /\ f.at = "libc" /\ ~down => f.p = Null \/ own[f.p] = "libc"

\* A call on the direct path, or made by dlsym, began when nothing was managed.
Early(s, h) == Up(s, h).at = "direct" \/ \E k \in 1..(h - 1) : Up(s, k).fn = "resolve"

CallsOwner ==
    \A t \in Threads : \A h \in 1..Len(stack[t]) :
        /\ Apart(Up(stack[t], h)) /\ FrameOwner(Up(stack[t], h), owner, pagemap, g_shutting_down)
        /\ Early(stack[t], h) /\ Up(stack[t], h).at # "done" => Up(stack[t], h).p \notin pagemap

OwnerInv == SegmentsInv /\ PlacesInv /\ CallsOwner

\* In a step that changes thread t's stack to r, only the addresses of W
\* change hands, and each is in one place afterwards, or nowhere.
Moves(t, r, W) ==
    /\ \A a \in Addrs \ W : owner'[a] = owner[a] /\ (a \in pagemap' <=> a \in pagemap)
    /\ \A a \in Addrs \ W : \A h \in 1..Len(r) :
          Uses(Up(r, h), a) => h \in 1..Len(stack[t]) /\ Uses(Up(stack[t], h), a)
    /\ \A a \in Addrs \ W : (a \in held' => a \in held) /\ (a \in dropped' => a \in dropped)
    /\ \A w \in W : \A u \in Threads \ {t} : \A h \in 1..Len(stack[u]) : ~Uses(Up(stack[u], h), w)
    /\ \A w \in W : \A h, k \in 1..Len(r) : Uses(Up(r, h), w) /\ Uses(Up(r, k), w) => h = k
    /\ \A w \in W : \A h \in 1..Len(r) :
          Uses(Up(r, h), w) => Live(w)' /\ w \notin held' /\ w \notin dropped'
    /\ \A w \in W : w \in held' => Live(w)' /\ w \notin dropped'
    /\ \A w \in W : w \in dropped' => Live(w)'

\* Each frame of r is an old one that has no address of W, or is as it should be.
Fits(t, r, W) ==
    /\ \A h \in 1..Len(r) : h \in 1..Len(stack[t]) => Up(r, h).fn = Up(stack[t], h).fn
    /\ \A h \in 1..Len(r) :
          \/ /\ h \in 1..Len(stack[t]) /\ Up(r, h) = Up(stack[t], h)
             /\ \A w \in W : ~Uses(Up(r, h), w)
          \/ /\ Apart(Up(r, h)) /\ FrameOwner(Up(r, h), owner', pagemap', g_shutting_down')
             /\ Early(r, h) /\ Up(r, h).at # "done" => Up(r, h).p \notin pagemap'

\* A step changes one stack to r and moves the addresses of W.
LEMMA OwnerStep ==
    ASSUME RouteInv, RouteInv', OwnerInv, NEW t \in Threads, NEW r \in Seq(Frames),
           stack' = [stack EXCEPT ![t] = r], NEW W \in SUBSET Addrs,
           Moves(t, r, W), Fits(t, r, W), SegmentsInv', g_shutting_down => g_shutting_down'
    PROVE  OwnerInv'
<1>0m. /\ \A a \in Addrs \ W : owner'[a] = owner[a] /\ (a \in pagemap' <=> a \in pagemap)
       /\ \A a \in Addrs \ W : \A h \in 1..Len(r) :
             Uses(Up(r, h), a) => h \in 1..Len(stack[t]) /\ Uses(Up(stack[t], h), a)
       /\ \A a \in Addrs \ W : (a \in held' => a \in held) /\ (a \in dropped' => a \in dropped)
       /\ \A w \in W : \A u \in Threads \ {t} : \A h \in 1..Len(stack[u]) : ~Uses(Up(stack[u], h), w)
       /\ \A w \in W : \A h, k \in 1..Len(r) : Uses(Up(r, h), w) /\ Uses(Up(r, k), w) => h = k
       /\ \A w \in W : \A h \in 1..Len(r) :
             Uses(Up(r, h), w) => Live(w)' /\ w \notin held' /\ w \notin dropped'
       /\ \A w \in W : w \in held' => Live(w)' /\ w \notin dropped'
       /\ \A w \in W : w \in dropped' => Live(w)'
  BY DEF Moves
<1>0f. /\ \A h \in 1..Len(r) : h \in 1..Len(stack[t]) => Up(r, h).fn = Up(stack[t], h).fn
       /\ \A h \in 1..Len(r) :
             \/ /\ h \in 1..Len(stack[t]) /\ Up(r, h) = Up(stack[t], h)
                /\ \A w \in W : ~Uses(Up(r, h), w)
             \/ /\ Apart(Up(r, h)) /\ FrameOwner(Up(r, h), owner', pagemap', g_shutting_down')
                /\ Early(r, h) /\ Up(r, h).at # "done" => Up(r, h).p \notin pagemap'
  BY DEF Fits
<1>1. stack \in [Threads -> Seq(Frames)] /\ pagemap \subseteq Addrs /\ pagemap' \subseteq Addrs
      /\ \A u \in Threads : StackOK(stack[u], guard[u])
  BY DEF RouteInv, StackTypes, GlobalTypes, CallsInv
<1>2. stack'[t] = r /\ \A u \in Threads \ {t} : stack'[u] = stack[u]
  BY <1>1
<1>3. \A a \in Addrs \ W : Live(a) => Live(a)'
  BY <1>0m DEF Live
<1>4. ASSUME NEW u \in Threads, NEW h \in 1..Len(stack'[u]), NEW a \in Addrs, Uses(Up(stack'[u], h), a)
      PROVE  Live(a)' /\ a \notin held' /\ a \notin dropped'
  <2>1. CASE a \in W
    BY <1>0m, <1>2, <1>4, <2>1
  <2>2. CASE a \notin W
    <3>1. h \in 1..Len(stack[u]) /\ Uses(Up(stack[u], h), a)
      BY <1>0m, <1>2, <1>4, <2>2
    <3>2. Live(a) /\ a \notin held /\ a \notin dropped
      BY <3>1 DEF OwnerInv, PlacesInv
    <3> QED BY <1>0m, <1>3, <2>2, <3>2
  <2> QED BY <2>1, <2>2
<1>5. ASSUME NEW u \in Threads, NEW v \in Threads, NEW h \in 1..Len(stack'[u]), NEW k \in 1..Len(stack'[v]),
             NEW a \in Addrs, Uses(Up(stack'[u], h), a), Uses(Up(stack'[v], k), a)
      PROVE  u = v /\ h = k
  <2>1. CASE a \in W
    BY <1>0m, <1>2, <1>5, <2>1
  <2>2. CASE a \notin W
    <3>1. h \in 1..Len(stack[u]) /\ Uses(Up(stack[u], h), a)
      BY <1>0m, <1>2, <1>5, <2>2
    <3>2. k \in 1..Len(stack[v]) /\ Uses(Up(stack[v], k), a)
      BY <1>0m, <1>2, <1>5, <2>2
    <3> QED BY <3>1, <3>2 DEF OwnerInv, PlacesInv
  <2> QED BY <2>1, <2>2
<1>6. ASSUME NEW a \in Addrs, a \in held' PROVE Live(a)' /\ a \notin dropped'
  BY <1>0m, <1>3, <1>6 DEF OwnerInv, PlacesInv
<1>7. ASSUME NEW a \in Addrs, a \in dropped' PROVE Live(a)'
  BY <1>0m, <1>3, <1>7 DEF OwnerInv, PlacesInv
<1>8. PlacesInv'
  BY <1>4, <1>5, <1>6, <1>7 DEF PlacesInv
<1>9. ASSUME NEW f \in Frames, FrameShape(f), Apart(f), FrameOwner(f, owner, pagemap, g_shutting_down), \A w \in W : ~Uses(f, w)
      PROVE  FrameOwner(f, owner', pagemap', g_shutting_down') /\ (f.at # "done" /\ f.p \notin pagemap => f.p \notin pagemap')
  <2>1. f.p \in Addrs /\ f.at # "done" => owner'[f.p] = owner[f.p] /\ (f.p \in pagemap' <=> f.p \in pagemap)
    BY <1>0m, <1>9 DEF Uses
  <2>2. f.fn = "free" /\ f.at # "enter" => f.p \in Addrs /\ f.at # "done"
    BY <1>9 DEF FrameShape
  <2>3. f.at # "done" /\ f.p \notin pagemap => f.p \notin pagemap'
    BY <1>1, <2>1
  <2>4. f.fn = "free" /\ f.at \in {"libc", "unmanaged"} => owner'[f.p] = "libc"
    BY <1>9, <2>1, <2>2 DEF FrameOwner
  <2>5. f.fn = "free" /\ f.at = "managed" => f.p \in pagemap'
    BY <1>9, <2>1, <2>2 DEF FrameOwner
  <2>6. ASSUME f.fn = "realloc", f.at = "libc", ~g_shutting_down' PROVE f.p = Null \/ owner'[f.p] = "libc"
    <3>1. f.p = Null \/ owner[f.p] = "libc"
      BY <1>9, <2>6 DEF FrameOwner
    <3>2. CASE f.p \in Addrs
      BY <2>1, <2>6, <3>1, <3>2
    <3>3. CASE f.p \notin Addrs
      BY <1>9, <2>6, <3>3 DEF FrameShape, Frames, Ptrs
    <3> QED BY <3>2, <3>3
  <2> QED BY <2>3, <2>4, <2>5, <2>6 DEF FrameOwner
<1>10. ASSUME NEW u \in Threads, NEW h \in 1..Len(stack'[u])
       PROVE  /\ Apart(Up(stack'[u], h)) /\ FrameOwner(Up(stack'[u], h), owner', pagemap', g_shutting_down')
              /\ Early(stack'[u], h) /\ Up(stack'[u], h).at # "done" => Up(stack'[u], h).p \notin pagemap'
  <2>1. CASE u = t /\ ~(/\ h \in 1..Len(stack[t]) /\ Up(r, h) = Up(stack[t], h)
                        /\ \A w \in W : ~Uses(Up(r, h), w))
    <3>1. stack'[u] = r /\ h \in 1..Len(r)
      BY <1>2, <2>1
    <3>2. Apart(Up(r, h)) /\ FrameOwner(Up(r, h), owner', pagemap', g_shutting_down')
          /\ (Early(r, h) /\ Up(r, h).at # "done" => Up(r, h).p \notin pagemap')
      BY <1>0f, <2>1, <3>1
    <3>3. PICK f : f = Up(r, h)
      OBVIOUS
    <3>4. FrameOwner(Up(stack'[u], h), owner', pagemap', g_shutting_down')
      BY <3>1, <3>2
    <3> QED BY <3>1, <3>2, <3>4
  <2>2. CASE u # t \/ (/\ h \in 1..Len(stack[t]) /\ Up(r, h) = Up(stack[t], h)
                       /\ \A w \in W : ~Uses(Up(r, h), w))
    <3>1. PICK f : f = Up(stack[u], h)
      OBVIOUS
    <3>2. h \in 1..Len(stack[u]) /\ Up(stack'[u], h) = f /\ \A w \in W : ~Uses(f, w)
      BY <1>0m, <1>2, <2>2, <3>1
    <3>3. f \in Frames
      <4>1. stack[u] \in Seq(Frames) /\ Len(stack[u]) \in Nat
        BY <1>1
      <4>2. (Len(stack[u]) + 1) - h \in 1..Len(stack[u])
        BY <3>2, <4>1
      <4> QED BY <3>1, <4>1, <4>2 DEF Up
    <3>4. FrameShape(f)
      BY <1>1, <3>1, <3>2 DEF StackOK
    <3>5. /\ Apart(f) /\ FrameOwner(f, owner, pagemap, g_shutting_down)
          /\ Early(stack[u], h) /\ f.at # "done" => f.p \notin pagemap
      BY <3>1, <3>2 DEF OwnerInv, CallsOwner
    <3>6. FrameOwner(f, owner', pagemap', g_shutting_down') /\ (f.at # "done" /\ f.p \notin pagemap => f.p \notin pagemap')
      BY <1>9, <3>2, <3>3, <3>4, <3>5
    <3>7. Early(stack'[u], h) => Early(stack[u], h)
      <4>1. CASE u # t
        BY <1>2, <4>1
      <4>2. CASE u = t
        <5>0. Len(r) \in Nat /\ h \in 1..Len(r) /\ stack'[u] = r
          BY <1>2, <4>2
        <5>1. ASSUME NEW k \in 1..(h - 1) PROVE k \in 1..Len(r) /\ k \in 1..Len(stack[u])
          <6>1. Len(stack[u]) \in Nat
            BY <1>1
          <6> QED BY <5>0, <6>1, <3>2
        <5>2. \A k \in 1..(h - 1) : Up(r, k).fn = Up(stack[u], k).fn
          BY <1>0f, <4>2, <5>1
        <5> QED BY <3>1, <3>2, <5>0, <5>2 DEF Early
      <4> QED BY <4>1, <4>2
    <3>8. FrameOwner(Up(stack'[u], h), owner', pagemap', g_shutting_down')
      BY <3>2, <3>6
    <3> QED BY <3>2, <3>5, <3>6, <3>7, <3>8
  <2> QED BY <2>1, <2>2
<1>11. CallsOwner'
  BY <1>10 DEF CallsOwner
<1> QED BY <1>8, <1>11 DEF OwnerInv

\* Only the call thread t is in has w, if any.
Mine(t, w) ==
    /\ \A u \in Threads : \A h \in 1..Len(stack[u]) :
          Uses(Up(stack[u], h), w) => u = t /\ h = Len(stack[t])
    /\ w \notin held /\ w \notin dropped

\* What the call thread t is in has is live, and nobody else has it.
LEMMA MineTop ==
    ASSUME RouteInv, OwnerInv, NEW t \in Threads, stack[t] # <<>>,
           NEW a \in Addrs, Uses(stack[t][1], a)
    PROVE  Mine(t, a) /\ Live(a)
<1>1. stack[t] \in Seq(Frames)
  BY TopFrame
<1>2. Len(stack[t]) \in 1..Len(stack[t]) /\ Up(stack[t], Len(stack[t])) = stack[t][1]
  BY <1>1, UpPop
<1> QED BY <1>2 DEF Mine, OwnerInv, PlacesInv

\* Nobody has an address that belongs to nobody.
LEMMA MineFresh ==
    ASSUME RouteInv, OwnerInv, NEW t \in Threads, NEW a \in Addrs, owner[a] = "none"
    PROVE  Mine(t, a) /\ ~Live(a) /\ a \notin pagemap
<1>1. ~Live(a) /\ a \notin pagemap
  BY DEF Live, OwnerInv, SegmentsInv
<1> QED BY <1>1 DEF Mine, OwnerInv, PlacesInv

\* The call on top was made, directly or not, by dlsym.
DlsymBelow(s) == \E k \in 1..(Len(s) - 1) : Up(s, k).fn = "resolve"

\* What the invariant says of the call thread t is in.
LEMMA TopOwner ==
    ASSUME RouteInv, OwnerInv, NEW t \in Threads, stack[t] # <<>>
    PROVE  /\ Apart(stack[t][1]) /\ FrameOwner(stack[t][1], owner, pagemap, g_shutting_down)
           /\ stack[t][1].at # "done" /\ (stack[t][1].at = "direct" \/ DlsymBelow(stack[t])) =>
                stack[t][1].p \notin pagemap
<1>1. stack[t] \in Seq(Frames)
  BY TopFrame
<1>2. Len(stack[t]) \in 1..Len(stack[t]) /\ Up(stack[t], Len(stack[t])) = stack[t][1]
  BY <1>1, UpPop
<1> QED BY <1>2 DEF OwnerInv, CallsOwner, Early, DlsymBelow

\* The top frame becomes f.
LEMMA SwapOwner ==
    ASSUME RouteInv, RouteInv', OwnerInv, NEW t \in Threads, stack[t] # <<>>,
           NEW f \in Frames, f.fn = stack[t][1].fn,
           stack' = [stack EXCEPT ![t] = <<f>> \o Tail(stack[t])],
           NEW W \in SUBSET Addrs, \A w \in W : Mine(t, w) /\ Live(w)',
           \A a \in Addrs \ W : owner'[a] = owner[a] /\ (a \in pagemap' <=> a \in pagemap),
           \A a \in Addrs \ W : Uses(f, a) => Uses(stack[t][1], a),
           held' = held, dropped' = dropped,
           Apart(f), FrameOwner(f, owner', pagemap', g_shutting_down'),
           f.at # "done" /\ (f.at = "direct" \/ DlsymBelow(stack[t])) => f.p \notin pagemap',
           SegmentsInv', g_shutting_down => g_shutting_down'
    PROVE  OwnerInv'
<1> DEFINE s == stack[t]
           n == Len(s)
           r == Swap(s, f)
<1>1. s \in Seq(Frames) /\ s # <<>>
  BY TopFrame
<1>2. n \in Nat \ {0} /\ Up(s, n) = s[1]
  BY <1>1, UpPop
<1>3. /\ r \in Seq(Frames) /\ Len(r) = n /\ Up(r, n) = f
      /\ \A h \in 1..(n - 1) : Up(r, h) = Up(s, h)
  <2> HIDE DEF s
  <2> QED BY <1>1, UpSwap
<1>4. stack' = [stack EXCEPT ![t] = r]
  BY DEF Swap
<1> HIDE DEF r
<1>5. \A h \in 1..n : h = n \/ (h \in 1..(n - 1) /\ h # n)
  BY <1>2
<1>6. \A a \in Addrs \ W : \A h \in 1..Len(r) :
          Uses(Up(r, h), a) => h \in 1..Len(stack[t]) /\ Uses(Up(stack[t], h), a)
  BY <1>2, <1>3, <1>5
<1>7. \A w \in W : \A u \in Threads \ {t} : \A h \in 1..Len(stack[u]) : ~Uses(Up(stack[u], h), w)
  BY DEF Mine
<1>8. \A w \in W : \A h \in 1..Len(r) : Uses(Up(r, h), w) => h = n
  BY <1>3, <1>5 DEF Mine
<1>9. \A w \in W : Live(w)' /\ w \notin held' /\ w \notin dropped'
  BY DEF Mine
<1>10. \A h \in 1..Len(r) : h \in 1..Len(stack[t]) => Up(r, h).fn = Up(stack[t], h).fn
  BY <1>2, <1>3, <1>5
<1>11. Early(r, n) => f.at = "direct" \/ DlsymBelow(stack[t])
  BY <1>3 DEF Early, DlsymBelow
<1>12. ASSUME NEW h \in 1..Len(r)
       PROVE  \/ /\ h \in 1..Len(stack[t]) /\ Up(r, h) = Up(stack[t], h)
                 /\ \A w \in W : ~Uses(Up(r, h), w)
              \/ /\ Apart(Up(r, h)) /\ FrameOwner(Up(r, h), owner', pagemap', g_shutting_down')
                 /\ Early(r, h) /\ Up(r, h).at # "done" => Up(r, h).p \notin pagemap'
  <2>1. CASE h = n
    BY <1>3, <1>11, <2>1
  <2>2. CASE h # n
    BY <1>3, <1>5, <1>8, <2>2
  <2> QED BY <2>1, <2>2
<1>13. \A w \in W : \A h, k \in 1..Len(r) : Uses(Up(r, h), w) /\ Uses(Up(r, k), w) => h = k
  BY <1>8
<1>14. Moves(t, r, W)
  BY <1>6, <1>7, <1>9, <1>13 DEF Moves
<1>15. Fits(t, r, W)
  BY <1>10, <1>12 DEF Fits
<1> HIDE DEF s, n
<1> QED BY <1>3, <1>4, <1>14, <1>15, OwnerStep

\* The heap stays as it is.
HeapKept == UNCHANGED <<owner, pagemap, reaping, dropped, g_shutting_down>>

\* What follows when the heap stays as it is.
LEMMA KeptFacts ==
    ASSUME RouteInv, OwnerInv, HeapKept
    PROVE  /\ \A a : owner'[a] = owner[a] /\ (a \in pagemap' <=> a \in pagemap) /\ (Live(a) => Live(a)')
           /\ SegmentsInv' /\ (g_shutting_down => g_shutting_down') /\ dropped' = dropped
           /\ owner' = owner /\ pagemap' = pagemap
           /\ g_shutting_down' = g_shutting_down
  BY DEF HeapKept, OwnerInv, SegmentsInv, Live

\* The caller's frame becomes f, and g, called with an argument of the
\* caller's or none, is on top.
LEMMA CallOwner ==
    ASSUME RouteInv, RouteInv', OwnerInv, NEW t \in Threads, stack[t] # <<>>,
           NEW f \in Frames, f.fn = stack[t][1].fn, f.at \in {"direct", "copy", "done"},
           f.p = stack[t][1].p, f.out = stack[t][1].out, stack[t][1].at # "done",
           f.fn # "resolve",
           NEW g \in Frames, g.at = "enter", g.out = Null,
           g.p = Null \/ (g.p = f.p /\ f.at = "done"),
           f.at = "direct" => f.p \notin pagemap,
           stack' = [stack EXCEPT ![t] = <<g>> \o (<<f>> \o Tail(stack[t]))],
           held' = held, HeapKept
    PROVE  OwnerInv'
<1> DEFINE s == stack[t]
           n == Len(s)
           q == Swap(s, f)
           r == <<g>> \o q
           W == {g.p} \cap Addrs
<1>1. s \in Seq(Frames) /\ s # <<>>
  BY TopFrame
<1>2. n \in Nat \ {0} /\ Up(s, n) = s[1]
  BY <1>1, UpPop
<1>3. /\ q \in Seq(Frames) /\ Len(q) = n /\ Up(q, n) = f
      /\ \A h \in 1..(n - 1) : Up(q, h) = Up(s, h)
  <2> HIDE DEF s
  <2> QED BY <1>1, UpSwap
<1>4. /\ r \in Seq(Frames) /\ Len(r) = n + 1 /\ Up(r, n + 1) = g
      /\ \A h \in 1..n : Up(r, h) = Up(q, h)
  <2> HIDE DEF q, s, n
  <2>1. /\ r \in Seq(Frames) /\ Len(r) = Len(q) + 1 /\ Up(r, Len(q) + 1) = g
        /\ \A h \in 1..Len(q) : Up(r, h) = Up(q, h)
    BY <1>3, UpPush
  <2> QED BY <2>1, <1>3
<1>5. stack' = [stack EXCEPT ![t] = r]
  BY DEF Swap
<1> HIDE DEF q, r
<1>6. \A h \in 1..(n + 1) : \/ h = n + 1 /\ h \notin 1..n /\ Up(r, h) = g
                            \/ h = n /\ h \in 1..n /\ Up(r, h) = f
                            \/ h \in 1..(n - 1) /\ h # n /\ h \in 1..n /\ Up(r, h) = Up(s, h)
  BY <1>2, <1>3, <1>4
<1>7. /\ Apart(s[1]) /\ (s[1].at # "done" /\ DlsymBelow(s) => s[1].p \notin pagemap)
  BY TopOwner
<1>8. /\ \A a : owner'[a] = owner[a] /\ (a \in pagemap' <=> a \in pagemap) /\ (Live(a) => Live(a)')
      /\ SegmentsInv' /\ (g_shutting_down => g_shutting_down') /\ dropped' = dropped
      /\ pagemap' = pagemap
  BY KeptFacts
<1>9. \A w \in W : Mine(t, w) /\ Live(w)' /\ f.at = "done" /\ f.p = w /\ f.out # w
  <2> TAKE w \in W
  <2>1. w \in Addrs /\ g.p = w /\ w # Null
    BY InterposeAssumption
  <2>2. f.at = "done" /\ f.p = w /\ Uses(s[1], w)
    BY <2>1 DEF Uses
  <2>3. f.out # w
    BY <1>7, <2>1, <2>2 DEF Apart
  <2>4. Mine(t, w) /\ Live(w)
    BY <2>1, <2>2, <1>1, MineTop
  <2> QED BY <2>2, <2>3, <2>4, <1>8
<1>10. Null \notin Addrs
  BY InterposeAssumption
<1>11. \A a \in Addrs \ W : \A h \in 1..Len(r) :
          Uses(Up(r, h), a) => h \in 1..Len(stack[t]) /\ Uses(Up(stack[t], h), a)
  <2> TAKE a \in Addrs \ W
  <2> TAKE h \in 1..Len(r)
  <2>1. ~Uses(g, a) /\ (Uses(f, a) => Uses(s[1], a))
    BY <1>10 DEF Uses
  <2> QED BY <2>1, <1>2, <1>4, <1>6
<1>12. \A w \in W : \A u \in Threads \ {t} : \A h \in 1..Len(stack[u]) : ~Uses(Up(stack[u], h), w)
  BY <1>9 DEF Mine
<1>13. \A w \in W : \A h \in 1..Len(r) : Uses(Up(r, h), w) => h = n + 1
  <2> TAKE w \in W
  <2>1. ~Uses(f, w)
    BY <1>9 DEF Uses
  <2>2. \A h \in 1..(n - 1) : ~Uses(Up(s, h), w)
    BY <1>2, <1>9 DEF Mine
  <2> QED BY <2>1, <2>2, <1>4, <1>6
<1>14. \A w \in W : Live(w)' /\ w \notin held' /\ w \notin dropped'
  BY <1>8, <1>9 DEF Mine
<1>15. \A h \in 1..Len(r) : h \in 1..Len(stack[t]) => Up(r, h).fn = Up(stack[t], h).fn
  BY <1>2, <1>4, <1>6
<1>16. Early(r, n) => f.at = "direct" \/ DlsymBelow(s)
  <2>1. \A k \in 1..(n - 1) : Up(r, k) = Up(s, k)
    BY <1>2, <1>3, <1>4
  <2>2. Up(r, n) = f
    BY <1>2, <1>3, <1>4
  <2> QED BY <2>1, <2>2 DEF Early, DlsymBelow
<1>17. Early(r, n + 1) => DlsymBelow(s)
  <2>1. \A k \in 1..((n + 1) - 1) : Up(r, k).fn = "resolve" => k \in 1..(n - 1) /\ Up(s, k).fn = "resolve"
    <3> TAKE k \in 1..((n + 1) - 1)
    <3>1. k \in 1..(n + 1) /\ k # n + 1
      BY <1>2
    <3> QED BY <3>1, <1>6
  <2>2. Up(r, n + 1).at # "direct"
    BY <1>4
  <2> QED BY <2>1, <2>2 DEF Early, DlsymBelow
<1>18. ASSUME NEW h \in 1..Len(r)
       PROVE  \/ /\ h \in 1..Len(stack[t]) /\ Up(r, h) = Up(stack[t], h)
                 /\ \A w \in W : ~Uses(Up(r, h), w)
              \/ /\ Apart(Up(r, h)) /\ FrameOwner(Up(r, h), owner', pagemap', g_shutting_down')
                 /\ Early(r, h) /\ Up(r, h).at # "done" => Up(r, h).p \notin pagemap'
  <2>0. h \in 1..(n + 1)
    BY <1>4
  <2>1. CASE h = n + 1
    <3>1. Apart(g) /\ FrameOwner(g, owner', pagemap', g_shutting_down')
      BY <1>10 DEF Apart, FrameOwner
    <3>2. Early(r, h) => g.p \notin pagemap'
      <4>1. Null \notin pagemap
        BY <1>10 DEF RouteInv, GlobalTypes
      <4> QED BY <4>1, <1>7, <1>8, <1>17, <2>1
    <3> QED BY <3>1, <3>2, <2>1, <1>4
  <2>2. CASE h = n
    <3>1. Apart(f) /\ FrameOwner(f, owner', pagemap', g_shutting_down')
      BY <1>7 DEF Apart, FrameOwner
    <3>2. Early(r, h) /\ f.at # "done" => f.p \notin pagemap'
      BY <1>7, <1>8, <1>16, <2>2
    <3> QED BY <3>1, <3>2, <2>2, <2>0, <1>2, <1>6
  <2>3. CASE h \in 1..(n - 1)
    <3>1. Up(r, h) = Up(s, h) /\ h \in 1..n /\ h # n + 1
      BY <2>0, <2>3, <1>2, <1>6
    <3>2. \A w \in W : ~Uses(Up(r, h), w)
      BY <1>13, <3>1
    <3> QED BY <3>1, <3>2
  <2> QED BY <2>0, <2>1, <2>2, <2>3, <1>6
<1>19. \A w \in W : \A h, k \in 1..Len(r) : Uses(Up(r, h), w) /\ Uses(Up(r, k), w) => h = k
  BY <1>13
<1>20. W \in SUBSET Addrs
  OBVIOUS
<1>21. /\ \A a \in Addrs \ W : owner'[a] = owner[a] /\ (a \in pagemap' <=> a \in pagemap)
       /\ \A a \in Addrs \ W : (a \in held' => a \in held) /\ (a \in dropped' => a \in dropped)
  BY <1>8
<1>22. /\ \A w \in W : \A h \in 1..Len(r) :
               Uses(Up(r, h), w) => Live(w)' /\ w \notin held' /\ w \notin dropped'
       /\ \A w \in W : w \in held' => Live(w)' /\ w \notin dropped'
       /\ \A w \in W : w \in dropped' => Live(w)'
  BY <1>14
<1> HIDE DEF s, n, W
<1>23. r \in Seq(Frames) /\ SegmentsInv' /\ (g_shutting_down => g_shutting_down')
  BY <1>4, <1>8
<1>24. Moves(t, r, W)
  BY <1>11, <1>12, <1>19, <1>21, <1>22 DEF Moves
<1>25. Fits(t, r, W)
  BY <1>15, <1>18 DEF Fits
<1> QED BY <1>5, <1>20, <1>23, <1>24, <1>25, OwnerStep

\* The program or dlsym calls g with something it holds.
LEMMA EnterOwner ==
    ASSUME RouteInv, RouteInv', OwnerInv, NEW t \in Threads,
           NEW g \in Frames, g.at = "enter", g.out = Null, g.p \in held \cup {Null},
           g.p \in pagemap => \A k \in 1..Len(stack[t]) : Up(stack[t], k).fn # "resolve",
           stack' = [stack EXCEPT ![t] = <<g>> \o stack[t]],
           held' = held \ {g.p}, HeapKept
    PROVE  OwnerInv'
<1> DEFINE s == stack[t]
           n == Len(s)
           r == <<g>> \o s
           W == {g.p} \cap Addrs
<1>1. s \in Seq(Frames) /\ n \in Nat
  BY DEF RouteInv, StackTypes
<1>2. /\ r \in Seq(Frames) /\ Len(r) = n + 1 /\ Up(r, n + 1) = g
      /\ \A h \in 1..n : Up(r, h) = Up(s, h)
  BY <1>1, UpPush
<1>3. stack' = [stack EXCEPT ![t] = r]
  OBVIOUS
<1> HIDE DEF r
<1>4. \A h \in 1..(n + 1) : \/ h = n + 1 /\ h \notin 1..n /\ Up(r, h) = g
                            \/ h # n + 1 /\ h \in 1..n /\ Up(r, h) = Up(s, h)
  BY <1>1, <1>2
<1>5. /\ \A a : owner'[a] = owner[a] /\ (a \in pagemap' <=> a \in pagemap) /\ (Live(a) => Live(a)')
      /\ SegmentsInv' /\ (g_shutting_down => g_shutting_down') /\ dropped' = dropped
      /\ pagemap' = pagemap
  BY KeptFacts
<1>6. Null \notin Addrs
  BY InterposeAssumption
<1>7. \A w \in W : /\ w \in held /\ w = g.p /\ Live(w) /\ w \notin dropped /\ w \notin held'
                   /\ \A u \in Threads : \A h \in 1..Len(stack[u]) : ~Uses(Up(stack[u], h), w)
  BY <1>6 DEF OwnerInv, PlacesInv
<1>8. \A a \in Addrs \ W : \A h \in 1..Len(r) :
          Uses(Up(r, h), a) => h \in 1..Len(stack[t]) /\ Uses(Up(stack[t], h), a)
  <2> TAKE a \in Addrs \ W
  <2> TAKE h \in 1..Len(r)
  <2>1. ~Uses(g, a)
    BY <1>6 DEF Uses
  <2> QED BY <2>1, <1>2, <1>4
<1>9. \A w \in W : \A h \in 1..Len(r) : Uses(Up(r, h), w) => h = n + 1
  BY <1>2, <1>4, <1>7
<1>10. \A w \in W : Live(w)' /\ w \notin held' /\ w \notin dropped'
  BY <1>5, <1>7
<1>11. \A h \in 1..Len(r) : h \in 1..Len(stack[t]) => Up(r, h).fn = Up(stack[t], h).fn
  BY <1>2, <1>4
<1>12. ASSUME NEW h \in 1..Len(r)
       PROVE  \/ /\ h \in 1..Len(stack[t]) /\ Up(r, h) = Up(stack[t], h)
                 /\ \A w \in W : ~Uses(Up(r, h), w)
              \/ /\ Apart(Up(r, h)) /\ FrameOwner(Up(r, h), owner', pagemap', g_shutting_down')
                 /\ Early(r, h) /\ Up(r, h).at # "done" => Up(r, h).p \notin pagemap'
  <2>0. h \in 1..(n + 1)
    BY <1>2
  <2>1. CASE h = n + 1
    <3>1. Apart(g) /\ FrameOwner(g, owner', pagemap', g_shutting_down')
      BY <1>6 DEF Apart, FrameOwner
    <3>2. Early(r, h) => g.p \notin pagemap'
      <4>1. Early(r, n + 1) => \E k \in 1..n : Up(s, k).fn = "resolve"
        <5>1. (n + 1) - 1 = n
          BY <1>1
        <5> QED BY <5>1, <1>2 DEF Early
      <4> QED BY <4>1, <1>5, <2>1
    <3> QED BY <3>1, <3>2, <2>1, <1>2
  <2>2. CASE h # n + 1
    BY <1>4, <1>9, <2>0, <2>2
  <2> QED BY <2>1, <2>2
<1>13. \A w \in W : \A h, k \in 1..Len(r) : Uses(Up(r, h), w) /\ Uses(Up(r, k), w) => h = k
  BY <1>9
<1>14. W \in SUBSET Addrs
  OBVIOUS
<1>15. \A w \in W : \A u \in Threads \ {t} : \A h \in 1..Len(stack[u]) : ~Uses(Up(stack[u], h), w)
  BY <1>7
<1>16. /\ \A a \in Addrs \ W : owner'[a] = owner[a] /\ (a \in pagemap' <=> a \in pagemap)
       /\ \A a \in Addrs \ W : (a \in held' => a \in held) /\ (a \in dropped' => a \in dropped)
  BY <1>5
<1>17. /\ \A w \in W : \A h \in 1..Len(r) :
               Uses(Up(r, h), w) => Live(w)' /\ w \notin held' /\ w \notin dropped'
       /\ \A w \in W : w \in held' => Live(w)' /\ w \notin dropped'
       /\ \A w \in W : w \in dropped' => Live(w)'
  BY <1>10
<1> HIDE DEF s, n, W
<1>18. r \in Seq(Frames) /\ SegmentsInv' /\ (g_shutting_down => g_shutting_down')
  BY <1>2, <1>5
<1>19. Moves(t, r, W)
  BY <1>8, <1>13, <1>15, <1>16, <1>17 DEF Moves
<1>20. Fits(t, r, W)
  BY <1>11, <1>12 DEF Fits
<1> QED BY <1>3, <1>14, <1>18, <1>19, <1>20, OwnerStep

\* The top call returns v; what else it had, of W, is given back or lost.
LEMMA ReturnOwner ==
    ASSUME RouteInv, RouteInv', OwnerInv, NEW t \in Threads, stack[t] # <<>>,
           NEW v \in Ptrs, Return(t, v), NEW W \in SUBSET Addrs,
           v \in Addrs => v \in W /\ Live(v)' /\ v \notin dropped',
           \A w \in W : Mine(t, w) /\ (w \in dropped' => Live(w)'),
           \A a \in Addrs \ W : owner'[a] = owner[a] /\ (a \in pagemap' <=> a \in pagemap),
           \A a \in Addrs \ W : a \in dropped' => a \in dropped,
           SegmentsInv', g_shutting_down => g_shutting_down'
    PROVE  OwnerInv'
<1> DEFINE s == stack[t]
           n == Len(s)
           q == Tail(s)
           f == [q[1] EXCEPT !.out = v]
<1>1. /\ s \in Seq(Frames) /\ s # <<>> /\ (q # <<>> => Waits(q[1], s[1]))
      /\ StackOK(s, guard[t])
  BY TopFrame
<1>2. /\ q \in Seq(Frames) /\ Len(q) = n - 1 /\ n \in Nat \ {0}
      /\ \A h \in 1..(n - 1) : Up(q, h) = Up(s, h)
      /\ (q # <<>> => n > 1 /\ q[1] = Up(s, n - 1))
  BY <1>1, UpPop
<1>3. \/ stack' = [stack EXCEPT ![t] = q]
      \/ /\ stack' = [stack EXCEPT ![t] = <<f>> \o Tail(q)] /\ held' = held
         /\ s[1].fn = "malloc" /\ q # <<>> /\ q[1].fn # "resolve"
  BY DEF Return
<1>4. \A a \in held' : a \in held \/ a = v
  BY DEF Return
<1>5. \A w \in W : \A h \in 1..(n - 1) : ~Uses(Up(s, h), w)
  BY <1>2 DEF Mine
<1>6. \A w \in W : \A u \in Threads \ {t} : \A h \in 1..Len(stack[u]) : ~Uses(Up(stack[u], h), w)
  BY DEF Mine
<1>7. \A w \in W : w \in held' => w = v
  BY <1>4 DEF Mine
<1>8. CASE stack' = [stack EXCEPT ![t] = q]
  <2>1. \A h \in 1..Len(q) : h \in 1..Len(stack[t]) /\ Up(q, h) = Up(stack[t], h)
    BY <1>2
  <2>2. \A w \in W : \A h \in 1..Len(q) : ~Uses(Up(q, h), w)
    BY <1>2, <1>5
  <2>3. \A a \in Addrs \ W : (a \in held' => a \in held) /\ (a \in dropped' => a \in dropped)
    BY <1>4
  <2>4. \A w \in W : w \in held' => Live(w)' /\ w \notin dropped'
    BY <1>7
  <2>5. \A a \in Addrs \ W : \A h \in 1..Len(q) :
            Uses(Up(q, h), a) => h \in 1..Len(stack[t]) /\ Uses(Up(stack[t], h), a)
    BY <2>1
  <2> HIDE DEF q
  <2>6. Moves(t, q, W)
    BY <1>6, <2>2, <2>3, <2>4, <2>5 DEF Moves
  <2>7. Fits(t, q, W)
    BY <2>1, <2>2 DEF Fits
  <2> HIDE DEF s, n
  <2> QED BY <1>2, <1>8, <2>6, <2>7, OwnerStep
<1>9. CASE /\ stack' = [stack EXCEPT ![t] = <<f>> \o Tail(q)] /\ held' = held
           /\ s[1].fn = "malloc" /\ q # <<>> /\ q[1].fn # "resolve"
  <2> DEFINE r == Swap(q, f)
             m == n - 1
  <2>1. stack' = [stack EXCEPT ![t] = r]
    BY <1>9 DEF Swap
  <2>2. m \in Nat \ {0} /\ m \in 1..(n - 1) /\ m \in 1..n /\ q[1] = Up(s, m) /\ m = Len(q)
    <3>1. n > 1 /\ q[1] = Up(s, n - 1) /\ n \in Nat /\ Len(q) = n - 1
      BY <1>2, <1>9
    <3> HIDE DEF s, n, q
    <3> QED BY <3>1
  <2>3. q[1].fn = "realloc" /\ q[1].at \in {"copy", "done"}
    BY <1>1, <1>9 DEF Waits, Funs
  <2>4. q[1] \in Frames
    <3> HIDE DEF q
    <3> QED BY <1>2, <1>9, UpPop
  <2>5. f \in Frames /\ f.fn = "realloc" /\ f.at = q[1].at /\ f.p = q[1].p /\ f.out = v
    BY <2>3, <2>4 DEF Frames
  <2>6. /\ r \in Seq(Frames) /\ Len(r) = m /\ Up(r, m) = f
        /\ \A h \in 1..(m - 1) : Up(r, h) = Up(q, h)
    <3> HIDE DEF q, f, m
    <3>1. q # <<>> /\ q \in Seq(Frames) /\ f \in Frames
      BY <1>2, <1>9, <2>5
    <3>2. /\ Swap(q, f) \in Seq(Frames) /\ Len(Swap(q, f)) = Len(q)
          /\ Up(Swap(q, f), Len(q)) = f
          /\ \A h \in 1..(Len(q) - 1) : Up(Swap(q, f), h) = Up(q, h)
      BY <3>1, UpSwap
    <3> QED BY <2>2, <3>2
  <2> HIDE DEF r, f, q
  <2>7. \A h \in 1..Len(r) : \/ h = m /\ Up(r, h) = f /\ h \in 1..n
                             \/ /\ h # m /\ h \in 1..(m - 1) /\ h \in 1..(n - 1) /\ h \in 1..n
                                /\ Up(r, h) = Up(s, h)
    BY <1>2, <2>2, <2>6
  <2>8. /\ Apart(Up(s, m))
        /\ Early(s, m) /\ Up(s, m).at # "done" => Up(s, m).p \notin pagemap
    BY <2>2 DEF OwnerInv, CallsOwner
  <2>9. \A w \in W : ~(f.p = w /\ f.at # "done")
    BY <1>5, <2>2, <2>5 DEF Uses
  <2>10. \A w \in W : \A h \in 1..Len(r) : Uses(Up(r, h), w) => h = m /\ w = v
    BY <1>5, <2>5, <2>7, <2>9 DEF Uses
  <2>11. \A a \in Addrs \ W : \A h \in 1..Len(r) :
            Uses(Up(r, h), a) => h \in 1..Len(stack[t]) /\ Uses(Up(stack[t], h), a)
    <3> TAKE a \in Addrs \ W
    <3>1. Uses(f, a) => Uses(Up(s, m), a)
      BY <2>2, <2>5 DEF Uses
    <3> QED BY <3>1, <2>7
  <2>12. Apart(f) /\ FrameOwner(f, owner', pagemap', g_shutting_down')
    BY <2>3, <2>5, <2>9 DEF Apart, FrameOwner
  <2>13. Early(r, m) /\ f.at # "done" => f.p \notin pagemap'
    <3> SUFFICES ASSUME Early(r, m), f.at # "done" PROVE f.p \notin pagemap'
      OBVIOUS
    <3>1. \A k \in 1..(m - 1) : Up(r, k) = Up(s, k)
      <4> TAKE k \in 1..(m - 1)
      <4>1. k \in 1..Len(r) /\ k # m
        BY <2>2, <2>6
      <4> QED BY <4>1, <2>7
    <3>2. Early(s, m)
      BY <3>1, <2>2, <2>5, <2>6 DEF Early
    <3>3. f.p \notin pagemap
      BY <3>2, <2>2, <2>5, <2>8
    <3>4. pagemap' \subseteq Addrs
      BY DEF RouteInv, GlobalTypes
    <3> QED BY <3>3, <3>4, <2>9
  <2>14. \A h \in 1..Len(r) : h \in 1..Len(stack[t]) => Up(r, h).fn = Up(stack[t], h).fn
    BY <2>2, <2>3, <2>5, <2>7
  <2>15. ASSUME NEW h \in 1..Len(r)
         PROVE  \/ /\ h \in 1..Len(stack[t]) /\ Up(r, h) = Up(stack[t], h)
                   /\ \A w \in W : ~Uses(Up(r, h), w)
                \/ /\ Apart(Up(r, h)) /\ FrameOwner(Up(r, h), owner', pagemap', g_shutting_down')
                   /\ Early(r, h) /\ Up(r, h).at # "done" => Up(r, h).p \notin pagemap'
    <3>1. CASE h = m
      BY <2>6, <2>12, <2>13, <3>1
    <3>2. CASE h # m
      BY <2>7, <2>10, <3>2
    <3> QED BY <3>1, <3>2
  <2>16. /\ \A a \in Addrs \ W : (a \in held' => a \in held) /\ (a \in dropped' => a \in dropped)
         /\ \A w \in W : w \in held' => Live(w)' /\ w \notin dropped'
    BY <1>7, <1>9
  <2>17. /\ \A w \in W : \A h, k \in 1..Len(r) : Uses(Up(r, h), w) /\ Uses(Up(r, k), w) => h = k
         /\ \A w \in W : \A h \in 1..Len(r) :
               Uses(Up(r, h), w) => Live(w)' /\ w \notin held' /\ w \notin dropped'
    <3>1. \A w \in W : w \notin held'
      BY <1>9 DEF Mine
    <3> QED BY <2>10, <3>1
  <2> HIDE DEF s, n, m
  <2>18. Moves(t, r, W)
    BY <1>6, <2>11, <2>16, <2>17 DEF Moves
  <2>19. Fits(t, r, W)
    BY <2>14, <2>15 DEF Fits
  <2> QED BY <2>1, <2>6, <2>18, <2>19, OwnerStep
<1> QED BY <1>3, <1>8, <1>9

\* A call moves on: where that commits it to an allocator, it is the right one.
LEMMA GotoOwner ==
    ASSUME RouteInv, RouteInv', OwnerInv, NEW t \in Threads, stack[t] # <<>>, NEW c, c = stack[t][1],
           NEW label \in Labels \ {"done"}, c.at # "done", Goto(t, label), HeapKept,
           label \in {"libc", "unmanaged"} /\ c.fn = "free" => owner[c.p] = "libc",
           label = "managed" /\ c.fn = "free" => c.p \in pagemap,
           label = "libc" /\ c.fn = "realloc" /\ ~g_shutting_down => c.p = Null \/ owner[c.p] = "libc",
           label = "direct" => c.p \notin pagemap
    PROVE  OwnerInv'
<1> DEFINE f == [c EXCEPT !.at = label]
           W == {}
<1>1. c \in Frames
  BY TopFrame
<1>2. f \in Frames /\ f.fn = c.fn /\ f.at = label /\ f.p = c.p /\ f.out = c.out
  BY <1>1, MovedFrame
<1>3. stack' = [stack EXCEPT ![t] = <<f>> \o Tail(stack[t])] /\ held' = held
  BY DEF Goto, Moved
<1>4. /\ \A a : owner'[a] = owner[a] /\ (a \in pagemap' <=> a \in pagemap)
      /\ SegmentsInv' /\ (g_shutting_down => g_shutting_down') /\ dropped' = dropped
      /\ owner' = owner /\ pagemap' = pagemap /\ g_shutting_down' = g_shutting_down
  BY KeptFacts
<1>5. Apart(c) /\ (DlsymBelow(stack[t]) => c.p \notin pagemap)
  BY TopOwner
<1> HIDE DEF f
<1>6. Apart(f) /\ FrameOwner(f, owner', pagemap', g_shutting_down')
  BY <1>2, <1>4, <1>5 DEF Apart, FrameOwner
<1>7. f.at # "done" /\ (f.at = "direct" \/ DlsymBelow(stack[t])) => f.p \notin pagemap'
  BY <1>2, <1>4, <1>5
<1>8. \A a \in Addrs \ W : Uses(f, a) => Uses(stack[t][1], a)
  BY <1>2 DEF Uses
<1>9. /\ W \in SUBSET Addrs /\ \A w \in W : Mine(t, w) /\ Live(w)'
      /\ \A a \in Addrs \ W : owner'[a] = owner[a] /\ (a \in pagemap' <=> a \in pagemap)
  BY <1>4
<1>10. f.fn = stack[t][1].fn /\ SegmentsInv' /\ (g_shutting_down => g_shutting_down') /\ dropped' = dropped
  BY <1>2, <1>4
<1> HIDE DEF W
<1> QED BY <1>2, <1>3, <1>6, <1>7, <1>8, <1>9, <1>10, SwapOwner

\* The top call returns what it has, or nothing that matters.
LEMMA ReturnKept ==
    ASSUME RouteInv, RouteInv', OwnerInv, NEW t \in Threads, stack[t] # <<>>,
           NEW v \in Ptrs, Return(t, v), v \in Addrs => Uses(stack[t][1], v), HeapKept
    PROVE  OwnerInv'
<1> DEFINE W == {v} \cap Addrs
<1>1. /\ \A a : owner'[a] = owner[a] /\ (a \in pagemap' <=> a \in pagemap) /\ (Live(a) => Live(a)')
      /\ SegmentsInv' /\ (g_shutting_down => g_shutting_down') /\ dropped' = dropped
  BY KeptFacts
<1>2. v \in Addrs => Mine(t, v) /\ Live(v)
  BY MineTop
<1>3. v \in Addrs => v \in W /\ Live(v)' /\ v \notin dropped'
  BY <1>1, <1>2 DEF Mine
<1>4. \A w \in W : Mine(t, w) /\ (w \in dropped' => Live(w)')
  BY <1>2, <1>3
<1>5. /\ \A a \in Addrs \ W : owner'[a] = owner[a] /\ (a \in pagemap' <=> a \in pagemap)
      /\ \A a \in Addrs \ W : a \in dropped' => a \in dropped
      /\ SegmentsInv' /\ (g_shutting_down => g_shutting_down') /\ W \in SUBSET Addrs
  BY <1>1
<1> HIDE DEF W
<1> QED BY <1>3, <1>4, <1>5, ReturnOwner

\* Null and the bootstrap chunks are never managed.
LEMMA NullFacts ==
    ASSUME RouteInv
    PROVE  Null \in Ptrs /\ Null \notin Addrs /\ Null \notin pagemap /\ \A b \in Boots : b \notin Addrs /\ b \notin pagemap
  BY InterposeAssumption DEF RouteInv, GlobalTypes, Ptrs

\* The frame of a call of the program or of dlsym.
LEMMA EntersFrame ==
    ASSUME RouteInv, NEW t \in Threads, Enters(t)
    PROVE  \E g \in Frames : /\ g.at = "enter" /\ g.out = Null /\ g.p \in held \cup {Null}
                             /\ stack' = [stack EXCEPT ![t] = <<g>> \o stack[t]] /\ held' = held \ {g.p}
<1>1. held \subseteq Ptrs \ {Null} /\ Null \in Ptrs
  BY DEF RouteInv, GlobalTypes, Ptrs
<1>2. \E fn \in Funs : \E p \in held \cup {Null} : \E zero \in BOOLEAN :
          stack' = [stack EXCEPT ![t] = <<Frame(fn, p, zero)>> \o stack[t]] /\ held' = held \ {p}
  <2>1. held \ {Null} = held
    BY <1>1
  <2> QED BY <2>1 DEF Enters, Funs
<1>3. PICK fn \in Funs, p \in held \cup {Null}, zero \in BOOLEAN :
          stack' = [stack EXCEPT ![t] = <<Frame(fn, p, zero)>> \o stack[t]] /\ held' = held \ {p}
  BY <1>2
<1> DEFINE g == Frame(fn, p, zero)
<1>4. g \in Frames /\ g.at = "enter" /\ g.out = Null /\ g.p = p
  BY <1>1, <1>3 DEF Frame, Frames
<1> HIDE DEF g
<1>5. stack' = [stack EXCEPT ![t] = <<g>> \o stack[t]] /\ held' = held \ {g.p} /\ g.p \in held \cup {Null}
  BY <1>3, <1>4 DEF g
<1> QED BY <1>4, <1>5

\* Resolution moves no address; what dlsym passes was allocated when nothing was managed.
LEMMA ResolveOwner ==
    ASSUME RouteInv, RouteInv', OwnerInv, NEW t \in Threads, Resolve(t)
    PROVE  OwnerInv'
<1>0. PICK c : c = stack[t][1]
  OBVIOUS
<1>1. Null \in Ptrs /\ Null \notin Addrs /\ Null \notin pagemap
  BY NullFacts
<1>2. CASE ResolveEnter(t)
  <2>1. At(t, "resolve", "enter") /\ HeapKept
    BY <1>2 DEF ResolveEnter, heapVars, lifeVars, HeapKept
  <2>2. stack[t] # <<>> /\ c.fn = "resolve" /\ c.at = "enter"
    BY <1>0, <2>1, AtFacts
  <2>3. CASE Return(t, Null)
    BY <1>1, <2>1, <2>2, <2>3, ReturnKept
  <2>4. CASE Goto(t, "malloc")
    BY <1>0, <2>1, <2>2, <2>4, GotoOwner DEF Labels, Funs
  <2> QED BY <1>2, <2>3, <2>4 DEF ResolveEnter
<1>3. CASE ResolveEnd(t)
  <2>1. At(t, "resolve", "end") /\ HeapKept /\ Return(t, Null)
    BY <1>3 DEF ResolveEnd, heapVars, lifeVars, HeapKept
  <2>2. stack[t] # <<>>
    BY <2>1, AtFacts
  <2> QED BY <1>1, <2>1, <2>2, ReturnKept
<1>4. ASSUME NEW fun \in Funs, DlsymFinds(t, fun) PROVE OwnerInv'
  <2>1. At(t, "resolve", fun) /\ HeapKept /\ Goto(t, After[fun])
    BY <1>4 DEF DlsymFinds, heapVars, lifeVars, HeapKept
  <2>2. stack[t] # <<>> /\ c.fn = "resolve" /\ c.at # "done"
    BY <1>0, <2>1, AtFacts DEF Funs
  <2>3. After[fun] \in {"free", "realloc", "end"}
    BY DEF After, Funs
  <2>4. After[fun] \in Labels \ {"done"} /\ After[fun] \notin {"libc", "unmanaged", "managed", "direct"}
    BY <2>3 DEF Labels, Funs
  <2> QED BY <1>0, <2>1, <2>2, <2>4, GotoOwner
<1>5. ASSUME NEW fun \in Funs, DlsymReenters(t, fun) PROVE OwnerInv'
  <2>1. At(t, "resolve", fun) /\ HeapKept /\ Enters(t) /\ fun \notin real
    BY <1>5 DEF DlsymReenters, heapVars, lifeVars, HeapKept
  <2>2. pagemap = {}
    BY <2>1 DEF RouteInv, LifeInv
  <2>3. \E g \in Frames : /\ g.at = "enter" /\ g.out = Null /\ g.p \in held \cup {Null}
                          /\ stack' = [stack EXCEPT ![t] = <<g>> \o stack[t]] /\ held' = held \ {g.p}
    BY EntersFrame, <2>1
  <2> QED BY <2>1, <2>2, <2>3, EnterOwner
<1> QED BY <1>2, <1>3, <1>4, <1>5 DEF Resolve

\* The direct path is taken when nothing is managed.
LEMMA PreambleOwner ==
    ASSUME RouteInv, RouteInv', OwnerInv, NEW t \in Threads, NEW fn \in Funs, Preamble(t, fn)
    PROVE  OwnerInv'
<1>0. PICK c : c = stack[t][1]
  OBVIOUS
<1>1. At(t, fn, "enter") /\ HeapKept
  BY DEF Preamble, heapVars, lifeVars, HeapKept
<1>2. stack[t] # <<>> /\ c \in Frames /\ c.fn = fn /\ c.at = "enter"
  BY <1>0, <1>1, AtFacts
<1>3. Null \in Ptrs /\ (~g_initialized => pagemap = {})
  BY DEF RouteInv, LifeInv, Ptrs
<1>4. CASE Goto(t, "gate")
  <2>1. "gate" \in Labels \ {"done"}
    BY DEF Labels
  <2> QED BY <1>0, <1>1, <1>2, <1>4, <2>1, GotoOwner
<1>5. CASE ~g_initialized /\ Goto(t, "direct")
  <2>1. "direct" \in Labels \ {"done"}
    BY DEF Labels
  <2> QED BY <1>0, <1>1, <1>2, <1>3, <1>5, <2>1, GotoOwner
<1>6. CASE ~g_initialized /\ Call(t, "direct", Frame("resolve", Null, FALSE))
  <2> DEFINE f == [c EXCEPT !.at = "direct"]
             g == Frame("resolve", Null, FALSE)
  <2>1. f \in Frames /\ f.fn = c.fn /\ f.at = "direct" /\ f.p = c.p /\ f.out = c.out
    BY <1>2, MovedFrame DEF Labels
  <2>2. g \in Frames /\ g.at = "enter" /\ g.p = Null /\ g.out = Null
    BY <1>3 DEF Frame, Frames
  <2>3. stack' = [stack EXCEPT ![t] = <<g>> \o (<<f>> \o Tail(stack[t]))] /\ held' = held
    BY <1>0, <1>6 DEF Call, Moved
  <2>4. f.fn # "resolve" /\ f.p \notin pagemap /\ f.fn = stack[t][1].fn /\ f.p = stack[t][1].p
        /\ f.out = stack[t][1].out /\ stack[t][1].at # "done"
    BY <1>0, <1>2, <1>3, <1>6, <2>1 DEF Funs
  <2> HIDE DEF f, g
  <2> QED BY <1>1, <1>2, <2>1, <2>2, <2>3, <2>4, CallOwner
<1> QED BY <1>4, <1>5, <1>6 DEF Preamble

\* A bootstrap chunk is no address of Addrs.
LEMMA BootstrapOwner ==
    ASSUME RouteInv, RouteInv', OwnerInv, NEW t \in Threads, stack[t] # <<>>, BootstrapAlloc(t), HeapKept
    PROVE  OwnerInv'
<1>1. boot_used \in 0..BootCap /\ BootCap \in Nat
  BY InterposeAssumption DEF RouteInv, GlobalTypes
<1>2. Null \in Ptrs /\ Null \notin Addrs /\ \A b \in Boots : b \notin Addrs
  BY NullFacts
<1>3. CASE boot_used < BootCap
  <2>1. boot_used + 1 \in Boots
    BY <1>1, <1>3 DEF Boots
  <2>2. Return(t, boot_used + 1) /\ boot_used + 1 \in Ptrs /\ boot_used + 1 \notin Addrs
    BY <1>2, <1>3, <2>1 DEF BootstrapAlloc, BootstrapFits, Ptrs
  <2> QED BY <2>2, ReturnKept
<1>4. CASE ~(boot_used < BootCap)
  <2>1. Return(t, Null)
    BY <1>4 DEF BootstrapAlloc, BootstrapFits
  <2> QED BY <1>2, <2>1, ReturnKept
<1> QED BY <1>3, <1>4

\* malloc chooses its path.
LEMMA MallocGotoOwner ==
    ASSUME RouteInv, RouteInv', OwnerInv, NEW t \in Threads, MallocDirect(t) \/ MallocGate(t)
    PROVE  OwnerInv'
<1>0. PICK c : c = stack[t][1]
  OBVIOUS
<1>1. HeapKept /\ (At(t, "malloc", "direct") \/ At(t, "malloc", "gate"))
  BY DEF MallocDirect, MallocGate, heapVars, lifeVars, HeapKept
<1>2. stack[t] # <<>> /\ c.fn = "malloc" /\ c.at \in {"direct", "gate"}
  BY <1>0, <1>1, AtFacts
<1>3. Goto(t, "libc") \/ Goto(t, "serve") \/ BootstrapAlloc(t)
  BY DEF MallocDirect, MallocGate
<1>4. "libc" \in Labels \ {"done"} /\ "serve" \in Labels \ {"done"}
  BY DEF Labels
<1>5. CASE Goto(t, "libc")
  BY <1>0, <1>1, <1>2, <1>4, <1>5, GotoOwner
<1>6. CASE Goto(t, "serve")
  BY <1>0, <1>1, <1>2, <1>4, <1>6, GotoOwner
<1>7. CASE BootstrapAlloc(t)
  BY <1>1, <1>2, <1>7, BootstrapOwner
<1> QED BY <1>3, <1>5, <1>6, <1>7

\* Nobody has an address that is not in use.
LEMMA Unused ==
    ASSUME RouteInv, NEW a \in Addrs, a \notin InUse, NEW u \in Threads, NEW h \in 1..Len(stack[u])
    PROVE  ~Uses(Up(stack[u], h), a)
<1>1. stack[u] \in Seq(Frames)
  BY DEF RouteInv, StackTypes
<1>2. (Len(stack[u]) + 1) - h \in DOMAIN stack[u]
  BY <1>1
<1>3. Up(stack[u], h) \in Range(stack[u])
  BY <1>2 DEF Up, Range
<1>4. Up(stack[u], h) \in UNION {Range(stack[v]) : v \in Threads}
  BY <1>3
<1> DEFINE f == Up(stack[u], h)
<1>5. f.out \in InUse /\ (f.at # "done" => f.p \in InUse)
  BY <1>4 DEF InUse
<1> QED BY <1>5 DEF Uses

\* An address that is not in use is free to be handed out.
LEMMA MineUnused ==
    ASSUME RouteInv, NEW t \in Threads, NEW a \in Addrs, a \notin InUse
    PROVE  Mine(t, a)
<1>1. a \notin held /\ a \notin dropped
  BY DEF InUse
<1> QED BY <1>1, Unused DEF Mine

\* A call of malloc has been served with a.
LEMMA ServedOwner ==
    ASSUME RouteInv, RouteInv', OwnerInv, NEW t \in Threads, At(t, "malloc", "serve"),
           NEW a \in Addrs, Served(t, a), Mine(t, a), Live(a)',
           \A b \in Addrs \ {a} : owner'[b] = owner[b] /\ (b \in pagemap' <=> b \in pagemap),
           dropped' = dropped, SegmentsInv', g_shutting_down' = g_shutting_down
    PROVE  OwnerInv'
<1>0. PICK c : c = stack[t][1]
  OBVIOUS
<1> DEFINE f == [c EXCEPT !.out = a, !.at = "validate"]
           W == {a}
<1>1. /\ stack[t] # <<>> /\ c \in Frames /\ c.fn = "malloc" /\ c.at = "serve" /\ c.p = Null
      /\ Null \notin Addrs /\ Null \notin pagemap'
  BY <1>0, AtFacts, InterposeAssumption DEF FrameShape, RouteInv, GlobalTypes
<1>2. f \in Frames /\ f.fn = "malloc" /\ f.at = "validate" /\ f.p = Null /\ f.out = a
  BY <1>1 DEF Frames, Ptrs
<1>3. stack' = [stack EXCEPT ![t] = <<f>> \o Tail(stack[t])] /\ held' = held
  BY <1>0 DEF Served
<1> HIDE DEF f
<1>4. Apart(f) /\ FrameOwner(f, owner', pagemap', g_shutting_down')
  BY <1>1, <1>2 DEF Apart, FrameOwner
<1>5. \A b \in Addrs \ W : Uses(f, b) => Uses(stack[t][1], b)
  BY <1>1, <1>2 DEF Uses
<1>6. f.at # "done" /\ (f.at = "direct" \/ DlsymBelow(stack[t])) => f.p \notin pagemap'
  BY <1>1, <1>2
<1>7. W \in SUBSET Addrs /\ \A w \in W : Mine(t, w) /\ Live(w)'
  OBVIOUS
<1>8. f.fn = stack[t][1].fn /\ (g_shutting_down => g_shutting_down')
  BY <1>0, <1>1, <1>2
<1> HIDE DEF W
<1>9. \A b \in Addrs \ W : owner'[b] = owner[b] /\ (b \in pagemap' <=> b \in pagemap)
  BY DEF W
<1> QED BY <1>1, <1>2, <1>3, <1>4, <1>5, <1>6, <1>7, <1>8, <1>9, SwapOwner

\* The routine hands out a chunk that nobody has.
LEMMA ServeChunkOwner ==
    ASSUME RouteInv, RouteInv', OwnerInv, NEW t \in Threads, NEW a \in Addrs, ServeChunk(t, a)
    PROVE  OwnerInv'
<1>1. /\ At(t, "malloc", "serve") /\ a \notin InUse /\ (owner[a] = "none" \/ a \in pagemap)
      /\ owner' = [owner EXCEPT ![a] = "seg"] /\ pagemap' = pagemap \cup {a} /\ Served(t, a)
      /\ dropped' = dropped /\ reaping' = reaping /\ g_shutting_down' = g_shutting_down
  BY DEF ServeChunk, Managed, lifeVars
<1>2. owner \in [Addrs -> {"none", "libc", "seg"}] /\ pagemap \subseteq Addrs /\ reaping \in Addrs \cup {Null}
  BY DEF RouteInv, GlobalTypes
<1>3. Mine(t, a)
  BY <1>1, MineUnused
<1>4. Live(a)' /\ \A b \in Addrs \ {a} : owner'[b] = owner[b] /\ (b \in pagemap' <=> b \in pagemap)
  BY <1>1, <1>2 DEF Live
<1>5. /\ \A b \in pagemap : owner[b] = "seg"
      /\ reaping # Null => reaping \notin pagemap /\ owner[reaping] = "seg"
  BY DEF OwnerInv, SegmentsInv
<1>6. \A b \in pagemap' : owner'[b] = "seg"
  BY <1>1, <1>2, <1>5
<1>7. reaping' # Null => reaping' \notin pagemap' /\ owner'[reaping'] = "seg"
  BY <1>1, <1>2, <1>5
<1>8. SegmentsInv'
  BY <1>6, <1>7 DEF SegmentsInv
<1> QED BY <1>1, <1>3, <1>4, <1>8, ServedOwner

\* libc takes a.
LEMMA TakesFacts ==
    ASSUME RouteInv, OwnerInv, NEW a \in Addrs, LibcTakes(a), UNCHANGED <<pagemap, reaping>>
    PROVE  /\ \A t \in Threads : Mine(t, a)
           /\ Live(a)' /\ SegmentsInv'
           /\ \A b \in Addrs \ {a} : owner'[b] = owner[b] /\ (b \in pagemap' <=> b \in pagemap)
<1>1. owner[a] = "none" /\ owner' = [owner EXCEPT ![a] = "libc"]
  BY DEF LibcTakes
<1>2. owner \in [Addrs -> {"none", "libc", "seg"}] /\ pagemap \subseteq Addrs /\ reaping \in Addrs \cup {Null}
  BY DEF RouteInv, GlobalTypes
<1>3. \A t \in Threads : Mine(t, a)
  BY <1>1, MineFresh
<1>4. Live(a)' /\ \A b \in Addrs \ {a} : owner'[b] = owner[b] /\ (b \in pagemap' <=> b \in pagemap)
  BY <1>1, <1>2 DEF Live
<1>5. SegmentsInv'
  BY <1>1, <1>2 DEF OwnerInv, SegmentsInv
<1> QED BY <1>3, <1>4, <1>5

\* libc serves in place of the routine.
LEMMA ServeGenericOwner ==
    ASSUME RouteInv, RouteInv', OwnerInv, NEW t \in Threads, NEW a \in Addrs, ServeGeneric(t, a)
    PROVE  OwnerInv'
<1>1. /\ At(t, "malloc", "serve") /\ LibcTakes(a) /\ Served(t, a) /\ UNCHANGED <<pagemap, reaping>>
      /\ dropped' = dropped /\ g_shutting_down' = g_shutting_down
  BY DEF ServeGeneric, lifeVars
<1>2. /\ Mine(t, a) /\ Live(a)' /\ SegmentsInv'
      /\ \A b \in Addrs \ {a} : owner'[b] = owner[b] /\ (b \in pagemap' <=> b \in pagemap)
  BY <1>1, TakesFacts
<1> QED BY <1>1, <1>2, ServedOwner

\* libc's malloc, or its realloc of nothing.
LEMMA TakenOwner ==
    ASSUME RouteInv, RouteInv', OwnerInv, NEW t \in Threads, stack[t] # <<>>, NEW a \in Addrs,
           LibcTakes(a), Return(t, a), UNCHANGED <<pagemap, reaping, dropped, g_shutting_down>>
    PROVE  OwnerInv'
<1> DEFINE W == {a}
<1>1. /\ Mine(t, a) /\ Live(a)' /\ SegmentsInv'
      /\ \A b \in Addrs \ {a} : owner'[b] = owner[b] /\ (b \in pagemap' <=> b \in pagemap)
  BY TakesFacts
<1>2. a \in Ptrs /\ a \notin dropped'
  BY <1>1 DEF Mine, Ptrs
<1>3. /\ W \in SUBSET Addrs /\ a \in W /\ \A w \in W : Mine(t, w) /\ (w \in dropped' => Live(w)')
      /\ \A b \in Addrs \ W : owner'[b] = owner[b] /\ (b \in pagemap' <=> b \in pagemap)
      /\ \A b \in Addrs \ W : b \in dropped' => b \in dropped
  BY <1>1
<1> HIDE DEF W
<1> QED BY <1>1, <1>2, <1>3, ReturnOwner

\* libc takes p back.
LEMMA ReleasedOwner ==
    ASSUME RouteInv, RouteInv', OwnerInv, NEW t \in Threads, stack[t] # <<>>, NEW p \in Addrs,
           p = stack[t][1].p, stack[t][1].at # "done",
           LibcReleases(p), Return(t, Null), UNCHANGED <<pagemap, reaping, dropped, g_shutting_down>>
    PROVE  OwnerInv'
<1> DEFINE W == {p}
<1>1. Mine(t, p) /\ p \notin dropped'
  BY MineTop DEF Uses, Mine
<1>2. owner[p] = "libc" /\ owner' = [owner EXCEPT ![p] = "none"]
  BY DEF LibcReleases
<1>3. owner \in [Addrs -> {"none", "libc", "seg"}] /\ pagemap \subseteq Addrs /\ reaping \in Addrs \cup {Null}
  BY DEF RouteInv, GlobalTypes
<1>4. SegmentsInv'
  BY <1>2, <1>3 DEF OwnerInv, SegmentsInv
<1>5. Null \in Ptrs /\ Null \notin Addrs
  BY NullFacts
<1>6. /\ W \in SUBSET Addrs /\ \A w \in W : Mine(t, w) /\ (w \in dropped' => Live(w)')
      /\ \A b \in Addrs \ W : owner'[b] = owner[b] /\ (b \in pagemap' <=> b \in pagemap)
      /\ \A b \in Addrs \ W : b \in dropped' => b \in dropped
  BY <1>1, <1>2, <1>3
<1> HIDE DEF W
<1> QED BY <1>4, <1>5, <1>6, ReturnOwner

\* Every step of malloc keeps OwnerInv.
LEMMA MallocOwner ==
    ASSUME RouteInv, RouteInv', OwnerInv, NEW t \in Threads, Malloc(t)
    PROVE  OwnerInv'
<1>0. PICK c : c = stack[t][1]
  OBVIOUS
<1>1. CASE Preamble(t, "malloc")
  BY <1>1, PreambleOwner DEF Funs
<1>2. CASE MallocDirect(t) \/ MallocGate(t)
  BY <1>2, MallocGotoOwner
<1>3. CASE ValidateAlloc(t)
  <2>1. At(t, "malloc", "validate") /\ HeapKept /\ Return(t, c.out)
    BY <1>0, <1>3 DEF ValidateAlloc, HeapKept, lifeVars
  <2>2. stack[t] # <<>> /\ c.out \in Ptrs
    BY <1>0, <2>1, AtFacts
  <2>3. c.out \in Addrs => Uses(stack[t][1], c.out)
    BY <1>0 DEF Uses
  <2> QED BY <2>1, <2>2, <2>3, ReturnKept
<1>4. ASSUME NEW a \in Addrs, LibcMalloc(t, a) PROVE OwnerInv'
  <2>1. /\ At(t, "malloc", "libc") /\ LibcTakes(a) /\ Return(t, a)
        /\ UNCHANGED <<pagemap, reaping, dropped, g_shutting_down>>
    BY <1>4 DEF LibcMalloc, lifeVars
  <2>2. stack[t] # <<>>
    BY <2>1, AtFacts
  <2> QED BY <2>1, <2>2, TakenOwner
<1> QED BY <1>1, <1>2, <1>3, <1>4, ServeChunkOwner, ServeGenericOwner DEF Malloc

\* free chooses libc only for what is not managed: under the guard it was called by dlsym.
LEMMA FreeGateOwner ==
    ASSUME RouteInv, RouteInv', OwnerInv, NEW t \in Threads, FreeGate(t)
    PROVE  OwnerInv'
<1>0. PICK c : c = stack[t][1]
  OBVIOUS
<1>1. /\ At(t, "free", "gate") /\ UNCHANGED <<owner, pagemap, reaping>>
      /\ g_shutting_down' = g_shutting_down
  BY DEF FreeGate, lifeVars
<1>2. /\ stack[t] # <<>> /\ c \in Frames /\ c.fn = "free" /\ c.at = "gate" /\ c.p \in Addrs /\ Arg(t) = c.p
      /\ ~Guarded(c)
  BY <1>0, <1>1, AtFacts DEF FrameShape, Arg, Guarded
<1>3. Mine(t, c.p) /\ Live(c.p)
  BY <1>0, <1>2, MineTop DEF Uses
<1>4. "libc" \in Labels \ {"done"} /\ "validate" \in Labels \ {"done"}
  BY DEF Labels
<1>5. CASE Goto(t, "libc") /\ dropped' = dropped /\ c.p \notin pagemap
  <2>1. owner[c.p] = "libc"
    BY <1>3, <1>5 DEF Live
  <2>2. HeapKept
    BY <1>1, <1>5 DEF HeapKept
  <2> QED BY <1>0, <1>2, <1>4, <1>5, <2>1, <2>2, GotoOwner
<1>6. CASE Goto(t, "validate") /\ dropped' = dropped
  <2>1. HeapKept
    BY <1>1, <1>6 DEF HeapKept
  <2> QED BY <1>0, <1>2, <1>4, <1>6, <2>1, GotoOwner
<1>7. CASE Return(t, Null) /\ dropped' = dropped \cup {c.p} /\ c.p \in pagemap
  <2> DEFINE W == {c.p}
  <2>1. SegmentsInv' /\ Live(c.p)'
    BY <1>1, <1>7 DEF OwnerInv, SegmentsInv, Live
  <2>2. Null \in Ptrs /\ Null \notin Addrs
    BY NullFacts
  <2>3. /\ W \in SUBSET Addrs /\ \A w \in W : Mine(t, w) /\ (w \in dropped' => Live(w)')
        /\ \A b \in Addrs \ W : owner'[b] = owner[b] /\ (b \in pagemap' <=> b \in pagemap)
        /\ \A b \in Addrs \ W : b \in dropped' => b \in dropped
    BY <1>1, <1>2, <1>3, <1>7, <2>1
  <2> HIDE DEF W
  <2> QED BY <1>1, <1>2, <1>7, <2>1, <2>2, <2>3, ReturnOwner
<1>8. guard[t] => c.p \notin pagemap
  <2>1. SUFFICES ASSUME guard[t] PROVE c.p \notin pagemap
    OBVIOUS
  <2>2. stack[t] \in Seq(Frames) /\ StackOK(stack[t], guard[t])
    BY <1>2, TopFrame
  <2>3. DlsymBelow(stack[t])
    BY <1>0, <1>2, <2>1, <2>2, GuardBelow DEF DlsymBelow
  <2> QED BY <1>0, <1>2, <2>3, TopOwner
<1>9. \/ Goto(t, "libc") /\ dropped' = dropped /\ c.p \notin pagemap
      \/ Goto(t, "validate") /\ dropped' = dropped
      \/ Return(t, Null) /\ dropped' = dropped \cup {c.p} /\ c.p \in pagemap
  BY <1>2, <1>8 DEF FreeGate, Managed
<1> QED BY <1>5, <1>6, <1>7, <1>9

\* Every step of free keeps OwnerInv.
LEMMA FreeOwner ==
    ASSUME RouteInv, RouteInv', OwnerInv, NEW t \in Threads, Free(t)
    PROVE  OwnerInv'
<1>0. PICK c : c = stack[t][1]
  OBVIOUS
<1>1. Null \in Ptrs /\ Null \notin Addrs
  BY NullFacts
<1>2. \A label : At(t, "free", label) =>
          /\ stack[t] # <<>> /\ c.fn = "free" /\ c.at = label /\ Arg(t) = c.p
          /\ label # "enter" => c.p \in Addrs
          /\ label = "direct" => c.p \notin pagemap
  BY <1>0, AtFacts, TopOwner DEF FrameShape, Arg
<1>3. \A label : At(t, "free", label) /\ label \notin {"enter", "done"} /\ c.p \notin pagemap => owner[c.p] = "libc"
  BY <1>0, <1>2, MineTop DEF Uses, Live
<1>4. CASE FreeBootstrap(t) \/ FreeManaged(t)
  <2>1. HeapKept /\ Return(t, Null) /\ (At(t, "free", "enter") \/ At(t, "free", "managed"))
    BY <1>4 DEF FreeBootstrap, FreeManaged, HeapKept, heapVars, lifeVars
  <2> QED BY <1>1, <1>2, <2>1, ReturnKept
<1>5. CASE Preamble(t, "free")
  BY <1>5, PreambleOwner DEF Funs
<1>6. CASE FreeDirect(t)
  <2>1. HeapKept /\ At(t, "free", "direct") /\ (Goto(t, "libc") \/ Return(t, Null))
    BY <1>6 DEF FreeDirect, HeapKept, heapVars, lifeVars
  <2>2. CASE Return(t, Null)
    BY <1>1, <1>2, <2>1, <2>2, ReturnKept
  <2>3. CASE Goto(t, "libc")
    <3>1. owner[c.p] = "libc" /\ stack[t] # <<>> /\ c.fn = "free" /\ c.at = "direct"
      BY <1>2, <1>3, <2>1
    <3>2. "libc" \in Labels \ {"done"}
      BY DEF Labels
    <3> QED BY <1>0, <2>1, <2>3, <3>1, <3>2, GotoOwner
  <2> QED BY <2>1, <2>2, <2>3
<1>7. CASE FreeGate(t)
  BY <1>7, FreeGateOwner
<1>8. CASE ValidateFree(t)
  <2>1. HeapKept /\ At(t, "free", "validate") /\ Goto(t, "route")
    BY <1>8 DEF ValidateFree, HeapKept, lifeVars
  <2>2. "route" \in Labels \ {"done"}
    BY DEF Labels
  <2>3. stack[t] # <<>> /\ c.fn = "free" /\ c.at = "validate"
    BY <1>2, <2>1
  <2> QED BY <1>0, <2>1, <2>2, <2>3, GotoOwner
<1>9. CASE FreeRoute(t)
  <2>1. /\ HeapKept /\ At(t, "free", "route")
        /\ (c.p \in pagemap /\ Goto(t, "managed")) \/ (c.p \notin pagemap /\ Goto(t, "unmanaged"))
    BY <1>2, <1>9 DEF FreeRoute, HeapKept, heapVars, lifeVars, Managed
  <2>2. "managed" \in Labels \ {"done"} /\ "unmanaged" \in Labels \ {"done"}
    BY DEF Labels
  <2>3. stack[t] # <<>> /\ c.fn = "free" /\ c.at = "route"
    BY <1>2, <2>1
  <2>4. CASE c.p \in pagemap /\ Goto(t, "managed")
    BY <1>0, <2>1, <2>2, <2>3, <2>4, GotoOwner
  <2>5. CASE c.p \notin pagemap /\ Goto(t, "unmanaged")
    <3>1. owner[c.p] = "libc"
      BY <1>3, <2>1, <2>5
    <3> QED BY <1>0, <2>1, <2>2, <2>3, <2>5, <3>1, GotoOwner
  <2> QED BY <2>1, <2>4, <2>5
<1>10. CASE LibcFree(t)
  <2>1. /\ At(t, "free", "libc") \/ At(t, "free", "unmanaged")
        /\ LibcReleases(Arg(t)) /\ Return(t, Null) /\ UNCHANGED <<pagemap, reaping, dropped, g_shutting_down>>
    BY <1>10 DEF LibcFree, lifeVars
  <2>2. stack[t] # <<>> /\ c.p \in Addrs /\ c.at # "done" /\ LibcReleases(c.p)
    BY <1>2, <2>1
  <2> QED BY <1>0, <2>1, <2>2, ReleasedOwner
<1> QED BY <1>4, <1>5, <1>6, <1>7, <1>8, <1>9, <1>10 DEF Free

\* realloc calls malloc or free.
LEMMA ReallocCallOwner ==
    ASSUME RouteInv, RouteInv', OwnerInv, NEW t \in Threads, NEW c, c = stack[t][1],
           stack[t] # <<>>, c.fn = "realloc", c.at # "done",
           NEW label \in {"copy", "done"}, NEW fn \in Funs, NEW p,
           p = Null \/ (p = c.p /\ label = "done"),
           Call(t, label, Frame(fn, p, FALSE)), HeapKept
    PROVE  OwnerInv'
<1> DEFINE f == [c EXCEPT !.at = label]
           g == Frame(fn, p, FALSE)
<1>1. c \in Frames /\ p \in Ptrs
  BY TopFrame DEF Frames, Ptrs
<1>2. f \in Frames /\ f.fn = c.fn /\ f.at = label /\ f.p = c.p /\ f.out = c.out
  BY <1>1, MovedFrame DEF Labels
<1>3. g \in Frames /\ g.at = "enter" /\ g.p = p /\ g.out = Null
  BY <1>1 DEF Frame, Frames, Ptrs
<1>4. stack' = [stack EXCEPT ![t] = <<g>> \o (<<f>> \o Tail(stack[t]))] /\ held' = held
  BY DEF Call, Moved
<1>5. f.fn # "resolve" /\ f.fn = stack[t][1].fn /\ f.p = stack[t][1].p /\ f.at \in {"direct", "copy", "done"}
      /\ f.at # "direct" /\ f.out = stack[t][1].out /\ stack[t][1].at # "done"
  BY <1>2
<1>6. g.p = Null \/ (g.p = f.p /\ f.at = "done")
  BY <1>2, <1>3
<1> HIDE DEF f, g
<1> QED BY <1>2, <1>3, <1>4, <1>5, <1>6, CallOwner

\* realloc before initialisation.
LEMMA ReallocDirectOwner ==
    ASSUME RouteInv, RouteInv', OwnerInv, NEW t \in Threads, ReallocDirect(t)
    PROVE  OwnerInv'
<1>0. PICK c : c = stack[t][1]
  OBVIOUS
<1>1. HeapKept /\ At(t, "realloc", "direct")
  BY DEF ReallocDirect, HeapKept, heapVars, lifeVars
<1>2. stack[t] # <<>> /\ c.fn = "realloc" /\ c.at = "direct" /\ c.p \in Ptrs /\ Arg(t) = c.p /\ c.p \notin Boots
  BY <1>0, <1>1, AtFacts DEF FrameShape, Arg
<1>3. CASE Goto(t, "libc")
  <2>1. c.p \notin pagemap
    BY <1>0, <1>2, TopOwner
  <2>2. c.p = Null \/ owner[c.p] = "libc"
    BY <1>0, <1>2, <2>1, MineTop DEF Uses, Live, Ptrs
  <2>3. "libc" \in Labels \ {"done"}
    BY DEF Labels
  <2> QED BY <1>0, <1>1, <1>2, <1>3, <2>2, <2>3, GotoOwner
<1>4. CASE Return(t, c.p)
  <2>1. c.p \in Addrs => Uses(stack[t][1], c.p)
    BY <1>0, <1>2 DEF Uses
  <2> QED BY <1>1, <1>2, <1>4, <2>1, ReturnKept
<1>5. CASE BootstrapAlloc(t)
  BY <1>1, <1>2, <1>5, BootstrapOwner
<1> QED BY <1>2, <1>3, <1>4, <1>5 DEF ReallocDirect

\* libc's realloc allocates, frees, resizes in place or moves.
LEMMA LibcReallocOwner ==
    ASSUME RouteInv, RouteInv', OwnerInv, NEW t \in Threads, LibcRealloc(t)
    PROVE  OwnerInv'
<1>0. PICK c : c = stack[t][1]
  OBVIOUS
<1>1. At(t, "realloc", "libc") /\ UNCHANGED <<pagemap, reaping, dropped, g_shutting_down>>
  BY DEF LibcRealloc, lifeVars
<1>2. stack[t] # <<>> /\ c.fn = "realloc" /\ c.at = "libc" /\ c.p \in Ptrs /\ Arg(t) = c.p /\ c.p \notin Boots
  BY <1>0, <1>1, AtFacts DEF FrameShape, Arg
<1>3. c.p # Null => c.p \in Addrs
  BY <1>2 DEF Ptrs
<1>4. ASSUME NEW a \in Addrs, LibcTakes(a), Return(t, a) PROVE OwnerInv'
  BY <1>1, <1>2, <1>4, TakenOwner
<1>5. CASE c.p # Null /\ LibcReleases(c.p) /\ Return(t, Null)
  BY <1>0, <1>1, <1>2, <1>3, <1>5, ReleasedOwner
<1>6. CASE c.p # Null /\ Return(t, c.p) /\ UNCHANGED owner
  <2>1. HeapKept
    BY <1>1, <1>6 DEF HeapKept
  <2>2. c.p \in Addrs => Uses(stack[t][1], c.p)
    BY <1>0, <1>2 DEF Uses
  <2> QED BY <1>2, <1>6, <2>1, <2>2, ReturnKept
<1>7. ASSUME NEW a \in Addrs, c.p # Null, owner[c.p] = "libc", owner[a] = "none",
             owner' = [owner EXCEPT ![a] = "libc", ![c.p] = "none"], Return(t, a)
      PROVE  OwnerInv'
  <2> DEFINE W == {a, c.p}
  <2>1. Mine(t, c.p)
    BY <1>0, <1>2, <1>3, <1>7, MineTop DEF Uses
  <2>2. Mine(t, a)
    BY <1>7, MineFresh
  <2>3. owner \in [Addrs -> {"none", "libc", "seg"}] /\ pagemap \subseteq Addrs /\ reaping \in Addrs \cup {Null}
    BY DEF RouteInv, GlobalTypes
  <2>4. owner'[a] = "libc" /\ \A b \in Addrs \ W : owner'[b] = owner[b]
    BY <1>3, <1>7, <2>3
  <2>5. /\ \A b \in pagemap : owner[b] = "seg"
        /\ reaping # Null => reaping \notin pagemap /\ owner[reaping] = "seg"
    BY DEF OwnerInv, SegmentsInv
  <2>6. SegmentsInv'
    <3>1. \A b \in pagemap' : owner'[b] = "seg"
      BY <1>1, <1>7, <2>3, <2>4, <2>5
    <3>2. reaping' # Null => reaping' \notin pagemap' /\ owner'[reaping'] = "seg"
      BY <1>1, <1>7, <2>3, <2>4, <2>5
    <3> QED BY <3>1, <3>2 DEF SegmentsInv
  <2>7. Live(a)' /\ a \notin dropped' /\ c.p \notin dropped' /\ a \in Ptrs /\ a \in W
    BY <1>1, <2>1, <2>2, <2>4 DEF Live, Mine, Ptrs
  <2>8. /\ W \in SUBSET Addrs /\ \A w \in W : Mine(t, w) /\ (w \in dropped' => Live(w)')
        /\ \A b \in Addrs \ W : owner'[b] = owner[b] /\ (b \in pagemap' <=> b \in pagemap)
        /\ \A b \in Addrs \ W : b \in dropped' => b \in dropped
    BY <1>1, <1>3, <1>7, <2>1, <2>2, <2>4, <2>7
  <2> HIDE DEF W
  <2> QED BY <1>1, <1>2, <1>7, <2>6, <2>7, <2>8, ReturnOwner
<1> QED BY <1>2, <1>4, <1>5, <1>6, <1>7 DEF LibcRealloc

\* Every step of realloc keeps OwnerInv.
LEMMA ReallocOwner ==
    ASSUME RouteInv, RouteInv', OwnerInv, NEW t \in Threads, Realloc(t)
    PROVE  OwnerInv'
<1>0. PICK c : c = stack[t][1]
  OBVIOUS
<1>1. \A label : At(t, "realloc", label) =>
          /\ stack[t] # <<>> /\ c.fn = "realloc" /\ c.at = label /\ Arg(t) = c.p
          /\ c.p \in Ptrs /\ c.out \in Ptrs /\ (label \notin {"enter", "done"} => c.p \notin Boots)
  BY <1>0, AtFacts DEF FrameShape, Arg
<1>2. CASE ReallocBootstrap(t)
  <2>1. HeapKept /\ At(t, "realloc", "enter") /\ Call(t, "done", Frame("malloc", Null, FALSE))
    BY <1>2 DEF ReallocBootstrap, HeapKept, heapVars, lifeVars
  <2> QED BY <1>0, <1>1, <2>1, ReallocCallOwner DEF Funs
<1>3. CASE Preamble(t, "realloc")
  BY <1>3, PreambleOwner DEF Funs
<1>4. CASE ReallocGate(t)
  <2>1. HeapKept /\ At(t, "realloc", "gate")
    BY <1>4 DEF ReallocGate, HeapKept, heapVars, lifeVars
  <2>2. stack[t] # <<>> /\ c.fn = "realloc" /\ c.at = "gate" /\ Arg(t) = c.p /\ c.p \in Ptrs /\ c.p \notin Boots
    BY <1>1, <2>1
  <2>3. c.p \notin pagemap => c.p = Null \/ owner[c.p] = "libc"
    BY <1>0, <2>2, MineTop DEF Uses, Live, Ptrs
  <2>4. guard[t] => c.p \notin pagemap
    <3>1. SUFFICES ASSUME guard[t] PROVE c.p \notin pagemap
      OBVIOUS
    <3>2. stack[t] \in Seq(Frames) /\ StackOK(stack[t], guard[t])
      BY <2>2, TopFrame
    <3>3. ~Guarded(stack[t][1])
      BY <1>0, <2>2 DEF Guarded
    <3>4. DlsymBelow(stack[t])
      BY <2>2, <3>1, <3>2, <3>3, GuardBelow DEF DlsymBelow
    <3> QED BY <1>0, <2>2, <3>4, TopOwner
  <2>5. \/ Goto(t, "libc") /\ (g_shutting_down \/ c.p \notin pagemap)
        \/ Call(t, "done", Frame("malloc", Null, FALSE))
        \/ Call(t, "done", Frame("free", c.p, FALSE))
        \/ Call(t, "copy", Frame("malloc", Null, FALSE))
    BY <1>4, <2>2, <2>4 DEF ReallocGate, Managed
  <2>6. CASE Goto(t, "libc") /\ (g_shutting_down \/ c.p \notin pagemap)
    <3>1. "libc" \in Labels \ {"done"}
      BY DEF Labels
    <3> QED BY <1>0, <2>1, <2>2, <2>3, <2>6, <3>1, GotoOwner
  <2>7. CASE Call(t, "done", Frame("malloc", Null, FALSE))
    BY <1>0, <2>1, <2>2, <2>7, ReallocCallOwner DEF Funs
  <2>8. CASE Call(t, "done", Frame("free", c.p, FALSE))
    BY <1>0, <2>1, <2>2, <2>8, ReallocCallOwner DEF Funs
  <2>9. CASE Call(t, "copy", Frame("malloc", Null, FALSE))
    BY <1>0, <2>1, <2>2, <2>9, ReallocCallOwner DEF Funs
  <2> QED BY <2>5, <2>6, <2>7, <2>8, <2>9
<1>5. CASE ReallocCopy(t)
  <2>1. HeapKept /\ At(t, "realloc", "copy") /\ Call(t, "done", Frame("free", c.p, FALSE))
    BY <1>1, <1>5 DEF ReallocCopy, HeapKept, heapVars, lifeVars
  <2> QED BY <1>0, <1>1, <2>1, ReallocCallOwner DEF Funs
<1>6. CASE ReallocDone(t)
  <2>1. HeapKept /\ At(t, "realloc", "done") /\ Return(t, c.out)
    BY <1>0, <1>6 DEF ReallocDone, HeapKept, heapVars, lifeVars
  <2>2. c.out \in Addrs => Uses(stack[t][1], c.out)
    BY <1>0 DEF Uses
  <2> QED BY <1>1, <2>1, <2>2, ReturnKept
<1> QED BY <1>2, <1>3, <1>4, <1>5, <1>6, ReallocDirectOwner, LibcReallocOwner DEF Realloc

\* The program passes what it holds to a call.
LEMMA ProgramOwner ==
    ASSUME RouteInv, RouteInv', OwnerInv, NEW t \in Threads, Program(t)
    PROVE  OwnerInv'
<1>1. stack[t] = <<>> /\ Enters(t) /\ HeapKept
  BY DEF Program, HeapKept, heapVars, lifeVars
<1>2. \E g \in Frames : /\ g.at = "enter" /\ g.out = Null /\ g.p \in held \cup {Null}
                        /\ stack' = [stack EXCEPT ![t] = <<g>> \o stack[t]] /\ held' = held \ {g.p}
  BY EntersFrame, <1>1
<1>3. \A k \in 1..Len(stack[t]) : Up(stack[t], k).fn # "resolve"
  BY <1>1
<1> QED BY <1>1, <1>2, <1>3, EnterOwner

\* tbjit_init has no pointer.
LEMMA InitOwner ==
    ASSUME RouteInv, RouteInv', OwnerInv, NEW t \in Threads, InitBegin(t) \/ InitEnd(t)
    PROVE  OwnerInv'
<1>1. CASE InitBegin(t)
  <2> DEFINE f == Frame("init", Null, FALSE)
             g == Frame("resolve", Null, FALSE)
             r == <<g, f>>
             W == {}
  <2>1. f \in Frames /\ g \in Frames /\ f.fn = "init" /\ g.fn = "resolve"
        /\ f.p = Null /\ f.out = Null /\ g.p = Null /\ g.out = Null
    BY DEF Frame, Frames, Ptrs
  <2>2. stack[t] = <<>> /\ stack' = [stack EXCEPT ![t] = r] /\ held' = held /\ HeapKept
    BY <1>1 DEF InitBegin, HeapKept, heapVars
  <2> HIDE DEF f, g
  <2>3. r \in Seq(Frames) /\ Len(r) = 2 /\ r[1] = g /\ r[2] = f
    BY <2>1
  <2> HIDE DEF r
  <2>4. \A h \in 1..Len(r) : Up(r, h) = f \/ Up(r, h) = g
    BY <2>3 DEF Up
  <2>5. Null \notin Addrs /\ Null \notin pagemap
    BY NullFacts
  <2>6. /\ \A a : owner'[a] = owner[a] /\ (a \in pagemap' <=> a \in pagemap)
        /\ SegmentsInv' /\ (g_shutting_down => g_shutting_down') /\ dropped' = dropped /\ pagemap' = pagemap
    BY <2>2, KeptFacts
  <2>7. \A a \in Addrs : \A h \in 1..Len(r) : ~Uses(Up(r, h), a)
    BY <2>1, <2>4, <2>5 DEF Uses
  <2>8. Moves(t, r, W)
    BY <2>2, <2>6, <2>7 DEF Moves
  <2>9. \A h \in 1..Len(r) : /\ Apart(Up(r, h)) /\ FrameOwner(Up(r, h), owner', pagemap', g_shutting_down')
                             /\ Up(r, h).p \notin pagemap'
    BY <2>1, <2>4, <2>5, <2>6 DEF Apart, FrameOwner
  <2>10. 1..Len(stack[t]) = {}
    BY <2>2
  <2>11. Fits(t, r, W)
    BY <2>9, <2>10 DEF Fits
  <2> QED BY <2>2, <2>3, <2>6, <2>8, <2>11, OwnerStep
<1>2. CASE InitEnd(t)
  <2>1. At(t, "init", "enter") /\ Return(t, Null) /\ HeapKept
    BY <1>2 DEF InitEnd, HeapKept, heapVars
  <2>2. stack[t] # <<>> /\ Null \in Ptrs /\ Null \notin Addrs
    BY <2>1, AtFacts, NullFacts
  <2> QED BY <2>1, <2>2, ReturnKept
<1> QED BY <1>1, <1>2

\* A step that changes the owner of addresses nobody has, and no stack.
LEMMA HeapOwner ==
    ASSUME RouteInv, RouteInv', OwnerInv, UNCHANGED <<stack, held, dropped>>, NEW W \in SUBSET Addrs,
           \A w \in W : \A u \in Threads : \A h \in 1..Len(stack[u]) : ~Uses(Up(stack[u], h), w),
           \A w \in W : w \notin held /\ w \notin dropped,
           \A a \in Addrs \ W : owner'[a] = owner[a] /\ (a \in pagemap' <=> a \in pagemap),
           SegmentsInv', g_shutting_down => g_shutting_down'
    PROVE  OwnerInv'
<1>1. /\ stack \in [Threads -> Seq(Frames)] /\ pagemap' \subseteq Addrs
      /\ \A u \in Threads : StackOK(stack[u], guard[u])
  BY DEF RouteInv, StackTypes, GlobalTypes, CallsInv
<1>2. \A a \in Addrs \ W : Live(a) => Live(a)'
  BY DEF Live
<1>3. PlacesInv'
  <2>1. \A u \in Threads : \A h \in 1..Len(stack[u]) : \A a \in Addrs :
            Uses(Up(stack[u], h), a) => Live(a)' /\ a \notin held' /\ a \notin dropped'
    BY <1>2 DEF OwnerInv, PlacesInv
  <2>2. \A t, u \in Threads : \A h \in 1..Len(stack[t]), k \in 1..Len(stack[u]) : \A a \in Addrs :
            Uses(Up(stack[t], h), a) /\ Uses(Up(stack[u], k), a) => t = u /\ h = k
    BY DEF OwnerInv, PlacesInv
  <2>3. \A a \in Addrs : a \in held' => Live(a)' /\ a \notin dropped'
    BY <1>2 DEF OwnerInv, PlacesInv
  <2>4. \A a \in Addrs : a \in dropped' => Live(a)'
    BY <1>2 DEF OwnerInv, PlacesInv
  <2>5. stack' = stack
    OBVIOUS
  <2> QED BY <2>1, <2>2, <2>3, <2>4, <2>5 DEF PlacesInv
<1>4. ASSUME NEW u \in Threads, NEW h \in 1..Len(stack[u])
      PROVE  /\ Apart(Up(stack[u], h)) /\ FrameOwner(Up(stack[u], h), owner', pagemap', g_shutting_down')
             /\ Early(stack[u], h) /\ Up(stack[u], h).at # "done" => Up(stack[u], h).p \notin pagemap'
  <2>0. PICK f : f = Up(stack[u], h)
    OBVIOUS
  <2>1. /\ Apart(f) /\ FrameOwner(f, owner, pagemap, g_shutting_down) /\ FrameShape(f)
        /\ Early(stack[u], h) /\ f.at # "done" => f.p \notin pagemap
    BY <1>1, <2>0 DEF OwnerInv, CallsOwner, StackOK
  <2>2. f \in Frames
    BY <1>1, <2>0 DEF Up
  <2>3. f.p \in Addrs /\ f.at # "done" =>
            f.p \notin W /\ owner'[f.p] = owner[f.p] /\ (f.p \in pagemap' <=> f.p \in pagemap)
    BY <2>0 DEF Uses
  <2>4. f.at \in {"libc", "unmanaged", "managed"} /\ f.fn = "free" => f.p \in Addrs
    BY <2>1 DEF FrameShape
  <2>5. f.at = "libc" /\ f.fn = "realloc" => f.p = Null \/ f.p \in Addrs
    BY <2>1, <2>2 DEF FrameShape, Frames, Ptrs
  <2>6. FrameOwner(f, owner', pagemap', g_shutting_down')
    BY <2>1, <2>3, <2>4, <2>5 DEF FrameOwner
  <2>7. Early(stack[u], h) /\ f.at # "done" => f.p \notin pagemap'
    BY <1>1, <2>1, <2>3
  <2> QED BY <2>0, <2>1, <2>6, <2>7
<1>5. CallsOwner'
  BY <1>4 DEF CallsOwner, Early
<1> QED BY <1>3, <1>5 DEF OwnerInv

\* The reaper takes what nobody has; the destructor moves nothing.
LEMMA LifeOwner ==
    ASSUME RouteInv, RouteInv', OwnerInv,
           FiniBegin \/ FiniEnd \/ ReapUnmap \/ (\E a \in Addrs : ReapUnregister(a)) \/ UNCHANGED vars
    PROVE  OwnerInv'
<1>0. UNCHANGED <<stack, held, dropped>>
  BY DEF FiniBegin, FiniEnd, ReapUnmap, ReapUnregister, heapVars, vars
<1>1. owner \in [Addrs -> {"none", "libc", "seg"}] /\ pagemap \subseteq Addrs /\ reaping \in Addrs \cup {Null}
  BY DEF RouteInv, GlobalTypes
<1>2. /\ \A b \in pagemap : owner[b] = "seg"
      /\ reaping # Null => reaping \notin pagemap /\ owner[reaping] = "seg"
  BY DEF OwnerInv, SegmentsInv
<1>3. CASE FiniBegin \/ FiniEnd \/ UNCHANGED vars
  <2> DEFINE W == {}
  <2>1. UNCHANGED <<owner, pagemap, reaping>> /\ (g_shutting_down => g_shutting_down')
    BY <1>3 DEF FiniBegin, FiniEnd, heapVars, vars, lifeVars
  <2>2. SegmentsInv'
    BY <1>2, <2>1 DEF SegmentsInv
  <2>3. /\ W \in SUBSET Addrs
        /\ \A w \in W : \A u \in Threads : \A h \in 1..Len(stack[u]) : ~Uses(Up(stack[u], h), w)
        /\ \A w \in W : w \notin held /\ w \notin dropped
        /\ \A a \in Addrs \ W : owner'[a] = owner[a] /\ (a \in pagemap' <=> a \in pagemap)
    BY <2>1
  <2> HIDE DEF W
  <2> QED BY <1>0, <2>1, <2>2, <2>3, HeapOwner
<1>4. CASE ReapUnmap
  <2> DEFINE W == {reaping}
  <2>1. /\ reaping # Null /\ owner' = [owner EXCEPT ![reaping] = "none"] /\ reaping' = Null
        /\ pagemap' = pagemap /\ g_shutting_down' = g_shutting_down
    BY <1>4 DEF ReapUnmap, lifeVars
  <2>2. reaping \in Addrs /\ ~Live(reaping)
    BY <1>1, <1>2, <2>1 DEF Live
  <2>3. SegmentsInv'
    BY <1>1, <1>2, <2>1 DEF SegmentsInv
  <2>4. /\ \A w \in W : \A u \in Threads : \A h \in 1..Len(stack[u]) : ~Uses(Up(stack[u], h), w)
        /\ \A w \in W : w \notin held /\ w \notin dropped
    BY <2>2 DEF OwnerInv, PlacesInv
  <2>5. W \in SUBSET Addrs /\ \A a \in Addrs \ W : owner'[a] = owner[a] /\ (a \in pagemap' <=> a \in pagemap)
    BY <1>1, <2>1, <2>2
  <2> HIDE DEF W
  <2> QED BY <1>0, <2>1, <2>3, <2>4, <2>5, HeapOwner
<1>5. ASSUME NEW a \in Addrs, ReapUnregister(a) PROVE OwnerInv'
  <2> DEFINE W == {a}
  <2>1. /\ a \in pagemap /\ a \notin InUse /\ pagemap' = pagemap \ {a} /\ reaping' = a
        /\ owner' = owner /\ g_shutting_down' = g_shutting_down
    BY <1>5 DEF ReapUnregister, Managed, lifeVars
  <2>2. SegmentsInv'
    BY <1>1, <1>2, <2>1 DEF SegmentsInv
  <2>3. a \notin held /\ a \notin dropped
    BY <2>1 DEF InUse
  <2>4. \A u \in Threads : \A h \in 1..Len(stack[u]) : ~Uses(Up(stack[u], h), a)
    BY <2>1, Unused
  <2>5. W \in SUBSET Addrs /\ \A b \in Addrs \ W : owner'[b] = owner[b] /\ (b \in pagemap' <=> b \in pagemap)
    BY <2>1
  <2>6. /\ \A w \in W : \A u \in Threads : \A h \in 1..Len(stack[u]) : ~Uses(Up(stack[u], h), w)
        /\ \A w \in W : w \notin held /\ w \notin dropped
    BY <2>3, <2>4
  <2> HIDE DEF W
  <2> QED BY <1>0, <2>1, <2>2, <2>5, <2>6, HeapOwner
<1> QED BY <1>3, <1>4, <1>5

\* Every step keeps OwnerInv.
LEMMA OwnerInductive ==
    ASSUME RouteInv, OwnerInv, [Next]_vars
    PROVE  OwnerInv'
<1>1. RouteInv'
  BY RouteInductive
<1>2. CASE Next
  BY <1>1, <1>2, ProgramOwner, InitOwner, ResolveOwner, MallocOwner, FreeOwner, ReallocOwner, LifeOwner DEF Next
<1>3. CASE UNCHANGED vars
  BY <1>1, <1>3, LifeOwner
<1> QED BY <1>2, <1>3

\* OwnerInv holds when the library has been loaded ...
LEMMA OwnerInit == Init => OwnerInv
<1> SUFFICES ASSUME Init PROVE OwnerInv
  OBVIOUS
<1>1. /\ pagemap = {} /\ reaping = Null /\ held = {} /\ dropped = {}
      /\ \A t \in Threads : stack[t] = <<>> /\ 1..Len(stack[t]) = {}
  BY DEF Init
<1>2. SegmentsInv
  BY <1>1 DEF SegmentsInv
<1>3. PlacesInv
  BY <1>1 DEF PlacesInv
<1>4. CallsOwner
  BY <1>1 DEF CallsOwner
<1> QED BY <1>2, <1>3, <1>4 DEF OwnerInv

\* ... and always, with RouteInv.
LEMMA OwnerAlways == Spec => [](RouteInv /\ OwnerInv)
<1>1. Init => RouteInv /\ OwnerInv
  BY RouteInit, OwnerInit
<1>2. RouteInv /\ OwnerInv /\ [Next]_vars => (RouteInv /\ OwnerInv)'
  BY RouteInductive, OwnerInductive
<1> QED BY <1>1, <1>2, PTL DEF Spec

\* free gives every pointer to the allocator it came from: libc gets nothing
\* that is not libc's, free_managed nothing but a chunk of a live segment, in
\* whatever phase the pointer was allocated and is freed. ReapUnregister takes only
\* segments that are really empty; InUseAlwaysIntact of SegmentHeapProofs has
\* that of the reaper, for routines other than ProducerConsumer.
THEOREM FreesReachOwner == Spec => []FreeReachesOwner
<1>1. RouteInv /\ OwnerInv => FreeReachesOwner
  <2> SUFFICES ASSUME RouteInv, OwnerInv, NEW t \in Threads
               PROVE  /\ At(t, "free", "libc") \/ At(t, "free", "unmanaged") =>
                             Arg(t) \in Addrs /\ owner[Arg(t)] = "libc"
                      /\ At(t, "free", "managed") => Arg(t) \in Addrs /\ owner[Arg(t)] = "seg"
    BY DEF FreeReachesOwner
  <2>1. \A label : At(t, "free", label) /\ label # "enter" =>
            stack[t] # <<>> /\ stack[t][1].fn = "free" /\ stack[t][1].at = label /\ Arg(t) \in Addrs
    BY AtFacts DEF FrameShape, Arg
  <2>2. stack[t] # <<>> => FrameOwner(stack[t][1], owner, pagemap, g_shutting_down)
    BY TopOwner
  <2>3. \A a \in pagemap : owner[a] = "seg"
    BY DEF OwnerInv, SegmentsInv
  <2> QED BY <2>1, <2>2, <2>3 DEF FrameOwner, Arg
<1> QED BY <1>1, OwnerAlways, PTL

\* realloc hands libc's realloc no pointer that is not libc's until the
\* destructor has begun, however the pointer was allocated and whatever the
\* reaper gives back meanwhile.
THEOREM ReallocsReachOwner == Spec => []ReallocReachesOwner
<1>1. RouteInv /\ OwnerInv => ReallocReachesOwner
  <2> SUFFICES ASSUME RouteInv, OwnerInv, NEW t \in Threads, At(t, "realloc", "libc"), ~g_shutting_down
               PROVE  Arg(t) = Null \/ owner[Arg(t)] = "libc"
    BY DEF ReallocReachesOwner
  <2>1. stack[t] # <<>> /\ stack[t][1].fn = "realloc" /\ stack[t][1].at = "libc"
    BY DEF At
  <2>2. FrameOwner(stack[t][1], owner, pagemap, g_shutting_down)
    BY <2>1, TopOwner
  <2> QED BY <2>1, <2>2 DEF FrameOwner, Arg
<1> QED BY <1>1, OwnerAlways, PTL

-----------------------------------------------------------------------------
(* The shadow validator's table.                                            *)

Tables == [Slots -> Addrs \cup {Null}]

\* How far probing goes from slot a to slot s.
Dist(a, s) == IF a <= s THEN s - a ELSE (s - a) + TABLE_SIZE

\* The slots are finitely many and there is one.
LEMMA SlotFacts ==
    /\ TABLE_SIZE \in Nat \ {0} /\ \A s \in Slots : s \in Nat /\ s < TABLE_SIZE
    /\ \A n \in Nat : n < TABLE_SIZE => n \in Slots
    /\ \A p \in Addrs : Home[p] \in Slots /\ p # Null
    /\ IsFiniteSet(Slots) /\ Cardinality(Slots) = TABLE_SIZE
<1>1. TABLE_SIZE \in Nat \ {0} /\ Home \in [Addrs -> Slots] /\ Null \notin Addrs
  BY InterposeAssumption
<1>2. IsFiniteSet(Slots) /\ Cardinality(Slots) = TABLE_SIZE
  <2>1. TABLE_SIZE - 1 \in Int /\ 0 \in Int /\ 0 <= TABLE_SIZE - 1 /\ ((TABLE_SIZE - 1) - 0) + 1 = TABLE_SIZE
    BY <1>1
  <2> QED BY <2>1, FS_Interval DEF Slots
<1> QED BY <1>1, <1>2 DEF Slots

\* Probing goes round the table and comes to every slot once.
LEMMA Around ==
    ASSUME NEW a \in Slots
    PROVE  /\ \A n \in Slots : (a + n) % TABLE_SIZE \in Slots /\ Dist(a, (a + n) % TABLE_SIZE) = n
           /\ \A s \in Slots : Dist(a, s) \in Slots /\ (a + Dist(a, s)) % TABLE_SIZE = s
           /\ \A x, y \in Slots : Dist(a, x) = Dist(a, y) => x = y
<1>1. TABLE_SIZE \in Nat \ {0} /\ a \in Nat /\ a < TABLE_SIZE
  BY SlotFacts
<1>2. ASSUME NEW n \in Slots
      PROVE  (a + n) % TABLE_SIZE = IF a + n < TABLE_SIZE THEN a + n ELSE (a + n) - TABLE_SIZE
  <2>1. n \in Nat /\ n < TABLE_SIZE
    BY SlotFacts
  <2> QED BY <1>1, <2>1
<1>3. ASSUME NEW n \in Slots
      PROVE  (a + n) % TABLE_SIZE \in Slots /\ Dist(a, (a + n) % TABLE_SIZE) = n
  <2>1. n \in Nat /\ n < TABLE_SIZE
    BY SlotFacts
  <2> QED BY <1>1, <1>2, <2>1 DEF Dist, Slots
<1>4. ASSUME NEW s \in Slots
      PROVE  Dist(a, s) \in Slots /\ (a + Dist(a, s)) % TABLE_SIZE = s
  <2>1. s \in Nat /\ s < TABLE_SIZE
    BY SlotFacts
  <2>2. Dist(a, s) \in Slots
    BY <1>1, <2>1 DEF Dist, Slots
  <2>3. (a + Dist(a, s)) % TABLE_SIZE
          = IF a + Dist(a, s) < TABLE_SIZE THEN a + Dist(a, s) ELSE (a + Dist(a, s)) - TABLE_SIZE
    BY <1>2, <2>2
  <2> QED BY <1>1, <2>1, <2>2, <2>3 DEF Dist
<1>5. \A x, y \in Slots : Dist(a, x) = Dist(a, y) => x = y
  BY <1>4
<1> QED BY <1>3, <1>4, <1>5

\* Probing for p passes by every slot before s.
Clear(table, p, s) ==
    \A x \in Slots : Dist(Home[p], x) < Dist(Home[p], s) => table[x] \notin {p, Null}

\* The search stops where the way is clear.
LEMMA SearchIs ==
    ASSUME NEW table, NEW p \in Addrs, NEW s \in Slots, table[s] \in {p, Null}, Clear(table, p, s)
    PROVE  Stops(table, p) # {} /\ SlotOf(table, p) = s
<1>1. Home[p] \in Slots
  BY SlotFacts
<1>2. PICK a : a = Home[p]
  OBVIOUS
<1>3. a \in Slots /\ Dist(a, s) \in Slots /\ (a + Dist(a, s)) % TABLE_SIZE = s
  BY <1>1, <1>2, Around
<1>4. Dist(a, s) \in Stops(table, p)
  BY <1>2, <1>3 DEF Stops
<1>5. ASSUME NEW m \in Stops(table, p)
      PROVE  m \in Nat /\ Dist(a, s) <= m
  <2>1. m \in Slots /\ table[(a + m) % TABLE_SIZE] \in {p, Null}
    BY <1>2 DEF Stops
  <2>2. (a + m) % TABLE_SIZE \in Slots /\ Dist(a, (a + m) % TABLE_SIZE) = m
    BY <1>3, <2>1, Around
  <2>3. ~(m < Dist(a, s))
    BY <1>2, <2>1, <2>2 DEF Clear
  <2>4. m \in Nat /\ Dist(a, s) \in Nat
    BY <1>3, <2>1, SlotFacts
  <2> QED BY <2>3, <2>4
<1>6. PICK c : c = CHOOSE n \in Stops(table, p) : \A m \in Stops(table, p) : n <= m
  OBVIOUS
<1>7. c \in Stops(table, p) /\ \A m \in Stops(table, p) : c <= m
  BY <1>4, <1>5, <1>6
<1>8. c <= Dist(a, s) /\ Dist(a, s) <= c /\ c \in Nat /\ Dist(a, s) \in Nat
  BY <1>4, <1>5, <1>7
<1>9. c = Dist(a, s)
  BY <1>8
<1>10. SlotOf(table, p) = (a + c) % TABLE_SIZE
  BY <1>2, <1>6 DEF SlotOf
<1> QED BY <1>3, <1>4, <1>9, <1>10

\* A search that can stop does so at a slot to which the way is clear.
LEMMA SearchStops ==
    ASSUME NEW table, NEW p \in Addrs, Stops(table, p) # {}
    PROVE  /\ SlotOf(table, p) \in Slots /\ table[SlotOf(table, p)] \in {p, Null}
           /\ Clear(table, p, SlotOf(table, p))
<1>1. Home[p] \in Slots
  BY SlotFacts
<1>2. PICK a : a = Home[p]
  OBVIOUS
<1>3. Stops(table, p) \in SUBSET Nat
  BY SlotFacts DEF Stops
<1>4. PICK c : c = CHOOSE n \in Stops(table, p) : \A m \in Stops(table, p) : n <= m
  OBVIOUS
<1>5. c \in Stops(table, p) /\ \A m \in Stops(table, p) : c <= m
  BY <1>3, <1>4, NatHasLeast
<1>6. SlotOf(table, p) = (a + c) % TABLE_SIZE
  BY <1>2, <1>4 DEF SlotOf
<1>7. c \in Slots /\ table[(a + c) % TABLE_SIZE] \in {p, Null}
  BY <1>2, <1>5 DEF Stops
<1>8. PICK s : s = (a + c) % TABLE_SIZE
  OBVIOUS
<1>9. s \in Slots /\ Dist(a, s) = c
  BY <1>1, <1>2, <1>7, <1>8, Around
<1>10. ASSUME NEW x \in Slots, Dist(a, x) < c, table[x] \in {p, Null}
       PROVE  FALSE
  <2>1. Dist(a, x) \in Slots /\ (a + Dist(a, x)) % TABLE_SIZE = x
    BY <1>1, <1>2, Around
  <2>2. Dist(a, x) \in Stops(table, p)
    BY <1>2, <1>10, <2>1 DEF Stops
  <2>3. c <= Dist(a, x) /\ c \in Nat /\ Dist(a, x) \in Nat
    BY <1>3, <1>5, <2>2
  <2> QED BY <1>10, <2>3
<1>11. Clear(table, p, s)
  BY <1>2, <1>9, <1>10 DEF Clear
<1> QED BY <1>6, <1>7, <1>8, <1>9, <1>11

\* A search stops if the pointer is there, or an empty slot.
LEMMA CanStop ==
    ASSUME NEW table, NEW p \in Addrs, NEW s \in Slots, table[s] \in {p, Null}
    PROVE  Stops(table, p) # {}
<1>1. PICK a : a = Home[p]
  OBVIOUS
<1>2. Dist(a, s) \in Slots /\ (a + Dist(a, s)) % TABLE_SIZE = s
  BY <1>1, SlotFacts, Around
<1> QED BY <1>1, <1>2 DEF Stops

-----------------------------------------------------------------------------
(* Tables in which a search finds every entry.                              *)

Exact(table) == \A i \in Slots : table[i] # Null => SlotOf(table, table[i]) = i

OnRecord(table, p) == \E s \in Slots : table[s] = p

\* A pointer is in one slot, and the way there is clear.
LEMMA ExactFacts ==
    ASSUME NEW table \in Tables, Exact(table)
    PROVE  /\ \A x, y \in Slots : table[x] # Null /\ table[x] = table[y] => x = y
           /\ \A i \in Slots : table[i] # Null => table[i] \in Addrs /\ Clear(table, table[i], i)
           /\ \A p \in Addrs : Recorded(table, p) <=> OnRecord(table, p)
<1>1. \A i \in Slots : table[i] # Null => table[i] \in Addrs
  BY DEF Tables
<1>2. \A x, y \in Slots : table[x] # Null /\ table[x] = table[y] => x = y
  BY DEF Exact
<1>3. ASSUME NEW i \in Slots, table[i] # Null
      PROVE  Stops(table, table[i]) # {} /\ Clear(table, table[i], i)
  <2>1. PICK p \in Addrs : p = table[i]
    BY <1>1, <1>3
  <2>2. Stops(table, p) # {}
    BY <2>1, CanStop
  <2>3. SlotOf(table, p) = i
    BY <1>3, <2>1 DEF Exact
  <2>4. Clear(table, p, SlotOf(table, p))
    BY <2>2, SearchStops
  <2> QED BY <2>1, <2>2, <2>3, <2>4
<1>4. ASSUME NEW p \in Addrs, Recorded(table, p)
      PROVE  OnRecord(table, p)
  BY <1>4, SearchStops DEF Recorded, OnRecord
<1>5. ASSUME NEW p \in Addrs, OnRecord(table, p)
      PROVE  Recorded(table, p)
  <2>1. PICK i \in Slots : table[i] = p
    BY <1>5 DEF OnRecord
  <2>2. p # Null
    BY SlotFacts
  <2>3. SlotOf(table, p) = i /\ Stops(table, p) # {}
    BY <1>3, <2>1, <2>2 DEF Exact
  <2> QED BY <2>1, <2>3 DEF Recorded
<1> QED BY <1>1, <1>2, <1>3, <1>4, <1>5

\* Clear ways to single entries make an exact table.
LEMMA ClearExact ==
    ASSUME NEW table \in Tables,
           \A i \in Slots : table[i] # Null => Clear(table, table[i], i)
    PROVE  Exact(table)
<1> SUFFICES ASSUME NEW i \in Slots, table[i] # Null
             PROVE  SlotOf(table, table[i]) = i
  BY DEF Exact
<1>1. table[i] \in Addrs
  BY DEF Tables
<1> QED BY <1>1, SearchIs

\* A new pointer is put where the search for it ends.
LEMMA PlaceOK ==
    ASSUME NEW table \in Tables, Exact(table), NEW p \in Addrs, ~OnRecord(table, p),
           Stops(table, p) # {}
    PROVE  /\ Place(table, p) \in Tables /\ Exact(Place(table, p))
           /\ \A q \in Addrs : OnRecord(Place(table, p), q) <=> OnRecord(table, q) \/ q = p
<1>1. PICK i : i = SlotOf(table, p)
  OBVIOUS
<1>2. PICK r : r = Place(table, p)
  OBVIOUS
<1>3. i \in Slots /\ table[i] = Null /\ Clear(table, p, i)
  BY <1>1, SearchStops DEF OnRecord
<1>4. p # Null /\ Home[p] \in Slots
  BY SlotFacts
<1>5. r \in Tables /\ r[i] = p /\ \A x \in Slots \ {i} : r[x] = table[x]
  BY <1>1, <1>2, <1>3 DEF Place, Tables
<1>6. ASSUME NEW s \in Slots, r[s] # Null
      PROVE  Clear(r, r[s], s)
  <2>1. CASE s = i
    <3>1. \A x \in Slots : Dist(Home[p], x) < Dist(Home[p], i) => x # i
      <4>1. Dist(Home[p], i) \in Nat
        BY <1>3, <1>4, Around, SlotFacts
      <4> QED BY <4>1
    <3>2. Clear(r, p, i)
      BY <1>3, <1>5, <3>1 DEF Clear
    <3> QED BY <1>5, <2>1, <3>2
  <2>2. CASE s # i
    <3>1. r[s] = table[s] /\ table[s] # Null
      BY <1>5, <1>6, <2>2
    <3>2. PICK q : q = table[s]
      OBVIOUS
    <3>3. Clear(table, q, s) /\ q # p
      BY <3>1, <3>2, ExactFacts DEF OnRecord
    <3>4. Clear(r, q, s)
      BY <1>4, <1>5, <3>3 DEF Clear
    <3> QED BY <3>1, <3>2, <3>4
  <2> QED BY <2>1, <2>2
<1>7. Exact(r)
  BY <1>5, <1>6, ClearExact
<1>8. ASSUME NEW q \in Addrs
      PROVE  OnRecord(r, q) <=> OnRecord(table, q) \/ q = p
  <2>1. q # Null
    BY SlotFacts
  <2> QED BY <1>3, <1>5, <2>1 DEF OnRecord
<1> QED BY <1>2, <1>5, <1>7, <1>8

-----------------------------------------------------------------------------
(* Tail recursion, and the loop that repacks the table.                     *)

\* C has y and, with the result of a step, what the step begins with.
Back(C, y, D, step, done) == y \in C /\ \A z \in D \ done : step[z] \in C => z \in C

\* What ends in y.
Ends(y, D, step, done) == {x \in D : \A C \in SUBSET D : Back(C, y, D, step, done) => x \in C}

\* A step does not change where an argument ends.
LEMMA EndsKept ==
    ASSUME NEW D, NEW step \in [D -> D], NEW done \in SUBSET D, NEW y \in done, NEW x \in D
    PROVE  /\ x \in done => (x \in Ends(y, D, step, done) <=> x = y)
           /\ x \notin done => (x \in Ends(y, D, step, done) <=> step[x] \in Ends(y, D, step, done))
<1>1. ASSUME x \in done, x \in Ends(y, D, step, done), x # y
      PROVE  FALSE
  <2>1. D \ {x} \in SUBSET D /\ Back(D \ {x}, y, D, step, done)
    BY <1>1 DEF Back
  <2> QED BY <1>1, <2>1 DEF Ends
<1>2. y \in Ends(y, D, step, done)
  BY DEF Ends, Back
<1>3. ASSUME x \notin done, step[x] \in Ends(y, D, step, done)
      PROVE  x \in Ends(y, D, step, done)
  <2> SUFFICES ASSUME NEW C \in SUBSET D, Back(C, y, D, step, done)
               PROVE  x \in C
    BY DEF Ends
  <2>1. step[x] \in C
    BY <1>3 DEF Ends
  <2> QED BY <1>3, <2>1 DEF Back
<1>4. ASSUME x \notin done, x \in Ends(y, D, step, done), step[x] \notin Ends(y, D, step, done)
      PROVE  FALSE
  <2>1. PICK C \in SUBSET D : Back(C, y, D, step, done) /\ step[x] \notin C
    BY <1>4 DEF Ends
  <2>2. C \ {x} \in SUBSET D /\ Back(C \ {x}, y, D, step, done)
    BY <1>4, <2>1 DEF Back
  <2> QED BY <1>4, <2>2 DEF Ends
<1> QED BY <1>1, <1>2, <1>3, <1>4

\* f takes steps until it is done.
Repeats(f, D, step, done, res) == f = [x \in D |-> IF x \in done THEN res[x] ELSE f[step[x]]]

\* A tail recursion has a solution, whether or not it comes to an end.
LEMMA TailRecursion ==
    ASSUME NEW D, NEW step \in [D -> D], NEW done \in SUBSET D, NEW res
    PROVE  \E f : Repeats(f, D, step, done, res)
<1> DEFINE EndsOf(x) == {y \in done : x \in Ends(y, D, step, done)}
           pick[T \in SUBSET D] == IF T = {} THEN {} ELSE res[CHOOSE y \in T : TRUE]
           f == [x \in D |-> pick[EndsOf(x)]]
<1>1. ASSUME NEW x \in D, x \in done
      PROVE  f[x] = res[x]
  <2>1. EndsOf(x) = {x}
    BY <1>1, EndsKept
  <2>2. {x} \in SUBSET D /\ (CHOOSE y \in {x} : TRUE) = x
    OBVIOUS
  <2>3. pick[{x}] = res[x]
    BY <2>2
  <2> QED BY <2>1, <2>3, Zenon
<1>2. ASSUME NEW x \in D, x \notin done
      PROVE  f[x] = f[step[x]]
  <2>1. EndsOf(x) = EndsOf(step[x])
    BY <1>2, EndsKept
  <2>2. step[x] \in D
    OBVIOUS
  <2> HIDE DEF pick, EndsOf
  <2> QED BY <2>1, <2>2
<1>3. f = [x \in D |-> f[x]]
  OBVIOUS
<1> HIDE DEF f
<1>4. f = [x \in D |-> IF x \in done THEN res[x] ELSE f[step[x]]]
  BY <1>1, <1>2, <1>3
<1> QED BY <1>4 DEF Repeats

\* Where the loop of validate_free can be.
Places == [table : Tables, j : Slots]

\* One pass of the loop.
Onwards(s) == [table |-> Place([s.table EXCEPT ![s.j] = Null], s.table[s.j]),
               j     |-> (s.j + 1) % TABLE_SIZE]

\* A pass leads to another place.
LEMMA OnwardsOK ==
    ASSUME NEW s \in Places, s.table[s.j] # Null
    PROVE  Onwards(s) \in Places
<1>1. s.table \in Tables /\ s.j \in Slots /\ s.table[s.j] \in Addrs
  BY DEF Places, Tables
<1>2. PICK p \in Addrs : p = s.table[s.j]
  BY <1>1
<1>3. PICK u : u = [s.table EXCEPT ![s.j] = Null]
  OBVIOUS
<1>4. u \in Tables /\ u[s.j] = Null
  BY <1>1, <1>3 DEF Tables
<1>5. SlotOf(u, p) \in Slots
  BY <1>1, <1>4, CanStop, SearchStops
<1>6. Place(u, p) \in Tables
  BY <1>4, <1>5 DEF Place, Tables
<1>7. (s.j + 1) % TABLE_SIZE \in Slots
  BY <1>1, SlotFacts DEF Slots
<1> QED BY <1>2, <1>3, <1>6, <1>7 DEF Onwards, Places

\* The loop does what its recursive definition says.
LEMMA RepackIs ==
    ASSUME NEW s \in Places
    PROVE  /\ s.table[s.j] = Null => Repack[s] = s.table
           /\ s.table[s.j] # Null => Repack[s] = Repack[Onwards(s)]
<1> DEFINE done == {x \in Places : x.table[x.j] = Null}
           step == [x \in Places |-> IF x \in done THEN x ELSE Onwards(x)]
           res  == [x \in Places |-> x.table]
           Def(f) == f = [x \in Places |-> LET p == x.table[x.j]
                                           IN  IF p = Null THEN x.table
                                               ELSE f[[table |-> Place([x.table EXCEPT ![x.j] = Null], p),
                                                       j |-> (x.j + 1) % TABLE_SIZE]]]
<1>1. step \in [Places -> Places] /\ done \in SUBSET Places
  BY OnwardsOK
<1>2. PICK f : Repeats(f, Places, step, done, res)
  <2> HIDE DEF done, step, res
  <2> QED BY <1>1, TailRecursion
<1>3. Def(f)
  <2>1. ASSUME NEW x \in Places
        PROVE  (IF x \in done THEN res[x] ELSE f[step[x]])
                 = (IF x.table[x.j] = Null THEN x.table ELSE f[Onwards(x)])
    OBVIOUS
  <2>2. f = [x \in Places |-> IF x.table[x.j] = Null THEN x.table ELSE f[Onwards(x)]]
    <3>1. f = [x \in Places |-> IF x \in done THEN res[x] ELSE f[step[x]]]
      BY <1>2 DEF Repeats
    <3> HIDE DEF done, step, res
    <3> QED BY <2>1, <3>1
  <2> QED BY <2>2 DEF Onwards
<1>4. Places = [table : [Slots -> DOMAIN Home \cup {Null}], j : Slots]
  BY InterposeAssumption DEF Places, Tables
<1>5. Repack = CHOOSE g : Def(g)
  BY <1>4, Zenon DEF Repack
<1> HIDE DEF Def
<1>6. Def(Repack)
  BY <1>3, <1>5
<1>7. Repack = [x \in Places |-> IF x.table[x.j] = Null THEN x.table ELSE Repack[Onwards(x)]]
  BY <1>6, Zenon DEF Def, Onwards
<1> QED BY <1>7, Zenon

\* The slot k after h.
Past(h, k) == IF h + k < TABLE_SIZE THEN h + k ELSE (h + k) - TABLE_SIZE

\* During the loop: h is the hole, and the k - 1 slots after it have been seen
\* to. The way to an entry is clear but for the hole, and the hole is only in
\* the way of those further on.
Loose(table, h, k) ==
    /\ table \in Tables /\ h \in Slots /\ k \in 1..TABLE_SIZE /\ table[h] = Null
    /\ \A x, y \in Slots : table[x] # Null /\ table[x] = table[y] => x = y
    /\ \A s, x \in Slots :
          table[s] # Null /\ Dist(Home[table[s]], x) < Dist(Home[table[s]], s) /\ table[x] = Null =>
              x = h /\ k <= Dist(h, s)

\* What follows h, in slots.
LEMMA PastFacts ==
    ASSUME NEW h \in Slots, NEW k \in 1..TABLE_SIZE
    PROVE  /\ Past(h, k) \in Slots /\ (k = TABLE_SIZE <=> Past(h, k) = h)
           /\ k < TABLE_SIZE => Dist(h, Past(h, k)) = k /\ (Past(h, k) + 1) % TABLE_SIZE = Past(h, k + 1)
           /\ (h + 1) % TABLE_SIZE = Past(h, 1) /\ 1 \in 1..TABLE_SIZE
<1>1. /\ TABLE_SIZE \in Nat \ {0} /\ h \in Nat /\ h < TABLE_SIZE
      /\ k \in Nat /\ 1 <= k /\ k <= TABLE_SIZE
  BY SlotFacts
<1>2. ASSUME NEW a \in Nat, a < TABLE_SIZE
      PROVE  (a + 1) % TABLE_SIZE = IF a + 1 < TABLE_SIZE THEN a + 1 ELSE (a + 1) - TABLE_SIZE
  BY <1>1, <1>2
<1>3. Past(h, k) \in Nat /\ Past(h, k) < TABLE_SIZE
  BY <1>1 DEF Past
<1>4. (Past(h, k) + 1) % TABLE_SIZE
        = IF Past(h, k) + 1 < TABLE_SIZE THEN Past(h, k) + 1 ELSE (Past(h, k) + 1) - TABLE_SIZE
  BY <1>2, <1>3
<1>5. k < TABLE_SIZE => (Past(h, k) + 1) % TABLE_SIZE = Past(h, k + 1)
  BY <1>1, <1>4 DEF Past
<1>6. k = TABLE_SIZE <=> Past(h, k) = h
  BY <1>1 DEF Past
<1>7. k < TABLE_SIZE => Dist(h, Past(h, k)) = k
  BY <1>1 DEF Past, Dist
<1>8. (h + 1) % TABLE_SIZE = Past(h, 1) /\ 1 \in 1..TABLE_SIZE
  BY <1>1, <1>2 DEF Past
<1>9. Past(h, k) \in Slots
  BY <1>3, SlotFacts
<1> QED BY <1>5, <1>6, <1>7, <1>8, <1>9

\* Three slots on a way from a: what is between them.
LEMMA Between ==
    ASSUME NEW a \in Slots, NEW x \in Slots, NEW y \in Slots, NEW s \in Slots,
           Dist(a, x) < Dist(a, s), x # y, y # s, Dist(x, y) <= Dist(x, s)
    PROVE  Dist(a, y) < Dist(a, s)
<1>1. /\ TABLE_SIZE \in Nat /\ {a, x, y, s} \subseteq Nat
      /\ a < TABLE_SIZE /\ x < TABLE_SIZE /\ y < TABLE_SIZE /\ s < TABLE_SIZE
  BY SlotFacts
<1> QED BY <1>1 DEF Dist

\* At the next empty slot the loop ends, and the table is in order.
LEMMA LooseEnds ==
    ASSUME NEW table, NEW h, NEW k, Loose(table, h, k), table[Past(h, k)] = Null
    PROVE  table \in Tables /\ Exact(table)
<1>1. /\ table \in Tables /\ h \in Slots /\ k \in 1..TABLE_SIZE /\ table[h] = Null
      /\ \A x, y \in Slots : table[x] # Null /\ table[x] = table[y] => x = y
      /\ \A s, x \in Slots :
            table[s] # Null /\ Dist(Home[table[s]], x) < Dist(Home[table[s]], s) /\ table[x] = Null =>
                x = h /\ k <= Dist(h, s)
  BY DEF Loose
<1>2. ASSUME NEW s \in Slots, table[s] # Null
      PROVE  Clear(table, table[s], s)
  <2>1. PICK p \in Addrs : p = table[s]
    BY <1>1, <1>2 DEF Tables
  <2>2. PICK a \in Slots : a = Home[p]
    BY SlotFacts
  <2> SUFFICES ASSUME NEW x \in Slots, Dist(a, x) < Dist(a, s), table[x] \in {p, Null}
               PROVE  FALSE
    BY <2>1, <2>2 DEF Clear
  <2>3. Dist(a, x) \in Nat /\ Dist(a, s) \in Nat /\ Dist(h, s) \in Nat /\ Dist(h, s) < TABLE_SIZE
    BY <1>1, Around, SlotFacts
  <2>4. x # s
    BY <2>3
  <2>5. table[x] = Null
    BY <1>1, <1>2, <2>1, <2>4
  <2>6. x = h /\ k <= Dist(h, s)
    BY <1>1, <1>2, <2>1, <2>2, <2>5
  <2>7. k < TABLE_SIZE /\ k \in Nat
    BY <1>1, <2>3, <2>6, SlotFacts
  <2>8. PICK y : y = Past(h, k)
    OBVIOUS
  <2>9. y \in Slots /\ y # h /\ Dist(h, y) = k /\ table[y] = Null
    BY <1>1, <2>7, <2>8, PastFacts
  <2>10. y # s /\ Dist(h, y) <= Dist(h, s)
    BY <1>2, <2>6, <2>9
  <2>11. Dist(a, y) < Dist(a, s)
    BY <1>1, <2>6, <2>9, <2>10, Between
  <2>12. y = h
    BY <1>1, <1>2, <2>1, <2>2, <2>9, <2>11
  <2> QED BY <2>9, <2>12
<1> QED BY <1>1, <1>2, ClearExact

\* The displacement of each entry.
Shifts(table) == [s \in Slots |-> IF table[s] = Null THEN 0 ELSE Dist(Home[table[s]], s)]
Shift(table) == SumFunctionOnSet(Shifts(table), Slots)

\* Displacements are numbers.
LEMMA ShiftNat ==
    ASSUME NEW table \in Tables
    PROVE  NatOn(Shifts(table), Slots) /\ Shift(table) \in Nat
<1>1. ASSUME NEW s \in Slots
      PROVE  Shifts(table)[s] \in Nat
  <2>1. CASE table[s] = Null
    BY <2>1 DEF Shifts
  <2>2. CASE table[s] # Null
    <3>1. table[s] \in Addrs
      BY <2>2 DEF Tables
    <3>2. Dist(Home[table[s]], s) \in Nat
      BY <3>1, SlotFacts, Around
    <3> QED BY <2>2, <3>2 DEF Shifts
  <2> QED BY <2>1, <2>2
<1> QED BY <1>1, SlotFacts, SumNat DEF NatOn, Shift

\* An entry that moves to a slot that is nearer to its home.
LEMMA ShiftLess ==
    ASSUME NEW table \in Tables, NEW j \in Slots, NEW h \in Slots, NEW p \in Addrs, table[j] = p,
           table[h] = Null, Dist(Home[p], h) < Dist(Home[p], j), NEW u \in Tables,
           u[j] = Null, u[h] = p, \A s \in Slots \ {h, j} : u[s] = table[s]
    PROVE  Shift(u) < Shift(table)
<1>1. j # h /\ p # Null
  BY SlotFacts
<1>2. PICK f : f = Shifts(table)
  OBVIOUS
<1>3. PICK g : g = Shifts(u)
  OBVIOUS
<1>4. NatOn(f, Slots) /\ NatOn(g, Slots)
  BY <1>2, <1>3, ShiftNat
<1>5. /\ f[j] = Dist(Home[p], j) /\ f[h] = 0 /\ g[j] = 0 /\ g[h] = Dist(Home[p], h)
      /\ \A s \in Slots \ {h, j} : f[s] = g[s]
  BY <1>1, <1>2, <1>3 DEF Shifts
<1> DEFINE R == (Slots \ {j}) \ {h}
<1>6. /\ IsFiniteSet(Slots \ {j}) /\ IsFiniteSet(R) /\ h \in Slots \ {j}
      /\ R = Slots \ {h, j} /\ R \subseteq Slots
  BY <1>1, SlotFacts, FS_Subset
<1>7. NatOn(f, Slots \ {j}) /\ NatOn(g, Slots \ {j}) /\ NatOn(f, R) /\ NatOn(g, R)
  BY <1>4 DEF NatOn
<1>8. SumFunctionOnSet(f, Slots) = f[j] + SumFunctionOnSet(f, Slots \ {j})
  BY <1>4, SlotFacts, SumTakeOut
<1>9. SumFunctionOnSet(g, Slots) = g[j] + SumFunctionOnSet(g, Slots \ {j})
  BY <1>4, SlotFacts, SumTakeOut
<1>10. SumFunctionOnSet(f, Slots \ {j}) = f[h] + SumFunctionOnSet(f, R)
  BY <1>6, <1>7, SumTakeOut
<1>11. SumFunctionOnSet(g, Slots \ {j}) = g[h] + SumFunctionOnSet(g, R)
  BY <1>6, <1>7, SumTakeOut
<1>12. SumFunctionOnSet(f, R) = SumFunctionOnSet(g, R)
  BY <1>5, <1>6, <1>7, SumSame
<1>13. SumFunctionOnSet(f, R) \in Nat
  BY <1>6, <1>7, SumNat
<1>14. Dist(Home[p], h) \in Nat /\ Dist(Home[p], j) \in Nat
  BY SlotFacts, Around
<1>15. Shift(table) = SumFunctionOnSet(f, Slots) /\ Shift(u) = SumFunctionOnSet(g, Slots)
  BY <1>2, <1>3 DEF Shift
<1> HIDE DEF R
<1> QED BY <1>5, <1>8, <1>9, <1>10, <1>11, <1>12, <1>13, <1>14, <1>15

\* The same pointers are on record.
SameRecord(t, u) == \A q \in Addrs : OnRecord(u, q) <=> OnRecord(t, q)

\* A pass of the loop leaves the entry where it is, or moves it into the hole,
\* nearer to its home; then the hole is where the entry was.
LEMMA LooseStep ==
    ASSUME NEW table, NEW h, NEW k, Loose(table, h, k), NEW j, j = Past(h, k), table[j] # Null
    PROVE  LET u == Onwards([table |-> table, j |-> j])
           IN  /\ k \in Nat /\ k < TABLE_SIZE /\ SameRecord(table, u.table)
               /\ \/ u.table = table /\ Loose(table, h, k + 1) /\ u.j = Past(h, k + 1)
                  \/ Loose(u.table, j, 1) /\ Shift(u.table) < Shift(table) /\ u.j = Past(j, 1)
<1>1. /\ table \in Tables /\ h \in Slots /\ k \in 1..TABLE_SIZE /\ table[h] = Null
      /\ \A x, y \in Slots : table[x] # Null /\ table[x] = table[y] => x = y
      /\ \A s, x \in Slots :
            table[s] # Null /\ Dist(Home[table[s]], x) < Dist(Home[table[s]], s) /\ table[x] = Null =>
                x = h /\ k <= Dist(h, s)
  BY DEF Loose
<1>2. j \in Slots /\ j # h /\ k \in Nat /\ k < TABLE_SIZE /\ k + 1 \in 1..TABLE_SIZE
  <2>1. k # TABLE_SIZE /\ j \in Slots
    BY <1>1, PastFacts
  <2> QED BY <1>1, <2>1, SlotFacts
<1>3. PICK q \in Addrs : q = table[j]
  BY <1>1, <1>2 DEF Tables
<1>4. PICK a \in Slots : a = Home[q]
  BY SlotFacts
<1>5. PICK t1 : t1 = [table EXCEPT ![j] = Null]
  OBVIOUS
<1>6. t1 \in Tables /\ t1[j] = Null /\ t1[h] = Null /\ \A s \in Slots \ {j} : t1[s] = table[s]
  BY <1>1, <1>2, <1>5 DEF Tables
<1>7. PICK u : u = Place(t1, q)
  OBVIOUS
<1>8. Onwards([table |-> table, j |-> j]) = [table |-> u, j |-> (j + 1) % TABLE_SIZE]
  BY <1>3, <1>5, <1>7 DEF Onwards
<1>9. q # Null
  BY SlotFacts
<1>10. \A x, y \in Slots : Dist(x, y) \in Nat /\ (Dist(x, y) = 0 => x = y)
  <2> TAKE x, y \in Slots
  <2>1. TABLE_SIZE \in Nat /\ x \in Nat /\ y \in Nat /\ x < TABLE_SIZE /\ y < TABLE_SIZE
    BY SlotFacts
  <2> QED BY <2>1 DEF Dist
<1>11. CASE Dist(a, h) < Dist(a, j)
  <2>1. Clear(t1, q, h)
    <3> SUFFICES ASSUME NEW x \in Slots, Dist(a, x) < Dist(a, h)
                 PROVE  t1[x] \notin {q, Null}
      BY <1>4 DEF Clear
    <3>1. /\ Dist(a, x) \in Nat /\ Dist(a, h) \in Nat /\ Dist(a, j) \in Nat
          /\ x # h /\ x # j /\ Dist(a, x) < Dist(a, j)
      BY <1>1, <1>2, <1>10, <1>11
    <3> QED BY <1>1, <1>2, <1>3, <1>4, <1>6, <1>9, <3>1
  <2>2. SlotOf(t1, q) = h
    BY <1>1, <1>6, <2>1, SearchIs
  <2>3. u \in Tables /\ u[h] = q /\ u[j] = Null /\ \A s \in Slots \ {h, j} : u[s] = table[s]
    BY <1>1, <1>2, <1>6, <1>7, <2>2 DEF Place, Tables
  <2>4. \A x, y \in Slots : u[x] # Null /\ u[x] = u[y] => x = y
    BY <1>1, <1>2, <1>3, <2>3
  <2>5. ASSUME NEW s \in Slots, NEW x \in Slots, u[s] # Null,
               Dist(Home[u[s]], x) < Dist(Home[u[s]], s), u[x] = Null
        PROVE  x = j /\ 1 <= Dist(j, s)
    <3>1. s # j /\ x # h
      BY <1>9, <2>3, <2>5
    <3>2. 1 <= Dist(j, s)
      BY <1>2, <1>10, <3>1
    <3>3. CASE s = h
      <4>1. Dist(a, x) < Dist(a, h)
        BY <1>4, <2>3, <2>5, <3>3
      <4>2. x # j /\ Dist(a, x) < Dist(a, j)
        BY <1>1, <1>2, <1>10, <1>11, <4>1
      <4>3. table[x] = Null
        BY <2>3, <2>5, <3>1, <4>2
      <4> QED BY <1>1, <1>2, <1>3, <1>4, <1>9, <3>1, <4>2, <4>3
    <3>4. CASE s # h
      <4>1. u[s] = table[s]
        BY <2>3, <3>1, <3>4
      <4>2. CASE x # j
        BY <1>1, <2>3, <2>5, <3>1, <4>1, <4>2
      <4> QED BY <3>2, <4>2
    <3> QED BY <3>3, <3>4
  <2>6. Loose(u, j, 1)
    <3>1. 1 \in 1..TABLE_SIZE
      BY SlotFacts
    <3> QED BY <1>2, <2>3, <2>4, <2>5, <3>1 DEF Loose
  <2>7. Shift(u) < Shift(table)
    BY <1>1, <1>2, <1>3, <1>4, <1>11, <2>3, ShiftLess
  <2>8. (j + 1) % TABLE_SIZE = Past(j, 1)
    BY <1>1, <1>2, PastFacts
  <2>9. SameRecord(table, u)
    <3> SUFFICES ASSUME NEW p \in Addrs
                 PROVE  OnRecord(u, p) <=> OnRecord(table, p)
      BY DEF SameRecord
    <3>1. p # Null
      BY SlotFacts
    <3> QED BY <1>1, <1>2, <1>3, <2>3, <3>1 DEF OnRecord
  <2> QED BY <1>2, <1>8, <2>6, <2>7, <2>8, <2>9
<1>12. CASE ~(Dist(a, h) < Dist(a, j))
  <2>1. Clear(t1, q, j)
    <3> SUFFICES ASSUME NEW x \in Slots, Dist(a, x) < Dist(a, j)
                 PROVE  t1[x] \notin {q, Null}
      BY <1>4 DEF Clear
    <3>1. Dist(a, x) \in Nat /\ Dist(a, j) \in Nat /\ x # h /\ x # j
      BY <1>2, <1>10, <1>12
    <3> QED BY <1>1, <1>2, <1>3, <1>4, <1>6, <1>9, <3>1
  <2>2. SlotOf(t1, q) = j
    BY <1>2, <1>6, <2>1, SearchIs
  <2>3. u = table
    <3>1. u = [t1 EXCEPT ![j] = q]
      BY <1>7, <2>2 DEF Place
    <3> QED BY <1>1, <1>2, <1>3, <1>5, <3>1 DEF Tables
  <2>4. ASSUME NEW s \in Slots, NEW x \in Slots, table[s] # Null,
               Dist(Home[table[s]], x) < Dist(Home[table[s]], s), table[x] = Null
        PROVE  x = h /\ k + 1 <= Dist(h, s)
    <3>1. x = h /\ k <= Dist(h, s)
      BY <1>1, <2>4
    <3>2. s # j
      BY <1>3, <1>4, <1>12, <2>4, <3>1
    <3>3. Dist(h, j) = k
      BY <1>1, <1>2, PastFacts
    <3>4. Dist(h, s) # k
      BY <1>1, <1>2, <3>2, <3>3, Around
    <3>5. Dist(h, s) \in Nat
      BY <1>1, <1>10
    <3> QED BY <1>2, <3>1, <3>4, <3>5
  <2>5. Loose(table, h, k + 1)
    BY <1>1, <1>2, <2>4 DEF Loose
  <2>6. (j + 1) % TABLE_SIZE = Past(h, k + 1)
    BY <1>1, <1>2, PastFacts
  <2>7. SameRecord(table, u)
    BY <2>3 DEF SameRecord
  <2> QED BY <1>2, <1>8, <2>3, <2>5, <2>6, <2>7
<1> QED BY <1>11, <1>12

\* What the loop is to make of the table.
Mends(r, table) == r \in Tables /\ Exact(r) /\ SameRecord(table, r)

\* The loop comes to an end, each pass having moved an entry nearer to its home
\* or gone on a slot, and mends the table.
LEMMA RepackMends ==
    ASSUME NEW table, NEW h, NEW k, Loose(table, h, k)
    PROVE  Mends(Repack[[table |-> table, j |-> Past(h, k)]], table)
<1> DEFINE at(t, m, n) == [table |-> t, j |-> Past(m, n)]
           Bad(t, m, n) == Loose(t, m, n) /\ ~Mends(Repack[at(t, m, n)], t)
<1>1. ASSUME NEW t, NEW m, NEW n, Bad(t, m, n)
      PROVE  /\ t \in Tables /\ Shift(t) \in Nat /\ n \in Nat /\ n < TABLE_SIZE
             /\ \/ n + 1 <= TABLE_SIZE /\ Bad(t, m, n + 1)
                \/ \E u, y : Bad(u, y, 1) /\ Shift(u) < Shift(t)
  <2>1. Loose(t, m, n)
    BY <1>1
  <2>2. t \in Tables /\ Past(m, n) \in Slots
    BY <2>1, PastFacts DEF Loose
  <2>3. at(t, m, n) \in Places /\ at(t, m, n).table = t /\ at(t, m, n).j = Past(m, n)
    BY <2>2 DEF Places
  <2>4. t[Past(m, n)] # Null
    <3> SUFFICES ASSUME t[Past(m, n)] = Null
                 PROVE  FALSE
      OBVIOUS
    <3>1. Repack[at(t, m, n)] = t
      BY <2>3, RepackIs
    <3>2. t \in Tables /\ Exact(t)
      BY <2>1, LooseEnds
    <3>3. SameRecord(t, t)
      BY DEF SameRecord
    <3> QED BY <1>1, <3>1, <3>2, <3>3 DEF Mends
  <2>5. PICK u : u = Onwards(at(t, m, n))
    OBVIOUS
  <2>6. Repack[at(t, m, n)] = Repack[u] /\ u \in Places
    BY <2>3, <2>4, <2>5, RepackIs, OnwardsOK
  <2>7. /\ n \in Nat /\ n < TABLE_SIZE /\ SameRecord(t, u.table)
        /\ \/ u.table = t /\ Loose(t, m, n + 1) /\ u.j = Past(m, n + 1)
           \/ Loose(u.table, Past(m, n), 1) /\ Shift(u.table) < Shift(t) /\ u.j = Past(Past(m, n), 1)
    BY <2>1, <2>4, <2>5, LooseStep
  <2>8. u = [table |-> u.table, j |-> u.j]
    BY <2>6 DEF Places
  <2>9. ~Mends(Repack[u], u.table)
    BY <1>1, <2>6, <2>7 DEF Mends, SameRecord
  <2>10. Shift(t) \in Nat
    BY <2>2, ShiftNat
  <2>11. CASE u.table = t /\ Loose(t, m, n + 1) /\ u.j = Past(m, n + 1)
    <3>1. u = at(t, m, n + 1)
      BY <2>8, <2>11
    <3>2. n + 1 <= TABLE_SIZE
      BY <2>7, SlotFacts
    <3> QED BY <2>2, <2>7, <2>9, <2>10, <2>11, <3>1, <3>2
  <2>12. CASE /\ Loose(u.table, Past(m, n), 1) /\ Shift(u.table) < Shift(t)
              /\ u.j = Past(Past(m, n), 1)
    <3>1. u = at(u.table, Past(m, n), 1)
      BY <2>8, <2>12
    <3>2. Bad(u.table, Past(m, n), 1)
      BY <2>9, <2>12, <3>1
    <3> QED BY <2>2, <2>7, <2>10, <2>12, <3>2
  <2> QED BY <2>7, <2>11, <2>12
<1> HIDE DEF Bad
<1>2. SUFFICES ASSUME Bad(table, h, k)
               PROVE  FALSE
  BY DEF Bad
<1> DEFINE Sums == {x \in Nat : \E t, m, n : Bad(t, m, n) /\ x = Shift(t)}
<1>3. Sums \in SUBSET Nat /\ Shift(table) \in Sums
  BY <1>1, <1>2
<1>4. PICK x \in Sums : \A y \in Sums : x <= y
  <2> HIDE DEF Sums
  <2> QED BY <1>3, NatHasLeast
<1>5. PICK t, m, n : Bad(t, m, n) /\ x = Shift(t)
  BY <1>4
<1> DEFINE Ways == {w \in Nat : Bad(t, m, w)}
<1>6. Ways \in SUBSET Nat /\ n \in Ways /\ \A w \in Ways : w <= TABLE_SIZE
  <2>1. n \in Nat
    BY <1>1, <1>5
  <2>2. ASSUME NEW w \in Ways
        PROVE  w <= TABLE_SIZE
    <3>1. w \in Nat /\ w < TABLE_SIZE
      BY <1>1
    <3> QED BY <3>1, SlotFacts
  <2> QED BY <1>5, <2>1, <2>2
<1>7. PICK w \in Ways : \A v \in Ways : v <= w
  <2> HIDE DEF Ways
  <2> QED BY <1>6, NatHasGreatest, SlotFacts
<1>8. Bad(t, m, w) /\ w \in Nat
  BY <1>7
<1>9. CASE Bad(t, m, w + 1)
  <2>1. w + 1 \in Ways
    BY <1>8, <1>9
  <2>2. w + 1 <= w
    BY <1>7, <2>1
  <2> QED BY <1>8, <2>2
<1>10. ASSUME NEW u, NEW y, Bad(u, y, 1), Shift(u) < Shift(t)
       PROVE  FALSE
  <2>1. Shift(u) \in Nat /\ Shift(t) \in Nat
    BY <1>1, <1>8, <1>10
  <2>2. Shift(u) \in Sums
    BY <1>10, <2>1
  <2>3. Shift(t) <= Shift(u)
    BY <1>4, <1>5, <2>2
  <2> QED BY <1>10, <2>1, <2>3
<1> QED BY <1>1, <1>8, <1>9, <1>10

\* What validate_free makes of the table: exactly the pointer is gone, and a
\* search still finds every other.
LEMMA EraseOK ==
    ASSUME NEW table \in Tables, Exact(table), NEW p \in Addrs
    PROVE  /\ Erase(table, p) \in Tables /\ Exact(Erase(table, p))
           /\ \A q \in Addrs : OnRecord(Erase(table, p), q) <=> OnRecord(table, q) /\ q # p
<1>1. CASE ~Recorded(table, p)
  <2>1. ~OnRecord(table, p) /\ Erase(table, p) = table
    BY <1>1, ExactFacts DEF Erase
  <2> QED BY <2>1
<1>2. CASE Recorded(table, p)
  <2>1. PICK i : i = SlotOf(table, p)
    OBVIOUS
  <2>2. i \in Slots /\ table[i] = p /\ p # Null
    BY <1>2, <2>1, SearchStops, SlotFacts DEF Recorded
  <2>3. PICK t : t = [table EXCEPT ![i] = Null]
    OBVIOUS
  <2>4. t \in Tables /\ t[i] = Null /\ \A s \in Slots \ {i} : t[s] = table[s]
    BY <2>2, <2>3 DEF Tables
  <2>5. 1 \in 1..TABLE_SIZE /\ (i + 1) % TABLE_SIZE = Past(i, 1)
    <3>1. 1 \in 1..TABLE_SIZE
      BY SlotFacts
    <3> QED BY <2>2, <3>1, PastFacts
  <2>6. Erase(table, p) = Repack[[table |-> t, j |-> Past(i, 1)]]
    BY <1>2, <2>1, <2>3, <2>5 DEF Erase
  <2>7. \A x, y \in Slots : t[x] # Null /\ t[x] = t[y] => x = y
    BY <2>4, ExactFacts
  <2>8. ASSUME NEW s \in Slots, NEW x \in Slots, t[s] # Null,
               Dist(Home[t[s]], x) < Dist(Home[t[s]], s), t[x] = Null
        PROVE  x = i /\ 1 <= Dist(i, s)
    <3>1. s # i /\ t[s] = table[s]
      BY <2>4, <2>8
    <3>2. Clear(table, table[s], s)
      BY <2>8, <3>1, ExactFacts
    <3>3. table[x] # Null
      BY <2>8, <3>1, <3>2 DEF Clear
    <3>4. x = i
      BY <2>4, <2>8, <3>3
    <3>5. 1 <= Dist(i, s)
      <4>1. TABLE_SIZE \in Nat /\ i \in Nat /\ s \in Nat /\ i < TABLE_SIZE /\ s < TABLE_SIZE
        BY <2>2, SlotFacts
      <4> QED BY <3>1, <4>1 DEF Dist
    <3> QED BY <3>4, <3>5
  <2>9. Loose(t, i, 1)
    BY <2>2, <2>4, <2>5, <2>7, <2>8 DEF Loose
  <2>10. Mends(Erase(table, p), t)
    BY <2>6, <2>9, RepackMends
  <2>11. ASSUME NEW q \in Addrs
         PROVE  OnRecord(t, q) <=> OnRecord(table, q) /\ q # p
    <3>1. q # Null
      BY SlotFacts
    <3>2. ASSUME NEW s \in Slots, table[s] = p
          PROVE  s = i
      BY <2>2, <3>2, ExactFacts
    <3> QED BY <2>2, <2>4, <3>1, <3>2 DEF OnRecord
  <2> QED BY <2>10, <2>11 DEF Mends, SameRecord
<1> QED BY <1>1, <1>2

-----------------------------------------------------------------------------
(* What is on record: a managed chunk is, from the moment it is handed out  *)
(* until it is freed, and so are those whose free was ignored.              *)

\* A call has chunk a in its hands, and the validator knows of it.
Holds(f, a) ==
    \/ f.p = a /\ f.at # "done" /\ ~(f.fn = "free" /\ f.at \in {"route", "managed", "unmanaged"})
    \/ f.out = a /\ f.fn # "malloc"

Keeps(s, a) == \E f \in Calls(s) : Holds(f, a)

\* Chunk a is with the program, lost, or in a call of the stack s.
Has(H, d, s, a) == a \in H \/ a \in d \/ Keeps(s, a)

\* A realloc that waits for malloc has no other result yet.
FreshPair(c, f) == c.fn = "realloc" /\ f.fn = "malloc" => c.out = Null
Fresh(s) == \A h \in 1..(Len(s) - 1) : FreshPair(Up(s, h), Up(s, h + 1))

RecordOK(table, map, H, d, st) ==
    /\ table \in Tables /\ Exact(table)
    /\ \A t \in Threads : Fresh(st[t])
    /\ \A a \in Addrs : OnRecord(table, a) <=>
           a \in map /\ (a \in H \/ a \in d \/ \E t \in Threads : Keeps(st[t], a))

RecordInv == RecordOK(shadow, pagemap, held, dropped, stack)

\* A call keeps the pairs of the stack in order ...
LEMMA FreshPush ==
    ASSUME NEW s \in Seq(Frames), NEW f \in Frames, Fresh(s), s # <<>> => FreshPair(s[1], f)
    PROVE  Fresh(<<f>> \o s)
<1> DEFINE r == <<f>> \o s
           n == Len(s)
<1>1. /\ Len(r) = n + 1 /\ Up(r, n + 1) = f
      /\ \A h \in 1..n : Up(r, h) = Up(s, h)
  BY UpPush
<1>2. n \in Nat /\ (s = <<>> => n = 0) /\ (s # <<>> => n > 0 /\ Up(s, n) = s[1])
  BY DEF Up
<1>3. \A h \in 1..(n - 1) : FreshPair(Up(s, h), Up(s, h + 1))
  BY DEF Fresh
<1> HIDE DEF r, n
<1>4. ASSUME NEW h \in 1..((n + 1) - 1)
      PROVE  FreshPair(Up(r, h), Up(r, h + 1))
  <2>1. CASE h = n
    <3>1. s # <<>> /\ Up(r, h) = s[1] /\ Up(r, h + 1) = f
      BY <2>1, <1>1, <1>2
    <3> QED BY <3>1
  <2>2. CASE h # n
    <3>1. h \in 1..(n - 1) /\ h + 1 \in 1..n /\ h \in 1..n
      BY <2>2, <1>2
    <3> QED BY <3>1, <1>1, <1>3
  <2> QED BY <2>1, <2>2
<1> QED BY <1>1, <1>4 DEF Fresh, r

\* ... and so does a return.
LEMMA FreshPop ==
    ASSUME NEW s \in Seq(Frames), s # <<>>, Fresh(s)
    PROVE  Fresh(Tail(s)) /\ (Tail(s) # <<>> => FreshPair(Tail(s)[1], s[1]))
<1> DEFINE r == Tail(s)
           n == Len(s)
<1>1. /\ Len(r) = n - 1 /\ n \in Nat \ {0} /\ Up(s, n) = s[1]
      /\ \A h \in 1..(n - 1) : Up(r, h) = Up(s, h)
      /\ r # <<>> => n > 1 /\ r[1] = Up(s, n - 1)
  BY UpPop
<1>2. \A h \in 1..(n - 1) : FreshPair(Up(s, h), Up(s, h + 1))
  BY DEF Fresh
<1> HIDE DEF r, n
<1>3. ASSUME NEW h \in 1..((n - 1) - 1)
      PROVE  FreshPair(Up(r, h), Up(r, h + 1))
  <2>1. h \in 1..(n - 1) /\ h + 1 \in 1..(n - 1)
    BY <1>1
  <2> QED BY <1>1, <1>2, <2>1
<1>4. r # <<>> => FreshPair(r[1], s[1])
  <2> HAVE r # <<>>
  <2>1. n - 1 \in 1..(n - 1) /\ (n - 1) + 1 = n
    BY <1>1
  <2> QED BY <1>1, <1>2, <2>1
<1> QED BY <1>1, <1>3, <1>4 DEF Fresh, r

\* What a stack keeps is what its top and the rest keep.
LEMMA KeepsPush ==
    ASSUME NEW s \in Seq(Frames), NEW f \in Frames, NEW a
    PROVE  Keeps(<<f>> \o s, a) <=> Holds(f, a) \/ Keeps(s, a)
<1>1. Calls(<<f>> \o s) = Calls(s) \cup {f}
  BY CallsPush
<1>2. PICK C : C = Calls(<<f>> \o s)
  OBVIOUS
<1>3. PICK E : E = Calls(s)
  OBVIOUS
<1>4. (\E g \in C : Holds(g, a)) <=> Holds(f, a) \/ \E g \in E : Holds(g, a)
  BY <1>1, <1>2, <1>3
<1> QED BY <1>2, <1>3, <1>4, Zenon DEF Keeps

\* The same, taking it apart.
LEMMA KeepsPop ==
    ASSUME NEW s \in Seq(Frames), s # <<>>, NEW a
    PROVE  Keeps(s, a) <=> Holds(s[1], a) \/ Keeps(Tail(s), a)
<1>1. s = <<s[1]>> \o Tail(s) /\ s[1] \in Frames /\ Tail(s) \in Seq(Frames)
  OBVIOUS
<1>2. PICK f \in Frames : f = s[1]
  BY <1>1
<1>3. PICK u \in Seq(Frames) : u = Tail(s)
  BY <1>1
<1>4. Keeps(<<f>> \o u, a) <=> Holds(f, a) \/ Keeps(u, a)
  BY KeepsPush
<1>5. s = <<f>> \o u
  BY <1>1, <1>2, <1>3, Zenon
<1> QED BY <1>2, <1>3, <1>4, <1>5, Zenon

\* A step that changes one thread's stack to r, and what is on record of a0.
LEMMA RecordStep ==
    ASSUME RouteInv, RecordInv, NEW t \in Threads, NEW r, Fresh(r),
           stack' = [stack EXCEPT ![t] = r], shadow' \in Tables, Exact(shadow'), NEW a0,
           \A a \in Addrs \ {a0} : /\ OnRecord(shadow', a) <=> OnRecord(shadow, a)
                                   /\ a \in pagemap' <=> a \in pagemap
                                   /\ a \in pagemap => (Has(held', dropped', r, a)
                                                          <=> Has(held, dropped, stack[t], a)),
           a0 \in Addrs =>
              (OnRecord(shadow', a0) <=>
                  a0 \in pagemap' /\ (Has(held', dropped', r, a0)
                                        \/ \E u \in Threads \ {t} : Keeps(stack[u], a0)))
    PROVE  RecordInv'
<1>1. PICK T : T = shadow'
  OBVIOUS
<1>2. PICK M : M = pagemap'
  OBVIOUS
<1>3. PICK H : H = held'
  OBVIOUS
<1>4. PICK d : d = dropped'
  OBVIOUS
<1>5. PICK st : st = stack'
  OBVIOUS
<1>6. st[t] = r /\ \A u \in Threads \ {t} : st[u] = stack[u]
  BY <1>5 DEF RouteInv, StackTypes
<1>7. \A u \in Threads : Fresh(st[u])
  BY <1>6 DEF RecordInv, RecordOK
<1>8. ASSUME NEW a \in Addrs
      PROVE  OnRecord(T, a) <=>
                a \in M /\ (a \in H \/ a \in d \/ \E u \in Threads : Keeps(st[u], a))
  <2>1. (\E u \in Threads : Keeps(st[u], a)) <=> Keeps(r, a) \/ \E u \in Threads \ {t} : Keeps(stack[u], a)
    BY <1>6
  <2>2. (\E u \in Threads : Keeps(stack[u], a))
          <=> Keeps(stack[t], a) \/ \E u \in Threads \ {t} : Keeps(stack[u], a)
    OBVIOUS
  <2>3. CASE a = a0
    BY <1>1, <1>2, <1>3, <1>4, <2>1, <2>3 DEF Has
  <2>4. CASE a # a0
    <3>1. OnRecord(shadow, a) <=>
             a \in pagemap /\ (a \in held \/ a \in dropped \/ \E u \in Threads : Keeps(stack[u], a))
      BY DEF RecordInv, RecordOK
    <3>2. /\ OnRecord(T, a) <=> OnRecord(shadow, a)
          /\ a \in M <=> a \in pagemap
          /\ a \in pagemap => (Has(H, d, r, a) <=> Has(held, dropped, stack[t], a))
      BY <1>1, <1>2, <1>3, <1>4, <2>4
    <3> QED BY <2>1, <2>2, <3>1, <3>2 DEF Has
  <2> QED BY <2>3, <2>4
<1>9. RecordOK(T, M, H, d, st)
  BY <1>1, <1>7, <1>8 DEF RecordOK
<1> QED BY <1>1, <1>2, <1>3, <1>4, <1>5, <1>9 DEF RecordInv

\* The top of a stack in a state of the invariant.
LEMMA FreshTop ==
    ASSUME RouteInv, RecordInv, NEW t \in Threads, stack[t] # <<>>
    PROVE  /\ stack[t][1] \in Frames /\ Tail(stack[t]) \in Seq(Frames) /\ Fresh(Tail(stack[t]))
           /\ \A a : Keeps(stack[t], a) <=> Holds(stack[t][1], a) \/ Keeps(Tail(stack[t]), a)
           /\ Tail(stack[t]) # <<>> => FreshPair(Tail(stack[t])[1], stack[t][1])
                                         /\ Waits(Tail(stack[t])[1], stack[t][1])
           /\ FrameShape(stack[t][1])
<1>1. PICK s : s = stack[t]
  OBVIOUS
<1>2. s \in Seq(Frames) /\ s # <<>> /\ Fresh(s)
  BY <1>1, TopFrame DEF RecordInv, RecordOK
<1>3. Fresh(Tail(s)) /\ (Tail(s) # <<>> => FreshPair(Tail(s)[1], s[1]))
  BY <1>2, FreshPop
<1>4. \A a : Keeps(s, a) <=> Holds(s[1], a) \/ Keeps(Tail(s), a)
  BY <1>2, KeepsPop
<1> QED BY <1>1, <1>3, <1>4, TopFrame

\* The table, the pagemap and the lost chunks stay as they are.
RecordKept == UNCHANGED <<shadow, pagemap, dropped>>

\* The call moves on: f is its frame, and holds what it held.
LEMMA SwapRecord ==
    ASSUME RouteInv, RecordInv, NEW t \in Threads, stack[t] # <<>>, NEW f \in Frames,
           f.fn = stack[t][1].fn,
           stack' = [stack EXCEPT ![t] = <<f>> \o Tail(stack[t])], held' = held, RecordKept,
           \A a \in pagemap : Holds(f, a) <=> Holds(stack[t][1], a)
    PROVE  RecordInv'
<1> DEFINE r == <<f>> \o Tail(stack[t])
<1>1. Tail(stack[t]) # <<>> => FreshPair(Tail(stack[t])[1], f)
  BY FreshTop DEF FreshPair
<1>2. Fresh(r)
  BY <1>1, FreshTop, FreshPush
<1>3. ASSUME NEW a
      PROVE  Keeps(r, a) <=> Holds(f, a) \/ Keeps(Tail(stack[t]), a)
  BY FreshTop, KeepsPush
<1>4. ASSUME NEW a \in pagemap
      PROVE  Has(held', dropped', r, a) <=> Has(held, dropped, stack[t], a)
  <2>1. Keeps(stack[t], a) <=> Holds(stack[t][1], a) \/ Keeps(Tail(stack[t]), a)
    BY FreshTop
  <2>2. held' = held /\ dropped' = dropped
    BY DEF RecordKept
  <2> HIDE DEF r
  <2> QED BY <1>3, <2>1, <2>2 DEF Has
<1>5. shadow' = shadow /\ pagemap' = pagemap /\ shadow' \in Tables /\ Exact(shadow') /\ Null \notin Addrs
  BY NullFacts DEF RecordKept, RecordInv, RecordOK
<1> HIDE DEF r
<1>6. stack' = [stack EXCEPT ![t] = r]
  BY DEF r
<1> QED BY <1>2, <1>4, <1>5, <1>6, RecordStep

\* The call moves on to label.
LEMMA GotoRecord ==
    ASSUME RouteInv, RecordInv, NEW t \in Threads, stack[t] # <<>>, NEW c, c = stack[t][1],
           NEW label \in Labels, Goto(t, label), RecordKept, c.at # "done", label # "done",
           c.fn = "free" => (label \in {"route", "managed", "unmanaged"}
                               <=> c.at \in {"route", "managed", "unmanaged"})
    PROVE  RecordInv'
<1> DEFINE f == [c EXCEPT !.at = label]
<1>1. f \in Frames /\ f.fn = c.fn /\ f.at = label /\ f.p = c.p /\ f.out = c.out
  BY TopFrame, MovedFrame
<1>2. stack' = [stack EXCEPT ![t] = <<f>> \o Tail(stack[t])] /\ held' = held
  BY DEF Goto, Moved
<1> HIDE DEF f
<1>3. \A a \in pagemap : Holds(f, a) <=> Holds(stack[t][1], a)
  BY <1>1 DEF Holds
<1> QED BY <1>1, <1>2, <1>3, SwapRecord

\* The call moves on to label and makes another, with what it held or nothing.
LEMMA CallRecord ==
    ASSUME RouteInv, RecordInv, NEW t \in Threads, stack[t] # <<>>, NEW c, c = stack[t][1],
           NEW label \in Labels, NEW fn \in Funs \cup {"resolve"}, NEW p \in Ptrs,
           Call(t, label, Frame(fn, p, FALSE)), RecordKept,
           c.at # "done", c.fn # "free" \/ c.at = "enter", label \in {"direct", "copy", "done"},
           p = Null \/ p = c.p,
           label = "done" => p = c.p \/ c.p \notin pagemap, label # "done" => p = Null,
           c.fn = "realloc" /\ fn = "malloc" => c.out = Null
    PROVE  RecordInv'
<1> DEFINE f == [c EXCEPT !.at = label]
           g == Frame(fn, p, FALSE)
           u == <<f>> \o Tail(stack[t])
           r == <<g>> \o u
<1>1. f \in Frames /\ f.fn = c.fn /\ f.at = label /\ f.p = c.p /\ f.out = c.out
  BY TopFrame, MovedFrame
<1>2. g \in Frames /\ g.fn = fn /\ g.at = "enter" /\ g.p = p /\ g.out = Null
  BY NewFrame
<1>3. stack' = [stack EXCEPT ![t] = r] /\ held' = held
  BY DEF Call, Moved
<1> HIDE DEF f, g
<1>4. Tail(stack[t]) \in Seq(Frames) /\ u \in Seq(Frames) /\ u # <<>> /\ u[1] = f
  <2>1. PICK q \in Seq(Frames) : q = Tail(stack[t])
    BY TopFrame
  <2>2. <<f>> \o q \in Seq(Frames) /\ (<<f>> \o q)[1] = f /\ Len(<<f>> \o q) = Len(q) + 1
    BY <1>1, <2>1, UpPush
  <2>3. <<f>> \o q # <<>>
    BY <2>2
  <2> QED BY <2>1, <2>2, <2>3
<1>5. Fresh(u)
  <2>1. Tail(stack[t]) # <<>> => FreshPair(Tail(stack[t])[1], f)
    BY <1>1, FreshTop DEF FreshPair
  <2> QED BY <1>1, <2>1, FreshTop, FreshPush
<1>6. ASSUME NEW a
      PROVE  Keeps(u, a) <=> Holds(f, a) \/ Keeps(Tail(stack[t]), a)
  BY <1>1, <1>4, KeepsPush
<1> HIDE DEF u
<1>7. Fresh(r)
  <2>1. FreshPair(u[1], g)
    BY <1>1, <1>2, <1>4 DEF FreshPair
  <2> QED BY <1>2, <1>4, <1>5, <2>1, FreshPush
<1>8. ASSUME NEW a
      PROVE  Keeps(r, a) <=> Holds(g, a) \/ Keeps(u, a)
  BY <1>2, <1>4, KeepsPush
<1>9. \A a \in pagemap : Holds(g, a) \/ Holds(f, a) <=> Holds(c, a)
  <2> TAKE a \in pagemap
  <2>1. a # Null
    BY NullFacts
  <2> QED BY <1>1, <1>2, <2>1 DEF Holds
<1> HIDE DEF r
<1>10. ASSUME NEW a \in pagemap
       PROVE  Has(held', dropped', r, a) <=> Has(held, dropped, stack[t], a)
  <2>1. Keeps(stack[t], a) <=> Holds(c, a) \/ Keeps(Tail(stack[t]), a)
    BY FreshTop
  <2>2. held' = held /\ dropped' = dropped
    BY <1>3 DEF RecordKept
  <2> QED BY <1>6, <1>8, <1>9, <2>1, <2>2 DEF Has
<1>11. shadow' = shadow /\ pagemap' = pagemap /\ shadow' \in Tables /\ Exact(shadow') /\ Null \notin Addrs
  BY NullFacts DEF RecordKept, RecordInv, RecordOK
<1> QED BY <1>3, <1>7, <1>10, <1>11, RecordStep

\* The call returns v. Of the managed chunks the call held nothing else, but
\* for a0, which goes on record or was there.
LEMMA ReturnRecord ==
    ASSUME RouteInv, RecordInv, NEW t \in Threads, stack[t] # <<>>, NEW c, c = stack[t][1],
           NEW v \in Ptrs, Return(t, v), c.fn \notin {"malloc", "realloc"} => v = Null,
           NEW T, T = shadow', T \in Tables, Exact(T), pagemap' = pagemap, NEW a0,
           \A a \in Addrs \ {a0} : /\ OnRecord(T, a) <=> OnRecord(shadow, a)
                                   /\ a \in dropped' <=> a \in dropped,
           \A a \in pagemap \ {a0} : Holds(c, a) <=> a = v,
           a0 \in pagemap => OnRecord(T, a0) /\ (a0 = v \/ a0 \in dropped'),
           a0 \in Addrs \ pagemap => ~OnRecord(T, a0)
    PROVE  RecordInv'
<1> DEFINE q == Tail(stack[t])
           f == [q[1] EXCEPT !.out = v]
<1>1. /\ q \in Seq(Frames) /\ Fresh(q) /\ FrameShape(c) /\ c \in Frames
      /\ \A a : Keeps(stack[t], a) <=> Holds(c, a) \/ Keeps(q, a)
      /\ q # <<>> => FreshPair(q[1], c) /\ Waits(q[1], c)
  BY FreshTop
<1>2. Null \notin Addrs /\ Null \notin pagemap /\ pagemap \subseteq Addrs
  BY NullFacts DEF RouteInv, GlobalTypes
<1>3. \/ stack' = [stack EXCEPT ![t] = q] /\ held' = held \cup ({v} \ {Null})
      \/ /\ stack' = [stack EXCEPT ![t] = q] /\ held' = held
         /\ c.fn # "malloc" /\ q # <<>> /\ q[1].fn # "resolve"
      \/ /\ stack' = [stack EXCEPT ![t] = <<f>> \o Tail(q)] /\ held' = held
         /\ c.fn = "malloc" /\ q # <<>> /\ q[1].fn # "resolve"
  BY DEF Return
<1>4. ASSUME NEW r, Fresh(r), stack' = [stack EXCEPT ![t] = r],
             \A a \in pagemap : a \in held' \/ Keeps(r, a) <=> a \in held \/ Keeps(q, a) \/ a = v
      PROVE  RecordInv'
  <2>1. ASSUME NEW a \in Addrs \ {a0}
        PROVE  /\ OnRecord(shadow', a) <=> OnRecord(shadow, a)
               /\ a \in pagemap' <=> a \in pagemap
               /\ a \in pagemap => (Has(held', dropped', r, a) <=> Has(held, dropped, stack[t], a))
    BY <1>1, <1>4 DEF Has
  <2>2. a0 \in Addrs => (OnRecord(shadow', a0) <=>
                             a0 \in pagemap' /\ (Has(held', dropped', r, a0)
                                                   \/ \E u \in Threads \ {t} : Keeps(stack[u], a0)))
    BY <1>4 DEF Has
  <2>3. shadow' \in Tables /\ Exact(shadow')
    OBVIOUS
  <2> QED BY <1>4, <2>1, <2>2, <2>3, RecordStep
<1>5. CASE stack' = [stack EXCEPT ![t] = q] /\ held' = held \cup ({v} \ {Null})
  <2>1. \A a \in pagemap : a \in held' \/ Keeps(q, a) <=> a \in held \/ Keeps(q, a) \/ a = v
    BY <1>2, <1>5
  <2> HIDE DEF q
  <2> QED BY <1>1, <1>4, <1>5, <2>1
<1>6. CASE /\ stack' = [stack EXCEPT ![t] = q] /\ held' = held
           /\ c.fn # "malloc" /\ q # <<>> /\ q[1].fn # "resolve"
  <2>1. v = Null
    BY <1>1, <1>6 DEF Waits, Funs
  <2>2. \A a \in pagemap : a \in held' \/ Keeps(q, a) <=> a \in held \/ Keeps(q, a) \/ a = v
    BY <1>2, <1>6, <2>1
  <2> HIDE DEF q
  <2> QED BY <1>1, <1>4, <1>6, <2>2
<1>7. CASE /\ stack' = [stack EXCEPT ![t] = <<f>> \o Tail(q)] /\ held' = held
           /\ c.fn = "malloc" /\ q # <<>> /\ q[1].fn # "resolve"
  <2>1. q[1].fn = "realloc" /\ q[1].out = Null /\ q[1] \in Frames
    <3>1. q[1].fn = "realloc"
      BY <1>1, <1>7 DEF Waits, Funs
    <3>2. q[1] \in Frames
      BY <1>1, <1>7
    <3> QED BY <1>1, <1>7, <3>1, <3>2 DEF FreshPair
  <2>2. f \in Frames /\ f.fn = q[1].fn /\ f.at = q[1].at /\ f.p = q[1].p /\ f.out = v
    BY <2>1 DEF Frames
  <2>3. Tail(q) \in Seq(Frames) /\ Fresh(Tail(q)) /\ (Tail(q) # <<>> => FreshPair(Tail(q)[1], q[1]))
        /\ \A a : Keeps(q, a) <=> Holds(q[1], a) \/ Keeps(Tail(q), a)
    <3>1. Tail(q) \in Seq(Frames)
      BY <1>1, <1>7
    <3> HIDE DEF q
    <3> QED BY <1>1, <1>7, <3>1, FreshPop, KeepsPop
  <2>4. PICK u \in Seq(Frames) : u = Tail(q)
    BY <2>3
  <2>5. u # <<>> => FreshPair(u[1], f)
    BY <2>2, <2>3, <2>4 DEF FreshPair
  <2>6. PICK k : k = q[1]
    OBVIOUS
  <2> HIDE DEF f, q
  <2>7. Fresh(<<f>> \o u)
    BY <2>2, <2>3, <2>4, <2>5, FreshPush
  <2>8. \A a : Keeps(<<f>> \o u, a) <=> Holds(f, a) \/ Keeps(u, a)
    BY <2>2, <2>4, KeepsPush
  <2>9. \A a \in pagemap : Holds(f, a) <=> Holds(k, a) \/ a = v
    <3> TAKE a \in pagemap
    <3>1. a # Null
      BY <1>2
    <3> QED BY <2>1, <2>2, <2>6, <3>1 DEF Holds
  <2>10. ASSUME NEW a \in pagemap
         PROVE  a \in held' \/ Keeps(<<f>> \o u, a) <=> a \in held \/ Keeps(q, a) \/ a = v
    BY <1>7, <2>3, <2>4, <2>6, <2>8, <2>9
  <2>11. stack' = [stack EXCEPT ![t] = <<f>> \o u]
    BY <1>7, <2>4
  <2> QED BY <1>4, <2>7, <2>10, <2>11
<1> QED BY <1>3, <1>5, <1>6, <1>7

\* The call returns v, which it held, or nothing that is managed; the table,
\* the pagemap and the lost chunks stay as they are.
LEMMA ReturnQuietRecord ==
    ASSUME RouteInv, RecordInv, NEW t \in Threads, stack[t] # <<>>, NEW c, c = stack[t][1],
           NEW v \in Ptrs, Return(t, v), c.fn \notin {"malloc", "realloc"} => v = Null,
           RecordKept, \A a \in pagemap : Holds(c, a) <=> a = v
    PROVE  RecordInv'
<1>1. shadow' = shadow /\ pagemap' = pagemap /\ dropped' = dropped /\ shadow \in Tables /\ Exact(shadow)
  BY DEF RecordKept, RecordInv, RecordOK
<1>2. Null \notin Addrs /\ Null \notin pagemap
  BY NullFacts
<1>3. PICK T : T = shadow'
  OBVIOUS
<1>4. T \in Tables /\ Exact(T) /\ \A a \in Addrs \ {Null} : /\ OnRecord(T, a) <=> OnRecord(shadow, a)
                                                           /\ a \in dropped' <=> a \in dropped
  BY <1>1, <1>3
<1>5. Null \in Addrs \ pagemap => ~OnRecord(T, Null)
  BY <1>2
<1>6. Null \in pagemap => OnRecord(T, Null) /\ (Null = v \/ Null \in dropped')
  BY <1>2
<1>7. \A a \in pagemap \ {Null} : Holds(c, a) <=> a = v
  OBVIOUS
<1> QED BY <1>1, <1>3, <1>4, <1>5, <1>6, <1>7, ReturnRecord

\* The program, or dlsym, makes a call with something it holds.
LEMMA EntersRecord ==
    ASSUME RouteInv, RecordInv, NEW t \in Threads, Enters(t), RecordKept,
           stack[t] # <<>> => stack[t][1].fn = "resolve"
    PROVE  RecordInv'
<1>1. PICK g \in Frames : /\ g.at = "enter" /\ g.out = Null /\ g.p \in held \cup {Null}
                          /\ stack' = [stack EXCEPT ![t] = <<g>> \o stack[t]] /\ held' = held \ {g.p}
  BY EntersFrame
<1>2. PICK s \in Seq(Frames) : s = stack[t]
  BY DEF RouteInv, StackTypes
<1>3. Fresh(s)
  BY <1>2 DEF RecordInv, RecordOK
<1>4. Fresh(<<g>> \o s)
  <2>1. s # <<>> => FreshPair(s[1], g)
    BY <1>2 DEF FreshPair
  <2> QED BY <1>2, <1>3, <2>1, FreshPush
<1>5. \A a : Keeps(<<g>> \o s, a) <=> Holds(g, a) \/ Keeps(s, a)
  BY <1>2, KeepsPush
<1>6. Null \notin Addrs /\ Null \notin pagemap
  BY NullFacts
<1>7. \A a \in pagemap : Holds(g, a) <=> a = g.p
  BY <1>1, <1>6 DEF Holds
<1>8. shadow' = shadow /\ pagemap' = pagemap /\ dropped' = dropped /\ shadow' \in Tables /\ Exact(shadow')
  BY DEF RecordKept, RecordInv, RecordOK
<1>9. PICK r : r = <<g>> \o s
  OBVIOUS
<1>10. ASSUME NEW a \in pagemap
       PROVE  Has(held', dropped', r, a) <=> Has(held, dropped, stack[t], a)
  <2>1. a = g.p => a \in held
    BY <1>1, <1>6
  <2> QED BY <1>1, <1>2, <1>5, <1>7, <1>8, <1>9, <2>1 DEF Has
<1>11. stack' = [stack EXCEPT ![t] = r] /\ Fresh(r)
  BY <1>1, <1>2, <1>4, <1>9
<1> QED BY <1>6, <1>8, <1>10, <1>11, RecordStep

\* What one thread has, no other call keeps.
LEMMA MineKept ==
    ASSUME RouteInv, NEW t \in Threads, NEW a, Mine(t, a)
    PROVE  /\ \A u \in Threads \ {t} : ~Keeps(stack[u], a)
           /\ stack[t] # <<>> => ~Keeps(Tail(stack[t]), a)
           /\ a \notin held /\ a \notin dropped
<1>1. \A f : Holds(f, a) => Uses(f, a)
  BY DEF Holds, Uses
<1>2. \A u \in Threads \ {t} : ~Keeps(stack[u], a)
  BY <1>1 DEF Keeps, Calls, Mine
<1>3. ASSUME stack[t] # <<>> PROVE ~Keeps(Tail(stack[t]), a)
  <2>1. PICK s \in Seq(Frames) : s = stack[t]
    BY DEF RouteInv, StackTypes
  <2>2. /\ Len(Tail(s)) = Len(s) - 1 /\ Len(s) \in Nat \ {0}
        /\ \A h \in 1..(Len(s) - 1) : Up(Tail(s), h) = Up(s, h)
    BY <1>3, <2>1, UpPop
  <2>3. \A h \in 1..(Len(s) - 1) : ~Uses(Up(s, h), a)
    BY <2>1, <2>2 DEF Mine
  <2>4. PICK q : q = Tail(s)
    OBVIOUS
  <2>5. ~Keeps(q, a)
    BY <1>1, <2>2, <2>3, <2>4 DEF Keeps, Calls
  <2> QED BY <2>1, <2>4, <2>5
<1> QED BY <1>2, <1>3 DEF Mine

\* A chunk that is not in use is not on record.
LEMMA UnusedRecord ==
    ASSUME RouteInv, RecordInv, NEW a \in Addrs, a \notin InUse
    PROVE  /\ ~OnRecord(shadow, a) /\ a \notin held /\ a \notin dropped
           /\ \A u \in Threads : ~Keeps(stack[u], a)
<1>1. a \notin held /\ a \notin dropped
  BY DEF InUse
<1>2. \A f : Holds(f, a) => Uses(f, a)
  BY DEF Holds, Uses
<1>3. \A u \in Threads : ~Keeps(stack[u], a)
  BY <1>2, Unused DEF Keeps, Calls
<1> QED BY <1>1, <1>3 DEF RecordInv, RecordOK

\* Resolution holds nothing.
LEMMA ResolveRecord ==
    ASSUME RouteInv, RecordInv, NEW t \in Threads, Resolve(t)
    PROVE  RecordInv'
<1>0. PICK c : c = stack[t][1]
  OBVIOUS
<1>1. Null \in Ptrs /\ Null \notin Addrs /\ Null \notin pagemap
  BY NullFacts
<1>2. \A label : At(t, "resolve", label) =>
          /\ stack[t] # <<>> /\ c.fn = "resolve" /\ c.at = label /\ c.p = Null /\ c.out = Null
          /\ label \in Funs \cup {"enter", "end"}
  BY <1>0, AtFacts DEF FrameShape, Funs
<1>3. (stack[t] # <<>> /\ c.fn = "resolve" /\ c.p = Null /\ c.out = Null) =>
          \A a \in pagemap : Holds(c, a) <=> a = Null
  BY <1>1 DEF Holds
<1>4. CASE ResolveEnter(t)
  <2>1. At(t, "resolve", "enter") /\ RecordKept
    BY <1>4 DEF ResolveEnter, heapVars, RecordKept
  <2>2. CASE Return(t, Null)
    BY <1>0, <1>1, <1>2, <1>3, <2>1, <2>2, ReturnQuietRecord
  <2>3. CASE Goto(t, "malloc")
    <3>1. "malloc" \in Labels
      BY DEF Labels, Funs
    <3> QED BY <1>0, <1>2, <2>1, <2>3, <3>1, GotoRecord
  <2> QED BY <1>4, <2>2, <2>3 DEF ResolveEnter
<1>5. CASE ResolveEnd(t)
  <2>1. At(t, "resolve", "end") /\ RecordKept /\ Return(t, Null)
    BY <1>5 DEF ResolveEnd, heapVars, RecordKept
  <2> QED BY <1>0, <1>1, <1>2, <1>3, <2>1, ReturnQuietRecord
<1>6. ASSUME NEW fun \in Funs, DlsymFinds(t, fun) PROVE RecordInv'
  <2>1. At(t, "resolve", fun) /\ RecordKept /\ Goto(t, After[fun])
    BY <1>6 DEF DlsymFinds, heapVars, RecordKept
  <2>2. After[fun] \in {"free", "realloc", "end"}
    BY DEF After, Funs
  <2>3. After[fun] \in Labels /\ After[fun] # "done"
    BY <2>2 DEF Labels, Funs
  <2>4. fun # "done"
    BY DEF Funs
  <2> QED BY <1>0, <1>2, <2>1, <2>3, <2>4, GotoRecord
<1>7. ASSUME NEW fun \in Funs, DlsymReenters(t, fun) PROVE RecordInv'
  <2>1. At(t, "resolve", fun) /\ RecordKept /\ Enters(t)
    BY <1>7 DEF DlsymReenters, heapVars, RecordKept
  <2> QED BY <1>0, <1>2, <2>1, EntersRecord
<1> QED BY <1>4, <1>5, <1>6, <1>7 DEF Resolve

\* Entering a call's path changes nothing of what it holds.
LEMMA PreambleRecord ==
    ASSUME RouteInv, RecordInv, NEW t \in Threads, NEW fn \in Funs, Preamble(t, fn)
    PROVE  RecordInv'
<1>0. PICK c : c = stack[t][1]
  OBVIOUS
<1>1. At(t, fn, "enter") /\ RecordKept
  BY DEF Preamble, heapVars, RecordKept
<1>2. stack[t] # <<>> /\ c.fn = fn /\ c.at = "enter" /\ Null \in Ptrs
  BY <1>0, <1>1, AtFacts
<1>3. "gate" \in Labels /\ "direct" \in Labels
  BY DEF Labels
<1>4. CASE Goto(t, "gate")
  BY <1>0, <1>1, <1>2, <1>3, <1>4, GotoRecord
<1>5. CASE Goto(t, "direct")
  BY <1>0, <1>1, <1>2, <1>3, <1>5, GotoRecord
<1>6. CASE Call(t, "direct", Frame("resolve", Null, FALSE))
  <2>1. "resolve" \in Funs \cup {"resolve"} /\ "resolve" # "malloc"
    OBVIOUS
  <2> QED BY <1>0, <1>1, <1>2, <1>3, <1>6, <2>1, CallRecord
<1> QED BY <1>4, <1>5, <1>6 DEF Preamble

\* A bootstrap chunk is not managed.
LEMMA BootstrapRecord ==
    ASSUME RouteInv, RecordInv, NEW t \in Threads, stack[t] # <<>>, NEW c, c = stack[t][1],
           c.fn \in {"malloc", "realloc"}, c.p = Null, c.fn = "realloc" => c.out = Null,
           BootstrapAlloc(t), RecordKept
    PROVE  RecordInv'
<1>1. boot_used \in 0..BootCap /\ BootCap \in Nat
  BY InterposeAssumption DEF RouteInv, GlobalTypes
<1>2. Null \in Ptrs /\ Null \notin pagemap /\ \A b \in Boots : b \notin pagemap /\ b \in Ptrs
  BY NullFacts DEF Ptrs
<1>3. \A a \in pagemap : ~Holds(c, a)
  BY <1>2 DEF Holds
<1>4. CASE boot_used < BootCap
  <2>1. boot_used + 1 \in Boots
    BY <1>1, <1>4 DEF Boots
  <2>2. PICK v \in Boots : v = boot_used + 1
    BY <2>1
  <2>3. Return(t, v)
    BY <1>4, <2>2 DEF BootstrapAlloc, BootstrapFits
  <2>4. v \in Ptrs /\ \A a \in pagemap : Holds(c, a) <=> a = v
    BY <1>2, <1>3
  <2> QED BY <2>3, <2>4, ReturnQuietRecord
<1>5. CASE ~(boot_used < BootCap)
  <2>1. Return(t, Null)
    BY <1>5 DEF BootstrapAlloc, BootstrapFits
  <2>2. \A a \in pagemap : Holds(c, a) <=> a = Null
    BY <1>2, <1>3
  <2> QED BY <1>2, <2>1, <2>2, ReturnQuietRecord
<1> QED BY <1>4, <1>5

\* A call of malloc has been served with a, which is not on record yet.
LEMMA ServedRecord ==
    ASSUME RouteInv, RecordInv, NEW t \in Threads, At(t, "malloc", "serve"),
           NEW a \in Addrs, Served(t, a), UNCHANGED <<shadow, dropped>>,
           ~OnRecord(shadow, a), a \notin held, a \notin dropped, \A u \in Threads : ~Keeps(stack[u], a),
           \A b \in Addrs \ {a} : b \in pagemap' <=> b \in pagemap
    PROVE  RecordInv'
<1>0. PICK c : c = stack[t][1]
  OBVIOUS
<1> DEFINE f == [c EXCEPT !.out = a, !.at = "validate"]
<1>1. /\ stack[t] # <<>> /\ c \in Frames /\ c.fn = "malloc" /\ c.at = "serve" /\ c.p = Null
      /\ Null \notin Addrs
  BY <1>0, AtFacts, NullFacts DEF FrameShape
<1>2. f \in Frames /\ f.fn = "malloc" /\ f.p = Null
  BY <1>1 DEF Frames, Ptrs
<1>3. stack' = [stack EXCEPT ![t] = <<f>> \o Tail(stack[t])] /\ held' = held
  BY <1>0 DEF Served
<1> HIDE DEF f
<1> DEFINE r == <<f>> \o Tail(stack[t])
<1>4. /\ Tail(stack[t]) \in Seq(Frames) /\ Fresh(Tail(stack[t]))
      /\ \A b : Keeps(stack[t], b) <=> Holds(c, b) \/ Keeps(Tail(stack[t]), b)
      /\ Tail(stack[t]) # <<>> => FreshPair(Tail(stack[t])[1], f)
  BY <1>0, <1>1, <1>2, FreshTop DEF FreshPair
<1>5. Fresh(r)
  BY <1>2, <1>4, FreshPush
<1>6. \A b : Keeps(r, b) <=> Holds(f, b) \/ Keeps(Tail(stack[t]), b)
  BY <1>2, <1>4, KeepsPush
<1>7. \A b \in Addrs : ~Holds(f, b) /\ ~Holds(c, b)
  BY <1>1, <1>2 DEF Holds
<1> HIDE DEF r
<1>8. \A b \in Addrs : Keeps(r, b) <=> Keeps(stack[t], b)
  BY <1>4, <1>6, <1>7
<1>9. shadow' = shadow /\ dropped' = dropped /\ shadow' \in Tables /\ Exact(shadow')
  BY DEF RecordInv, RecordOK
<1>10. pagemap \subseteq Addrs
  BY DEF RouteInv, GlobalTypes
<1>11. ASSUME NEW b \in Addrs \ {a}
       PROVE  /\ OnRecord(shadow', b) <=> OnRecord(shadow, b)
              /\ b \in pagemap' <=> b \in pagemap
              /\ b \in pagemap => (Has(held', dropped', r, b) <=> Has(held, dropped, stack[t], b))
  BY <1>3, <1>8, <1>9 DEF Has
<1>12. OnRecord(shadow', a) <=>
           a \in pagemap' /\ (Has(held', dropped', r, a) \/ \E u \in Threads \ {t} : Keeps(stack[u], a))
  BY <1>3, <1>8, <1>9 DEF Has
<1>13. stack' = [stack EXCEPT ![t] = r]
  BY <1>3 DEF r
<1> QED BY <1>5, <1>9, <1>11, <1>12, <1>13, RecordStep

\* The chunk malloc returns goes on record, unless it is libc's.
LEMMA ValidateAllocRecord ==
    ASSUME RouteInv, OwnerInv, RecordInv, NEW t \in Threads, ValidateAlloc(t)
    PROVE  RecordInv'
<1>0. PICK c : c = stack[t][1]
  OBVIOUS
<1>1. /\ At(t, "malloc", "validate") /\ Return(t, c.out) /\ UNCHANGED <<pagemap, dropped>>
      /\ c.out \in pagemap => ~Aborts(shadow, c.out)
      /\ shadow' = IF c.out \in pagemap THEN Place(shadow, c.out) ELSE shadow
  BY <1>0 DEF ValidateAlloc, Managed
<1>2. /\ stack[t] # <<>> /\ c \in Frames /\ c.fn = "malloc" /\ c.p = Null /\ c.out \in Ptrs
      /\ Null \notin pagemap /\ pagemap \subseteq Addrs
  BY <1>0, <1>1, AtFacts, NullFacts DEF FrameShape, RouteInv, GlobalTypes
<1>3. shadow \in Tables /\ Exact(shadow)
  BY DEF RecordInv, RecordOK
<1>4. \A a \in pagemap : ~Holds(c, a)
  BY <1>2 DEF Holds
<1>5. PICK v \in Ptrs : v = c.out
  BY <1>2
<1>6. PICK T : T = shadow'
  OBVIOUS
<1>7. CASE v \in pagemap
  <2>1. T = Place(shadow, v) /\ ~Recorded(shadow, v) /\ Stops(shadow, v) # {}
    BY <1>1, <1>5, <1>6, <1>7 DEF Aborts
  <2>2. v \in Addrs /\ ~OnRecord(shadow, v)
    BY <1>2, <1>3, <1>7, <2>1, ExactFacts
  <2>3. /\ Place(shadow, v) \in Tables /\ Exact(Place(shadow, v))
        /\ \A q \in Addrs : OnRecord(Place(shadow, v), q) <=> OnRecord(shadow, q) \/ q = v
    BY <1>3, <2>1, <2>2, PlaceOK
  <2>4. T \in Tables /\ Exact(T) /\ \A q \in Addrs : OnRecord(T, q) <=> OnRecord(shadow, q) \/ q = v
    BY <2>1, <2>3
  <2>5. \A a \in Addrs \ {v} : /\ OnRecord(T, a) <=> OnRecord(shadow, a)
                               /\ a \in dropped' <=> a \in dropped
    BY <1>1, <2>4
  <2>6. \A a \in pagemap \ {v} : Holds(c, a) <=> a = v
    BY <1>4
  <2>7. v \in pagemap => OnRecord(T, v) /\ (v = v \/ v \in dropped')
    BY <2>2, <2>4
  <2>8. v \in Addrs \ pagemap => ~OnRecord(T, v)
    BY <1>7
  <2> QED BY <1>0, <1>1, <1>2, <1>5, <1>6, <2>4, <2>5, <2>6, <2>7, <2>8, ReturnRecord
<1>8. CASE v \notin pagemap
  <2>1. RecordKept
    BY <1>1, <1>5, <1>8 DEF RecordKept
  <2>2. \A a \in pagemap : Holds(c, a) <=> a = v
    BY <1>4, <1>8
  <2> QED BY <1>0, <1>1, <1>2, <1>5, <2>1, <2>2, ReturnQuietRecord
<1> QED BY <1>7, <1>8

\* Every step of malloc keeps RecordInv.
LEMMA MallocRecord ==
    ASSUME RouteInv, OwnerInv, RecordInv, NEW t \in Threads, Malloc(t)
    PROVE  RecordInv'
<1>0. PICK c : c = stack[t][1]
  OBVIOUS
<1>1. \A label : At(t, "malloc", label) =>
          stack[t] # <<>> /\ c.fn = "malloc" /\ c.at = label /\ c.p = Null
  BY <1>0, AtFacts DEF FrameShape
<1>2. Null \notin pagemap /\ pagemap \subseteq Addrs
  BY NullFacts DEF RouteInv, GlobalTypes
<1>3. stack[t] # <<>> /\ c.fn = "malloc" /\ c.p = Null => \A a \in pagemap : ~Holds(c, a)
  BY <1>2 DEF Holds
<1>4. "libc" \in Labels /\ "serve" \in Labels
  BY DEF Labels
<1>5. CASE Preamble(t, "malloc")
  BY <1>5, PreambleRecord DEF Funs
<1>6. CASE MallocDirect(t)
  <2>1. At(t, "malloc", "direct") /\ RecordKept /\ (Goto(t, "libc") \/ BootstrapAlloc(t))
    BY <1>6 DEF MallocDirect, heapVars, RecordKept
  <2>2. CASE Goto(t, "libc")
    BY <1>0, <1>1, <1>4, <2>1, <2>2, GotoRecord
  <2>3. CASE BootstrapAlloc(t)
    BY <1>0, <1>1, <2>1, <2>3, BootstrapRecord
  <2> QED BY <2>1, <2>2, <2>3
<1>7. CASE MallocGate(t)
  <2>1. At(t, "malloc", "gate") /\ RecordKept /\ (Goto(t, "libc") \/ Goto(t, "serve"))
    BY <1>7 DEF MallocGate, heapVars, RecordKept
  <2>2. CASE Goto(t, "libc")
    BY <1>0, <1>1, <1>4, <2>1, <2>2, GotoRecord
  <2>3. CASE Goto(t, "serve")
    BY <1>0, <1>1, <1>4, <2>1, <2>3, GotoRecord
  <2> QED BY <2>1, <2>2, <2>3
<1>8. ASSUME NEW a \in Addrs, ServeChunk(t, a) PROVE RecordInv'
  <2>1. /\ At(t, "malloc", "serve") /\ a \notin InUse /\ Served(t, a) /\ UNCHANGED <<shadow, dropped>>
        /\ pagemap' = pagemap \cup {a}
    BY <1>8 DEF ServeChunk
  <2>2. /\ ~OnRecord(shadow, a) /\ a \notin held /\ a \notin dropped
        /\ \A u \in Threads : ~Keeps(stack[u], a)
    BY <2>1, UnusedRecord
  <2>3. \A b \in Addrs \ {a} : b \in pagemap' <=> b \in pagemap
    BY <2>1
  <2> QED BY <2>1, <2>2, <2>3, ServedRecord
<1>9. ASSUME NEW a \in Addrs, ServeGeneric(t, a) PROVE RecordInv'
  <2>1. /\ At(t, "malloc", "serve") /\ owner[a] = "none" /\ Served(t, a)
        /\ UNCHANGED <<shadow, dropped, pagemap>>
    BY <1>9 DEF ServeGeneric, LibcTakes
  <2>2. Mine(t, a) /\ a \notin pagemap
    BY <2>1, MineFresh
  <2>3. /\ a \notin held /\ a \notin dropped /\ ~Keeps(Tail(stack[t]), a)
        /\ \A u \in Threads \ {t} : ~Keeps(stack[u], a)
    BY <1>1, <2>1, <2>2, MineKept
  <2>4. ~Holds(c, a)
    BY <1>1, <2>1, <2>2, NullFacts DEF Holds
  <2>5. ~Keeps(stack[t], a)
    BY <1>0, <1>1, <2>1, <2>3, <2>4, FreshTop
  <2>6. ~OnRecord(shadow, a)
    BY <2>2 DEF RecordInv, RecordOK
  <2>7. \A u \in Threads : ~Keeps(stack[u], a)
    BY <2>3, <2>5
  <2>8. \A b \in Addrs \ {a} : b \in pagemap' <=> b \in pagemap
    BY <2>1
  <2> QED BY <2>1, <2>3, <2>6, <2>7, <2>8, ServedRecord
<1>10. ASSUME NEW a \in Addrs, LibcMalloc(t, a) PROVE RecordInv'
  <2>1. At(t, "malloc", "libc") /\ owner[a] = "none" /\ Return(t, a) /\ RecordKept
    BY <1>10 DEF LibcMalloc, LibcTakes, RecordKept
  <2>2. a \notin pagemap /\ a \in Ptrs
    BY <2>1, MineFresh DEF Ptrs
  <2>3. \A b \in pagemap : Holds(c, b) <=> b = a
    BY <1>1, <1>3, <2>1, <2>2
  <2> QED BY <1>0, <1>1, <2>1, <2>2, <2>3, ReturnQuietRecord
<1> QED BY <1>5, <1>6, <1>7, <1>8, <1>9, <1>10, ValidateAllocRecord DEF Malloc

\* A chunk that is freed goes off the record, unless it is libc's.
LEMMA ValidateFreeRecord ==
    ASSUME RouteInv, OwnerInv, RecordInv, NEW t \in Threads, ValidateFree(t)
    PROVE  RecordInv'
<1>0. PICK c : c = stack[t][1]
  OBVIOUS
<1> DEFINE f == [c EXCEPT !.at = "route"]
<1>1. /\ At(t, "free", "validate") /\ Goto(t, "route") /\ UNCHANGED <<pagemap, dropped>>
      /\ shadow' = IF c.p \in Addrs THEN Erase(shadow, c.p) ELSE shadow
  BY <1>0 DEF ValidateFree, Arg
<1>2. /\ stack[t] # <<>> /\ c \in Frames /\ c.fn = "free" /\ c.at = "validate" /\ c.p \in Addrs /\ c.out = Null
  BY <1>0, <1>1, AtFacts DEF FrameShape
<1>3. f \in Frames /\ f.fn = "free" /\ f.at = "route" /\ f.p = c.p /\ f.out = Null
  BY <1>2, MovedFrame DEF Labels
<1>4. stack' = [stack EXCEPT ![t] = <<f>> \o Tail(stack[t])] /\ held' = held
  BY <1>0, <1>1 DEF Goto, Moved
<1> HIDE DEF f
<1> DEFINE r == <<f>> \o Tail(stack[t])
<1>5. /\ Tail(stack[t]) \in Seq(Frames) /\ Fresh(Tail(stack[t]))
      /\ \A b : Keeps(stack[t], b) <=> Holds(c, b) \/ Keeps(Tail(stack[t]), b)
      /\ Tail(stack[t]) # <<>> => FreshPair(Tail(stack[t])[1], f)
  BY <1>0, <1>2, <1>3, FreshTop DEF FreshPair
<1>6. Fresh(r)
  BY <1>3, <1>5, FreshPush
<1>7. \A b : Keeps(r, b) <=> Holds(f, b) \/ Keeps(Tail(stack[t]), b)
  BY <1>3, <1>5, KeepsPush
<1>8. Null \notin Addrs
  BY NullFacts
<1>9. \A b \in Addrs : ~Holds(f, b) /\ (b # c.p => ~Holds(c, b))
  BY <1>2, <1>3, <1>8 DEF Holds
<1> HIDE DEF r
<1>10. PICK T : T = shadow'
  OBVIOUS
<1>11. T \in Tables /\ Exact(T) /\ \A q \in Addrs : OnRecord(T, q) <=> OnRecord(shadow, q) /\ q # c.p
  <2>1. shadow \in Tables /\ Exact(shadow)
    BY DEF RecordInv, RecordOK
  <2>2. PICK p \in Addrs : p = c.p
    BY <1>2
  <2>3. /\ Erase(shadow, p) \in Tables /\ Exact(Erase(shadow, p))
        /\ \A q \in Addrs : OnRecord(Erase(shadow, p), q) <=> OnRecord(shadow, q) /\ q # p
    BY <2>1, EraseOK
  <2>4. T = Erase(shadow, p)
    BY <1>1, <1>2, <1>10, <2>2
  <2> QED BY <2>2, <2>3, <2>4
<1>12. Mine(t, c.p)
  BY <1>0, <1>2, MineTop DEF Uses
<1>13. /\ c.p \notin held /\ c.p \notin dropped /\ ~Keeps(Tail(stack[t]), c.p)
       /\ \A u \in Threads \ {t} : ~Keeps(stack[u], c.p)
  BY <1>2, <1>12, MineKept
<1>14. ASSUME NEW b \in Addrs \ {c.p}
       PROVE  /\ OnRecord(shadow', b) <=> OnRecord(shadow, b)
              /\ b \in pagemap' <=> b \in pagemap
              /\ b \in pagemap => (Has(held', dropped', r, b) <=> Has(held, dropped, stack[t], b))
  BY <1>1, <1>4, <1>5, <1>7, <1>9, <1>10, <1>11 DEF Has
<1>15. OnRecord(shadow', c.p) <=>
           c.p \in pagemap' /\ (Has(held', dropped', r, c.p) \/ \E u \in Threads \ {t} : Keeps(stack[u], c.p))
  BY <1>1, <1>2, <1>4, <1>7, <1>9, <1>10, <1>11, <1>13 DEF Has
<1>16. stack' = [stack EXCEPT ![t] = r] /\ shadow' \in Tables /\ Exact(shadow')
  BY <1>4, <1>10, <1>11 DEF r
<1> QED BY <1>6, <1>14, <1>15, <1>16, RecordStep

\* A chunk whose free is ignored stays on record.
LEMMA DropRecord ==
    ASSUME RouteInv, OwnerInv, RecordInv, NEW t \in Threads, At(t, "free", "gate"),
           NEW p \in pagemap, p = stack[t][1].p, Return(t, Null), UNCHANGED <<shadow, pagemap>>,
           dropped' = dropped \cup {p}
    PROVE  RecordInv'
<1>0. PICK c : c = stack[t][1]
  OBVIOUS
<1>1. /\ stack[t] # <<>> /\ c.fn = "free" /\ c.at = "gate" /\ c.p = p /\ c.out = Null
      /\ Null \in Ptrs /\ Null \notin pagemap /\ pagemap \subseteq Addrs
  BY <1>0, AtFacts, NullFacts DEF FrameShape, RouteInv, GlobalTypes
<1>2. Holds(c, p) /\ \A a \in pagemap \ {p} : Holds(c, a) <=> a = Null
  BY <1>1 DEF Holds
<1>3. Keeps(stack[t], p)
  BY <1>0, <1>1, <1>2, FreshTop
<1>4. OnRecord(shadow, p) /\ shadow \in Tables /\ Exact(shadow)
  BY <1>1, <1>3 DEF RecordInv, RecordOK
<1>5. PICK T : T = shadow'
  OBVIOUS
<1>6. \A a \in Addrs \ {p} : /\ OnRecord(T, a) <=> OnRecord(shadow, a)
                             /\ a \in dropped' <=> a \in dropped
  BY <1>5
<1>7. p \in pagemap => OnRecord(T, p) /\ (p = Null \/ p \in dropped')
  BY <1>4, <1>5
<1>8. p \in Addrs \ pagemap => ~OnRecord(T, p)
  OBVIOUS
<1>9. T \in Tables /\ Exact(T)
  BY <1>4, <1>5
<1> QED BY <1>0, <1>1, <1>2, <1>5, <1>6, <1>7, <1>8, <1>9, ReturnRecord

\* Every step of free keeps RecordInv.
LEMMA FreeRecord ==
    ASSUME RouteInv, OwnerInv, RecordInv, NEW t \in Threads, Free(t)
    PROVE  RecordInv'
<1>0. PICK c : c = stack[t][1]
  OBVIOUS
<1>1. \A label : At(t, "free", label) =>
          /\ stack[t] # <<>> /\ c.fn = "free" /\ c.at = label /\ Arg(t) = c.p /\ c.out = Null
          /\ c.p # Null /\ (label # "enter" => c.p \in Addrs) /\ label # "done"
  BY <1>0, AtFacts DEF FrameShape, Arg
<1>2. Null \in Ptrs /\ Null \notin pagemap /\ pagemap \subseteq Addrs
      /\ \A b \in Boots : b \notin pagemap
  BY NullFacts DEF RouteInv, GlobalTypes
<1>3. c.out = Null /\ (c.p \notin pagemap \/ (c.fn = "free" /\ c.at \in {"route", "managed", "unmanaged"}))
          => \A a \in pagemap : Holds(c, a) <=> a = Null
  BY <1>2 DEF Holds
<1>4. "libc" \in Labels /\ "validate" \in Labels /\ "managed" \in Labels /\ "unmanaged" \in Labels
  BY DEF Labels
<1>5. CASE FreeBootstrap(t)
  <2>1. At(t, "free", "enter") /\ Arg(t) \in Boots /\ Return(t, Null) /\ RecordKept
    BY <1>5 DEF FreeBootstrap, heapVars, RecordKept
  <2>2. stack[t] # <<>> /\ c.fn = "free" /\ c.p \in Boots /\ c.out = Null
    BY <1>1, <2>1
  <2> QED BY <1>0, <1>2, <1>3, <2>1, <2>2, ReturnQuietRecord
<1>6. CASE Preamble(t, "free")
  BY <1>6, PreambleRecord DEF Funs
<1>7. CASE FreeDirect(t)
  <2>1. At(t, "free", "direct") /\ RecordKept /\ (Goto(t, "libc") \/ Return(t, Null))
    BY <1>7 DEF FreeDirect, heapVars, RecordKept
  <2>2. stack[t] # <<>> /\ c.fn = "free" /\ c.at = "direct" /\ c.out = Null
    BY <1>1, <2>1
  <2>3. c.p \notin pagemap
    BY <1>0, <2>2, TopOwner
  <2>4. CASE Goto(t, "libc")
    BY <1>0, <1>4, <2>1, <2>2, <2>4, GotoRecord
  <2>5. CASE Return(t, Null)
    BY <1>0, <1>2, <1>3, <2>1, <2>2, <2>3, <2>5, ReturnQuietRecord
  <2> QED BY <2>1, <2>4, <2>5
<1>8. CASE FreeGate(t)
  <2>1. At(t, "free", "gate") /\ UNCHANGED <<shadow, pagemap>>
    BY <1>8 DEF FreeGate
  <2>2. stack[t] # <<>> /\ c.fn = "free" /\ c.at = "gate" /\ Arg(t) = c.p
    BY <1>1, <2>1
  <2>3. \/ (Goto(t, "libc") \/ Goto(t, "validate")) /\ dropped' = dropped
        \/ Return(t, Null) /\ dropped' = dropped \cup {c.p} /\ c.p \in pagemap
    BY <1>8, <2>2 DEF FreeGate, Managed
  <2>4. CASE (Goto(t, "libc") \/ Goto(t, "validate")) /\ dropped' = dropped
    <3>1. RecordKept
      BY <2>1, <2>4 DEF RecordKept
    <3> QED BY <1>0, <1>4, <2>2, <2>4, <3>1, GotoRecord
  <2>5. CASE Return(t, Null) /\ dropped' = dropped \cup {c.p} /\ c.p \in pagemap
    BY <1>0, <2>1, <2>5, DropRecord
  <2> QED BY <2>3, <2>4, <2>5
<1>9. CASE FreeRoute(t)
  <2>1. At(t, "free", "route") /\ RecordKept /\ (Goto(t, "managed") \/ Goto(t, "unmanaged"))
    BY <1>9 DEF FreeRoute, heapVars, RecordKept
  <2>2. CASE Goto(t, "managed")
    BY <1>0, <1>1, <1>4, <2>1, <2>2, GotoRecord
  <2>3. CASE Goto(t, "unmanaged")
    BY <1>0, <1>1, <1>4, <2>1, <2>3, GotoRecord
  <2> QED BY <2>1, <2>2, <2>3
<1>10. CASE FreeManaged(t)
  <2>1. At(t, "free", "managed") /\ RecordKept /\ Return(t, Null)
    BY <1>10 DEF FreeManaged, heapVars, RecordKept
  <2>2. stack[t] # <<>> /\ c.fn = "free" /\ c.at = "managed" /\ c.out = Null
    BY <1>1, <2>1
  <2> QED BY <1>0, <1>2, <1>3, <2>1, <2>2, ReturnQuietRecord
<1>11. CASE LibcFree(t)
  <2>1. /\ At(t, "free", "libc") \/ At(t, "free", "unmanaged")
        /\ owner[Arg(t)] = "libc" /\ RecordKept /\ Return(t, Null)
    BY <1>11 DEF LibcFree, LibcReleases, RecordKept
  <2>2. stack[t] # <<>> /\ c.fn = "free" /\ c.out = Null /\ Arg(t) = c.p
    BY <1>1, <2>1
  <2>3. c.p \notin pagemap
    BY <2>1, <2>2 DEF OwnerInv, SegmentsInv
  <2> QED BY <1>0, <1>2, <1>3, <2>1, <2>2, <2>3, ReturnQuietRecord
<1> QED BY <1>5, <1>6, <1>7, <1>8, <1>9, <1>10, <1>11, ValidateFreeRecord DEF Free

\* libc's realloc handles no managed chunk, but gets some once the destructor
\* has begun, and aborts.
LEMMA LibcReallocRecord ==
    ASSUME RouteInv, OwnerInv, RecordInv, NEW t \in Threads, LibcRealloc(t)
    PROVE  RecordInv'
<1>0. PICK c : c = stack[t][1]
  OBVIOUS
<1>1. At(t, "realloc", "libc") /\ RecordKept
  BY DEF LibcRealloc, RecordKept
<1>2. /\ stack[t] # <<>> /\ c.fn = "realloc" /\ c.at = "libc" /\ c.out = Null /\ Arg(t) = c.p
      /\ c.p \in Ptrs /\ Null \in Ptrs /\ Null \notin pagemap
  BY <1>0, <1>1, AtFacts, NullFacts DEF FrameShape, Arg
<1>3. PICK v \in Ptrs : Return(t, v) /\ v \notin pagemap /\ c.p \notin pagemap
  <2>1. \A a \in Addrs : owner[a] = "none" => a \notin pagemap /\ a \in Ptrs
    BY MineFresh DEF Ptrs
  <2>2. \A a \in pagemap : owner[a] # "libc"
    BY DEF OwnerInv, SegmentsInv
  <2>3. CASE \E a \in Addrs : c.p = Null /\ LibcTakes(a) /\ Return(t, a)
    BY <1>2, <2>1, <2>3 DEF LibcTakes
  <2>4. CASE LibcReleases(c.p) /\ Return(t, Null)
    BY <1>2, <2>2, <2>4 DEF LibcReleases
  <2>5. CASE owner[c.p] = "libc" /\ Return(t, c.p)
    BY <1>2, <2>2, <2>5
  <2>6. CASE \E a \in Addrs : owner[c.p] = "libc" /\ owner[a] = "none" /\ Return(t, a)
    BY <1>2, <2>1, <2>2, <2>6
  <2> QED BY <1>2, <2>3, <2>4, <2>5, <2>6 DEF LibcRealloc
<1>4. \A a \in pagemap : Holds(c, a) <=> a = v
  BY <1>2, <1>3 DEF Holds
<1> QED BY <1>0, <1>1, <1>2, <1>3, <1>4, ReturnQuietRecord

\* Every step of realloc keeps RecordInv.
LEMMA ReallocRecord ==
    ASSUME RouteInv, OwnerInv, RecordInv, NEW t \in Threads, Realloc(t)
    PROVE  RecordInv'
<1>0. PICK c : c = stack[t][1]
  OBVIOUS
<1>1. \A label : At(t, "realloc", label) =>
          /\ stack[t] # <<>> /\ c.fn = "realloc" /\ c.at = label /\ Arg(t) = c.p /\ c.p \in Ptrs /\ c.out \in Ptrs
          /\ label \notin {"copy", "done"} => c.out = Null
  BY <1>0, AtFacts DEF FrameShape, Arg
<1>2. Null \in Ptrs /\ Null \notin pagemap /\ \A b \in Boots : b \notin pagemap
  BY NullFacts
<1>3. "libc" \in Labels /\ "done" \in Labels /\ "copy" \in Labels
  BY DEF Labels
<1>4. "malloc" \in Funs \cup {"resolve"} /\ "free" \in Funs \cup {"resolve"}
  BY DEF Funs
<1>5. CASE ReallocBootstrap(t)
  <2>1. At(t, "realloc", "enter") /\ Arg(t) \in Boots /\ RecordKept /\ Call(t, "done", Frame("malloc", Null, FALSE))
    BY <1>5 DEF ReallocBootstrap, heapVars, RecordKept
  <2>2. stack[t] # <<>> /\ c.fn = "realloc" /\ c.at = "enter" /\ c.p \notin pagemap /\ c.out = Null
    BY <1>1, <1>2, <2>1
  <2> QED BY <1>0, <1>2, <1>3, <1>4, <2>1, <2>2, CallRecord
<1>6. CASE Preamble(t, "realloc")
  BY <1>6, PreambleRecord DEF Funs
<1>7. CASE ReallocDirect(t)
  <2>1. At(t, "realloc", "direct") /\ RecordKept
        /\ (Goto(t, "libc") \/ Return(t, Arg(t)) \/ (Arg(t) = Null /\ BootstrapAlloc(t)))
    BY <1>7 DEF ReallocDirect, heapVars, RecordKept
  <2>2. /\ stack[t] # <<>> /\ c.fn = "realloc" /\ c.at = "direct" /\ c.out = Null /\ Arg(t) = c.p
        /\ c.p \in Ptrs
    BY <1>1, <2>1
  <2>3. CASE Goto(t, "libc")
    BY <1>0, <1>3, <2>1, <2>2, <2>3, GotoRecord
  <2>4. CASE Return(t, Arg(t))
    <3>1. Return(t, c.p)
      BY <2>2, <2>4
    <3>2. \A a \in pagemap : Holds(c, a) <=> a = c.p
      BY <1>2, <2>2 DEF Holds
    <3> QED BY <1>0, <2>1, <2>2, <3>1, <3>2, ReturnQuietRecord
  <2>5. CASE Arg(t) = Null /\ BootstrapAlloc(t)
    BY <1>0, <2>1, <2>2, <2>5, BootstrapRecord
  <2> QED BY <2>1, <2>3, <2>4, <2>5
<1>8. CASE ReallocGate(t)
  <2>1. At(t, "realloc", "gate") /\ RecordKept
    BY <1>8 DEF ReallocGate, heapVars, RecordKept
  <2>2. /\ stack[t] # <<>> /\ c.fn = "realloc" /\ c.at = "gate" /\ c.out = Null /\ Arg(t) = c.p
        /\ c.p \in Ptrs
    BY <1>1, <2>1
  <2>3. \/ Goto(t, "libc")
        \/ c.p = Null /\ Call(t, "done", Frame("malloc", Null, FALSE))
        \/ Call(t, "done", Frame("free", c.p, FALSE))
        \/ Call(t, "copy", Frame("malloc", Null, FALSE))
    BY <1>8, <2>2 DEF ReallocGate
  <2>4. CASE Goto(t, "libc")
    BY <1>0, <1>3, <2>1, <2>2, <2>4, GotoRecord
  <2>5. CASE c.p = Null /\ Call(t, "done", Frame("malloc", Null, FALSE))
    BY <1>0, <1>2, <1>3, <1>4, <2>1, <2>2, <2>5, CallRecord
  <2>6. CASE Call(t, "done", Frame("free", c.p, FALSE))
    BY <1>0, <1>2, <1>3, <1>4, <2>1, <2>2, <2>6, CallRecord
  <2>7. CASE Call(t, "copy", Frame("malloc", Null, FALSE))
    BY <1>0, <1>2, <1>3, <1>4, <2>1, <2>2, <2>7, CallRecord
  <2> QED BY <2>3, <2>4, <2>5, <2>6, <2>7
<1>9. CASE ReallocCopy(t)
  <2>1. At(t, "realloc", "copy") /\ RecordKept /\ Call(t, "done", Frame("free", Arg(t), FALSE))
    BY <1>9 DEF ReallocCopy, heapVars, RecordKept
  <2>2. /\ stack[t] # <<>> /\ c.fn = "realloc" /\ c.at = "copy" /\ Arg(t) = c.p /\ c.p \in Ptrs
    BY <1>1, <2>1
  <2>3. Call(t, "done", Frame("free", c.p, FALSE))
    BY <2>1, <2>2
  <2> QED BY <1>0, <1>3, <1>4, <2>1, <2>2, <2>3, CallRecord
<1>10. CASE ReallocDone(t)
  <2>1. At(t, "realloc", "done") /\ RecordKept /\ Return(t, c.out)
    BY <1>0, <1>10 DEF ReallocDone, heapVars, RecordKept
  <2>2. stack[t] # <<>> /\ c.fn = "realloc" /\ c.at = "done" /\ c.out \in Ptrs
    BY <1>1, <2>1
  <2>3. \A a \in pagemap : Holds(c, a) <=> a = c.out
    BY <2>2 DEF Holds
  <2> QED BY <1>0, <2>1, <2>2, <2>3, ReturnQuietRecord
<1> QED BY <1>5, <1>6, <1>7, <1>8, <1>9, <1>10, LibcReallocRecord DEF Realloc

\* tbjit_init holds nothing.
LEMMA InitStepRecord ==
    ASSUME RouteInv, RecordInv, NEW t \in Threads, InitBegin(t) \/ InitEnd(t)
    PROVE  RecordInv'
<1>0. PICK c : c = stack[t][1]
  OBVIOUS
<1>1. Null \in Ptrs /\ Null \notin pagemap /\ Null \notin Addrs
  BY NullFacts
<1>2. CASE InitBegin(t)
  <2>1. PICK f : f = Frame("init", Null, FALSE)
    OBVIOUS
  <2>2. PICK g : g = Frame("resolve", Null, FALSE)
    OBVIOUS
  <2>3. f \in Frames /\ f.fn = "init" /\ f.p = Null /\ f.out = Null
    BY <1>1, <2>1, NewFrame
  <2>4. g \in Frames /\ g.fn = "resolve" /\ g.p = Null /\ g.out = Null
    BY <1>1, <2>2, NewFrame
  <2>5. stack[t] = <<>> /\ stack' = [stack EXCEPT ![t] = <<g, f>>] /\ held' = held /\ RecordKept
    BY <1>2, <2>1, <2>2 DEF InitBegin, heapVars, RecordKept
  <2>6. PICK e \in Seq(Frames) : e = <<>> /\ Len(e) = 0
    <3>1. << >> \in Seq(Frames) /\ Len(<< >>) = 0
      BY EmptySeq
    <3> QED BY <3>1, Zenon
  <2>7. PICK u \in Seq(Frames) : u = <<f>> \o e
    BY <2>3, UpPush
  <2>8. PICK r : r = <<g>> \o u
    OBVIOUS
  <2>9. u = <<f>> /\ r = <<g, f>>
    <3>1. <<f>> \in Seq(Frames) /\ e = << >>
      BY <2>3, <2>6
    <3>2. u = <<f>>
      BY <2>6, <2>7, <3>1, ConcatEmptySeq, Zenon
    <3>3. <<g>> \o <<f>> = <<g, f>>
      <4>1. <<g>> \in Seq(Frames) /\ <<f>> \in Seq(Frames) /\ <<g, f>> \in Seq(Frames)
        BY <2>3, <2>4
      <4>2. PICK x \in Seq(Frames) : x = <<g>> \o <<f>>
        BY <4>1, ConcatProperties
      <4>3. Len(x) = 2 /\ x[1] = g /\ x[2] = f
        BY <4>1, <4>2
      <4>4. PICK y \in Seq(Frames) : y = <<g, f>> /\ Len(y) = 2 /\ y[1] = g /\ y[2] = f
        BY <4>1
      <4>5. \A i \in 1..Len(x) : x[i] = y[i]
        BY <4>3, <4>4
      <4>6. x = y
        BY <4>3, <4>4, <4>5, SeqEqual
      <4> QED BY <4>2, <4>4, <4>6
    <3> QED BY <2>8, <3>2, <3>3, Zenon
  <2>10. Fresh(e) /\ \A a : ~Keeps(e, a)
    BY <2>6 DEF Fresh, Keeps, Calls
  <2>11. Fresh(u) /\ \A a : Keeps(u, a) <=> Holds(f, a) \/ Keeps(e, a)
    BY <2>3, <2>6, <2>7, <2>10, FreshPush, KeepsPush
  <2>12. FreshPair(u[1], g)
    BY <2>4 DEF FreshPair
  <2>13. Fresh(r)
    BY <2>4, <2>8, <2>11, <2>12, FreshPush
  <2>14. \A a : Keeps(r, a) <=> Holds(g, a) \/ Keeps(u, a)
    BY <2>4, <2>8, KeepsPush
  <2>15. \A a \in pagemap : ~Holds(g, a) /\ ~Holds(f, a)
    BY <1>1, <2>3, <2>4 DEF Holds
  <2>16. \A a : ~Keeps(stack[t], a)
    BY <2>5, <2>6, <2>10
  <2>17. shadow' = shadow /\ pagemap' = pagemap /\ dropped' = dropped /\ shadow' \in Tables /\ Exact(shadow')
    BY <2>5 DEF RecordKept, RecordInv, RecordOK
  <2>18. ASSUME NEW a \in pagemap
         PROVE  Has(held', dropped', r, a) <=> Has(held, dropped, stack[t], a)
    BY <2>5, <2>10, <2>11, <2>14, <2>15, <2>16, <2>17 DEF Has
  <2>19. stack' = [stack EXCEPT ![t] = r]
    BY <2>5, <2>9
  <2> QED BY <1>1, <2>13, <2>17, <2>18, <2>19, RecordStep
<1>3. CASE InitEnd(t)
  <2>1. At(t, "init", "enter") /\ Return(t, Null) /\ RecordKept
    BY <1>3 DEF InitEnd, heapVars, RecordKept
  <2>2. stack[t] # <<>> /\ c.fn = "init" /\ c.p = Null /\ c.out = Null
    BY <1>0, <2>1, AtFacts DEF FrameShape, Funs
  <2>3. \A a \in pagemap : Holds(c, a) <=> a = Null
    BY <1>1, <2>2 DEF Holds
  <2> QED BY <1>0, <1>1, <2>1, <2>2, <2>3, ReturnQuietRecord
<1> QED BY <1>2, <1>3

\* The reaper takes a segment whose chunk is not on record.
LEMMA LifeRecord ==
    ASSUME RouteInv, RecordInv,
           FiniBegin \/ FiniEnd \/ ReapUnmap \/ (\E a \in Addrs : ReapUnregister(a)) \/ UNCHANGED vars
    PROVE  RecordInv'
<1>1. UNCHANGED <<stack, held, dropped, shadow>>
  BY DEF FiniBegin, FiniEnd, ReapUnmap, ReapUnregister, heapVars, vars
<1>2. CASE pagemap' = pagemap
  BY <1>1, <1>2 DEF RecordInv
<1>3. ASSUME NEW a \in Addrs, ReapUnregister(a) PROVE RecordInv'
  <2>1. a \notin InUse /\ pagemap' = pagemap \ {a}
    BY <1>3 DEF ReapUnregister
  <2>2. /\ ~OnRecord(shadow, a) /\ a \notin held /\ a \notin dropped
        /\ \A u \in Threads : ~Keeps(stack[u], a)
    BY <2>1, UnusedRecord
  <2>3. PICK M : M = pagemap \ {a}
    OBVIOUS
  <2>4. RecordOK(shadow, M, held, dropped, stack)
    BY <2>2, <2>3 DEF RecordInv, RecordOK
  <2> QED BY <1>1, <2>1, <2>3, <2>4 DEF RecordInv
<1>4. FiniBegin \/ FiniEnd \/ ReapUnmap \/ UNCHANGED vars => pagemap' = pagemap
  BY DEF FiniBegin, FiniEnd, ReapUnmap, heapVars, vars
<1> QED BY <1>2, <1>3, <1>4

\* Every step keeps RecordInv.
LEMMA RecordInductive ==
    ASSUME RouteInv, OwnerInv, RecordInv, [Next]_vars
    PROVE  RecordInv'
<1>1. ASSUME NEW t \in Threads, Program(t) PROVE RecordInv'
  <2>1. stack[t] = <<>> /\ Enters(t) /\ RecordKept
    BY <1>1 DEF Program, heapVars, RecordKept
  <2> QED BY <2>1, EntersRecord
<1>2. CASE Next
  BY <1>1, <1>2, InitStepRecord, ResolveRecord, MallocRecord, FreeRecord, ReallocRecord, LifeRecord DEF Next
<1>3. CASE UNCHANGED vars
  BY <1>3, LifeRecord
<1> QED BY <1>2, <1>3

\* RecordInv holds when the library has been loaded ...
LEMMA RecordInit == Init => RecordInv
<1> SUFFICES ASSUME Init PROVE RecordInv
  OBVIOUS
<1>1. /\ pagemap = {} /\ \A s \in Slots : shadow[s] = Null
      /\ \A t \in Threads : stack[t] = <<>>
  BY DEF Init, EmptyTable
<1>2. shadow \in Tables
  BY DEF Init, EmptyTable, Tables
<1>3. Exact(shadow)
  BY <1>1 DEF Exact
<1>4. \A t \in Threads : Fresh(stack[t])
  BY <1>1 DEF Fresh
<1>5. \A a \in Addrs : ~OnRecord(shadow, a)
  BY <1>1, SlotFacts DEF OnRecord
<1> QED BY <1>1, <1>2, <1>3, <1>4, <1>5 DEF RecordInv, RecordOK

\* ... and always, with the two invariants above.
LEMMA RecordAlways == Spec => [](RouteInv /\ OwnerInv /\ RecordInv)
<1>1. Init => RouteInv /\ OwnerInv /\ RecordInv
  BY RouteInit, OwnerInit, RecordInit
<1>2. RouteInv /\ OwnerInv /\ RecordInv /\ [Next]_vars => (RouteInv /\ OwnerInv /\ RecordInv)'
  BY RouteInductive, OwnerInductive, RecordInductive
<1> QED BY <1>1, <1>2, PTL DEF Spec

\* Every variable holds a value of its type; that the validator's table does
\* needs the whole invariant, as a removal re-inserts what it finds.
THEOREM TypesAlwaysOK == Spec => []TypeOK
<1>1. RouteInv /\ OwnerInv /\ RecordInv => TypeOK
  BY DEF RouteInv, GlobalTypes, StackTypes, RecordInv, RecordOK, Tables, TypeOK
<1> QED BY <1>1, RecordAlways, PTL

\* The invariants imply what the validator promises.
LEMMA RecordTrue ==
    ASSUME RouteInv, OwnerInv, RecordInv
    PROVE  ShadowExact
<1>1. shadow \in Tables /\ Exact(shadow)
  BY DEF RecordInv, RecordOK
<1>2. \A a \in Addrs : OnRecord(shadow, a) <=>
          a \in pagemap /\ (a \in held \/ a \in dropped \/ \E u \in Threads : Keeps(stack[u], a))
  BY DEF RecordInv, RecordOK
<1>3. pagemap \subseteq Addrs /\ Null \notin pagemap
  BY NullFacts DEF RouteInv, GlobalTypes
<1>4. ASSUME NEW t \in Threads, At(t, "malloc", "validate"), Managed(stack[t][1].out)
      PROVE  ~Recorded(shadow, stack[t][1].out)
  <2>1. PICK c : c = stack[t][1]
    OBVIOUS
  <2>2. stack[t] # <<>> /\ c.fn = "malloc" /\ c.p = Null
    BY <1>4, <2>1, AtFacts DEF FrameShape
  <2>3. PICK a \in Addrs : a = c.out /\ a \in pagemap
    BY <1>3, <1>4, <2>1 DEF Managed
  <2>4. Mine(t, a)
    BY <2>1, <2>2, <2>3, MineTop DEF Uses
  <2>5. /\ a \notin held /\ a \notin dropped /\ ~Keeps(Tail(stack[t]), a)
        /\ \A u \in Threads \ {t} : ~Keeps(stack[u], a)
    BY <2>2, <2>4, MineKept
  <2>6. ~Holds(c, a)
    BY <1>3, <2>2, <2>3 DEF Holds
  <2>7. ~Keeps(stack[t], a)
    BY <2>1, <2>2, <2>5, <2>6, FreshTop
  <2>8. ~OnRecord(shadow, a)
    BY <1>2, <2>5, <2>7
  <2> QED BY <1>1, <2>1, <2>3, <2>8, ExactFacts
<1>5. ASSUME NEW t \in Threads, At(t, "free", "validate"), Managed(Arg(t))
      PROVE  Recorded(shadow, Arg(t))
  <2>1. PICK c : c = stack[t][1]
    OBVIOUS
  <2>2. stack[t] # <<>> /\ c.fn = "free" /\ c.at = "validate"
    BY <1>5, <2>1, AtFacts
  <2>3. PICK a \in Addrs : a = c.p /\ a \in pagemap /\ a = Arg(t)
    BY <1>3, <1>5, <2>1 DEF Managed, Arg
  <2>4. Keeps(stack[t], a)
    BY <2>1, <2>2, <2>3, FreshTop DEF Holds
  <2>5. OnRecord(shadow, a)
    BY <1>2, <2>3, <2>4
  <2> QED BY <1>1, <2>3, <2>5, ExactFacts
<1>6. ASSUME NEW i \in Slots, shadow[i] # Null
      PROVE  /\ SlotOf(shadow, shadow[i]) = i
             /\ Managed(shadow[i]) /\ shadow[i] \in InUse
  <2>1. PICK a : a = shadow[i]
    OBVIOUS
  <2>2. a \in Addrs /\ OnRecord(shadow, a)
    BY <1>1, <1>6, <2>1, ExactFacts DEF OnRecord
  <2>3. a \in pagemap
    BY <1>2, <2>2
  <2>4. a \in InUse
    BY <2>2, UnusedRecord
  <2> QED BY <1>1, <1>6, <2>1, <2>3, <2>4 DEF Exact, Managed
<1>7. ASSUME NEW a \in held, Managed(a) PROVE Recorded(shadow, a)
  BY <1>1, <1>2, <1>3, <1>7, ExactFacts DEF Managed
<1> QED BY <1>4, <1>5, <1>6, <1>7 DEF ShadowExact

\* No DUP is reported falsely and none is overlooked, and no entry outlives its
\* chunk, however calls of several threads interleave, whatever was removed from
\* the table before, and although frees are ignored once the destructor has
\* begun. The table's size and hash are arbitrary.
THEOREM ShadowAlwaysExact == Spec => []ShadowExact
<1>1. RouteInv /\ OwnerInv /\ RecordInv => ShadowExact
  BY RecordTrue
<1> QED BY <1>1, RecordAlways, PTL
=============================================================================
