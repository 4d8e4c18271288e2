-------------------------- MODULE GxfpTrace_proofs --------------------------
(***************************************************************************)
(* The trace ring implements LastLines for any size of the ring, any range *)
(* of sequence numbers and any set of threads.                             *)
(***************************************************************************)
EXTENDS GxfpTrace, SequenceTheorems, TLAPS

Record == [seq : Nat, head : Slots, count : 0..RingSize]

Typed ==
  /\ seq \in Nat
  /\ head \in 0..(RingSize - 1) /\ count \in 0..RingSize
  /\ lines \in [0..(RingSize - 1) -> Nat]
  /\ loaded \in [Threads -> Record]

\* While the ring is not torn, the lock keeps every other thread out.
Alone ==
  /\ raced \subseteq inside
  /\ ~torn => /\ raced = {}
              /\ inside # {} => lock
              /\ \A t, u \in inside : t = u

\* The slot of the i-th oldest of c lines, when h is written next.
Slot(h, c, i) == IF c < h + i THEN h + i - 1 - c ELSE h + i - 1 - c + RingSize

---------------------------------------------------------------------------
\* Arithmetic of the ring.

\* An index that went once past the end of the ring.
LEMMA Wrapped ==
  ASSUME NEW x \in Nat, x < 2 * RingSize
  PROVE  x % RingSize = IF x < RingSize THEN x ELSE x - RingSize
<1>1. RingSize \in Nat /\ RingSize > 0
  BY TraceAssumption
<1> QED
  BY <1>1

\* Where a dump finds a line.
LEMMA DumpSlot ==
  ASSUME NEW h \in 0..(RingSize - 1), NEW c \in 0..RingSize, NEW i \in 1..c
  PROVE  /\ (((h + RingSize - c) % RingSize) + i - 1) % RingSize = Slot(h, c, i)
         /\ Slot(h, c, i) \in 0..(RingSize - 1)
<1> DEFINE s == (h + RingSize - c) % RingSize
<1>1. RingSize \in Nat /\ RingSize > 0
  BY TraceAssumption
<1>2. s = IF h < c THEN h + RingSize - c ELSE h - c
  <2>1. h + RingSize - c \in Nat /\ h + RingSize - c < 2 * RingSize
    BY <1>1
  <2> QED
    BY <1>1, <2>1, Wrapped
<1> HIDE DEF s
<1>3. s + i - 1 \in Nat /\ s + i - 1 < 2 * RingSize
  BY <1>1, <1>2
<1>4. (s + i - 1) % RingSize = IF s + i - 1 < RingSize THEN s + i - 1 ELSE (s + i - 1) - RingSize
  <2> DEFINE x == s + i - 1
  <2>1. x \in Nat /\ x < 2 * RingSize
    BY <1>3
  <2> HIDE DEF x
  <2>2. x % RingSize = IF x < RingSize THEN x ELSE x - RingSize
    BY <2>1, Wrapped
  <2> QED
    BY <2>2, Zenon DEF x
<1>5. (s + i - 1) % RingSize = Slot(h, c, i) /\ Slot(h, c, i) \in 0..(RingSize - 1)
  BY <1>1, <1>2, <1>4 DEF Slot
<1> QED
  BY <1>5 DEF s

\* The lines a dump shows.
LEMMA Dump ==
  ASSUME NEW h \in 0..(RingSize - 1), NEW c \in 0..RingSize, NEW l
  PROVE  [i \in 1..c |-> l[(((h + RingSize - c) % RingSize) + i - 1) % RingSize]]
           = [i \in 1..c |-> l[Slot(h, c, i)]]
<1>1. \A i \in 1..c :
        (((h + RingSize - c) % RingSize) + i - 1) % RingSize = Slot(h, c, i)
  BY DumpSlot
<1> QED
  BY <1>1, Zenon

---------------------------------------------------------------------------
\* The steps.

\* What the fields are counted up to.
LEMMA Counted ==
  /\ \A x \in Nat : NextSeq(x) \in Nat
  /\ \A x \in Slots : NextHead(x) \in Slots
  /\ \A x \in 0..RingSize : NextCount(x) \in 0..RingSize
<1>1. \A x \in Nat : NextSeq(x) \in Nat
  BY TraceAssumption DEF NextSeq
<1>2. \A x \in Slots : NextHead(x) \in Slots
  BY TraceAssumption DEF NextHead, Slots
<1>3. \A x \in 0..RingSize : NextCount(x) \in 0..RingSize
  BY TraceAssumption DEF NextCount
<1> QED
  BY <1>1, <1>2, <1>3

\* A push that races leaves the fields in their ranges.
LEMMA RacedStep ==
  ASSUME Typed, NEW old \in Record, PushRaced(old)
  PROVE  /\ seq' \in Nat /\ head' \in Slots /\ count' \in 0..RingSize
         /\ lines' \in [Slots -> Nat]
<1>1. old.seq \in Nat /\ old.head \in Slots /\ old.count \in 0..RingSize
  BY DEF Record
<1>2. /\ seq \in Nat /\ head \in Slots /\ count \in 0..RingSize
      /\ lines \in [Slots -> Nat]
  BY DEF Typed, Slots
<1>3. seq' \in Nat
  BY <1>1, <1>2, Counted, Zenon DEF PushRaced
<1>4. head' \in Slots
  BY <1>1, <1>2, Counted, Zenon DEF PushRaced
<1>5. count' \in 0..RingSize
  BY <1>1, <1>2, Counted, Zenon DEF PushRaced
<1>6. lines' \in [Slots -> Nat]
  <2>1. NextSeq(seq) \in Nat /\ NextSeq(old.seq) \in Nat
    BY <1>1, <1>2, Counted, Zenon
  <2>2. PICK i \in {head, old.head} :
          lines' \in {lines, [lines EXCEPT ![i] = NextSeq(seq)],
                      [lines EXCEPT ![i] = NextSeq(old.seq)]}
    BY Zenon DEF PushRaced
  <2> QED
    BY <1>2, <2>1, <2>2
<1> QED
  BY <1>3, <1>4, <1>5, <1>6

\* Types are kept.
LEMMA TypeStep ==
  ASSUME Typed, [Next]_vars
  PROVE  Typed'
<1>1. Zero \in Record /\ Fields \in Record
  BY TraceAssumption DEF Zero, Fields, Record, Slots, Typed
<1>2. ASSUME NEW t \in Threads, gxfp_trace_logf(t)
      PROVE  Typed'
  <2>1. loaded' \in [Threads -> Record]
    BY <1>1, <1>2 DEF gxfp_trace_logf, Typed
  <2>2. CASE t \in raced
    <3>1. loaded[t] \in Record
      BY DEF Typed
    <3>2. PushRaced(loaded[t])
      BY <1>2, <2>2 DEF gxfp_trace_logf
    <3> QED
      BY <2>1, <3>1, <3>2, RacedStep DEF Typed, Slots
  <2>3. CASE t \notin raced
    <3>1. seq' = NextSeq(seq) /\ gxfp_trace_push_locked(seq')
      BY <1>2, <2>3 DEF gxfp_trace_logf
    <3>2. seq' \in Nat /\ head' \in 0..(RingSize - 1) /\ count' \in 0..RingSize
      BY <3>1, Counted DEF gxfp_trace_push_locked, Typed, Slots
    <3>3. lines' \in [0..(RingSize - 1) -> Nat]
      BY <3>1, <3>2 DEF gxfp_trace_push_locked, Typed
    <3> QED
      BY <2>1, <3>2, <3>3 DEF Typed
  <2> QED
    BY <2>2, <2>3
<1>3. ASSUME NEW t \in Threads, LogLock(t)
      PROVE  Typed'
  BY <1>1, <1>3 DEF LogLock, ringVars, Typed
<1>4. CASE gxfp_trace_clear \/ MemsetRing
  BY <1>4, TraceAssumption DEF gxfp_trace_clear, MemsetRing, StageGoto, Slots, Typed
<1>5. CASE UNCHANGED <<ringVars, loaded>>
  BY <1>5 DEF ringVars, Typed
<1> QED
  BY <1>2, <1>3, <1>4, <1>5 DEF Next, LogCheck, trace_enable, gxfp_trace_init, MemsetLock,
     InitLock, InitDone, StageGoto, gxfp_trace_exit, ringVars, lockVars, vars

\* The history is a Boolean.
LEMMA TornStep ==
  ASSUME torn \in BOOLEAN, [Next]_vars
  PROVE  torn' \in BOOLEAN
<1>1. CASE UNCHANGED torn
  BY <1>1
<1>2. CASE gxfp_trace_clear
  BY <1>2, Zenon DEF gxfp_trace_clear
<1>3. CASE MemsetLock \/ InitLock
  BY <1>3, Zenon DEF MemsetLock, InitLock
<1>4. CASE MemsetRing
  BY <1>4, Zenon DEF MemsetRing
<1> QED
  BY <1>1, <1>2, <1>3, <1>4 DEF Next, LogCheck, LogLock, gxfp_trace_logf, trace_enable,
     gxfp_trace_init, InitDone, gxfp_trace_exit, vars

\* A thread stays alone with the ring until it is initialised under it.
LEMMA AloneStep ==
  ASSUME Alone, [Next]_vars
  PROVE  Alone'
<1>1. ASSUME NEW t \in Threads, LogLock(t)
      PROVE  Alone'
  BY <1>1 DEF LogLock, Alone
<1>2. ASSUME NEW t \in Threads, gxfp_trace_logf(t)
      PROVE  Alone'
  BY <1>2 DEF gxfp_trace_logf, Alone
<1>3. CASE gxfp_trace_clear
  BY <1>3 DEF gxfp_trace_clear, Alone
<1>4. CASE gxfp_trace_init
  BY <1>4 DEF gxfp_trace_init, MemsetLock, MemsetRing, InitLock, InitDone, StageGoto, Alone
<1>5. CASE UNCHANGED <<lock, inside, raced, torn>>
  BY <1>5 DEF Alone
<1> QED
  BY <1>1, <1>2, <1>3, <1>4, <1>5 DEF Next, LogCheck, trace_enable, gxfp_trace_exit, StageGoto,
     lockVars, vars

\* A line that is pushed is the last one of the next dump.
LEMMA PushShown ==
  ASSUME Typed, Typed', gxfp_trace_push_locked(seq')
  PROVE  gxfp_trace_dump_show' = Promise!Latest(Append(gxfp_trace_dump_show, seq'))
<1> DEFINE d == gxfp_trace_dump_show
           n == seq'
<1>1. RingSize \in Nat /\ RingSize > 0
  BY TraceAssumption
<1>2. /\ d = [i \in 1..count |-> lines[Slot(head, count, i)]]
      /\ d' = [i \in 1..count' |-> lines'[Slot(head', count', i)]]
  <2>1. /\ head \in 0..(RingSize - 1) /\ count \in 0..RingSize
        /\ head' \in 0..(RingSize - 1) /\ count' \in 0..RingSize
    BY DEF Typed
  <2>2. [i \in 1..count |-> lines[(((head + RingSize - count) % RingSize) + i - 1) % RingSize]]
          = [i \in 1..count |-> lines[Slot(head, count, i)]]
    BY <2>1, Dump
  <2>3. [i \in 1..count' |-> lines'[(((head' + RingSize - count') % RingSize) + i - 1) % RingSize]]
          = [i \in 1..count' |-> lines'[Slot(head', count', i)]]
    BY <2>1, Dump
  <2> QED
    BY <2>2, <2>3, Zenon DEF gxfp_trace_dump_show
<1>3. /\ \A i \in 1..count : Slot(head, count, i) \in 0..(RingSize - 1)
      /\ \A i \in 1..count' : Slot(head', count', i) \in 0..(RingSize - 1)
  BY DumpSlot, Zenon DEF Typed
<1>4. /\ \A i \in 1..count : lines[Slot(head, count, i)] \in Nat
      /\ \A i \in 1..count' : lines'[Slot(head', count', i)] \in Nat
  BY <1>3, Zenon DEF Typed
<1>5. /\ d \in Seq(Nat) /\ Len(d) = count /\ n \in Nat
      /\ d' \in Seq(Nat) /\ Len(d') = count'
  <2>1. count \in Nat /\ count' \in Nat /\ n \in Nat
    BY <1>1 DEF Typed
  <2>2. d \in [1..count -> Nat] /\ d' \in [1..count' -> Nat]
    BY <1>2, <1>4, Zenon
  <2> HIDE DEF d, n
  <2> QED
    BY <2>1, <2>2
<1>6. head' = IF head + 1 = RingSize THEN 0 ELSE head + 1
  <2>1. head + 1 \in Nat /\ head + 1 < 2 * RingSize
    BY <1>1 DEF Typed
  <2> QED
    BY <1>1, <2>1, Wrapped DEF gxfp_trace_push_locked, NextHead, Typed
<1>7. \A j \in 0..(RingSize - 1) : lines'[j] = IF j = head THEN n ELSE lines[j]
  BY DEF gxfp_trace_push_locked, Typed
<1> HIDE DEF d, n
<1>8. CASE count < RingSize
  <2>1. count' = count + 1
    BY <1>8 DEF gxfp_trace_push_locked, NextCount
  <2>2. \A i \in 1..count : Slot(head', count', i) = Slot(head, count, i) /\ Slot(head, count, i) # head
    BY <1>1, <1>6, <1>8, <2>1 DEF Slot, Typed
  <2>3. Slot(head', count', count + 1) = head
    BY <1>1, <1>6, <2>1 DEF Slot, Typed
  <2>4. \A i \in 1..count : d'[i] = d[i]
    BY <1>2, <1>3, <1>7, <2>1, <2>2, SMTT(30) DEF Typed
  <2>5. d'[count + 1] = n
    BY <1>2, <1>7, <2>1, <2>3 DEF Typed
  <2>6. /\ Append(d, n) \in Seq(Nat) /\ Len(Append(d, n)) = count + 1
        /\ \A i \in 1..(count + 1) : Append(d, n)[i] = IF i = count + 1 THEN n ELSE d[i]
    BY <1>5
  <2>7. d' = Append(d, n)
    <3>1. \A i \in 1..(count + 1) : i = count + 1 \/ i \in 1..count
      BY DEF Typed
    <3>2. \A i \in 1..Len(d') : d'[i] = Append(d, n)[i]
      BY <1>5, <2>1, <2>4, <2>5, <2>6, <3>1
    <3> QED
      BY <1>5, <2>1, <2>6, <3>2, SeqEqual
  <2>8. ~(Len(Append(d, n)) > RingSize)
    BY <1>1, <1>5, <1>8 DEF Typed
  <2> QED
    BY <2>7, <2>8 DEF Promise!Latest, d, n
<1>9. CASE count = RingSize
  <2>1. count' = RingSize
    BY <1>1, <1>9 DEF gxfp_trace_push_locked, NextCount
  <2>2. \A i \in 1..(RingSize - 1) : /\ Slot(head', count', i) = Slot(head, count, i + 1)
                                     /\ Slot(head, count, i + 1) # head
    BY <1>1, <1>6, <1>9, <2>1 DEF Slot, Typed
  <2>3. Slot(head', count', RingSize) = head
    BY <1>1, <1>6, <2>1 DEF Slot, Typed
  <2>4. \A i \in 1..(RingSize - 1) : d'[i] = d[i + 1]
    BY <1>1, <1>2, <1>3, <1>7, <1>9, <2>1, <2>2, SMTT(30)
  <2>5. d'[RingSize] = n
    BY <1>1, <1>2, <1>7, <2>1, <2>3 DEF Typed
  <2>6. /\ Len(Append(d, n)) = RingSize + 1
        /\ \A i \in 1..(RingSize + 1) : Append(d, n)[i] = IF i = RingSize + 1 THEN n ELSE d[i]
        /\ Append(d, n) \in Seq(Nat)
    BY <1>1, <1>5, <1>9
  <2>7. /\ Tail(Append(d, n)) \in Seq(Nat) /\ Len(Tail(Append(d, n))) = RingSize
        /\ \A i \in 1..RingSize : Tail(Append(d, n))[i] = Append(d, n)[i + 1]
    BY <1>1, <2>6
  <2>8. d' = Tail(Append(d, n))
    <3>1. \A i \in 1..RingSize : /\ i = RingSize \/ i \in 1..(RingSize - 1)
                                 /\ i + 1 \in 1..(RingSize + 1)
      BY <1>1
    <3>2. \A i \in 1..Len(d') : d'[i] = Tail(Append(d, n))[i]
      BY <1>1, <1>5, <2>1, <2>4, <2>5, <2>6, <2>7, <3>1
    <3> QED
      BY <1>5, <2>1, <2>7, <3>2, SeqEqual, Zenon
  <2>9. Len(Append(d, n)) > RingSize
    BY <1>1, <2>6
  <2> QED
    BY <2>8, <2>9 DEF Promise!Latest, d, n
<1> QED
  BY <1>8, <1>9, <1>1 DEF Typed

\* An empty ring shows nothing.
LEMMA EmptyDump == count = 0 => gxfp_trace_dump_show = <<>>
  BY DEF gxfp_trace_dump_show

\* The ring implements the promise: every dump, at any moment, shows the last
\* lines since the last clear, with none missing, whatever threads, clears and
\* rebindings do and wherever the ring has wrapped around, except after
\* gxfp_trace_init() ran under a thread that held the lock, and then until the
\* ring is cleared or initialised with no thread there.
THEOREM RingImplementsLastLines == Spec => DumpShowsLastLines
<1> DEFINE IInv == Typed /\ Alone /\ torn \in BOOLEAN
<1>1. Init => IInv
  <2>1. Init => Typed /\ Alone
    BY TraceAssumption DEF Init, Typed, Alone, Zero, Record, Slots
  <2>2. Init => torn \in BOOLEAN
    BY DEF Init
  <2> QED
    BY <2>1, <2>2
<1>2. IInv /\ [Next]_vars => IInv'
  BY TypeStep, AloneStep, TornStep
<1>3. Init => Promise!Init
  BY EmptyDump DEF Init, Promise!Init
<1>4. ASSUME IInv, IInv', [Next]_vars
      PROVE  [Promise!Log \/ Promise!Clear \/ Promise!Restart \/ Promise!Spoil]_
               <<seq, gxfp_trace_dump_show, torn>>
  <2>1. CASE torn'
    BY <2>1 DEF Promise!Spoil
  <2>2. ASSUME ~torn', NEW t \in Threads, gxfp_trace_logf(t)
        PROVE  Promise!Log
    <3>1. ~torn /\ t \notin raced
      BY <1>4, <2>2 DEF gxfp_trace_logf, Alone
    <3>2. seq' = (seq + 1) % SeqMod /\ gxfp_trace_push_locked(seq')
      BY <2>2, <3>1 DEF gxfp_trace_logf, NextSeq
    <3> QED
      BY <1>4, <2>2, <3>1, <3>2, PushShown DEF Promise!Log
  <2>3. count' = 0 => gxfp_trace_dump_show' = <<>>
    BY DEF gxfp_trace_dump_show
  <2>4. CASE ~torn' /\ gxfp_trace_clear
    BY <2>3, <2>4 DEF gxfp_trace_clear, Promise!Clear
  <2>5. CASE ~torn' /\ MemsetRing
    BY <2>3, <2>5 DEF MemsetRing, Promise!Restart
  <2>6. CASE UNCHANGED <<ringVars, torn>>
    BY <2>6 DEF ringVars, gxfp_trace_dump_show
  <2>7. CASE ~torn' /\ (MemsetLock \/ InitLock)
    <3>1. torn' = torn
      BY <1>4, <2>7, Zenon DEF MemsetLock, InitLock
    <3> QED
      BY <2>7, <3>1 DEF MemsetLock, InitLock, ringVars, gxfp_trace_dump_show
  <2> QED
    BY <1>4, <2>1, <2>2, <2>4, <2>5, <2>6, <2>7 DEF Next, LogCheck, LogLock, trace_enable,
       gxfp_trace_init, InitDone, gxfp_trace_exit, ringVars, vars
<1> QED
  BY <1>1, <1>2, <1>3, <1>4, PTL DEF Spec, DumpShowsLastLines, Promise!Spec
=============================================================================
