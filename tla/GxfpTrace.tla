----------------------------- MODULE GxfpTrace ------------------------------
(***************************************************************************)
(* The trace ring of the kernel driver (kernel/driver/gxfp_trace.c).  One  *)
(* line is logged in three steps: an unlocked look at the flags, the lock, *)
(* and the push with the unlock.  debugfs dumps, clears and enables.  When *)
(* the driver is bound again it initialises the ring and its lock without  *)
(* taking the lock, and a thread with an old file may be at any step.      *)
(***************************************************************************)
EXTENDS Naturals

CONSTANTS
  Threads,      \* the threads that log
  RingSize,     \* GXFP_TRACE_RING_SIZE
  SeqMod        \* 2^32, the range of the sequence number

ASSUME TraceAssumption == RingSize \in Nat \ {0} /\ SeqMod \in Nat \ {0}

VARIABLES
  stage,        \* where gxfp_trace_init() or gxfp_trace_exit() is
  enabled, seq, head, count,
  lines,        \* the sequence number of the line in each slot; 0 for none
  passed,       \* the threads that have passed the test of the flags
  lock,         \* the lock word: taken or not
  inside,       \* the threads between spin_lock and spin_unlock in logf()
  loaded,       \* the fields as each of these found them
  raced,        \* those of them that are not alone with the ring
  torn          \* history: the ring was initialised under such a thread

Slots == 0..(RingSize - 1)
Zero == [seq |-> 0, head |-> 0, count |-> 0]
Fields == [seq |-> seq, head |-> head, count |-> count]

ringVars == <<seq, head, count, lines>>
lockVars == <<lock, inside, loaded, raced>>
vars == <<stage, enabled, ringVars, passed, lockVars, torn>>

Init ==
  /\ stage = "down" /\ enabled = FALSE
  /\ seq = 0 /\ head = 0 /\ count = 0
  /\ lines = [i \in Slots |-> 0]
  /\ passed = {}
  /\ lock = FALSE /\ inside = {} /\ raced = {}
  /\ loaded = [t \in Threads |-> Zero]
  /\ torn = FALSE

\* The flag is set when all is done, and cleared after the files are removed.
inited == stage \in {"up", "removed"}

\* The debugfs files.
Files == stage \in {"ready", "up"}

-----------------------------------------------------------------------------
\* gxfp_trace_logf() up to spin_lock_irqsave().
LogCheck(t) ==
  /\ t \notin passed \cup inside
  /\ inited /\ enabled
  /\ passed' = passed \cup {t}
  /\ UNCHANGED <<stage, enabled, ringVars, lockVars, torn>>

\* spin_lock_irqsave().  A lock word that was cleared lets a second thread in,
\* and then both race.
LogLock(t) ==
  /\ t \in passed /\ ~lock
  /\ passed' = passed \ {t}
  /\ lock' = TRUE
  /\ inside' = inside \cup {t}
  /\ loaded' = [loaded EXCEPT ![t] = Fields]
  /\ raced' = IF inside = {} THEN raced ELSE inside'
  /\ UNCHANGED <<stage, enabled, ringVars, torn>>

NextSeq(s) == (s + 1) % SeqMod
NextHead(h) == (h + 1) % RingSize
NextCount(c) == IF c < RingSize THEN c + 1 ELSE c

\* Mutant of gxfp_trace_push_locked: count grows past the size of the ring.
PushUncapped(line) ==
  /\ lines' = [lines EXCEPT ![head] = line]
  /\ head' = NextHead(head)
  /\ count' = IF count <= RingSize THEN count + 1 ELSE count

gxfp_trace_push_locked(line) ==
  /\ lines' = [lines EXCEPT ![head] = line]
  /\ head' = NextHead(head)
  /\ count' = NextCount(count)

\* A push that races: each load may have come before the stores of the other
\* threads or after them, and each store may be lost
\* to theirs.  A line written only in part counts as lost.
PushRaced(old) ==
  /\ seq' \in {seq, NextSeq(seq), NextSeq(old.seq)}
  /\ head' \in {head, NextHead(head), NextHead(old.head)}
  /\ count' \in {count, NextCount(count), NextCount(old.count)}
  /\ \E i \in {head, old.head} :
       lines' \in {lines, [lines EXCEPT ![i] = NextSeq(seq)],
                   [lines EXCEPT ![i] = NextSeq(old.seq)]}

\* The rest of gxfp_trace_logf(), with the unlock.
gxfp_trace_logf(t) ==
  /\ t \in inside
  /\ IF t \in raced THEN PushRaced(loaded[t])
     ELSE seq' = NextSeq(seq) /\ gxfp_trace_push_locked(seq')
  /\ lock' = FALSE
  /\ inside' = inside \ {t} /\ raced' = raced \ {t}
  /\ loaded' = [loaded EXCEPT ![t] = Zero]
  /\ UNCHANGED <<stage, enabled, passed, torn>>

-----------------------------------------------------------------------------
\* The debugfs files.  Whoever is still inside when a torn lock lets a clear in
\* races with it.
gxfp_trace_clear ==
  /\ Files /\ ~lock
  /\ head' = 0 /\ count' = 0
  /\ raced' = inside
  /\ torn' = (torn /\ inside # {})
  /\ UNCHANGED <<stage, enabled, seq, lines, passed, lock, inside, loaded>>

trace_enable ==
  /\ Files
  /\ enabled' \in BOOLEAN
  /\ UNCHANGED <<stage, ringVars, passed, lockVars, torn>>

-----------------------------------------------------------------------------
\* gxfp_trace_init(): memset() clears the structure from its start, the lock and
\* the flags first; then spin_lock_init(), the debugfs files, and the flag.

StageGoto(from, to) ==
  stage = from /\ stage' = to /\ UNCHANGED <<passed, inside, loaded>>

MemsetLock ==
  /\ StageGoto("down", "memset")
  /\ lock' = FALSE /\ enabled' = FALSE
  /\ torn' = (torn \/ inside # {})
  /\ UNCHANGED <<ringVars, raced>>

MemsetRing ==
  /\ StageGoto("memset", "cleared")
  /\ seq' = 0 /\ head' = 0 /\ count' = 0
  /\ lines' = [i \in Slots |-> 0]
  /\ raced' = inside
  /\ torn' = (inside # {})
  /\ UNCHANGED <<enabled, lock>>

InitLock ==
  /\ StageGoto("cleared", "ready")
  /\ lock' = FALSE /\ enabled' = FALSE
  /\ torn' = (torn \/ inside # {})
  /\ UNCHANGED <<ringVars, raced>>

InitDone ==
  /\ StageGoto("ready", "up")
  /\ UNCHANGED <<enabled, ringVars, lock, raced, torn>>

gxfp_trace_init == MemsetLock \/ MemsetRing \/ InitLock \/ InitDone

gxfp_trace_exit ==
  /\ StageGoto("up", "removed") \/ StageGoto("removed", "down")
  /\ UNCHANGED <<enabled, ringVars, lock, raced, torn>>

Next ==
  \/ \E t \in Threads : LogCheck(t) \/ LogLock(t) \/ gxfp_trace_logf(t)
  \/ gxfp_trace_clear \/ trace_enable \/ gxfp_trace_init \/ gxfp_trace_exit

Spec == Init /\ [][Next]_vars

\* What gxfp_trace_dump_show() copies under the lock.
gxfp_trace_dump_show ==
  LET start == (head + RingSize - count) % RingSize
  IN [i \in 1..count |-> lines[(start + i - 1) % RingSize]]

-----------------------------------------------------------------------------
Promise == INSTANCE LastLines
             WITH Size <- RingSize, n <- seq, shown <- gxfp_trace_dump_show, spoilt <- torn

\* A dump shows the last lines logged since the last clear, oldest first and with
\* none missing, whatever loggers, clears and rebindings do, also when a logger
\* that passed the test of the flags comes late.  The one exception is a logger
\* between spin_lock and spin_unlock while gxfp_trace_init() clears the ring or
\* the lock, neither of which waits for it: then nothing is promised until the
\* trace is cleared or initialised with no logger there.
DumpShowsLastLines == Promise!Spec
=============================================================================
