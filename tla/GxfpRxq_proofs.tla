--------------------------- MODULE GxfpRxq_proofs ---------------------------
(***************************************************************************)
(* Proofs that the receive queue keeps its safety properties for any       *)
(* number of threads and files, any queue capacity and any traffic: the    *)
(* inductive invariant, the lemmas its proof rests on (what framing means  *)
(* for the cells of the queue, who owns the mutex), and the theorems.      *)
(***************************************************************************)
EXTENDS GxfpRxq, SequenceTheorems, TLAPS

\* Steps at which a user thread holds rxq_mutex.
Holding == {"r_check", "r_prep", "r_cond", "r_sleep", "r_peek", "r_pop",
            "r_copy", "f_do"}

\* Steps at which a reader has seen rxq_inited since it took the mutex.
Committed == {"r_prep", "r_cond", "r_sleep", "r_peek", "r_pop"}

\* Who owns the mutex, and what the binding thread's progress says of the
\* queue: this is what makes the other invariants inductive.
Ownership ==
    /\ \A t \in Threads : (pc[t] \in Holding) <=> (rxq_mutex = t)
    /\ (rxq_mutex = Remover) <=> (bind \in {"locked", "cleared"})
    /\ rxq_inited <=> bind \in {"fifo", "startup", "bound", "disabled", "synced",
                                "dereg", "locked"}
    /\ rxq_inited => rxq_buf
    /\ misc_registered <=> bind \in {"startup", "bound", "disabled", "synced"}
    /\ bind \in {"unbound", "fifo"} => /\ \A f \in Files : file[f] = "closed"
                                      /\ \A t \in Threads : pc[t] = "idle"
    /\ irq_on => bind = "bound"
    /\ irq # "idle" => bind \in {"bound", "disabled"}
    /\ \A t \in Threads : pc[t] \in Committed => rxq_inited

\* A push in flight carries a packet; a reader between peek and copy holds
\* the size of the record at the head, then that record.
Framing ==
    /\ WellFramed
    /\ irq = "push" => pkt \in Packet
    /\ ~rxq_inited \/ bind = "fifo" => rxq_fifo = <<>>
    /\ \A t \in Threads : pc[t] = "r_pop" =>
          rxq_fifo # <<>> /\ need[t] = rxq_fifo[1].n + 1
    /\ ReadsOneRecord

\* Whoever may be woken is on the wait queue.
Queued ==
    /\ \A t \in Threads :
          pc[t] \in {"r_cond", "r_sleep", "p_check", "p_sleep"} => t \in waiters
    /\ NoLostWakeup

\* The record a reader has popped lies between the delivered and the queued.
Ordered ==
    /\ InOrder
    /\ \A i \in 1..Len(delivered) : delivered[i].id <= npkt
    /\ \A i \in 1..Len(rxq_fifo) : rxq_fifo[i].id <= npkt
    /\ \A i, j \in 1..Len(rxq_fifo) :
          rxq_fifo[i].id = rxq_fifo[j].id => rxq_fifo[i].n = rxq_fifo[j].n
    /\ irq = "push" =>
          /\ pkt.id = npkt
          /\ \A i \in 1..Len(delivered) : delivered[i].id < pkt.id
          /\ \A i \in 1..Len(rxq_fifo) : rxq_fifo[i].id < pkt.id
    /\ \A t \in Threads : pc[t] = "r_copy" =>
          /\ tmp[t][1].id <= npkt
          /\ irq = "push" => tmp[t][1].id < pkt.id
          /\ \A i \in 1..Len(delivered) : delivered[i].id < tmp[t][1].id
          /\ \A i \in 1..Len(rxq_fifo) : tmp[t][1].id < rxq_fifo[i].id

Readers ==
    /\ SingleReader
    /\ (\E f \in Files : file[f] \in ReadModes) => rxq_reader_open \/ ~rxq_inited

Control == Ownership /\ Queued /\ Readers

IInv == TypeOK /\ Control /\ Framing /\ Ordered

\* A cell names a packet, and its numbers are naturals.
LEMMA CellFacts ==
    ASSUME NEW c \in Cell
    PROVE  /\ c.n \in Nat /\ c.n \in Lens /\ c.k \in Nat /\ c.id \in 1..MaxPackets
           /\ RecordOf(c) \in Packet
BY ConstAssumption, Zenon DEF Cell, RecordOf, Packet

\* A record's cells in the kfifo: gxfp_uapi_rxq_push stores its header and
\* payload, one more cell than the payload has.
LEMMA CellsType ==
    ASSUME NEW p \in Packet
    PROVE  /\ Cells(p) \in Seq(Cell) /\ Len(Cells(p)) = p.n + 1
           /\ \A i \in 1..(p.n + 1) : Cells(p)[i] = [id |-> p.id, n |-> p.n, k |-> i - 1]
<1>1. p.n \in Nat /\ p.n \in Lens /\ p.id \in 1..MaxPackets
  BY ConstAssumption, Zenon DEF Packet
<1>2. \A i \in 1..(p.n + 1) : [id |-> p.id, n |-> p.n, k |-> i - 1] \in Cell
  BY <1>1 DEF Cell
<1> QED
  BY <1>1, <1>2 DEF Cells

\* Cell i of s is cell k of the record with payload length n and identity d,
\* all of whose cells are in s.
Placed(s, i, k, n, d) ==
    /\ s[i] = [id |-> d, n |-> n, k |-> k]
    /\ k < i /\ k <= n /\ i - k + n <= Len(s)
    /\ \A m \in 0..n : s[i - k + m] = [id |-> d, n |-> n, k |-> m]

\* Every cell of a run of whole records is placed in a record.
LEMMA FramedCell ==
    ASSUME NEW s \in Seq(Cell), Framed(s), NEW i \in 1..Len(s)
    PROVE  \E k, n \in Nat, d \in 1..MaxPackets : Placed(s, i, k, n, d)
<1>1. s[i] \in Cell
  OBVIOUS
<1>2. /\ s[i].k \in Nat /\ s[i].n \in Nat /\ s[i].id \in 1..MaxPackets
      /\ s[i] = [id |-> s[i].id, n |-> s[i].n, k |-> s[i].k]
  BY <1>1, CellFacts DEF Cell
<1>3. Placed(s, i, s[i].k, s[i].n, s[i].id)
  BY <1>2 DEF Framed, Placed
<1> QED
  BY <1>2, <1>3

\* It is enough to place each cell in its record.
LEMMA FramedIf ==
    ASSUME NEW r,
           \A i \in 1..Len(r) :
              \E k, n \in Nat, d \in 1..MaxPackets : Placed(r, i, k, n, d)
    PROVE  Framed(r)
<1> SUFFICES ASSUME NEW i \in 1..Len(r)
             PROVE  /\ r[i].k < i /\ r[i].k <= r[i].n
                    /\ i - r[i].k + r[i].n <= Len(r)
                    /\ \A m \in 0..r[i].n :
                          r[i - r[i].k + m] = [id |-> r[i].id, n |-> r[i].n, k |-> m]
  BY DEF Framed
<1>1. PICK k \in Nat, n \in Nat, d \in 1..MaxPackets : Placed(r, i, k, n, d)
  OBVIOUS
<1>2. r[i].k = k /\ r[i].n = n /\ r[i].id = d
  BY <1>1 DEF Placed
<1> QED
  BY <1>1, <1>2 DEF Placed

\* What kfifo_in stores, cell by cell.
LEMMA StoredCells ==
    ASSUME NEW s \in Seq(Cell), NEW p \in Packet
    PROVE  /\ Len(s \o Cells(p)) = Len(s) + p.n + 1
           /\ \A i \in 1..Len(s) : (s \o Cells(p))[i] = s[i]
           /\ \A i \in 1..(p.n + 1) :
                 (s \o Cells(p))[Len(s) + i] = [id |-> p.id, n |-> p.n, k |-> i - 1]
<1> DEFINE c == Cells(p)
<1>1. PICK q \in Nat, l \in Nat : q = p.n /\ l = Len(s)
  <2>1. p.n \in Nat
    BY ConstAssumption, Zenon DEF Packet
  <2>2. Len(s) \in Nat
    OBVIOUS
  <2> QED
    BY <2>1, <2>2
<1>2. /\ c \in Seq(Cell) /\ Len(c) = q + 1
      /\ \A i \in 1..(q + 1) : c[i] = [id |-> p.id, n |-> q, k |-> i - 1]
  BY <1>1, CellsType
<1> HIDE DEF c
<1>3. /\ Len(s \o c) = l + q + 1
      /\ \A i \in 1..(l + q + 1) : (s \o c)[i] = IF i <= l THEN s[i] ELSE c[i - l]
  <2>1. /\ Len(s \o c) = Len(s) + Len(c)
        /\ \A i \in 1..(Len(s) + Len(c)) :
              (s \o c)[i] = IF i <= Len(s) THEN s[i] ELSE c[i - Len(s)]
    BY <1>2, ConcatProperties, Zenon
  <2>2. Len(s) = l /\ Len(c) = q + 1 /\ l + (q + 1) = l + q + 1
    BY <1>1, <1>2
  <2> QED
    BY <2>1, <2>2, Zenon
<1>4. ASSUME NEW i \in 1..(q + 1) PROVE (s \o c)[l + i] = c[i]
  <2>1. l + i \in 1..(l + q + 1) /\ ~(l + i <= l) /\ (l + i) - l = i
    OBVIOUS
  <2> QED
    BY <1>3, <2>1
<1>5. ASSUME NEW i \in 1..l PROVE (s \o c)[i] = s[i]
  BY <1>3
<1> QED
  BY <1>1, <1>2, <1>3, <1>4, <1>5, Zenon DEF c

\* What kfifo_out leaves, cell by cell.
LEMMA PoppedCells ==
    ASSUME NEW s \in Seq(Cell), NEW q \in Nat, NEW l \in Nat, l = Len(s), q + 1 <= l
    PROVE  /\ Len(SubSeq(s, q + 2, l)) = l - q - 1
           /\ \A i \in 1..(l - q - 1) :
                 i + q + 1 \in 1..l /\ SubSeq(s, q + 2, l)[i] = s[i + q + 1]
<1> DEFINE r == SubSeq(s, q + 2, l)
<1>1. Len(r) = l - q - 1 /\ \A e \in 1..(l - (q + 2) + 1) : r[e] = s[(q + 2) + e - 1]
  <2>1. /\ q + 2 \in Int /\ l \in Int /\ \A e \in (q + 2)..l : s[e] \in Cell
        /\ (IF q + 2 <= l THEN l - (q + 2) + 1 ELSE 0) = l - q - 1
    OBVIOUS
  <2> QED
    BY <2>1, SubSeqProperties
<1> HIDE DEF r
<1>2. ASSUME NEW i \in 1..(l - q - 1) PROVE i + q + 1 \in 1..l /\ r[i] = s[i + q + 1]
  <2>1. i \in 1..(l - (q + 2) + 1) /\ (q + 2) + i - 1 = i + q + 1 /\ i + q + 1 \in 1..l
    OBVIOUS
  <2> QED
    BY <1>1, <2>1
<1> QED
  BY <1>1, <1>2, SMTT(30) DEF r

\* Appending a record to a run of whole records gives one.
LEMMA FramedConcat ==
    ASSUME NEW s \in Seq(Cell), Framed(s), NEW p \in Packet
    PROVE  Framed(s \o Cells(p))
<1> DEFINE r == s \o Cells(p)
<1>1. PICK q \in Nat, id \in 1..MaxPackets : q = p.n /\ id = p.id
  BY ConstAssumption, Zenon DEF Packet
<1>2. PICK L \in Nat : L = Len(s)
  OBVIOUS
<1>3. /\ Len(r) = L + q + 1
      /\ \A i \in 1..L : r[i] = s[i]
      /\ \A i \in 1..(q + 1) : r[L + i] = [id |-> id, n |-> q, k |-> i - 1]
  BY <1>1, <1>2, StoredCells, Zenon
<1> HIDE DEF r
<1>4. ASSUME NEW i \in 1..Len(r)
      PROVE  \E k, n \in Nat, d \in 1..MaxPackets : Placed(r, i, k, n, d)
  <2>1. CASE i <= L
    <3>0. PICK k \in Nat, n \in Nat, d \in 1..MaxPackets : Placed(s, i, k, n, d)
      BY <1>2, <2>1, FramedCell
    <3>1. /\ s[i] = [id |-> d, n |-> n, k |-> k]
          /\ k < i /\ k <= n /\ i - k + n <= L
          /\ \A m \in 0..n : s[i - k + m] = [id |-> d, n |-> n, k |-> m]
      BY <1>2, <3>0 DEF Placed
    <3>2. ASSUME NEW m \in 0..n PROVE i - k + m \in 1..L
      BY <3>1
    <3>3. \A m \in 0..n : r[i - k + m] = [id |-> d, n |-> n, k |-> m]
      BY <1>3, <3>1, <3>2, Zenon
    <3>4. r[i] = [id |-> d, n |-> n, k |-> k]
      BY <1>3, <2>1, <3>1, SMTT(30)
    <3>5. k < i /\ k <= n /\ i - k + n <= Len(r)
      BY <1>3, <3>1
    <3>6. Placed(r, i, k, n, d)
      BY <3>3, <3>4, <3>5 DEF Placed
    <3> QED
      BY <3>6
  <2>2. CASE i > L
    <3>1. PICK a \in 1..(q + 1) : i = L + a
      <4>1. i - L \in 1..(q + 1) /\ i = L + (i - L)
        BY <1>3, <2>2
      <4> QED
        BY <4>1
    <3>2. a - 1 \in Nat /\ a - 1 < i /\ a - 1 <= q /\ i - (a - 1) + q <= Len(r)
      BY <1>3, <3>1, SMTT(30)
    <3>3. ASSUME NEW m \in 0..q
          PROVE  r[i - (a - 1) + m] = [id |-> id, n |-> q, k |-> m]
      <4>1. PICK b \in 1..(q + 1) : m = b - 1 /\ i - (a - 1) + m = L + b
        <5>1. m + 1 \in 1..(q + 1) /\ m = (m + 1) - 1 /\ i - (a - 1) + m = L + (m + 1)
          BY <3>1
        <5> QED
          BY <5>1
      <4> QED
        BY <1>3, <4>1, Zenon
    <3>4. Placed(r, i, a - 1, q, id)
      BY <1>3, <3>1, <3>2, <3>3 DEF Placed
    <3> QED
      BY <3>2, <3>4
  <2> QED
    BY <2>1, <2>2, <1>3
<1> QED
  BY <1>4, FramedIf, Zenon DEF r

\* The record at the head of a run of whole records can be removed.
LEMMA FramedPop ==
    ASSUME NEW s \in Seq(Cell), Framed(s), s # <<>>
    PROVE  /\ s[1].n + 1 <= Len(s)
           /\ SubSeq(s, 1, s[1].n + 1) = Cells(RecordOf(s[1]))
           /\ Framed(SubSeq(s, s[1].n + 2, Len(s)))
<1>1. PICK L \in Nat : L = Len(s) /\ 1 \in 1..L
  BY EmptySeq
<1>2. PICK n \in Nat, id \in 1..MaxPackets :
          /\ s[1] = [id |-> id, n |-> n, k |-> 0] /\ n + 1 <= L
          /\ \A m \in 0..n : s[1 + m] = [id |-> id, n |-> n, k |-> m]
  <2>1. PICK k \in Nat, n \in Nat, d \in 1..MaxPackets : Placed(s, 1, k, n, d)
    BY <1>1, FramedCell
  <2>2. k = 0 /\ 1 - k = 1
    BY <2>1 DEF Placed
  <2> QED
    BY <1>1, <2>1, <2>2 DEF Placed
<1>3. s[1].n = n /\ RecordOf(s[1]) = [id |-> id, n |-> n] /\ RecordOf(s[1]) \in Packet
  BY <1>1, <1>2, CellFacts DEF RecordOf
<1>4. ASSUME NEW i \in 1..(n + 1) PROVE s[i] = [id |-> id, n |-> n, k |-> i - 1]
  <2>1. i - 1 \in 0..n /\ 1 + (i - 1) = i
    OBVIOUS
  <2> QED
    BY <1>2, <2>1
<1>5. SubSeq(s, 1, n + 1) = Cells(RecordOf(s[1]))
  <2> DEFINE a == SubSeq(s, 1, n + 1)
             b == Cells(RecordOf(s[1]))
  <2>1. a \in Seq(Cell) /\ Len(a) = n + 1 /\ \A i \in 1..(n + 1) : a[i] = s[i]
    BY <1>1, <1>2, SubSeqProperties
  <2>2. /\ b \in Seq(Cell) /\ Len(b) = n + 1
        /\ \A i \in 1..(n + 1) : b[i] = [id |-> id, n |-> n, k |-> i - 1]
    BY <1>3, CellsType
  <2> HIDE DEF a, b
  <2>3. \A i \in 1..Len(a) : a[i] = b[i]
    BY <1>4, <2>1, <2>2, Zenon
  <2>4. a = b
    BY <2>1, <2>2, <2>3, SeqEqual
  <2> QED
    BY <2>4 DEF a, b
<1> DEFINE r == SubSeq(s, n + 2, L)
<1>6. Len(r) = L - n - 1
  BY <1>1, <1>2, PoppedCells
<1>7. ASSUME NEW i \in 1..Len(r) PROVE r[i] = s[i + n + 1]
  BY <1>1, <1>2, <1>6, PoppedCells
<1> HIDE DEF r
<1>8. ASSUME NEW i \in 1..Len(r)
      PROVE  \E k, c \in Nat, d \in 1..MaxPackets : Placed(r, i, k, c, d)
  <2>1. PICK j \in 1..L : j = i + n + 1
    BY <1>6
  <2>0. PICK k \in Nat, c \in Nat, d \in 1..MaxPackets : Placed(s, j, k, c, d)
    BY <1>1, FramedCell, Zenon
  <2>2. /\ s[j] = [id |-> d, n |-> c, k |-> k]
        /\ k < j /\ k <= c /\ j - k + c <= L
        /\ \A m \in 0..c : s[j - k + m] = [id |-> d, n |-> c, k |-> m]
    BY <1>1, <2>0 DEF Placed
  \* The record of s[j] begins after the first one: a header inside the first
  \* record is the header of the first record, which is too short to reach j.
  <2>3. k < i
    <3> SUFFICES ASSUME k >= i PROVE FALSE
      OBVIOUS
    <3>1. PICK h \in 1..(n + 1) : h = j - k
      BY <2>1, <2>2
    <3>2. s[h] = [id |-> d, n |-> c, k |-> 0]
      <4>1. 0 \in 0..c /\ j - k + 0 = h
        BY <3>1
      <4> QED
        BY <2>2, <4>1
    <3>3. s[h] = [id |-> id, n |-> n, k |-> h - 1]
      BY <1>4
    <3>4. h - 1 = 0 /\ c = n
      BY <3>2, <3>3
    <3> QED
      BY <2>1, <2>2, <3>1, <3>4
  <2>4. ASSUME NEW m \in 0..c
        PROVE  r[i - k + m] = [id |-> d, n |-> c, k |-> m]
    <3>1. i - k + m \in 1..Len(r) /\ (i - k + m) + n + 1 = j - k + m
      BY <1>6, <2>1, <2>2, <2>3
    <3> QED
      BY <1>7, <2>2, <3>1, Zenon
  <2>5. r[i] = [id |-> d, n |-> c, k |-> k] /\ i - k + c <= Len(r)
    <3>1. r[i] = s[j]
      BY <1>7, <2>1, Zenon
    <3>2. i - k + c <= Len(r)
      <4>1. i \in Nat /\ n \in Nat /\ L \in Nat /\ j = i + n + 1 /\ j - k + c <= L
        BY <1>1, <1>2, <1>6, <2>1, <2>2, SMTT(30)
      <4> QED
        BY <1>6, <4>1
    <3> QED
      BY <2>2, <3>1, <3>2, Zenon
  <2>6. Placed(r, i, k, c, d)
    BY <2>2, <2>3, <2>4, <2>5 DEF Placed
  <2> QED
    BY <2>6
<1>9. Framed(r)
  BY <1>8, FramedIf
<1> QED
  BY <1>1, <1>2, <1>3, <1>5, <1>9 DEF r

\* Each step keeps the control invariants: whoever takes rxq_mutex passes
\* out_unlock, sleepers are on the wait queue with their wake-ups pending, and
\* the reader flag agrees with the open files.
LEMMA ControlStep == TypeOK /\ Control /\ [Next]_vars => Control'
<1> SUFFICES ASSUME TypeOK, Control, [Next]_vars PROVE Control'
  BY Zenon
<1> USE ConstAssumption DEF TypeOK, Control, Ownership, Holding, Committed, Queued,
        NoLostWakeup, Readers, SingleReader, None, Remover, ReadModes, devVars, waitVars, callVars, irqVars
<1>1. CASE UNCHANGED vars
  BY <1>1, Zenon DEF vars
<1>2. ASSUME NEW f \in Files, NEW m \in OpenModes, gxfp_uapi_open(f, m) PROVE Control'
  BY <1>2 DEF gxfp_uapi_open, MayOpen
<1>3. ASSUME NEW f \in Files, gxfp_uapi_release(f) PROVE Control'
  <2>1. /\ file' = [file EXCEPT ![f] = "closed"]
        /\ rxq_reader_open' = (rxq_reader_open /\ file[f] \notin ReadModes)
        /\ UNCHANGED <<misc_registered, rxq_inited, rxq_buf, bind, rxq_fifo,
                       rxq_mutex, waitVars, callVars, irqVars>>
    BY <1>3, Zenon DEF gxfp_uapi_release
  <2>2. \A g \in Files : file'[g] = IF g = f THEN "closed" ELSE file[g]
    BY <2>1, Zenon
  <2>3. Ownership'
    BY <2>1, <2>2
  <2>4. Queued'
    BY <2>1, Zenon
  <2>5. Readers'
    <3>1. SingleReader'
      <4>1. \A g, h \in Files :
               file'[g] \in ReadModes /\ file'[h] \in ReadModes => g = h
        BY <2>2, Zenon
      <4>2. ASSUME rxq_reader_open' PROVE \E g \in Files : file'[g] \in ReadModes
        <5>1. rxq_reader_open /\ file[f] \notin ReadModes
          BY <2>1, <4>2, Zenon
        <5>2. PICK g \in Files : file[g] \in ReadModes
          BY <5>1
        <5> QED
          BY <2>2, <5>1, <5>2, Zenon
      <4> QED
        BY <4>1, <4>2, Zenon
    <3>2. (\E g \in Files : file[g] \in ReadModes)'
            => rxq_reader_open' \/ ~rxq_inited'
      BY <2>1, <2>2, SMTT(30)
    <3> QED
      BY <3>1, <3>2, Zenon
  <2> QED
    BY <2>3, <2>4, <2>5, Zenon
<1>4. ASSUME NEW t \in Threads, NEW f \in Files, gxfp_uapi_read(t, f) PROVE Control'
  BY <1>4 DEF gxfp_uapi_read, Call
<1>5. ASSUME NEW t \in Threads, NEW f \in Files, gxfp_uapi_unlocked_ioctl(t, f) PROVE Control'
  BY <1>5, SMTT(30) DEF gxfp_uapi_unlocked_ioctl, Call
<1>6. ASSUME NEW t \in Threads, NEW f \in Files, gxfp_uapi_poll(t, f) PROVE Control'
  BY <1>6 DEF gxfp_uapi_poll, Call, PollWait
<1>7. ASSUME NEW t \in Threads, ReadLock(t) PROVE Control'
  BY <1>7, SMTT(30) DEF ReadLock, Goto, Lock
<1>8. ASSUME NEW t \in Threads, gxfp_uapi_wait_nonempty(t) PROVE Control'
  <2>1. CASE pc' = [pc EXCEPT ![t] = "idle"]
    BY <1>8, <2>1, SMTT(30) DEF gxfp_uapi_wait_nonempty, Goto, Return
  <2>2. CASE /\ rxq_inited /\ UNCHANGED rxq_mutex
             /\ pc' \in {[pc EXCEPT ![t] = "r_peek"], [pc EXCEPT ![t] = "r_prep"]}
    BY <1>8, <2>2, SMTT(30) DEF gxfp_uapi_wait_nonempty
  <2> QED
    BY <1>8, <2>1, <2>2, Zenon DEF gxfp_uapi_wait_nonempty, Goto, Return
<1>9. ASSUME NEW t \in Threads, WaitPrepare(t) PROVE Control'
  BY <1>9, SMTT(30) DEF WaitPrepare, Goto
<1>10. ASSUME NEW t \in Threads, WaitCond(t) PROVE Control'
  <2>1. CASE Goto(t, "r_cond", "r_check") /\ Unqueue(t)
    BY <1>10, <2>1, SMTT(30) DEF WaitCond, Goto, Unqueue
  <2>2. CASE Goto(t, "r_cond", "r_sleep") /\ UNCHANGED waitVars
    BY <1>10, <2>2 DEF WaitCond, Goto, gxfp_uapi_rxq_ready
  <2> QED
    BY <1>10, <2>1, <2>2, Zenon DEF WaitCond
<1>11. ASSUME NEW t \in Threads, WaitWake(t) PROVE Control'
  BY <1>11, SMTT(30) DEF WaitWake, Goto
<1>12. ASSUME NEW t \in Threads, NEW c \in Counts, gxfp_uapi_peek_need(t, c) PROVE Control'
  <2>1. CASE pc' = [pc EXCEPT ![t] = "idle"]
    BY <1>12, <2>1, SMTT(30) DEF gxfp_uapi_peek_need, Goto, Return
  <2>2. CASE pc' = [pc EXCEPT ![t] = "r_pop"] /\ UNCHANGED <<rxq_mutex, on>>
    BY <1>12, <2>2 DEF gxfp_uapi_peek_need
  <2> QED
    BY <1>12, <2>1, <2>2, Zenon DEF gxfp_uapi_peek_need, Goto, Return
<1>13. ASSUME NEW t \in Threads, gxfp_uapi_pop_record(t) PROVE Control'
  BY <1>13, SMTT(30) DEF gxfp_uapi_pop_record, Goto, Return, Popped
<1>14. ASSUME NEW t \in Threads, ReadCopy(t) PROVE Control'
  BY <1>14 DEF ReadCopy, Return, RecordOf
<1>15. ASSUME NEW t \in Threads, FlushLock(t) PROVE Control'
  BY <1>15 DEF FlushLock, Goto, Lock
<1>16. ASSUME NEW t \in Threads, gxfp_uapi_rxq_flush_locked(t) PROVE Control'
  BY <1>16, SMTT(30) DEF gxfp_uapi_rxq_flush_locked, Return
<1>17. ASSUME NEW t \in Threads, PollCheck(t) PROVE Control'
  <2>1. CASE rxq_inited /\ rxq_fifo = <<>>
    BY <1>17, <2>1, SMTT(30) DEF PollCheck, Goto
  <2>2. CASE Unqueue(t) /\ Return(t)
    BY <1>17, <2>2, SMTT(30) DEF PollCheck, Unqueue, Return
  <2> QED
    BY <1>17, <2>1, <2>2, Zenon DEF PollCheck
<1>18. ASSUME NEW t \in Threads, PollWake(t) PROVE Control'
  BY <1>18, SMTT(30) DEF PollWake, Goto
<1>19. ASSUME NEW t \in Threads, PollTimeout(t) PROVE Control'
  BY <1>19, SMTT(30) DEF PollTimeout, Unqueue, Return
<1>20. ASSUME NEW t \in Threads, Signal(t) PROVE Control'
  BY <1>20, SMTT(30) DEF Signal, Unqueue, Return
<1>21. ASSUME NEW n \in Lens, gxfp_uapi_rxq_push_packet(n) PROVE Control'
  BY <1>21, Zenon DEF gxfp_uapi_rxq_push_packet, Packet
<1>22. CASE gxfp_uapi_rxq_push
  BY <1>22, Zenon DEF gxfp_uapi_rxq_push, Fits, Stored
<1>23. CASE PushWake
  BY <1>23, Zenon DEF PushWake, WakeAll
<1>24. CASE RegisterFifo
  BY <1>24, Zenon DEF RegisterFifo, BindGoto
<1>25. CASE RegisterMisc
  BY <1>25, Zenon DEF RegisterMisc, BindGoto
<1>26. CASE RegisterFail
  BY <1>26, Zenon DEF RegisterFail, BindGoto
<1>27. CASE gxfp_probe
  BY <1>27, Zenon DEF gxfp_probe, BindGoto
<1>28. CASE DisableIrq
  BY <1>28, Zenon DEF DisableIrq, BindGoto
<1>29. CASE SynchronizeIrq
  BY <1>29, Zenon DEF SynchronizeIrq, BindGoto, IrqFinished
<1>30. CASE MiscDeregister
  BY <1>30, Zenon DEF MiscDeregister, BindGoto
<1>31. CASE UnregisterLock
  BY <1>31, Zenon DEF UnregisterLock, BindGoto, Lock
<1>32. CASE UnregisterClear
  BY <1>32, SMTT(30) DEF UnregisterClear, BindGoto
<1>33. CASE UnregisterFree
  BY <1>33, SMTT(30) DEF UnregisterFree, BindGoto, WakeAll
<1> QED
  BY <1>1, <1>2, <1>3, <1>4, <1>5, <1>6, <1>7, <1>8, <1>9, <1>10, <1>11,
     <1>12, <1>13, <1>14, <1>15, <1>16, <1>17, <1>18, <1>19, <1>20, <1>21,
     <1>22, <1>23, <1>24, <1>25, <1>26, <1>27, <1>28, <1>29, <1>30, <1>31,
     <1>32, <1>33, Zenon
  DEF Next, ReadStep, FlushStep, PollStep, IrqStep, TeardownStep

\* Each step keeps the types; gxfp_uapi_rxq_push never overfills the kfifo.
LEMMA TypeStep == TypeOK /\ Ownership /\ Framing /\ [Next]_vars => TypeOK'
<1> SUFFICES ASSUME TypeOK, Ownership, Framing, [Next]_vars PROVE TypeOK'
  BY Zenon
<1> USE ConstAssumption DEF TypeOK, devVars, waitVars, callVars, irqVars
<1>1. CASE UNCHANGED vars
  BY <1>1 DEF vars
<1>2. ASSUME NEW f \in Files, NEW m \in OpenModes, gxfp_uapi_open(f, m) PROVE TypeOK'
  BY <1>2 DEF gxfp_uapi_open, MayOpen
<1>3. ASSUME NEW f \in Files, gxfp_uapi_release(f) PROVE TypeOK'
  BY <1>3 DEF gxfp_uapi_release
<1>4. ASSUME NEW t \in Threads, NEW f \in Files, gxfp_uapi_read(t, f) PROVE TypeOK'
  BY <1>4 DEF gxfp_uapi_read, Call
<1>5. ASSUME NEW t \in Threads, NEW f \in Files, gxfp_uapi_unlocked_ioctl(t, f) PROVE TypeOK'
  BY <1>5 DEF gxfp_uapi_unlocked_ioctl, Call
<1>6. ASSUME NEW t \in Threads, NEW f \in Files, gxfp_uapi_poll(t, f) PROVE TypeOK'
  BY <1>6 DEF gxfp_uapi_poll, Call, PollWait
<1>7. ASSUME NEW t \in Threads, ReadLock(t) PROVE TypeOK'
  BY <1>7, SMTT(30) DEF ReadLock, Goto, Lock
<1>8. ASSUME NEW t \in Threads, gxfp_uapi_wait_nonempty(t) PROVE TypeOK'
  <2>1. CASE Return(t)
    BY <1>8, <2>1 DEF gxfp_uapi_wait_nonempty, Return
  <2>2. CASE Goto(t, "r_check", "r_peek") /\ UNCHANGED <<need, tmp, rxq_mutex>>
    BY <1>8, <2>2 DEF gxfp_uapi_wait_nonempty, Goto
  <2>3. CASE Goto(t, "r_check", "r_prep") /\ UNCHANGED <<need, tmp, rxq_mutex>>
    BY <1>8, <2>3, SMTT(30) DEF gxfp_uapi_wait_nonempty, Goto
  <2> QED
    BY <1>8, <2>1, <2>2, <2>3, Zenon DEF gxfp_uapi_wait_nonempty
<1>9. ASSUME NEW t \in Threads, WaitPrepare(t) PROVE TypeOK'
  BY <1>9, SMTT(30) DEF WaitPrepare, Goto
<1>10. ASSUME NEW t \in Threads, WaitCond(t) PROVE TypeOK'
  <2>1. CASE Goto(t, "r_cond", "r_check") /\ Unqueue(t)
    BY <1>10, <2>1, SMTT(30) DEF WaitCond, Goto, Unqueue
  <2>2. CASE Goto(t, "r_cond", "r_sleep") /\ UNCHANGED waitVars
    BY <1>10, <2>2, SMTT(30) DEF WaitCond, Goto
  <2> QED
    BY <1>10, <2>1, <2>2, Zenon DEF WaitCond
<1>11. ASSUME NEW t \in Threads, WaitWake(t) PROVE TypeOK'
  BY <1>11, SMTT(30) DEF WaitWake, Goto
<1>12. ASSUME NEW t \in Threads, NEW c \in Counts, gxfp_uapi_peek_need(t, c) PROVE TypeOK'
  <2>1. CASE Return(t)
    BY <1>12, <2>1, SMTT(30) DEF gxfp_uapi_peek_need, Return
  <2>2. CASE ~Return(t)
    <3>1. rxq_fifo[1] \in Cell
      BY <1>12, <2>2, SMTT(30) DEF gxfp_uapi_peek_need
    <3>2. rxq_fifo[1].n + 1 \in Nat
      BY <3>1, CellFacts, SMTT(30)
    <3>3. /\ Goto(t, "r_peek", "r_pop") /\ UNCHANGED <<tmp, rxq_mutex>>
          /\ need' = [need EXCEPT ![t] = rxq_fifo[1].n + 1]
          /\ UNCHANGED <<devVars, rxq_fifo, waitVars, irqVars, delivered>>
      BY <1>12, <2>2, Zenon DEF gxfp_uapi_peek_need
    <3> QED
      BY <3>2, <3>3, SMTT(30) DEF Goto
  <2> QED
    BY <2>1, <2>2, Zenon
<1>13. ASSUME NEW t \in Threads, gxfp_uapi_pop_record(t) PROVE TypeOK'
  <2>1. CASE Return(t) /\ UNCHANGED rxq_fifo
    BY <1>13, <2>1 DEF gxfp_uapi_pop_record, Return
  <2>2. CASE rxq_inited
    <3> DEFINE m == IF need[t] <= Len(rxq_fifo) THEN need[t] ELSE Len(rxq_fifo)
    <3>1. m \in 0..Len(rxq_fifo)
      OBVIOUS
    <3>2. SubSeq(rxq_fifo, 1, m) \in Seq(Cell)
      BY <3>1, SubSeqProperties
    <3>3. Popped(m) \in Seq(Cell) /\ Len(Popped(m)) <= Capacity
      BY <3>1, SubSeqProperties, SMTT(30) DEF Popped
    <3>4. /\ Goto(t, "r_pop", "r_copy")
          /\ tmp' = [tmp EXCEPT ![t] = SubSeq(rxq_fifo, 1, m)]
          /\ rxq_fifo' = Popped(m)
          /\ UNCHANGED <<need, rxq_mutex, devVars, waitVars, irqVars, delivered>>
      BY <1>13, <2>2, Zenon DEF gxfp_uapi_pop_record
    <3> HIDE DEF m
    <3> QED
      BY <3>2, <3>3, <3>4 DEF Goto
  <2> QED
    BY <1>13, <2>1, <2>2, Zenon DEF gxfp_uapi_pop_record
<1>14. ASSUME NEW t \in Threads, ReadCopy(t) PROVE TypeOK'
  <2>1. delivered' \in Seq(Packet)
    <3>1. tmp[t] # <<>>
      BY <1>14 DEF ReadCopy, Framing, ReadsOneRecord
    <3>2. tmp[t][1] \in Cell
      BY <3>1
    <3>3. RecordOf(tmp[t][1]) \in Packet
      BY <3>2, CellFacts
    <3>4. Append(delivered, RecordOf(tmp[t][1])) \in Seq(Packet)
      BY <3>3, AppendProperties, Zenon
    <3> QED
      BY <1>14, <3>4, Zenon DEF ReadCopy
  <2> QED
    BY <1>14, <2>1 DEF ReadCopy, Return
<1>15. ASSUME NEW t \in Threads, FlushLock(t) PROVE TypeOK'
  BY <1>15, SMTT(30) DEF FlushLock, Goto, Lock
<1>16. ASSUME NEW t \in Threads, gxfp_uapi_rxq_flush_locked(t) PROVE TypeOK'
  BY <1>16, SMTT(30) DEF gxfp_uapi_rxq_flush_locked, Return
<1>17. ASSUME NEW t \in Threads, PollCheck(t) PROVE TypeOK'
  <2>1. CASE /\ Goto(t, "p_check", "p_sleep")
             /\ UNCHANGED <<waitVars, need, tmp, rxq_mutex>>
    BY <1>17, <2>1 DEF PollCheck, Goto
  <2>2. CASE Unqueue(t) /\ Return(t)
    BY <1>17, <2>2, SMTT(30) DEF PollCheck, Unqueue, Return
  <2> QED
    BY <1>17, <2>1, <2>2, Zenon DEF PollCheck
<1>18. ASSUME NEW t \in Threads, PollWake(t) PROVE TypeOK'
  BY <1>18, SMTT(30) DEF PollWake, Goto
<1>19. ASSUME NEW t \in Threads, PollTimeout(t) PROVE TypeOK'
  BY <1>19, SMTT(30) DEF PollTimeout, Unqueue, Return
<1>20. ASSUME NEW t \in Threads, Signal(t) PROVE TypeOK'
  BY <1>20, SMTT(30) DEF Signal, Unqueue, Return
<1>21. ASSUME NEW n \in Lens, gxfp_uapi_rxq_push_packet(n) PROVE TypeOK'
  BY <1>21, SMTT(30) DEF gxfp_uapi_rxq_push_packet, Packet
<1>22. CASE gxfp_uapi_rxq_push
  <2>1. CASE rxq_fifo' = Stored(pkt) /\ Fits(pkt) /\ irq' = "wake"
    <3>1. pkt \in Packet /\ pkt.n \in Nat
      BY <1>22, Zenon DEF gxfp_uapi_rxq_push, Framing, Packet
    <3>2. Cells(pkt) \in Seq(Cell) /\ Len(Cells(pkt)) = pkt.n + 1
      BY <3>1, CellsType
    <3>3. rxq_fifo \in Seq(Cell) /\ Len(rxq_fifo) + pkt.n + 1 <= Capacity
      BY <2>1 DEF Fits
    <3>4. /\ rxq_fifo \o Cells(pkt) \in Seq(Cell)
          /\ Len(rxq_fifo \o Cells(pkt)) = Len(rxq_fifo) + Len(Cells(pkt))
      <4> DEFINE a == rxq_fifo
                 b == Cells(pkt)
      <4>1. a \in Seq(Cell) /\ b \in Seq(Cell)
        BY <3>2, <3>3, Zenon
      <4> HIDE DEF a, b
      <4>2. a \o b \in Seq(Cell) /\ Len(a \o b) = Len(a) + Len(b)
        BY ONLY <4>1, ConcatProperties, Zenon
      <4> QED
        BY <4>2, Zenon DEF a, b
    <3>5. Stored(pkt) \in Seq(Cell) /\ Len(Stored(pkt)) <= Capacity
      BY <3>1, <3>2, <3>3, <3>4, SMTT(30) DEF Stored
    <3> QED
      BY <1>22, <2>1, <3>5, SMTT(30) DEF gxfp_uapi_rxq_push
  <2>2. CASE UNCHANGED rxq_fifo /\ irq' = "idle"
    BY <1>22, <2>2, SMTT(30) DEF gxfp_uapi_rxq_push
  <2> QED
    BY <1>22, <2>1, <2>2, Zenon DEF gxfp_uapi_rxq_push
<1>23. CASE PushWake
  BY <1>23 DEF PushWake, WakeAll
<1>24. CASE RegisterFifo
  BY <1>24, Zenon DEF RegisterFifo, BindGoto
<1>25. CASE RegisterMisc
  BY <1>25, Zenon DEF RegisterMisc, BindGoto
<1>26. CASE RegisterFail
  BY <1>26, Zenon DEF RegisterFail, BindGoto
<1>27. CASE gxfp_probe
  BY <1>27 DEF gxfp_probe, BindGoto
<1>28. CASE DisableIrq
  BY <1>28, ZenonT(30) DEF DisableIrq, BindGoto
<1>29. CASE SynchronizeIrq
  BY <1>29 DEF SynchronizeIrq, BindGoto, IrqFinished
<1>30. CASE MiscDeregister
  BY <1>30, Zenon DEF MiscDeregister, BindGoto
<1>31. CASE UnregisterLock
  BY <1>31 DEF UnregisterLock, BindGoto, Lock
<1>32. CASE UnregisterClear
  <2>1. rxq_fifo' \in Seq(Cell) /\ Len(rxq_fifo') <= Capacity
    BY <1>32 DEF UnregisterClear
  <2> QED
    BY <1>32, <2>1, Zenon DEF UnregisterClear, BindGoto
<1>33. CASE UnregisterFree
  BY <1>33, Zenon DEF UnregisterFree, BindGoto, WakeAll
<1> QED
  BY <1>1, <1>2, <1>3, <1>4, <1>5, <1>6, <1>7, <1>8, <1>9, <1>10, <1>11,
     <1>12, <1>13, <1>14, <1>15, <1>16, <1>17, <1>18, <1>19, <1>20, <1>21,
     <1>22, <1>23, <1>24, <1>25, <1>26, <1>27, <1>28, <1>29, <1>30, <1>31,
     <1>32, <1>33, Zenon
  DEF Next, ReadStep, FlushStep, PollStep, IrqStep, TeardownStep

\* The last cell of the record at the head.
LEMMA HeadRecord ==
    ASSUME NEW s \in Seq(Cell), Framed(s), s # <<>>, NEW q \in Nat, q = s[1].n
    PROVE  s[q + 1].k = q /\ s[q + 1].id = s[1].id
<1>1. 1 \in 1..Len(s)
  BY EmptySeq
<1>2. PICK k \in Nat, n \in Nat, d \in 1..MaxPackets : Placed(s, 1, k, n, d)
  BY <1>1, FramedCell, Zenon
<1>3. k = 0 /\ n = q /\ d = s[1].id
  BY <1>2 DEF Placed
<1>4. q \in 0..n /\ 1 - k + q = q + 1
  BY <1>3
<1>5. s[q + 1] = [id |-> d, n |-> n, k |-> q]
  BY <1>2, <1>4, Zenon DEF Placed
<1> QED
  BY <1>3, <1>5, SMTT(30)

\* The numbers that are compared are numbers.
LEMMA Numbers ==
    ASSUME TypeOK, Framing
    PROVE  /\ npkt \in Nat
           /\ \A i \in 1..Len(delivered) : delivered[i].id \in Nat
           /\ \A i \in 1..Len(rxq_fifo) : /\ rxq_fifo[i] \in Cell /\ rxq_fifo[i].id \in Nat
                                          /\ rxq_fifo[i].k \in Nat /\ rxq_fifo[i].n \in Nat
           /\ \A t \in Threads : pc[t] = "r_copy" => tmp[t][1] \in Cell /\ tmp[t][1].id \in Nat
<1>1. npkt \in Nat
  BY DEF TypeOK
<1>2. \A i \in 1..Len(delivered) : delivered[i] \in Packet
  BY DEF TypeOK
<1>3. \A i \in 1..Len(rxq_fifo) : rxq_fifo[i] \in Cell
  BY SMTT(30) DEF TypeOK
<1>4. \A t \in Threads : pc[t] = "r_copy" => tmp[t][1] \in Cell
  BY DEF TypeOK, Framing, ReadsOneRecord
<1>5. \A p \in Packet : p.id \in Nat
  BY DEF Packet
<1>6. \A c \in Cell : c.id \in Nat /\ c.n \in Nat /\ c.k \in Nat
  BY CellFacts, SMTT(30)
<1> QED
  BY <1>1, <1>2, <1>3, <1>4, <1>5, <1>6, Zenon

\* A step that moves no record.
Quiet ==
    /\ UNCHANGED <<rxq_fifo, npkt, delivered>>
    /\ ~rxq_inited' \/ bind' = "fifo" => ~rxq_inited \/ bind = "fifo"
    /\ irq' = "push" => irq = "push" /\ UNCHANGED pkt
    /\ \A t \in Threads : pc'[t] \in {"r_pop", "r_copy"} =>
          pc'[t] = pc[t] /\ need'[t] = need[t] /\ tmp'[t] = tmp[t]

\* Every other step completes, queues, peeks, pops, delivers or drops records.
LEMMA RecordMoves ==
    ASSUME TypeOK, Ownership, [Next]_vars
    PROVE  \/ Quiet \/ gxfp_uapi_rxq_push \/ UnregisterClear
           \/ \E n \in Lens : gxfp_uapi_rxq_push_packet(n)
           \/ \E t \in Threads :
                 \/ \E c \in Counts : gxfp_uapi_peek_need(t, c)
                 \/ gxfp_uapi_pop_record(t) \/ ReadCopy(t)
                 \/ gxfp_uapi_rxq_flush_locked(t)
<1> USE DEF TypeOK, Ownership, Quiet, devVars, callVars, irqVars
<1>1. CASE UNCHANGED vars
  BY <1>1, Zenon DEF vars
<1>2. ASSUME NEW f \in Files, NEW m \in OpenModes, gxfp_uapi_open(f, m) PROVE Quiet
  BY <1>2, Zenon DEF gxfp_uapi_open
<1>3. ASSUME NEW f \in Files, gxfp_uapi_release(f) PROVE Quiet
  BY <1>3, Zenon DEF gxfp_uapi_release
<1>4. ASSUME NEW t \in Threads, NEW f \in Files, gxfp_uapi_read(t, f) PROVE Quiet
  BY <1>4, Zenon DEF gxfp_uapi_read, Call
<1>5. ASSUME NEW t \in Threads, NEW f \in Files, gxfp_uapi_unlocked_ioctl(t, f) PROVE Quiet
  BY <1>5, Zenon DEF gxfp_uapi_unlocked_ioctl, Call
<1>6. ASSUME NEW t \in Threads, NEW f \in Files, gxfp_uapi_poll(t, f) PROVE Quiet
  BY <1>6, Zenon DEF gxfp_uapi_poll, Call
<1>7. ASSUME NEW t \in Threads, ReadLock(t) PROVE Quiet
  BY <1>7, Zenon DEF ReadLock, Goto
<1>8. ASSUME NEW t \in Threads, gxfp_uapi_wait_nonempty(t) PROVE Quiet
  BY <1>8, SMTT(30) DEF gxfp_uapi_wait_nonempty, Goto, Return
<1>9. ASSUME NEW t \in Threads, WaitPrepare(t) PROVE Quiet
  BY <1>9, Zenon DEF WaitPrepare, Goto
<1>10. ASSUME NEW t \in Threads, WaitCond(t) PROVE Quiet
  BY <1>10, Zenon DEF WaitCond, Goto
<1>11. ASSUME NEW t \in Threads, WaitWake(t) PROVE Quiet
  BY <1>11, Zenon DEF WaitWake, Goto
<1>12. ASSUME NEW t \in Threads, FlushLock(t) PROVE Quiet
  BY <1>12, Zenon DEF FlushLock, Goto
<1>13. ASSUME NEW t \in Threads, PollCheck(t) PROVE Quiet
  BY <1>13, SMTT(30) DEF PollCheck, Goto, Return
<1>14. ASSUME NEW t \in Threads, PollWake(t) PROVE Quiet
  BY <1>14, Zenon DEF PollWake, Goto
<1>15. ASSUME NEW t \in Threads, PollTimeout(t) PROVE Quiet
  BY <1>15, Zenon DEF PollTimeout, Return
<1>16. ASSUME NEW t \in Threads, Signal(t) PROVE Quiet
  BY <1>16, Zenon DEF Signal, Return
<1>17. CASE PushWake
  BY <1>17, Zenon DEF PushWake
<1>18. CASE RegisterFifo
  BY <1>18, Zenon DEF RegisterFifo, BindGoto
<1>19. CASE RegisterMisc
  BY <1>19, Zenon DEF RegisterMisc, BindGoto
<1>20. CASE RegisterFail
  BY <1>20, Zenon DEF RegisterFail, BindGoto
<1>21. CASE gxfp_probe
  BY <1>21, Zenon DEF gxfp_probe, BindGoto
<1>22. CASE DisableIrq
  BY <1>22, Zenon DEF DisableIrq, BindGoto
<1>23. CASE SynchronizeIrq
  BY <1>23, Zenon DEF SynchronizeIrq, BindGoto
<1>24. CASE MiscDeregister
  BY <1>24, Zenon DEF MiscDeregister, BindGoto
<1>25. CASE UnregisterLock
  BY <1>25, Zenon DEF UnregisterLock, BindGoto
<1>26. CASE UnregisterFree
  BY <1>26, Zenon DEF UnregisterFree, BindGoto
<1> HIDE DEF TypeOK, Ownership, Quiet
<1> QED
  BY <1>1, <1>2, <1>3, <1>4, <1>5, <1>6, <1>7, <1>8, <1>9, <1>10, <1>11,
     <1>12, <1>13, <1>14, <1>15, <1>16, <1>17, <1>18, <1>19, <1>20, <1>21,
     <1>22, <1>23, <1>24, <1>25, <1>26, Zenon
  DEF Next, ReadStep, FlushStep, PollStep, IrqStep, TeardownStep

-----------------------------------------------------------------------------

\* Each step keeps the kfifo whole and what a reader peeked or popped valid.
LEMMA FramingStep == TypeOK /\ Ownership /\ Framing /\ [Next]_vars => Framing'
<1> SUFFICES ASSUME TypeOK, Ownership, Framing, [Next]_vars PROVE Framing'
  BY Zenon
<1> USE ConstAssumption DEF TypeOK, Ownership, Holding, Framing, WellFramed, ReadsOneRecord,
        None, Remover, devVars, waitVars, callVars, irqVars
<1>1. CASE Quiet
  BY <1>1, SMTT(30) DEF Quiet
<1>2. ASSUME NEW t \in Threads, NEW c \in Counts, gxfp_uapi_peek_need(t, c) PROVE Framing'
  <2>1. CASE Return(t)
    BY <1>2, <2>1, SMTT(30) DEF gxfp_uapi_peek_need, Return
  <2>2. CASE ~Return(t)
    <3>1. /\ rxq_fifo # <<>>
          /\ pc' = [pc EXCEPT ![t] = "r_pop"]
          /\ need' = [need EXCEPT ![t] = rxq_fifo[1].n + 1]
          /\ UNCHANGED <<tmp, rxq_fifo, devVars, irqVars>>
      BY <1>2, <2>2, Zenon DEF gxfp_uapi_peek_need, Goto
    <3>2. pc[t] = "r_peek" /\ \A u \in Threads : u # t => need'[u] = need[u] /\ pc'[u] = pc[u]
      BY <1>2, <3>1, SMTT(30) DEF gxfp_uapi_peek_need
    <3>3. need'[t] = rxq_fifo[1].n + 1 /\ pc'[t] = "r_pop"
      BY <3>1, SMTT(30)
    <3> QED
      BY <3>1, <3>2, <3>3, SMTT(30)
  <2> QED
    BY <2>1, <2>2, Zenon
<1>3. ASSUME NEW t \in Threads, gxfp_uapi_pop_record(t) PROVE Framing'
  <2>1. PICK q \in Nat, l \in Nat : /\ q = rxq_fifo[1].n /\ need[t] = q + 1
                                    /\ l = Len(rxq_fifo) /\ q + 1 <= l
    <3>1. rxq_fifo # <<>> /\ need[t] = rxq_fifo[1].n + 1
      BY <1>3 DEF gxfp_uapi_pop_record
    <3>2. rxq_fifo[1] \in Cell /\ Len(rxq_fifo) \in Nat
      BY <3>1, SMTT(30)
    <3>3. rxq_fifo[1].n \in Nat /\ rxq_fifo[1].n + 1 <= Len(rxq_fifo)
      BY <3>1, <3>2, CellFacts, FramedPop, Zenon
    <3> QED
      BY <3>1, <3>2, <3>3
  <2>2. /\ rxq_inited
        /\ pc' = [pc EXCEPT ![t] = "r_copy"]
        /\ tmp' = [tmp EXCEPT ![t] = SubSeq(rxq_fifo, 1, q + 1)]
        /\ rxq_fifo' = SubSeq(rxq_fifo, q + 2, l)
        /\ UNCHANGED <<need, devVars, irqVars>>
    <3>1. (q + 1) + 1 = q + 2
      BY <2>1, SMTT(30)
    <3> HIDE DEF TypeOK, Ownership, Framing
    <3>2. rxq_inited
      BY <1>3, Zenon DEF gxfp_uapi_pop_record, Ownership, Committed
    <3> QED
      BY <1>3, <2>1, <3>1, <3>2, Zenon DEF gxfp_uapi_pop_record, Goto, Popped
  <2>3. /\ Framed(rxq_fifo')
        /\ SubSeq(rxq_fifo, 1, q + 1) = Cells(RecordOf(rxq_fifo[1]))
    BY <1>3, <2>1, <2>2, FramedPop, Zenon DEF gxfp_uapi_pop_record
  <2>4. \A u \in Threads : pc[u] \in {"r_pop", "r_copy"} => u = t
    BY <1>3 DEF gxfp_uapi_pop_record
  <2>5. /\ Len(tmp'[t]) = need'[t] /\ tmp'[t] # <<>>
        /\ tmp'[t] = Cells(RecordOf(tmp'[t][1]))
    <3>1. /\ rxq_fifo[1] \in Cell
          /\ SubSeq(rxq_fifo, 1, q + 1) \in Seq(Cell)
          /\ Len(SubSeq(rxq_fifo, 1, q + 1)) = q + 1
          /\ SubSeq(rxq_fifo, 1, q + 1)[1] = rxq_fifo[1]
      BY <1>3, <2>1, SubSeqProperties, SMTT(30) DEF gxfp_uapi_pop_record
    <3>2. tmp'[t] = SubSeq(rxq_fifo, 1, q + 1) /\ need'[t] = q + 1
      BY <2>1, <2>2, SMTT(30)
    <3>3. tmp'[t] # <<>>
      BY <3>1, <3>2, <2>1, SMTT(30)
    <3> QED
      BY <2>3, <3>1, <3>2, <3>3, Zenon
  <2>6. \A u \in Threads : pc'[u] = "r_copy" => u = t
    BY <2>2, <2>4, SMTT(30)
  <2>7. \A u \in Threads : pc'[u] # "r_pop"
    BY <2>2, <2>4, SMTT(30)
  <2>8. bind' # "fifo" /\ rxq_inited'
    BY <1>3, <2>2, SMTT(30) DEF gxfp_uapi_pop_record
  <2> QED
    BY <2>2, <2>3, <2>5, <2>6, <2>7, <2>8, Zenon
<1>4. ASSUME NEW t \in Threads, ReadCopy(t) PROVE Framing'
  BY <1>4, SMTT(30) DEF ReadCopy, Return
<1>5. ASSUME NEW t \in Threads, gxfp_uapi_rxq_flush_locked(t) PROVE Framing'
  <2>1. \A u \in Threads : pc[u] # "r_pop"
    BY <1>5, Zenon DEF gxfp_uapi_rxq_flush_locked
  <2> QED
    BY <1>5, <2>1, SMTT(30) DEF gxfp_uapi_rxq_flush_locked, Return, Framed
<1>6. ASSUME NEW n \in Lens, gxfp_uapi_rxq_push_packet(n) PROVE Framing'
  BY <1>6, SMTT(30) DEF gxfp_uapi_rxq_push_packet, Packet
<1>7. CASE gxfp_uapi_rxq_push
  <2>1. CASE rxq_inited /\ Fits(pkt)
    <3>1. pkt \in Packet /\ rxq_fifo' = rxq_fifo \o Cells(pkt)
      BY <1>7, <2>1, Zenon DEF gxfp_uapi_rxq_push, Stored
    <3>2. Framed(rxq_fifo')
      BY <3>1, FramedConcat, Zenon
    <3>3. rxq_fifo # <<>> => rxq_fifo' # <<>> /\ rxq_fifo'[1] = rxq_fifo[1]
      <4> SUFFICES ASSUME rxq_fifo # <<>>
                   PROVE  rxq_fifo' # <<>> /\ rxq_fifo'[1] = rxq_fifo[1]
        BY Zenon
      <4>1. Cells(pkt) \in Seq(Cell)
        BY <3>1, CellsType, Zenon
      <4>2. Len(rxq_fifo) >= 1 /\ Len(Cells(pkt)) >= 0
        BY <4>1, EmptySeq, SMTT(30)
      <4>3. Len(rxq_fifo') = Len(rxq_fifo) + Len(Cells(pkt)) /\ rxq_fifo' \in Seq(Cell)
        BY <3>1, <4>1, ConcatProperties, SMTT(30)
      <4>4. rxq_fifo'[1] = rxq_fifo[1]
        <5>1. 1 \in 1..(Len(rxq_fifo) + Len(Cells(pkt))) /\ 1 <= Len(rxq_fifo)
          BY <4>1, <4>2, SMTT(30)
        <5> QED
          BY <3>1, <4>1, <5>1, ConcatProperties, SMTT(30)
      <4> QED
        BY <4>2, <4>3, <4>4, EmptySeq, SMTT(30)
    <3>4. irq' = "wake" /\ bind' # "fifo" /\ UNCHANGED <<rxq_inited, pc, need, tmp>>
      BY <1>7, <2>1, Zenon DEF gxfp_uapi_rxq_push
    <3> QED
      BY <2>1, <3>2, <3>3, <3>4
  <2>2. CASE ~(rxq_inited /\ Fits(pkt))
    BY <1>7, <2>2, SMTT(30) DEF gxfp_uapi_rxq_push
  <2> QED
    BY <2>1, <2>2, Zenon
<1>8. CASE UnregisterClear
  <2>1. \A u \in Threads : pc[u] # "r_pop"
    BY <1>8, Zenon DEF UnregisterClear, BindGoto
  <2> QED
    BY <1>8, <2>1, SMTT(30) DEF UnregisterClear, BindGoto, Framed
<1> HIDE DEF TypeOK, Ownership, Framing
<1> QED
  BY <1>1, <1>2, <1>3, <1>4, <1>5, <1>6, <1>7, <1>8, RecordMoves, Zenon

\* Each step keeps records in the order in which they were completed.
LEMMA OrderedStep == TypeOK /\ Ownership /\ Framing /\ Ordered /\ [Next]_vars => Ordered'
<1> SUFFICES ASSUME TypeOK, Ownership, Framing, Ordered, [Next]_vars PROVE Ordered'
  BY Zenon
<1>0. \A i, j \in 1..Len(rxq_fifo) :
         /\ i < j => \/ rxq_fifo[i].id < rxq_fifo[j].id
                     \/ rxq_fifo[i].id = rxq_fifo[j].id /\ rxq_fifo[i].k < rxq_fifo[j].k
         /\ rxq_fifo[i].id = rxq_fifo[j].id => rxq_fifo[i].n = rxq_fifo[j].n
  BY Zenon DEF Ordered, InOrder
<1>1. ASSUME /\ rxq_fifo' = rxq_fifo \/ Len(rxq_fifo') = 0
             /\ UNCHANGED <<npkt, delivered>>
             /\ irq' = "push" => irq = "push" /\ UNCHANGED pkt
             /\ \A t \in Threads : pc'[t] = "r_copy" => pc[t] = "r_copy" /\ tmp'[t] = tmp[t]
      PROVE  Ordered'
  <2>1. CASE rxq_fifo' = rxq_fifo
    <3>1. InOrder'
      <4>1. InOrder /\ rxq_fifo' = rxq_fifo /\ delivered' = delivered
        BY <1>1, <2>1, Zenon DEF Ordered
      <4> QED
        BY <4>1, ZenonT(60) DEF InOrder
    <3>2. /\ \A i \in 1..Len(delivered') : delivered'[i].id <= npkt'
          /\ \A i \in 1..Len(rxq_fifo') : rxq_fifo'[i].id <= npkt'
          /\ \A i, j \in 1..Len(rxq_fifo') :
                rxq_fifo'[i].id = rxq_fifo'[j].id => rxq_fifo'[i].n = rxq_fifo'[j].n
      BY <1>1, <2>1, Zenon DEF Ordered
    <3>3. irq' = "push" =>
             /\ pkt'.id = npkt'
             /\ \A i \in 1..Len(delivered') : delivered'[i].id < pkt'.id
             /\ \A i \in 1..Len(rxq_fifo') : rxq_fifo'[i].id < pkt'.id
      BY <1>1, <2>1, Zenon DEF Ordered
    <3>4. ASSUME NEW t \in Threads, pc'[t] = "r_copy"
          PROVE  /\ tmp'[t][1].id <= npkt'
                 /\ irq' = "push" => tmp'[t][1].id < pkt'.id
                 /\ \A i \in 1..Len(delivered') : delivered'[i].id < tmp'[t][1].id
                 /\ \A i \in 1..Len(rxq_fifo') : tmp'[t][1].id < rxq_fifo'[i].id
      BY <1>1, <2>1, <3>4, Zenon DEF Ordered
    <3> QED
      BY <3>1, <3>2, <3>3, <3>4, Zenon DEF Ordered
  <2>2. CASE Len(rxq_fifo') = 0
    <3>1. 1..Len(rxq_fifo') = {}
      BY <2>2
    <3>2. InOrder'
      <4>1. \A i, j \in 1..Len(delivered') : i < j => delivered'[i].id < delivered'[j].id
        BY <1>1, Zenon DEF Ordered, InOrder
      <4> QED
        BY <3>1, <4>1, Zenon DEF InOrder
    <3>3. \A i \in 1..Len(delivered') : delivered'[i].id <= npkt'
      BY <1>1, Zenon DEF Ordered
    <3>4. irq' = "push" => /\ pkt'.id = npkt'
                           /\ \A i \in 1..Len(delivered') : delivered'[i].id < pkt'.id
      BY <1>1, Zenon DEF Ordered
    <3>5. ASSUME NEW t \in Threads, pc'[t] = "r_copy"
          PROVE  /\ tmp'[t][1].id <= npkt'
                 /\ irq' = "push" => tmp'[t][1].id < pkt'.id
                 /\ \A i \in 1..Len(delivered') : delivered'[i].id < tmp'[t][1].id
      BY <1>1, <3>5, Zenon DEF Ordered
    <3> QED
      BY <3>1, <3>2, <3>3, <3>4, <3>5, Zenon DEF Ordered
  <2> QED
    BY <1>1, <2>1, <2>2, Zenon
<1>2. ASSUME NEW n \in Lens, gxfp_uapi_rxq_push_packet(n) PROVE Ordered'
  <2>1. /\ npkt' = npkt + 1
        /\ UNCHANGED <<rxq_fifo, pc, tmp, delivered>>
        /\ irq' = "push" => pkt'.id = npkt + 1
    BY <1>2 DEF gxfp_uapi_rxq_push_packet, callVars
  <2>2. npkt \in Nat /\ \A m \in Nat : m <= npkt => m <= npkt + 1 /\ m < npkt + 1
    <3>1. npkt \in Nat
      BY Numbers, Zenon
    <3> QED
      BY <3>1
  <2>3. InOrder'
    <3>1. InOrder /\ rxq_fifo' = rxq_fifo /\ delivered' = delivered
      BY <2>1, Zenon DEF Ordered
    <3> QED
      BY <3>1, ZenonT(60) DEF InOrder
  <2>4. /\ \A i \in 1..Len(delivered) : delivered[i].id <= npkt + 1 /\ delivered[i].id < npkt + 1
        /\ \A i \in 1..Len(rxq_fifo) : rxq_fifo[i].id <= npkt + 1 /\ rxq_fifo[i].id < npkt + 1
        /\ \A t \in Threads : pc[t] = "r_copy" =>
              tmp[t][1].id <= npkt + 1 /\ tmp[t][1].id < npkt + 1
    BY <2>2, Numbers, Zenon DEF Ordered
  <2>5. /\ \A i, j \in 1..Len(rxq_fifo) :
              rxq_fifo[i].id = rxq_fifo[j].id => rxq_fifo[i].n = rxq_fifo[j].n
        /\ \A t \in Threads : pc[t] = "r_copy" =>
              /\ \A i \in 1..Len(delivered) : delivered[i].id < tmp[t][1].id
              /\ \A i \in 1..Len(rxq_fifo) : tmp[t][1].id < rxq_fifo[i].id
    BY Zenon DEF Ordered
  <2> QED
    BY <2>1, <2>3, <2>4, <2>5, ZenonT(60) DEF Ordered
<1>3. CASE gxfp_uapi_rxq_push
  <2>1. CASE rxq_inited /\ Fits(pkt)
    <3>1. /\ pkt \in Packet /\ rxq_fifo' = rxq_fifo \o Cells(pkt) /\ pkt.id = npkt
          /\ irq' = "wake" /\ irq = "push" /\ UNCHANGED <<pc, tmp, npkt, delivered>>
          /\ pkt.n \in Nat /\ rxq_fifo \in Seq(Cell)
      BY <1>3, <2>1, ConstAssumption, Zenon
         DEF gxfp_uapi_rxq_push, Stored, Framing, Ordered, callVars, Packet, TypeOK
    <3>2. PICK q \in Nat, l \in Nat : q = pkt.n /\ l = Len(rxq_fifo)
      BY <3>1
    <3> DEFINE f == rxq_fifo'
    <3>3. /\ Len(f) = l + q + 1
          /\ \A i \in 1..l : f[i] = rxq_fifo[i]
          /\ \A i \in 1..(q + 1) : f[l + i] = [id |-> npkt, n |-> q, k |-> i - 1]
      BY <3>1, <3>2, StoredCells, Zenon
    <3> HIDE DEF f
    <3>4. ASSUME NEW i \in 1..Len(f)
          PROVE  \/ /\ i \in 1..l /\ f[i] = rxq_fifo[i]
                    /\ f[i].id \in Nat /\ f[i].id < npkt
                 \/ /\ i \in (l + 1)..(l + q + 1)
                    /\ f[i].id = npkt /\ f[i].n = q /\ f[i].k = i - l - 1
      <4>1. CASE i \in 1..l
        BY <3>1, <3>2, <3>3, <4>1, Numbers, Zenon DEF Ordered
      <4>2. CASE i \notin 1..l
        <5>1. i - l \in 1..(q + 1) /\ l + (i - l) = i
          BY <3>3, <4>2, SMTT(30)
        <5>2. f[i] = [id |-> npkt, n |-> q, k |-> i - l - 1]
          BY <3>3, <5>1, Zenon
        <5> QED
          BY <3>3, <4>2, <5>2, SMTT(30)
      <4> QED
        BY <4>1, <4>2
    <3>5. ASSUME NEW i \in 1..Len(f), NEW j \in 1..Len(f)
          PROVE  /\ i < j => \/ f[i].id < f[j].id
                             \/ f[i].id = f[j].id /\ f[i].k < f[j].k
                 /\ f[i].id = f[j].id => f[i].n = f[j].n
      <4>1. CASE f[i] = rxq_fifo[i] /\ i \in 1..l /\ f[j] = rxq_fifo[j] /\ j \in 1..l
        <5>1. i \in 1..Len(rxq_fifo) /\ j \in 1..Len(rxq_fifo)
          BY <3>2, <4>1, Zenon
        <5>2. /\ i < j => \/ rxq_fifo[i].id < rxq_fifo[j].id
                          \/ rxq_fifo[i].id = rxq_fifo[j].id /\ rxq_fifo[i].k < rxq_fifo[j].k
              /\ rxq_fifo[i].id = rxq_fifo[j].id => rxq_fifo[i].n = rxq_fifo[j].n
          BY <1>0, <5>1, Zenon
        <5> QED
          BY <4>1, <5>2, Zenon
      <4>2. CASE i \notin 1..l \/ j \notin 1..l
        <5>1. i \in Nat /\ j \in Nat /\ npkt \in Nat
          BY Numbers
        <5>2. CASE i \in 1..l /\ j \notin 1..l
          BY <3>4, <5>1, <5>2, SMTT(30)
        <5>3. CASE i \notin 1..l /\ j \in 1..l
          <6>1. f[j].id < npkt /\ f[j].id \in Nat /\ f[i].id = npkt /\ i > l
            BY <3>4, <5>3
          <6> QED
            BY <5>1, <5>3, <6>1, SMTT(30)
        <5>4. CASE i \notin 1..l /\ j \notin 1..l
          <6>1. /\ f[i].id = npkt /\ f[i].n = q /\ f[i].k = i - l - 1
                /\ f[j].id = npkt /\ f[j].n = q /\ f[j].k = j - l - 1
            BY <3>4, <5>4, Zenon
          <6> QED
            BY <5>1, <6>1
        <5> QED
          BY <4>2, <5>2, <5>3, <5>4
      <4> QED
        BY <3>4, <4>1, <4>2
    <3>6. ASSUME NEW i \in 1..Len(f)
          PROVE  /\ f[i].id <= npkt
                 /\ \A j \in 1..Len(delivered) : delivered[j].id < f[i].id
                 /\ \A t \in Threads : pc[t] = "r_copy" => tmp[t][1].id < f[i].id
      <4>1. CASE i \in 1..l /\ f[i] = rxq_fifo[i]
        BY <3>2, <4>1, Zenon DEF Ordered, InOrder
      <4>2. CASE f[i].id = npkt
        <5>1. npkt <= npkt
          BY Numbers
        <5> QED
          BY <3>1, <4>2, <5>1, Zenon DEF Ordered
      <4> QED
        BY <3>4, <4>1, <4>2, Zenon
    <3> QED
      BY <3>1, <3>5, <3>6, ZenonT(60) DEF Ordered, InOrder, f
  <2>2. CASE ~(rxq_inited /\ Fits(pkt))
    BY <1>1, <1>3, <2>2, Zenon DEF gxfp_uapi_rxq_push, callVars
  <2> QED
    BY <2>1, <2>2
<1>4. ASSUME NEW t \in Threads, gxfp_uapi_pop_record(t) PROVE Ordered'
  <2>1. /\ rxq_fifo # <<>> /\ need[t] = rxq_fifo[1].n + 1 /\ rxq_inited
        /\ rxq_fifo \in Seq(Cell) /\ Framed(rxq_fifo) /\ 1 \in 1..Len(rxq_fifo)
    <3>1. pc[t] = "r_pop" /\ rxq_inited
      BY <1>4, Zenon DEF gxfp_uapi_pop_record, Ownership, Committed
    <3>2. rxq_fifo # <<>> /\ need[t] = rxq_fifo[1].n + 1 /\ Framed(rxq_fifo)
      BY <3>1, Zenon DEF Framing, WellFramed
    <3>3. rxq_fifo \in Seq(Cell)
      BY Zenon DEF TypeOK
    <3> QED
      BY <3>1, <3>2, <3>3, EmptySeq
  <2>2. PICK q \in Nat, l \in Nat : q = rxq_fifo[1].n /\ l = Len(rxq_fifo) /\ q + 1 <= l
    BY <2>1, Numbers, FramedPop
  <2> DEFINE f == rxq_fifo'
  <2>3. /\ pc' = [pc EXCEPT ![t] = "r_copy"]
        /\ tmp' = [tmp EXCEPT ![t] = SubSeq(rxq_fifo, 1, q + 1)]
        /\ f = SubSeq(rxq_fifo, q + 2, l)
        /\ UNCHANGED <<irq, pkt, npkt, delivered>>
    <3>1. (q + 1) + 1 = q + 2
      OBVIOUS
    <3> QED
      BY <1>4, <2>1, <2>2, <3>1, Zenon DEF gxfp_uapi_pop_record, Goto, Popped, irqVars
  <2>4. tmp'[t][1] = rxq_fifo[1] /\ \A u \in Threads : pc'[u] = "r_copy" => u = t
    <3>1. SubSeq(rxq_fifo, 1, q + 1)[1] = rxq_fifo[1]
      BY <2>1, <2>2, SubSeqProperties, SMTT(30)
    <3> QED
      BY <1>4, <2>3, <3>1, Zenon DEF gxfp_uapi_pop_record, Ownership, Holding, TypeOK
  <2>5. /\ Len(f) = l - q - 1
        /\ \A i \in 1..Len(f) : i + q + 1 \in 1..l /\ f[i] = rxq_fifo[i + q + 1]
    <3>1. /\ Len(SubSeq(rxq_fifo, q + 2, l)) = l - q - 1
          /\ \A i \in 1..(l - q - 1) :
                i + q + 1 \in 1..l /\ SubSeq(rxq_fifo, q + 2, l)[i] = rxq_fifo[i + q + 1]
      BY <2>1, <2>2, PoppedCells, Zenon
    <3> QED
      BY <2>3, <3>1, Zenon
  <2> HIDE DEF f
  <2>6. ASSUME NEW i \in 1..Len(f) PROVE rxq_fifo[1].id < f[i].id
    <3>1. PICK j \in 1..l : j = i + q + 1 /\ f[i] = rxq_fifo[j]
      BY <2>5
    <3> i \in Nat /\ i >= 1
      BY <2>5
    <3>2. rxq_fifo[q + 1].k = q /\ rxq_fifo[q + 1].id = rxq_fifo[1].id
      BY <2>1, <2>2, HeadRecord, Zenon
    <3>3. rxq_fifo[j].k <= rxq_fifo[j].n
      BY <2>1, <2>2, Zenon DEF Framed
    <3>4. q + 1 < j /\ q + 1 \in 1..l
      BY <2>2, <3>1, SMTT(30)
    <3>5. rxq_fifo[j].id = rxq_fifo[1].id => rxq_fifo[j].n = q
      BY <2>1, <2>2, Zenon DEF Ordered
    <3>6. \/ rxq_fifo[q + 1].id < rxq_fifo[j].id
          \/ rxq_fifo[q + 1].id = rxq_fifo[j].id /\ rxq_fifo[q + 1].k < rxq_fifo[j].k
      BY <2>2, <3>4, Zenon DEF Ordered, InOrder
    <3> QED
      BY <2>2, <3>1, <3>2, <3>3, <3>5, <3>6, Numbers, SMTT(30)
  <2>7. ASSUME NEW i \in 1..Len(f), NEW j \in 1..Len(f)
        PROVE  /\ i < j => \/ f[i].id < f[j].id
                           \/ f[i].id = f[j].id /\ f[i].k < f[j].k
               /\ f[i].id = f[j].id => f[i].n = f[j].n
    <3>1. PICK a \in 1..l, b \in 1..l : /\ a = i + q + 1 /\ f[i] = rxq_fifo[a]
                                       /\ b = j + q + 1 /\ f[j] = rxq_fifo[b]
      BY <2>5, Zenon
    <3>2. i < j => a < b
      BY <2>5, <3>1, SMTT(30)
    <3>3. /\ a < b => \/ rxq_fifo[a].id < rxq_fifo[b].id
                      \/ rxq_fifo[a].id = rxq_fifo[b].id /\ rxq_fifo[a].k < rxq_fifo[b].k
          /\ rxq_fifo[a].id = rxq_fifo[b].id => rxq_fifo[a].n = rxq_fifo[b].n
      BY <2>2, Zenon DEF Ordered, InOrder
    <3> QED
      BY <3>1, <3>2, <3>3, Zenon
  <2>8. ASSUME NEW i \in 1..Len(f)
        PROVE  f[i].id <= npkt /\ \A j \in 1..Len(delivered) : delivered[j].id < f[i].id
    <3>1. PICK a \in 1..Len(rxq_fifo) : f[i] = rxq_fifo[a]
      BY <2>2, <2>5, Zenon
    <3> QED
      BY <3>1, Zenon DEF Ordered, InOrder
  <2>9. ASSUME irq = "push", NEW i \in 1..Len(f) PROVE f[i].id < pkt.id
    BY <2>2, <2>5, <2>9, Zenon DEF Ordered
  <2>10. /\ rxq_fifo[1].id <= npkt /\ (irq = "push" => rxq_fifo[1].id < pkt.id)
         /\ \A j \in 1..Len(delivered) : delivered[j].id < rxq_fifo[1].id
    BY <2>1 DEF Ordered, InOrder
  <2>11. InOrder'
    BY <2>3, <2>7, <2>8, ZenonT(60) DEF Ordered, InOrder, f
  <2>12. \A u \in Threads : pc'[u] = "r_copy" => tmp'[u][1] = rxq_fifo[1]
    BY <2>4
  <2> QED
    BY <2>3, <2>6, <2>7, <2>8, <2>9, <2>10, <2>11, <2>12, ZenonT(60) DEF Ordered, f
<1>5. ASSUME NEW t \in Threads, ReadCopy(t) PROVE Ordered'
  <2>1. /\ UNCHANGED <<rxq_fifo, irq, pkt, npkt>> /\ pc[t] = "r_copy"
        /\ \A u \in Threads : pc'[u] # "r_copy"
    BY <1>5 DEF ReadCopy, Return, Ownership, Holding, irqVars, TypeOK
  <2>2. CASE UNCHANGED delivered
    BY <1>1, <2>1, <2>2, Zenon
  <2>3. CASE delivered' = Append(delivered, RecordOf(tmp[t][1]))
    <3>1. PICK d \in Nat, l \in Nat : d = tmp[t][1].id /\ l = Len(delivered)
      <4>1. delivered \in Seq(Packet) /\ tmp[t][1].id \in Nat
        BY <2>1, Numbers, Zenon DEF TypeOK
      <4> QED
        BY <4>1
    <3>2. /\ Len(delivered') = l + 1
          /\ \A i \in 1..l : delivered'[i] = delivered[i]
          /\ delivered'[l + 1].id = d
      <4>1. RecordOf(tmp[t][1]) \in Packet /\ RecordOf(tmp[t][1]).id = d
        BY <2>1, <3>1, Numbers, CellFacts, Zenon DEF RecordOf
      <4>2. delivered \in Seq(Packet)
        BY DEF TypeOK
      <4> QED
        BY <2>3, <3>1, <4>1, <4>2, AppendProperties, SMTT(30)
    <3>3. /\ d <= npkt /\ (irq = "push" => d < pkt.id)
          /\ \A i \in 1..l : delivered[i].id < d
          /\ \A i \in 1..Len(rxq_fifo) : d < rxq_fifo[i].id
      BY <2>1, <3>1, Zenon DEF Ordered
    <3>4. \A i \in 1..(l + 1) : i \in 1..l \/ i = l + 1
      OBVIOUS
    <3>5. \A i, j \in 1..(l + 1) : i < j => i \in 1..l
      BY SMTT(30)
    <3>6. \A i, j \in 1..(l + 1) : i < j => delivered'[i].id < delivered'[j].id
      <4>1. \A i, j \in 1..l : i < j => delivered[i].id < delivered[j].id
        BY <3>1, Zenon DEF Ordered, InOrder
      <4> QED
        BY <3>2, <3>3, <3>4, <3>5, <4>1, Zenon
    <3>7. /\ \A i \in 1..(l + 1), j \in 1..Len(rxq_fifo) : delivered'[i].id < rxq_fifo[j].id
          /\ \A i \in 1..(l + 1) : delivered'[i].id <= npkt
          /\ irq = "push" => \A i \in 1..(l + 1) : delivered'[i].id < pkt.id
      <4>1. /\ \A i \in 1..l, j \in 1..Len(rxq_fifo) : delivered[i].id < rxq_fifo[j].id
            /\ \A i \in 1..l : delivered[i].id <= npkt
            /\ irq = "push" => \A i \in 1..l : delivered[i].id < pkt.id
        BY <3>1, Zenon DEF Ordered, InOrder
      <4> QED
        BY <3>2, <3>3, <3>4, <4>1, Zenon
    <3>8. InOrder'
      <4>1. \A i, j \in 1..Len(rxq_fifo') : i < j =>
               \/ rxq_fifo'[i].id < rxq_fifo'[j].id
               \/ rxq_fifo'[i].id = rxq_fifo'[j].id /\ rxq_fifo'[i].k < rxq_fifo'[j].k
        BY <1>0, <2>1
      <4>2. /\ \A i, j \in 1..Len(delivered') : i < j => delivered'[i].id < delivered'[j].id
            /\ \A i \in 1..Len(delivered'), j \in 1..Len(rxq_fifo') :
                  delivered'[i].id < rxq_fifo'[j].id
        BY <2>1, <3>2, <3>6, <3>7, Zenon
      <4> QED
        BY <4>1, <4>2, Zenon DEF InOrder
    <3> QED
      BY <2>1, <3>2, <3>7, <3>8, Zenon DEF Ordered
  <2> QED
    BY <1>5, <2>2, <2>3, Zenon DEF ReadCopy
<1>6. CASE Quiet
  BY <1>1, <1>6, Zenon DEF Quiet
<1>7. ASSUME NEW t \in Threads, NEW c \in Counts, gxfp_uapi_peek_need(t, c) PROVE Ordered'
  BY <1>1, <1>7, Zenon DEF gxfp_uapi_peek_need, Goto, Return, irqVars, TypeOK
<1>8. ASSUME NEW t \in Threads, gxfp_uapi_rxq_flush_locked(t) PROVE Ordered'
  BY <1>1, <1>8, Zenon DEF gxfp_uapi_rxq_flush_locked, Return, irqVars, TypeOK
<1>9. CASE UnregisterClear
  BY <1>1, <1>9 DEF UnregisterClear, BindGoto, callVars
<1> QED
  BY <1>2, <1>3, <1>4, <1>5, <1>6, <1>7, <1>8, <1>9, RecordMoves, Zenon

-----------------------------------------------------------------------------
\* The inductive invariant holds in every reachable state.
THEOREM Invariance == Spec => []IInv
<1>1. Init => IInv
  <2> SUFFICES ASSUME Init PROVE IInv
    BY Zenon
  <2> USE ConstAssumption DEF Init
  <2>1. TypeOK
    <3>1. rxq_fifo \in Seq(Cell) /\ Len(rxq_fifo) <= Capacity /\ delivered \in Seq(Packet)
      OBVIOUS
    <3>2. /\ file \in [Files -> OpenModes \cup {"closed"}]
          /\ on \in [Threads -> Files \cup {None}]
          /\ need \in [Threads -> Nat] /\ tmp \in [Threads -> Seq(Cell)]
      OBVIOUS
    <3>3. npkt \in 0..MaxPackets /\ pkt \in Packet \cup {NoPacket}
      OBVIOUS
    <3> QED
      BY <3>1, <3>2, <3>3, Zenon DEF TypeOK
  <2>2. Ownership
    BY DEF Ownership, Holding, Committed, None, Remover
  <2>3. Framing
    BY DEF Framing, WellFramed, Framed, ReadsOneRecord
  <2>4. Queued /\ Readers
    BY Zenon DEF Queued, NoLostWakeup, Readers, SingleReader, ReadModes
  <2>5. Ordered
    BY DEF Ordered, InOrder
  <2> QED
    BY <2>1, <2>2, <2>3, <2>4, <2>5, Zenon DEF IInv, Control
<1>2. IInv /\ [Next]_vars => IInv'
  BY ControlStep, TypeStep, FramingStep, OrderedStep DEF IInv, Control
<1> QED
  BY <1>1, <1>2, PTL DEF Spec

\* Every variable keeps its type and the kfifo its capacity.
THEOREM TypeCorrect == Spec => []TypeOK
<1>1. IInv => TypeOK
  BY DEF IInv
<1> QED
  BY <1>1, Invariance, PTL

\* The kfifo is always a run of whole records, so gxfp_uapi_peek_need always
\* finds a header at its head.
THEOREM AlwaysFramed == Spec => []WellFramed
<1>1. IInv => WellFramed
  BY Zenon DEF IInv, Framing
<1> QED
  BY <1>1, Invariance, PTL

\* read(2) returns exactly one whole record although the spinlock is released
\* between gxfp_uapi_peek_need and gxfp_uapi_pop_record.
THEOREM ReadIsWhole == Spec => []ReadsOneRecord
<1>1. IInv => ReadsOneRecord
  BY Zenon DEF IInv, Framing
<1> QED
  BY <1>1, Invariance, PTL

\* Records are delivered in order and never twice.
THEOREM DeliveryInOrder == Spec => []InOrder
<1>1. IInv => InOrder
  BY Zenon DEF IInv, Ordered
<1> QED
  BY <1>1, Invariance, PTL

\* The storage of the kfifo is not used after gxfp_uapi_unregister freed it.
THEOREM StorageIsLive == Spec => []NoUseAfterFree
<1>1. IInv => NoUseAfterFree
  BY DEF IInv, Control, Ownership, NoUseAfterFree, Committed
<1> QED
  BY <1>1, Invariance, PTL

\* No reader or poller sleeps through a record or through unbinding.
THEOREM WakeupsKept == Spec => []NoLostWakeup
<1>1. IInv => NoLostWakeup
  BY DEF IInv, Control, Queued
<1> QED
  BY <1>1, Invariance, PTL

\* At most one file is open for reading.
THEOREM OneReader == Spec => []SingleReader
<1>1. IInv => SingleReader
  BY Zenon DEF IInv, Control, Readers
<1> QED
  BY <1>1, Invariance, PTL

\* Unbinding cannot clear the queue under a reader asleep in read(2).
THEOREM SleeperPinsQueue == Spec => []SleepingReaderPinsQueue
<1>1. IInv => SleepingReaderPinsQueue
  BY ConstAssumption
     DEF IInv, Control, Ownership, SleepingReaderPinsQueue, Holding, Committed, Remover, None
<1> QED
  BY <1>1, Invariance, PTL

=============================================================================
