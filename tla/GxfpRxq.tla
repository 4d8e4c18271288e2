------------------------------- MODULE GxfpRxq -------------------------------
(***************************************************************************)
(* The receive queue behind /dev/gxfp: the kfifo filled by the interrupt   *)
(* thread and emptied by read(2), the FLUSH ioctl and driver unbinding     *)
(* (kernel/driver/gxfp_uapi_fifo.c, gxfp_uapi_ctrl.c, gxfp_uapi_misc.c,    *)
(* with the callers in gxfp_irq.c, gxfp_platform.c and gxfp_main.c).       *)
(*                                                                         *)
(* A step is what runs under one hold of the spinlock rxq_lock, or what    *)
(* lies between two such holds.  The mutex rxq_mutex is a variable.        *)
(* The kfifo holds cells: cell 0 of a record is its tap header (which      *)
(* carries the payload length n), cells 1..n are its payload.              *)
(***************************************************************************)
EXTENDS Integers, Sequences

CONSTANTS
    Threads,     \* user threads that call into the device
    Files,       \* open file descriptions
    OpenModes,   \* subset of {"rd", "rdnb", "wr"}: blocking, O_NONBLOCK, write-only
    Counts,      \* buffer sizes, in cells, passed to read(2)
    Lens,        \* payload lengths, in cells, of received packets
    Capacity,    \* GXFP_RXQ_FIFO_BYTES, in cells
    MaxPackets   \* bound on the packets the interrupt thread completes

None == "none"
Remover == "remover"      \* the thread that binds and unbinds the driver

ASSUME ConstAssumption ==
    /\ {None, Remover} \cap Threads = {}
    /\ None \notin Files
    /\ OpenModes \subseteq {"rd", "rdnb", "wr"}
    /\ Counts \subseteq Nat /\ Lens \subseteq Nat
    /\ Capacity \in Nat /\ MaxPackets \in Nat

ReadModes == {"rd", "rdnb"}

VARIABLES
    misc_registered,   \* /dev/gxfp exists
    rxq_inited,
    rxq_buf,           \* the kvmalloc'ed storage of the kfifo is allocated
    rxq_reader_open,
    file,              \* mode of each open file, or "closed"
    bind,              \* where the binding/unbinding thread is
    rxq_fifo,          \* the cells in the kfifo
    rxq_mutex,         \* owner of the mutex, or None
    waiters,           \* threads on the wait queue rxq_wq
    woken,             \* threads with a wake-up they have not yet consumed
    pc,                \* where each user thread is
    on,                \* the file each thread's call is on, or None
    need,              \* the record size each reader peeked
    tmp,               \* the cells each reader popped
    irq,               \* where the interrupt thread is
    irq_on,            \* the interrupt line is enabled
    pkt,               \* the packet the interrupt thread completed
    npkt,              \* packets completed so far
    delivered          \* history: records copied to user space, oldest first

devVars == <<misc_registered, rxq_inited, rxq_buf, rxq_reader_open, file, bind>>
waitVars == <<waiters, woken>>
callVars == <<pc, on, need, tmp>>
irqVars == <<irq, irq_on, pkt, npkt>>
vars == <<devVars, rxq_fifo, rxq_mutex, waitVars, callVars, irqVars, delivered>>

Packet == [id : 1..MaxPackets, n : Lens]
NoPacket == [id |-> 0, n |-> 0]
Cell == [id : 1..MaxPackets, n : Lens, k : Nat]

\* A record as it is laid out in the kfifo: header, then payload.
Cells(p) == [i \in 1..(p.n + 1) |-> [id |-> p.id, n |-> p.n, k |-> i - 1]]

RecordOf(c) == [id |-> c.id, n |-> c.n]

TypeOK ==
    /\ misc_registered \in BOOLEAN /\ rxq_inited \in BOOLEAN
    /\ rxq_buf \in BOOLEAN /\ rxq_reader_open \in BOOLEAN
    /\ file \in [Files -> OpenModes \cup {"closed"}]
    /\ bind \in {"unbound", "fifo", "startup", "bound", "disabled", "synced",
                 "dereg", "locked", "cleared", "gone"}
    /\ rxq_fifo \in Seq(Cell) /\ Len(rxq_fifo) <= Capacity
    /\ rxq_mutex \in Threads \cup {Remover, None}
    /\ waiters \subseteq Threads /\ woken \subseteq Threads
    /\ pc \in [Threads -> {"idle", "r_lock", "r_check", "r_prep", "r_cond",
                           "r_sleep", "r_peek", "r_pop", "r_copy",
                           "f_lock", "f_do", "p_check", "p_sleep"}]
    /\ on \in [Threads -> Files \cup {None}]
    /\ need \in [Threads -> Nat] /\ tmp \in [Threads -> Seq(Cell)]
    /\ irq \in {"idle", "push", "wake"} /\ irq_on \in BOOLEAN
    /\ pkt \in Packet \cup {NoPacket} /\ npkt \in 0..MaxPackets
    /\ delivered \in Seq(Packet)

Init ==
    /\ misc_registered = FALSE /\ rxq_inited = FALSE
    /\ rxq_buf = FALSE /\ rxq_reader_open = FALSE
    /\ file = [f \in Files |-> "closed"] /\ bind = "unbound"
    /\ rxq_fifo = <<>> /\ rxq_mutex = None
    /\ waiters = {} /\ woken = {}
    /\ pc = [t \in Threads |-> "idle"] /\ on = [t \in Threads |-> None]
    /\ need = [t \in Threads |-> 0] /\ tmp = [t \in Threads |-> <<>>]
    /\ irq = "idle" /\ irq_on = FALSE /\ pkt = NoPacket /\ npkt = 0
    /\ delivered = <<>>

-----------------------------------------------------------------------------
(* Helpers.                                                                *)

\* A thread inside a call moves on to its next step.
Goto(t, from, to) ==
    /\ pc[t] = from
    /\ pc' = [pc EXCEPT ![t] = to]
    /\ UNCHANGED on

\* A call begins on an open file.
Call(t, f, to) ==
    /\ pc[t] = "idle"
    /\ pc' = [pc EXCEPT ![t] = to]
    /\ on' = [on EXCEPT ![t] = f]
    /\ UNCHANGED <<need, tmp, rxq_mutex>>

\* Mutant of Return: an error path that misses out_unlock.
ReturnLocked(t) ==
    /\ pc' = [pc EXCEPT ![t] = "idle"]
    /\ on' = [on EXCEPT ![t] = None]
    /\ UNCHANGED <<need, tmp, rxq_mutex>>

\* A call returns to user space; whoever holds rxq_mutex passes out_unlock.
Return(t) ==
    /\ pc' = [pc EXCEPT ![t] = "idle"]
    /\ on' = [on EXCEPT ![t] = None]
    /\ need' = [need EXCEPT ![t] = 0]
    /\ tmp' = [tmp EXCEPT ![t] = <<>>]
    /\ rxq_mutex' = IF rxq_mutex = t THEN None ELSE rxq_mutex

\* Mutant of Lock: rxq_mutex is not taken.
NoLock(who) == UNCHANGED rxq_mutex

Lock(who) == rxq_mutex = None /\ rxq_mutex' = who

\* A thread leaves the wait queue; a wake-up it did not consume is gone.
Unqueue(t) == waiters' = waiters \ {t} /\ woken' = woken \ {t}

\* wake_up_interruptible(&rxq_wq)
WakeAll == woken' = woken \cup waiters

-----------------------------------------------------------------------------
(* open(2) and the last close(2) of a file.  misc_open and misc_deregister *)
(* exclude each other, so an open is one step.                             *)

MayOpen(m) == m \in ReadModes => rxq_inited /\ ~rxq_reader_open

gxfp_uapi_open(f, m) ==
    /\ misc_registered /\ file[f] = "closed"
    /\ MayOpen(m)
    /\ file' = [file EXCEPT ![f] = m]
    /\ rxq_reader_open' = (rxq_reader_open \/ m \in ReadModes)
    /\ UNCHANGED <<misc_registered, rxq_inited, rxq_buf, bind, rxq_fifo,
                   rxq_mutex, waitVars, callVars, irqVars, delivered>>

gxfp_uapi_release(f) ==
    /\ file[f] # "closed"
    /\ \A t \in Threads : on[t] # f
    /\ file' = [file EXCEPT ![f] = "closed"]
    /\ rxq_reader_open' = (rxq_reader_open /\ file[f] \notin ReadModes)
    /\ UNCHANGED <<misc_registered, rxq_inited, rxq_buf, bind, rxq_fifo,
                   rxq_mutex, waitVars, callVars, irqVars, delivered>>

-----------------------------------------------------------------------------
(* read(2)                                                                 *)

\* Entry: the unlocked rxq_inited test, before the mutex.
gxfp_uapi_read(t, f) ==
    /\ file[f] \in ReadModes /\ rxq_inited
    /\ Call(t, f, "r_lock")
    /\ UNCHANGED <<devVars, rxq_fifo, waitVars, irqVars, delivered>>

ReadLock(t) ==
    /\ Goto(t, "r_lock", "r_check")
    /\ Lock(t)
    /\ UNCHANGED <<devVars, rxq_fifo, waitVars, need, tmp, irqVars, delivered>>

\* The head of the loop of gxfp_uapi_wait_nonempty, under rxq_lock: -ENODEV,
\* success, -EAGAIN, or on to wait_event_interruptible, mutex still held.
gxfp_uapi_wait_nonempty(t) ==
    /\ pc[t] = "r_check"
    /\ IF ~rxq_inited \/ (rxq_fifo = <<>> /\ file[on[t]] = "rdnb")
       THEN Return(t)
       ELSE /\ Goto(t, "r_check", IF rxq_fifo # <<>> THEN "r_peek" ELSE "r_prep")
            /\ UNCHANGED <<need, tmp, rxq_mutex>>
    /\ UNCHANGED <<devVars, rxq_fifo, waitVars, irqVars, delivered>>

\* wait_event_interruptible: queue up, then test the condition, then sleep.
WaitPrepare(t) ==
    /\ Goto(t, "r_prep", "r_cond")
    /\ waiters' = waiters \cup {t} /\ woken' = woken \ {t}
    /\ UNCHANGED <<devVars, rxq_fifo, rxq_mutex, need, tmp, irqVars, delivered>>

gxfp_uapi_rxq_ready == rxq_inited /\ rxq_fifo # <<>>

WaitCond(t) ==
    /\ IF gxfp_uapi_rxq_ready \/ ~rxq_inited
       THEN Goto(t, "r_cond", "r_check") /\ Unqueue(t)
       ELSE Goto(t, "r_cond", "r_sleep") /\ UNCHANGED waitVars
    /\ UNCHANGED <<devVars, rxq_fifo, rxq_mutex, need, tmp, irqVars, delivered>>

WaitWake(t) ==
    /\ t \in woken
    /\ Goto(t, "r_sleep", "r_prep")
    /\ UNCHANGED <<devVars, rxq_fifo, rxq_mutex, waitVars, need, tmp, irqVars,
                   delivered>>

\* A signal ends an interruptible wait, for the mutex or on the wait queue.
Signal(t) ==
    /\ pc[t] \in {"r_lock", "r_sleep", "f_lock"}
    /\ Unqueue(t) /\ Return(t)
    /\ UNCHANGED <<devVars, rxq_fifo, irqVars, delivered>>

\* Under rxq_lock; the errors (-ENODEV, -EIO, -EMSGSIZE for a count c that is
\* too small, and then -ENOMEM) leave the record where it is.
gxfp_uapi_peek_need(t, c) ==
    LET size == rxq_fifo[1].n + 1
    IN  /\ pc[t] = "r_peek"
        /\ \/ /\ rxq_inited /\ rxq_fifo # <<>>
              /\ size <= Len(rxq_fifo) /\ size <= c
              /\ Goto(t, "r_peek", "r_pop")
              /\ need' = [need EXCEPT ![t] = size]
              /\ UNCHANGED <<tmp, rxq_mutex>>
           \/ Return(t)
        /\ UNCHANGED <<devVars, rxq_fifo, waitVars, irqVars, delivered>>

\* Mutant of Popped: the record is read and left in the kfifo.
PoppedNothing(m) == rxq_fifo

\* What kfifo_out of m cells leaves; it takes at most what there is.
Popped(m) == SubSeq(rxq_fifo, m + 1, Len(rxq_fifo))

gxfp_uapi_pop_record(t) ==
    /\ pc[t] = "r_pop"
    /\ IF rxq_inited
       THEN LET m == IF need[t] <= Len(rxq_fifo) THEN need[t] ELSE Len(rxq_fifo)
            IN  /\ Goto(t, "r_pop", "r_copy")
                /\ tmp' = [tmp EXCEPT ![t] = SubSeq(rxq_fifo, 1, m)]
                /\ rxq_fifo' = Popped(m)
                /\ UNCHANGED <<need, rxq_mutex>>
       ELSE Return(t) /\ UNCHANGED rxq_fifo
    /\ UNCHANGED <<devVars, waitVars, irqVars, delivered>>

\* popped # need is -EIO; copy_to_user may fail, and the record is then lost.
ReadCopy(t) ==
    /\ pc[t] = "r_copy"
    /\ \/ /\ Len(tmp[t]) = need[t]
          /\ delivered' = Append(delivered, RecordOf(tmp[t][1]))
       \/ UNCHANGED delivered
    /\ Return(t)
    /\ UNCHANGED <<devVars, rxq_fifo, waitVars, irqVars>>

-----------------------------------------------------------------------------
(* ioctl(GXFP_IOCTL_FLUSH_RXQ) and poll(2), on any open file.              *)

gxfp_uapi_unlocked_ioctl(t, f) ==
    /\ file[f] # "closed"
    /\ Call(t, f, "f_lock")
    /\ UNCHANGED <<devVars, rxq_fifo, waitVars, irqVars, delivered>>

\* Mutant: the flush resets the kfifo under the spinlock alone.
FlushNoLock(t) ==
    /\ Goto(t, "f_lock", "f_do")
    /\ UNCHANGED <<devVars, rxq_fifo, rxq_mutex, waitVars, need, tmp, irqVars,
                   delivered>>

FlushLock(t) ==
    /\ Goto(t, "f_lock", "f_do")
    /\ Lock(t)
    /\ UNCHANGED <<devVars, rxq_fifo, waitVars, need, tmp, irqVars, delivered>>

gxfp_uapi_rxq_flush_locked(t) ==
    /\ pc[t] = "f_do"
    /\ rxq_fifo' = IF rxq_inited THEN <<>> ELSE rxq_fifo
    /\ Return(t)
    /\ UNCHANGED <<devVars, waitVars, irqVars, delivered>>

\* Mutant of PollWait: the caller is not put on the wait queue.
NoPollWait(t) == UNCHANGED waiters

\* poll_wait queues the thread before the kfifo is looked at.
PollWait(t) == waiters' = waiters \cup {t}

gxfp_uapi_poll(t, f) ==
    /\ file[f] # "closed" /\ rxq_inited
    /\ Call(t, f, "p_check")
    /\ PollWait(t)
    /\ UNCHANGED <<devVars, rxq_fifo, woken, irqVars, delivered>>

PollCheck(t) ==
    /\ pc[t] = "p_check"
    /\ IF rxq_inited /\ rxq_fifo = <<>>
       THEN Goto(t, "p_check", "p_sleep") /\ UNCHANGED <<waitVars, need, tmp, rxq_mutex>>
       ELSE Unqueue(t) /\ Return(t)
    /\ UNCHANGED <<devVars, rxq_fifo, irqVars, delivered>>

PollWake(t) ==
    /\ t \in woken /\ woken' = woken \ {t}
    /\ Goto(t, "p_sleep", "p_check")
    /\ UNCHANGED <<devVars, rxq_fifo, rxq_mutex, waiters, need, tmp, irqVars,
                   delivered>>

\* The caller's timeout, or a signal.
PollTimeout(t) ==
    /\ pc[t] = "p_sleep"
    /\ Unqueue(t) /\ Return(t)
    /\ UNCHANGED <<devVars, rxq_fifo, irqVars, delivered>>

-----------------------------------------------------------------------------
(* The interrupt thread, after gxfp_irq_thread has dropped gdev->lock with *)
(* a complete packet.                                                      *)

\* The unlocked rxq_inited test and the parse, before rxq_lock is taken.
gxfp_uapi_rxq_push_packet(n) ==
    /\ irq = "idle" /\ irq_on
    /\ npkt < MaxPackets
    /\ npkt' = npkt + 1
    /\ IF rxq_inited
       THEN irq' = "push" /\ pkt' = [id |-> npkt + 1, n |-> n]
       ELSE UNCHANGED <<irq, pkt>>
    /\ UNCHANGED <<devVars, rxq_fifo, rxq_mutex, waitVars, callVars, irq_on,
                   delivered>>

\* Mutants of Fits and Stored: room is checked for the payload and not for
\* the header; the room is not checked and kfifo_in stores what it can.
FitsPayload(p) == Len(rxq_fifo) + p.n <= Capacity
StoredPartly(p) == rxq_fifo \o SubSeq(Cells(p), 1, p.n)

Fits(p) == Len(rxq_fifo) + p.n + 1 <= Capacity

Stored(p) == rxq_fifo \o Cells(p)

\* Under rxq_lock: a record that does not fit is dropped whole.
gxfp_uapi_rxq_push ==
    /\ irq = "push"
    /\ IF rxq_inited /\ Fits(pkt)
       THEN rxq_fifo' = Stored(pkt) /\ irq' = "wake"
       ELSE UNCHANGED rxq_fifo /\ irq' = "idle"
    /\ pkt' = NoPacket
    /\ UNCHANGED <<devVars, rxq_mutex, waitVars, callVars, irq_on, npkt, delivered>>

\* Mutant: the wake-up takes rxq_mutex, which a sleeping reader holds.
PushWakeLocked ==
    /\ irq = "wake" /\ irq' = "idle" /\ rxq_mutex = None
    /\ WakeAll
    /\ UNCHANGED <<devVars, rxq_fifo, rxq_mutex, waiters, callVars, irq_on, pkt,
                   npkt, delivered>>

PushWake ==
    /\ irq = "wake" /\ irq' = "idle"
    /\ WakeAll
    /\ UNCHANGED <<devVars, rxq_fifo, rxq_mutex, waiters, callVars, irq_on, pkt,
                   npkt, delivered>>

-----------------------------------------------------------------------------
(* Binding and unbinding: gxfp_uapi_register, gxfp_probe,                  *)
(* gxfp_platform_remove, gxfp_uapi_unregister.                             *)

BindGoto(from, to) ==
    /\ bind = from /\ bind' = to
    /\ UNCHANGED <<file, callVars, irq, pkt, npkt, delivered>>

RegisterFifo ==
    /\ BindGoto("unbound", "fifo")
    /\ rxq_buf' = TRUE /\ rxq_inited' = TRUE
    /\ UNCHANGED <<misc_registered, rxq_reader_open, rxq_fifo, rxq_mutex,
                   waitVars, irq_on>>

\* misc_register: /dev/gxfp appears before the startup sequence has run.
RegisterMisc ==
    /\ BindGoto("fifo", "startup")
    /\ misc_registered' = TRUE
    /\ UNCHANGED <<rxq_inited, rxq_buf, rxq_reader_open, rxq_fifo, rxq_mutex,
                   waitVars, irq_on>>

RegisterFail ==
    /\ BindGoto("fifo", "gone")
    /\ rxq_buf' = FALSE /\ rxq_inited' = FALSE
    /\ UNCHANGED <<misc_registered, rxq_reader_open, rxq_fifo, rxq_mutex,
                   waitVars, irq_on>>

\* The startup sequence answered: the interrupt is enabled.
gxfp_probe ==
    /\ BindGoto("startup", "bound")
    /\ irq_on' = TRUE
    /\ UNCHANGED <<misc_registered, rxq_inited, rxq_buf, rxq_reader_open,
                   rxq_fifo, rxq_mutex, waitVars>>

\* gxfp_remove, or a startup sequence that failed: disable_irq, then wait for
\* the handler to finish.
DisableIrq ==
    /\ BindGoto("startup", "disabled") \/ BindGoto("bound", "disabled")
    /\ irq_on' = FALSE
    /\ UNCHANGED <<misc_registered, rxq_inited, rxq_buf, rxq_reader_open,
                   rxq_fifo, rxq_mutex, waitVars>>

\* Mutant of IrqFinished: disable_irq_nosync, and no synchronize_irq.
IrqIgnored == TRUE

IrqFinished == irq = "idle"

SynchronizeIrq ==
    /\ BindGoto("disabled", "synced")
    /\ IrqFinished
    /\ UNCHANGED <<misc_registered, rxq_inited, rxq_buf, rxq_reader_open,
                   rxq_fifo, rxq_mutex, waitVars, irq_on>>

MiscDeregister ==
    /\ BindGoto("synced", "dereg")
    /\ misc_registered' = FALSE
    /\ UNCHANGED <<rxq_inited, rxq_buf, rxq_reader_open, rxq_fifo, rxq_mutex,
                   waitVars, irq_on>>

UnregisterLock ==
    /\ BindGoto("dereg", "locked")
    /\ Lock(Remover)
    /\ UNCHANGED <<misc_registered, rxq_inited, rxq_buf, rxq_reader_open,
                   rxq_fifo, waitVars, irq_on>>

UnregisterClear ==
    /\ BindGoto("locked", "cleared")
    /\ rxq_inited' = FALSE /\ rxq_reader_open' = FALSE /\ rxq_fifo' = <<>>
    /\ UNCHANGED <<misc_registered, rxq_buf, rxq_mutex, waitVars, irq_on>>

\* wake_up_interruptible_all, kvfree, mutex_unlock.
UnregisterFree ==
    /\ BindGoto("cleared", "gone")
    /\ WakeAll
    /\ rxq_buf' = FALSE /\ rxq_mutex' = None
    /\ UNCHANGED <<misc_registered, rxq_inited, rxq_reader_open, rxq_fifo,
                   waiters, irq_on>>

-----------------------------------------------------------------------------
ReadStep(t) ==
    \/ ReadLock(t) \/ gxfp_uapi_wait_nonempty(t)
    \/ WaitPrepare(t) \/ WaitCond(t) \/ WaitWake(t)
    \/ (\E c \in Counts : gxfp_uapi_peek_need(t, c))
    \/ gxfp_uapi_pop_record(t) \/ ReadCopy(t)

FlushStep(t) == FlushLock(t) \/ gxfp_uapi_rxq_flush_locked(t)

PollStep(t) == PollCheck(t) \/ PollWake(t)

IrqStep == gxfp_uapi_rxq_push \/ PushWake

TeardownStep ==
    \/ SynchronizeIrq \/ MiscDeregister \/ UnregisterLock
    \/ UnregisterClear \/ UnregisterFree

Next ==
    \/ \E f \in Files, m \in OpenModes : gxfp_uapi_open(f, m)
    \/ \E f \in Files : gxfp_uapi_release(f)
    \/ \E t \in Threads, f \in Files :
          gxfp_uapi_read(t, f) \/ gxfp_uapi_unlocked_ioctl(t, f) \/ gxfp_uapi_poll(t, f)
    \/ \E t \in Threads :
          ReadStep(t) \/ FlushStep(t) \/ PollStep(t) \/ Signal(t) \/ PollTimeout(t)
    \/ \E n \in Lens : gxfp_uapi_rxq_push_packet(n)
    \/ IrqStep
    \/ RegisterFifo \/ RegisterMisc \/ RegisterFail \/ gxfp_probe \/ DisableIrq
    \/ TeardownStep

Spec == Init /\ [][Next]_vars

\* Kernel threads run; rxq_mutex is handed to its waiters in turn.  Nothing
\* makes a user call in, a packet arrive, a timeout or a signal end a sleep, or
\* the driver unbind.
Fairness ==
    /\ \A t \in Threads :
          /\ WF_vars(ReadStep(t)) /\ WF_vars(FlushStep(t)) /\ WF_vars(PollStep(t))
          /\ SF_vars(ReadLock(t)) /\ SF_vars(FlushLock(t))
    /\ WF_vars(IrqStep)
    /\ WF_vars(TeardownStep) /\ SF_vars(UnregisterLock)

FairSpec == Spec /\ Fairness

-----------------------------------------------------------------------------
(* Properties.                                                             *)

\* A sequence of cells is a run of whole records: around every cell lie all
\* the cells of its record.
Framed(s) ==
    \A i \in 1..Len(s) :
        /\ s[i].k < i /\ s[i].k <= s[i].n
        /\ i - s[i].k + s[i].n <= Len(s)
        /\ \A m \in 0..s[i].n :
              s[i - s[i].k + m] = [id |-> s[i].id, n |-> s[i].n, k |-> m]

\* The kfifo holds whole records.  gxfp_uapi_rxq_push stores header and
\* payload under one hold of rxq_lock or drops both; the reader removes what
\* it peeked.
WellFramed == Framed(rxq_fifo)

\* Between gxfp_uapi_peek_need and gxfp_uapi_pop_record rxq_lock is free, yet
\* read(2) hands out exactly one whole record: the "popped != need" error
\* is unreachable, because flush and unbind also take rxq_mutex.
ReadsOneRecord ==
    \A t \in Threads :
        pc[t] = "r_copy" => /\ Len(tmp[t]) = need[t]
                            /\ tmp[t] # <<>>
                            /\ tmp[t] = Cells(RecordOf(tmp[t][1]))

\* Records reach user space in the order the interrupt thread completed them
\* and none twice, however reads, flushes and pushes interleave: what was
\* delivered is in order and older than all that is queued, in order.
InOrder ==
    /\ \A i, j \in 1..Len(delivered) : i < j => delivered[i].id < delivered[j].id
    /\ \A i \in 1..Len(delivered), j \in 1..Len(rxq_fifo) :
          delivered[i].id < rxq_fifo[j].id
    /\ \A i, j \in 1..Len(rxq_fifo) :
          i < j => \/ rxq_fifo[i].id < rxq_fifo[j].id
                   \/ rxq_fifo[i].id = rxq_fifo[j].id /\ rxq_fifo[i].k < rxq_fifo[j].k

\* The fifo is only touched while its storage is allocated: rxq_inited is
\* cleared under rxq_lock before kvfree, and a reader between its wait and
\* its copy, or a push in flight, keeps gxfp_uapi_unregister from freeing.
NoUseAfterFree ==
    /\ rxq_inited => rxq_buf
    /\ (\E t \in Threads : pc[t] \in {"r_peek", "r_pop"}) => rxq_inited
    /\ irq # "idle" => rxq_inited

\* No lost wake-up: a thread asleep in read or poll while a record waits (or
\* the queue is gone) has a wake-up pending, or one that is about to be sent.
NoLostWakeup ==
    \A t \in Threads :
        (pc[t] \in {"r_sleep", "p_sleep"} /\ (rxq_fifo # <<>> \/ ~rxq_inited))
            => t \in woken \/ irq = "wake" \/ bind = "cleared"

\* "Only one reader is allowed at a time" (kernel/docs/gxfp5130.rst), and the
\* flag that enforces it is not left set by a reader that closed.
SingleReader ==
    /\ \A f, g \in Files :
          file[f] \in ReadModes /\ file[g] \in ReadModes => f = g
    /\ rxq_reader_open => \E f \in Files : file[f] \in ReadModes

\* A reader asleep in wait_event holds rxq_mutex, which gxfp_uapi_unregister
\* needs before it clears rxq_inited: so no sleeping reader ever sees the
\* queue go away, and unbinding waits for the reader instead.
SleepingReaderPinsQueue ==
    \A t \in Threads :
        pc[t] = "r_sleep" => rxq_inited /\ bind \notin {"locked", "cleared", "gone"}

\* Unbinding, once begun, completes unless a blocking reader sleeps.
UnbindCompletes ==
    (bind \in {"disabled", "synced", "dereg", "locked", "cleared"})
        ~> (bind = "gone" \/ \E t \in Threads : pc[t] = "r_sleep")

\* A queued record does not leave a reader or poller asleep for ever, with no
\* timeout of poll(2) and no signal to help it.
SleeperServed ==
    \A t \in Threads :
        (pc[t] \in {"r_sleep", "p_sleep"} /\ rxq_fifo # <<>>)
            ~> pc[t] \notin {"r_sleep", "p_sleep"}

=============================================================================
