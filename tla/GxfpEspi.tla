------------------------------ MODULE GxfpEspi ------------------------------
(***************************************************************************)
(* The eSPI mailbox under the kernel driver: packets assembled by the      *)
(* interrupt thread from one window of the mailbox after the other         *)
(* (transport/gxfp_espi_rx_irq.c, driver/gxfp_irq.c), and the synchronous  *)
(* exchanges of the startup and shutdown commands over the same window     *)
(* (transport/gxfp_espi_tx.c, gxfp_espi_rx_sync.c, cmd/, gxfp_main.c).     *)
(* Both run under gdev->lock; the controller moves between any two steps.  *)
(*                                                                         *)
(* The embedded controller is not in the repository.  It shows a packet    *)
(* window by window: it raises the irq line with a window, and goes on to  *)
(* the next one when the host has pulsed read-done.                        *)
(***************************************************************************)
EXTENDS Integers, Sequences

CONSTANTS
  Chunk,        \* GXFP_ESPI_CHUNK_MAX
  RxCap,        \* GXFP_IRQ_RX_CAP
  SyncCap,      \* GXFP_MAILBOX_MIN_SIZE, the buffer of a synchronous read
  Totals,       \* the sizes of the packets that are sent, header included
  Noise,        \* whether a bad head can appear, and the middle of a packet look like a head
  XferTries,    \* GXFP_DEFAULT_RETRY_COUNT
  CallTries,    \* how often a command that may fail is called again
  MaxPackets    \* bound: packets the controller sends

ASSUME SizesAssumption ==
  /\ Chunk \in Nat \ {0} /\ RxCap \in Nat /\ SyncCap \in Nat
  /\ Chunk <= RxCap /\ Chunk <= SyncCap /\ SyncCap < 2 * Chunk
  /\ Totals \subseteq 1..RxCap
  /\ Noise \in BOOLEAN
  /\ XferTries \in Nat \ {0} /\ CallTries \in Nat \ {0} /\ MaxPackets \in Nat

VARIABLES
  asked,        \* the request the controller works on
  out,          \* the windows it has still to show
  window,       \* what the mailbox holds
  line,         \* the irq line: the window is new and not acknowledged
  npkt,         \* packets sent so far
  bind,         \* how far probe or remove has come
  irq_on,       \* the interrupt is enabled
  lock,         \* who holds gdev->lock
  irq,          \* where the interrupt thread is
  assem_active, assem_total, assem_copied,
  rx_buf,       \* what has been copied of the packet
  lastid,       \* history: the packet last handed to the receive queue
  cmd,          \* where the synchronous exchange is
  jobs,         \* the commands of the sequence still to be called
  left,         \* tries left of the exchange
  ver           \* ver.status of the last gxfp_cmd_get_version()

ecVars == <<asked, out, window, line, npkt>>
assemVars == <<assem_active, assem_total, assem_copied, rx_buf>>
irqVars == <<irq, assemVars, lastid>>
cmdVars == <<cmd, jobs, left, ver>>
vars == <<ecVars, bind, irq_on, lock, irqVars, cmdVars>>

NoWindow == [id |-> 0, kind |-> "none", total |-> 0, off |-> 0]
Kinds == {"none", "noise", "data", "ack", "state", "ver", "vernul"}
Window == [id : 0..MaxPackets, kind : Kinds, total : Nat, off : Nat]
Unit == [id : 0..MaxPackets, total : Nat, unit : Nat]

Init ==
  /\ asked = "none" /\ out = <<>> /\ window = NoWindow /\ line = FALSE /\ npkt = 0
  /\ bind = "probed" /\ irq_on = FALSE /\ lock = "free"
  /\ irq = "idle" /\ assem_active = FALSE /\ assem_total = 0 /\ assem_copied = 0
  /\ rx_buf = <<>> /\ lastid = 0
  /\ cmd = "none" /\ jobs = <<>> /\ left = 0 /\ ver = "none"

-----------------------------------------------------------------------------
(* The controller.                                                         *)

ShowLater(ws) ==
  /\ npkt < MaxPackets
  /\ npkt' = npkt + 1
  /\ out' = out \o ws
  /\ UNCHANGED <<window, line, bind, irq_on, lock, irqVars, cmdVars>>

\* The windows of a packet of t units.
Windows(kind, t) ==
  [i \in 1..((t + Chunk - 1) \div Chunk) |->
     [id |-> npkt + 1, kind |-> kind, total |-> t, off |-> (i - 1) * Chunk]]

Answers(req) ==
  CASE req = "ver" -> {"ver", "vernul"} [] req = "state" -> {"state"} [] OTHER -> {"ack"}

Answer ==
  /\ asked # "none" /\ asked' = "none"
  /\ \E k \in Answers(asked) : ShowLater(<<[id |-> npkt + 1, kind |-> k, total |-> 1, off |-> 0]>>)

Unanswered ==
  /\ asked # "none" /\ asked' = "none"
  /\ UNCHANGED <<out, window, line, npkt, bind, irq_on, lock, irqVars, cmdVars>>

\* A report or, once a TLS session can exist, an image of several windows.
Report ==
  /\ \E t \in Totals : (t <= Chunk \/ irq_on) /\ ShowLater(Windows("data", t))
  /\ UNCHANGED asked

Garble ==
  /\ Noise
  /\ ShowLater(<<[id |-> npkt + 1, kind |-> "noise", total |-> 0, off |-> 0]>>)
  /\ UNCHANGED asked

Show ==
  /\ ~line /\ out # <<>>
  /\ window' = Head(out) /\ out' = Tail(out) /\ line' = TRUE
  /\ UNCHANGED <<asked, npkt, bind, irq_on, lock, irqVars, cmdVars>>

\* gxfp_gpio_pulse_read_done(), or the two halves of it in the last step.
gxfp_gpio_pulse_read_done == line' = FALSE /\ UNCHANGED <<asked, out, window, npkt>>

-----------------------------------------------------------------------------
(* Reading windows.                                                        *)

IsHead(w) == w.off = 0 /\ w.kind \notin {"none", "noise"}

\* Mutant of gxfp_check_mp_head: the limit is that of the synchronous buffer.
HeadBelowSyncCap(w) ==
  IF IsHead(w) /\ w.total <= SyncCap THEN {w.total} ELSE {0}

\* gxfp_check_mp_head(): the packet's length, 0 for a bad head.
gxfp_check_mp_head(w) ==
  IF IsHead(w) THEN {w.total} ELSE IF Noise /\ w.off > 0 THEN Totals \cup {0} ELSE {0}

\* The length field alone, of whatever the window holds.
LengthField(w) == IF IsHead(w) THEN {w.total} ELSE Totals \cup {SyncCap + 1}

Units(w, n) == [i \in 1..n |-> [id |-> w.id, total |-> w.total, unit |-> w.off + i]]

\* Mutant of gxfp_espi_rx_chunk_calc: every chunk is a full window.
ChunkIsWindow(remain) == Chunk

gxfp_espi_rx_chunk_calc(remain) == IF remain <= Chunk THEN remain ELSE Chunk

gxfp_espi_irq_assem_reset ==
  /\ assem_active' = FALSE /\ assem_total' = 0 /\ assem_copied' = 0

-----------------------------------------------------------------------------
(* gxfp_irq_thread(), a one-shot level interrupt.                          *)

IrqLock ==
  /\ irq = "idle" /\ irq_on /\ line
  /\ lock = "free" /\ lock' = "irq"
  /\ irq' = "read"
  /\ UNCHANGED <<ecVars, bind, irq_on, assemVars, lastid, cmdVars>>

\* The first window of a packet.
gxfp_espi_rx_start_packet ==
  \E total \in gxfp_check_mp_head(window) :
    IF total # 0 /\ total <= RxCap
    THEN LET first == gxfp_espi_rx_chunk_calc(total)
         IN /\ assem_active' = TRUE /\ assem_total' = total /\ assem_copied' = first
            /\ rx_buf' = Units(window, first)
            /\ irq' = IF first >= total THEN "complete" ELSE "more"
    ELSE gxfp_espi_irq_assem_reset /\ rx_buf' = <<>> /\ irq' = "failed"

\* A further window.  The first two outcomes leave the window unread.
Continue ==
  LET remain == IF assem_copied < assem_total THEN assem_total - assem_copied ELSE 0
      chunk == gxfp_espi_rx_chunk_calc(remain)
      copied == assem_copied + chunk
  IN CASE assem_total = 0 \/ assem_copied = 0 \/ copied > RxCap ->
            gxfp_espi_irq_assem_reset /\ rx_buf' = <<>> /\ irq' = "failed"
       [] chunk = 0 /\ assem_total # 0 /\ assem_copied \in 1..RxCap ->
            gxfp_espi_irq_assem_reset /\ UNCHANGED rx_buf /\ irq' = "drained"
       [] OTHER ->
            /\ assem_copied' = copied
            /\ rx_buf' = rx_buf \o Units(window, chunk)
            /\ irq' = IF copied < assem_total THEN "more" ELSE "complete"
            /\ UNCHANGED <<assem_active, assem_total>>

gxfp_espi_irq_read_step ==
  /\ irq = "read"
  /\ IF assem_active THEN Continue ELSE gxfp_espi_rx_start_packet
  /\ UNCHANGED <<ecVars, bind, irq_on, lock, lastid, cmdVars>>

\* Mutant of IrqAcknowledge: read-done only for the last window of a packet.
AcknowledgeLast ==
  /\ irq \in {"more", "complete"}
  /\ IF irq = "complete"
     THEN gxfp_espi_irq_assem_reset /\ irq' = "push" /\ gxfp_gpio_pulse_read_done
     ELSE UNCHANGED <<ecVars, assem_active, assem_total, assem_copied>> /\ irq' = "idle"
  /\ lock' = "free"
  /\ UNCHANGED <<bind, irq_on, rx_buf, lastid, cmdVars>>

\* The window is acknowledged and, with the last one, the assembly is over.
IrqAcknowledge ==
  /\ irq \in {"more", "complete"}
  /\ gxfp_gpio_pulse_read_done
  /\ IF irq = "complete" THEN gxfp_espi_irq_assem_reset /\ irq' = "push"
     ELSE UNCHANGED <<assem_active, assem_total, assem_copied>> /\ irq' = "idle"
  /\ lock' = "free"
  /\ UNCHANGED <<bind, irq_on, rx_buf, lastid, cmdVars>>

\* out_clear without an acknowledgement: read-done is lowered, as it already was.
IrqClear ==
  /\ irq \in {"failed", "drained"} /\ lock' = "free"
  /\ irq' = IF irq = "drained" THEN "push" ELSE "idle"
  /\ UNCHANGED <<ecVars, bind, irq_on, assemVars, lastid, cmdVars>>

\* gxfp_uapi_rxq_push_packet(), after the lock was dropped.
IrqPush ==
  /\ irq = "push" /\ irq' = "idle"
  /\ lastid' = rx_buf[1].id /\ rx_buf' = <<>>
  /\ UNCHANGED <<ecVars, bind, irq_on, lock, assem_active, assem_total, assem_copied, cmdVars>>

-----------------------------------------------------------------------------
(* Synchronous commands.                                                   *)

Job(req, calls, tries) == [req |-> req, calls |-> calls, tries |-> tries]

\* A sequence of commands starts; it keeps gdev->lock to its end.
Start(js) == jobs' = js /\ left' = js[1].tries /\ cmd' = "write"

NextJob == jobs' = Tail(jobs)
           /\ left' = (IF Len(jobs) > 1 THEN jobs[2].tries ELSE 0)
           /\ cmd' = (IF Len(jobs) > 1 THEN "write" ELSE "end")

Status(s) == IF jobs[1].req = "ver" THEN s ELSE ver

\* The exchange has failed; its caller may call it again.
CallFails ==
  /\ ver' = Status("error")
  /\ IF jobs[1].calls > 1
     THEN Start([jobs EXCEPT ![1].calls = @ - 1])
     ELSE NextJob

\* Mutant of Retry: the last try is retried too.
RetryPastLast ==
  IF left >= 0 THEN left' = left - 1 /\ cmd' = "write" /\ UNCHANGED <<jobs, ver>> ELSE CallFails

\* Mutant of Retry: a failed try is not counted.
RetryUncounted == cmd' = "write" /\ UNCHANGED <<jobs, left, ver>>

Retry ==
  IF left > 1 THEN left' = left - 1 /\ cmd' = "write" /\ UNCHANGED <<jobs, ver>> ELSE CallFails

\* The frame is written, or the write fails, or gxfp_xfer() got no memory.
gxfp_espi_write ==
  /\ cmd = "write"
  /\ \/ asked' = jobs[1].req /\ cmd' = "read" /\ UNCHANGED <<jobs, left, ver>>
     \/ Retry /\ UNCHANGED asked
     \/ left = jobs[1].tries /\ CallFails /\ UNCHANGED asked
  /\ UNCHANGED <<out, window, line, npkt, bind, irq_on, lock, irqVars>>

\* gxfp_espi_read() takes what the window holds, new or not, and acknowledges it
\* once: the buffer is smaller than two windows.
gxfp_espi_read(total) ==
  IF total > SyncCap THEN UNCHANGED ecVars ELSE gxfp_gpio_pulse_read_done

\* A packet of two windows is read with the first one twice: its checksum fails.
Matches(w, total) == IsHead(w) /\ total <= Chunk /\ w.kind \in Answers(jobs[1].req)

\* One try.  An answer longer than the caller's buffer ends the exchange.
gxfp_xfer ==
  /\ cmd = "read"
  /\ \E total \in LengthField(window) :
       /\ gxfp_espi_read(total)
       /\ IF total <= SyncCap /\ Matches(window, total)
          THEN \/ ver' = Status(IF window.kind = "ver" THEN "ok" ELSE "nodata") /\ NextJob
               \/ CallFails
          ELSE Retry
  /\ UNCHANGED <<bind, irq_on, lock, irqVars>>

gxfp_cmd_get_version(calls) == Job("ver", calls, XferTries)
gxfp_cmd_query_mcu_state == Job("state", 1, XferTries)
gxfp_cmd_notify_power_state(calls) == Job("notify", calls, 1)
gxfp_cmd_sleep_cleanup == Job("sleep", 1, 1)
gxfp_cmd_reset_device(calls) == Job("reset", calls, 1)
gxfp_cmd_tls_unlock == Job("tls_unlock", 1, 1)
gxfp_cmd_protocol_init == Job("protocol_init", 1, 1)

gxfp_cmd_recover_session ==
  <<gxfp_cmd_notify_power_state(CallTries), gxfp_cmd_protocol_init, gxfp_cmd_tls_unlock,
    gxfp_cmd_sleep_cleanup, gxfp_cmd_reset_device(CallTries)>>

Rest == UNCHANGED <<ecVars, irqVars>>

gxfp_startup_sequence ==
  /\ bind = "probed" /\ bind' = "startup"
  /\ lock = "free" /\ lock' = "cmd"
  /\ Start(<<gxfp_cmd_get_version(CallTries), gxfp_cmd_query_mcu_state>>)
  /\ Rest /\ UNCHANGED <<irq_on, ver>>

\* ver.status decides: recover once and ask again, or go on.
StartupRecover ==
  /\ cmd = "end" /\ bind = "startup" /\ bind' = "recovery"
  /\ ver # "ok"
  /\ Start(Append(gxfp_cmd_recover_session, gxfp_cmd_get_version(1)))
  /\ Rest /\ UNCHANGED <<irq_on, lock, ver>>

StartupEnd ==
  /\ cmd = "end" /\ cmd' = "none"
  /\ \/ bind = "startup" /\ ver = "ok"
     \/ bind = "recovery"
  /\ bind' = IF ver = "ok" THEN "answered" ELSE "removing"
  /\ lock' = "free"
  /\ Rest /\ UNCHANGED <<irq_on, jobs, left, ver>>

\* enable_irq() at the end of gxfp_probe().
gxfp_probe ==
  /\ bind = "answered" /\ bind' = "bound"
  /\ irq_on' = TRUE
  /\ Rest /\ UNCHANGED <<lock, cmdVars>>

\* gxfp_remove() talks to the sensor while the interrupt is still enabled.
gxfp_shutdown_sequence ==
  /\ bind = "bound" /\ bind' = "shutdown"
  /\ lock = "free" /\ lock' = "cmd"
  /\ Start(<<gxfp_cmd_notify_power_state(1), gxfp_cmd_sleep_cleanup>>)
  /\ Rest /\ UNCHANGED <<irq_on, ver>>

ShutdownEnd ==
  /\ cmd = "end" /\ cmd' = "none"
  /\ bind = "shutdown" /\ bind' = "removing"
  /\ lock' = "free"
  /\ Rest /\ UNCHANGED <<irq_on, jobs, left, ver>>

disable_irq ==
  /\ bind = "removing" /\ bind' = "disabled"
  /\ irq_on' = FALSE
  /\ Rest /\ UNCHANGED <<lock, cmdVars>>

\* disable_irq() and synchronize_irq() wait for the thread.
gxfp_platform_remove ==
  /\ bind = "disabled" /\ bind' = "removed"
  /\ irq = "idle"
  /\ Rest /\ UNCHANGED <<irq_on, lock, cmdVars>>

\* write(2), from a file opened as soon as /dev/gxfp exists.
gxfp_uapi_write ==
  /\ bind # "removed" /\ lock = "free"
  /\ asked' = "user"
  /\ UNCHANGED <<out, window, line, npkt, bind, irq_on, lock, irqVars, cmdVars>>

-----------------------------------------------------------------------------
Controller == Answer \/ Unanswered \/ Report \/ Garble \/ Show

IrqStep == gxfp_espi_irq_read_step \/ IrqAcknowledge \/ IrqClear \/ IrqPush

Command ==
  \/ gxfp_espi_write \/ gxfp_xfer
  \/ StartupRecover \/ StartupEnd \/ gxfp_probe \/ ShutdownEnd
  \/ disable_irq \/ gxfp_platform_remove

Next ==
  \/ Controller \/ IrqLock \/ IrqStep \/ Command
  \/ gxfp_startup_sequence \/ gxfp_shutdown_sequence \/ gxfp_uapi_write

Spec == Init /\ [][Next]_vars

\* The kernel's threads run, the mutex is handed on to a waiting thread, and
\* the controller shows what it has to show.  Nothing makes it answer.
Fairness ==
  /\ WF_vars(Show) /\ WF_vars(IrqStep) /\ SF_vars(IrqLock)
  /\ WF_vars(Command) /\ SF_vars(gxfp_startup_sequence)
FairSpec == Spec /\ Fairness

-----------------------------------------------------------------------------
\* The values the variables take.
TypeOK ==
  /\ asked \in {"none", "user", "ver", "state", "notify", "protocol_init", "tls_unlock",
                "sleep", "reset"}
  /\ out \in Seq(Window) /\ window \in Window /\ line \in BOOLEAN /\ npkt \in 0..MaxPackets
  /\ bind \in {"probed", "startup", "recovery", "answered", "bound", "shutdown", "removing",
              "disabled", "removed"}
  /\ irq_on \in BOOLEAN /\ lock \in {"free", "irq", "cmd"}
  /\ irq \in {"idle", "read", "more", "complete", "failed", "drained", "push"}
  /\ assem_active \in BOOLEAN /\ assem_total \in Nat /\ assem_copied \in Nat
  /\ rx_buf \in Seq(Unit) /\ lastid \in 0..MaxPackets
  /\ cmd \in {"none", "write", "read", "end"} /\ ver \in {"none", "error", "nodata", "ok"}
  /\ left \in 0..XferTries

\* An assembly in progress never outgrows its packet or the buffer, and the
\* buffer holds what the count says, whatever the windows held and whatever a
\* synchronous exchange did to them: the checks that end an assembly in
\* gxfp_espi_irq_read_step() are never needed.
AssemblyFits ==
  /\ Len(rx_buf) <= RxCap
  /\ assem_active =>
       /\ 0 < assem_copied /\ assem_copied <= assem_total /\ assem_total <= RxCap
       /\ Len(rx_buf) = assem_copied
       /\ irq # "complete" => assem_copied < assem_total

Whole(b) ==
  /\ b # <<>> /\ Len(b) = b[1].total
  /\ \A i \in 1..Len(b) : b[i] = [id |-> b[1].id, total |-> b[1].total, unit |-> i]

\* Until gxfp_remove() is called, what reaches the receive queue is one whole
\* packet, newer than the one before, although the lock is dropped between its
\* windows and the startup commands have used the mailbox before.
PacketsWhole ==
  irq = "push" /\ bind = "bound" => Whole(rx_buf) /\ rx_buf[1].id > lastid

\* The same at any time: "read(2) returns one response record at a time".
RecordsWhole == irq = "push" => Whole(rx_buf)

\* The "host pulses [read-done] high after reading each chunk of a response":
\* a window shown while the interrupt is enabled is acknowledged.
ChunksAcknowledged == (line /\ irq_on) ~> (~line \/ ~irq_on)

\* Every window but one with a bad head is acknowledged, or the interrupt goes.
GoodChunksAcknowledged ==
  (line /\ irq_on /\ window.kind # "noise") ~> (~line \/ ~irq_on)

\* The startup sequence ends, whether or not the sensor answers.
StartupEnds == bind = "probed" ~> bind \in {"bound", "removed"}
=============================================================================
