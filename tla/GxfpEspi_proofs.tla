--------------------------- MODULE GxfpEspi_proofs ---------------------------
(***************************************************************************)
(* Proofs, for every size of window, buffer and packet, that the assembly  *)
(* of packets in the interrupt thread stays within its packet and its      *)
(* buffer, and that until removal it yields whole packets in order.        *)
(***************************************************************************)
EXTENDS GxfpEspi, TLAPS

\* The controller's half of the invariant: every window has a length.
WindowsTyped == window \in Window /\ out \in Seq(Window) /\ npkt \in 0..MaxPackets

\* The interrupt thread's half: the counts are numbers, AssemblyFits holds, and
\* a packet that is handed on or given up is no longer being assembled.
AssemblyInv ==
  /\ rx_buf \in Seq(Unit)
  /\ assem_active \in BOOLEAN /\ assem_total \in Nat /\ assem_copied \in Nat
  /\ AssemblyFits
  /\ irq \in {"failed", "drained", "push"} => ~assem_active

IInv == WindowsTyped /\ AssemblyInv

-----------------------------------------------------------------------------
\* gxfp_espi_rx_chunk_calc() never takes more than is left, and takes nothing
\* only when nothing is left.
LEMMA ChunkBounded ==
  ASSUME NEW remain \in Nat
  PROVE  /\ gxfp_espi_rx_chunk_calc(remain) \in Nat
         /\ gxfp_espi_rx_chunk_calc(remain) <= remain
         /\ remain > 0 => gxfp_espi_rx_chunk_calc(remain) > 0
BY SizesAssumption DEF gxfp_espi_rx_chunk_calc

\* The units copied from a window are as many as were asked for.
LEMMA UnitsCopied ==
  ASSUME NEW w \in Window, NEW n \in Nat
  PROVE  Units(w, n) \in Seq(Unit) /\ Len(Units(w, n)) = n
<1>1. \A i \in 1..n : [id |-> w.id, total |-> w.total, unit |-> w.off + i] \in Unit
  BY DEF Window, Unit
<1>2. Units(w, n) \in [1..n -> Unit]
  BY <1>1 DEF Units
<1> QED
  BY <1>2

\* The windows of a packet are windows.
LEMMA WindowsOfPacket ==
  ASSUME NEW kind \in Kinds, NEW t \in Nat \ {0}, npkt \in 0..MaxPackets, npkt < MaxPackets
  PROVE  Windows(kind, t) \in Seq(Window)
<1> DEFINE n == (t + Chunk - 1) \div Chunk
           w(i) == [id |-> npkt + 1, kind |-> kind, total |-> t, off |-> (i - 1) * Chunk]
<1>1. n \in Nat
  BY SizesAssumption
<1>2. \A i \in 1..n : (i - 1) * Chunk \in Nat
  BY <1>1, SizesAssumption
<1>3. \A i \in 1..n : w(i) \in Window
  BY <1>2, SizesAssumption DEF Window
<1> HIDE DEF n, w
<1>4. [i \in 1..n |-> w(i)] \in [1..n -> Window]
  BY <1>3
<1>5. \A f \in [1..n -> Window] : f \in Seq(Window)
  BY <1>1
<1>6. [i \in 1..n |-> w(i)] \in Seq(Window)
  BY <1>4, <1>5
<1> QED
  BY <1>6 DEF Windows, n, w

-----------------------------------------------------------------------------
\* The initial state.
LEMMA InitInv == Init => IInv
<1> SUFFICES ASSUME Init PROVE IInv
  OBVIOUS
<1>1. NoWindow \in Window
  BY SizesAssumption DEF NoWindow, Window, Kinds
<1>2. WindowsTyped
  BY <1>1, SizesAssumption DEF Init, WindowsTyped
<1>3. AssemblyInv
  <2>1. rx_buf \in Seq(Unit) /\ Len(rx_buf) <= RxCap
    BY SizesAssumption DEF Init
  <2>2. assem_active = FALSE /\ assem_total \in Nat /\ assem_copied \in Nat
    BY DEF Init
  <2> QED
    BY <2>1, <2>2, Zenon DEF AssemblyInv, AssemblyFits
<1> QED
  BY <1>2, <1>3 DEF IInv

\* What the controller shows next is a window, and no step of the driver
\* changes what is still to be shown.
LEMMA StepWindows ==
  ASSUME WindowsTyped, [Next]_vars
  PROVE  WindowsTyped'
<1> USE DEF WindowsTyped
<1>1. ASSUME NEW ws \in Seq(Window), ShowLater(ws) PROVE WindowsTyped'
  BY <1>1, SizesAssumption DEF ShowLater
<1>2. CASE Answer
  <2>1. PICK k \in Answers(asked) :
          ShowLater(<<[id |-> npkt + 1, kind |-> k, total |-> 1, off |-> 0]>>)
    BY <1>2 DEF Answer
  <2>2. npkt < MaxPackets
    BY <2>1 DEF ShowLater
  <2>3. k \in Kinds
    BY DEF Answers, Kinds
  <2>4. [id |-> npkt + 1, kind |-> k, total |-> 1, off |-> 0] \in Window
    BY <2>2, <2>3, SizesAssumption DEF Window
  <2>5. <<[id |-> npkt + 1, kind |-> k, total |-> 1, off |-> 0]>> \in Seq(Window)
    BY <2>4
  <2> QED
    BY <2>1, <2>5, <1>1, Zenon
<1>3. CASE Report
  <2>1. PICK t \in Totals : ShowLater(Windows("data", t))
    BY <1>3 DEF Report
  <2>2. npkt < MaxPackets /\ t \in Nat \ {0} /\ "data" \in Kinds
    BY <2>1, SizesAssumption DEF ShowLater, Kinds
  <2>3. Windows("data", t) \in Seq(Window)
    BY <2>2, WindowsOfPacket
  <2> QED
    BY <2>1, <2>3, <1>1
<1>4. CASE Garble
  <2>1. ShowLater(<<[id |-> npkt + 1, kind |-> "noise", total |-> 0, off |-> 0]>>)
    BY <1>4 DEF Garble
  <2>2. npkt < MaxPackets
    BY <2>1 DEF ShowLater
  <2>3. [id |-> npkt + 1, kind |-> "noise", total |-> 0, off |-> 0] \in Window
    BY <2>2, SizesAssumption DEF Window, Kinds
  <2>4. <<[id |-> npkt + 1, kind |-> "noise", total |-> 0, off |-> 0]>> \in Seq(Window)
    BY <2>3
  <2> QED
    BY <2>1, <2>4, <1>1, Zenon
<1>5. CASE Show
  BY <1>5 DEF Show
<1>6. CASE UNCHANGED <<window, out, npkt>>
  BY <1>6
<1>7. CASE gxfp_espi_irq_read_step \/ IrqClear \/ IrqPush \/ IrqLock
  BY <1>6, <1>7 DEF gxfp_espi_irq_read_step, IrqClear, IrqPush, IrqLock, ecVars
<1>8. CASE IrqAcknowledge \/ gxfp_espi_write \/ gxfp_xfer \/ gxfp_uapi_write \/ Unanswered
  BY <1>6, <1>8 DEF IrqAcknowledge, gxfp_espi_write, gxfp_xfer, gxfp_uapi_write, Unanswered,
     gxfp_espi_read, gxfp_gpio_pulse_read_done, ecVars
<1>9. CASE \/ StartupRecover \/ StartupEnd \/ gxfp_probe \/ ShutdownEnd \/ disable_irq
           \/ gxfp_platform_remove \/ gxfp_startup_sequence \/ gxfp_shutdown_sequence
  BY <1>6, <1>9 DEF StartupRecover, StartupEnd, gxfp_probe, ShutdownEnd, disable_irq,
     gxfp_platform_remove, gxfp_startup_sequence, gxfp_shutdown_sequence, Rest, ecVars
<1> QED
  BY <1>2, <1>3, <1>4, <1>5, <1>6, <1>7, <1>8, <1>9
  DEF Next, Controller, IrqStep, Command, vars, ecVars

\* No assembly is in progress: nothing is claimed but the buffer's size.
LEMMA NoAssembly ==
  ASSUME gxfp_espi_irq_assem_reset, (rx_buf \in Seq(Unit))', (Len(rx_buf) <= RxCap)'
  PROVE  AssemblyInv'
BY Zenon DEF gxfp_espi_irq_assem_reset, AssemblyInv, AssemblyFits

\* The first window of a packet that fits starts an assembly that fits.
LEMMA StartFits ==
  ASSUME WindowsTyped, gxfp_espi_rx_start_packet
  PROVE  AssemblyInv'
<1>1. PICK total \in gxfp_check_mp_head(window) :
        IF total # 0 /\ total <= RxCap
        THEN LET first == gxfp_espi_rx_chunk_calc(total)
             IN /\ assem_active' = TRUE /\ assem_total' = total /\ assem_copied' = first
                /\ rx_buf' = Units(window, first)
                /\ irq' = IF first >= total THEN "complete" ELSE "more"
        ELSE gxfp_espi_irq_assem_reset /\ rx_buf' = <<>> /\ irq' = "failed"
  BY DEF gxfp_espi_rx_start_packet
<1>2. total \in Nat
  BY SizesAssumption DEF gxfp_check_mp_head, WindowsTyped, Window
<1>3. CASE total # 0 /\ total <= RxCap
  <2> DEFINE first == gxfp_espi_rx_chunk_calc(total)
  <2>1. first \in Nat /\ first <= total /\ first > 0
    BY <1>2, <1>3, ChunkBounded
  <2>2. Units(window, first) \in Seq(Unit) /\ Len(Units(window, first)) = first
    BY <2>1, UnitsCopied DEF WindowsTyped
  <2>3. /\ assem_active' = TRUE /\ assem_total' = total /\ assem_copied' = first
        /\ rx_buf' = Units(window, first)
        /\ irq' = IF first >= total THEN "complete" ELSE "more"
    BY <1>1, <1>3
  <2> HIDE DEF first
  <2>4. irq' # "complete" => first < total
    BY <2>1, <2>3, <1>2
  <2>5. (rx_buf \in Seq(Unit))' /\ Len(rx_buf') = first /\ first <= RxCap
    BY <2>1, <2>2, <2>3, <1>2, <1>3, SizesAssumption
  <2> QED
    BY <2>1, <2>3, <2>4, <2>5, <1>2, <1>3 DEF AssemblyInv, AssemblyFits
<1>4. CASE ~(total # 0 /\ total <= RxCap)
  <2>1. gxfp_espi_irq_assem_reset /\ rx_buf' = <<>>
    BY <1>1, <1>4
  <2>2. (rx_buf \in Seq(Unit))' /\ (Len(rx_buf) <= RxCap)'
    BY <2>1, SizesAssumption
  <2> QED
    BY <2>1, <2>2, NoAssembly
<1> QED
  BY <1>3, <1>4

\* A further window keeps the assembly within its packet, because what is left
\* of the packet bounds the chunk; the branches that give up are not taken.
LEMMA ContinueFits ==
  ASSUME WindowsTyped, AssemblyInv, irq = "read", assem_active, Continue
  PROVE  AssemblyInv'
<1> DEFINE remain == IF assem_copied < assem_total THEN assem_total - assem_copied ELSE 0
           chunk == gxfp_espi_rx_chunk_calc(remain)
           copied == assem_copied + chunk
<1>1. /\ assem_copied \in Nat /\ assem_total \in Nat
      /\ 0 < assem_copied /\ assem_copied < assem_total /\ assem_total <= RxCap
      /\ rx_buf \in Seq(Unit) /\ Len(rx_buf) = assem_copied
  BY DEF AssemblyInv, AssemblyFits
<1>2. remain = assem_total - assem_copied /\ remain \in Nat /\ remain > 0
  BY <1>1
<1> HIDE DEF remain
<1>3. chunk \in Nat /\ chunk <= remain /\ chunk > 0
  BY <1>2, ChunkBounded
<1> HIDE DEF chunk
<1>4. copied \in Nat /\ 0 < copied /\ copied <= assem_total /\ copied <= RxCap
  BY <1>1, <1>2, <1>3, SizesAssumption
<1>5. ~(assem_total = 0 \/ assem_copied = 0 \/ copied > RxCap)
  BY <1>1, <1>4, SizesAssumption
<1>6. ~(chunk = 0 /\ assem_total # 0 /\ assem_copied \in 1..RxCap)
  BY <1>3
<1>7. /\ assem_copied' = copied
      /\ rx_buf' = rx_buf \o Units(window, chunk)
      /\ irq' = IF copied < assem_total THEN "more" ELSE "complete"
      /\ UNCHANGED <<assem_active, assem_total>>
  BY <1>5, <1>6, Zenon DEF Continue, remain, chunk
<1>8. Units(window, chunk) \in Seq(Unit) /\ Len(Units(window, chunk)) = chunk
  BY <1>3, UnitsCopied DEF WindowsTyped
<1>9. rx_buf' \in Seq(Unit) /\ Len(rx_buf') = copied
  <2>1. \A a, b \in Seq(Unit) : a \o b \in Seq(Unit) /\ Len(a \o b) = Len(a) + Len(b)
    OBVIOUS
  <2> QED
    BY <1>1, <1>7, <1>8, <2>1, Zenon
<1> HIDE DEF copied
<1>10. irq' # "complete" => copied < assem_total
  BY <1>7
<1> QED
  BY <1>1, <1>4, <1>7, <1>9, <1>10 DEF AssemblyInv, AssemblyFits

\* One step of the interrupt thread, or of anything else.
LEMMA StepAssembly ==
  ASSUME IInv, [Next]_vars
  PROVE  AssemblyInv'
<1> USE DEF IInv
<1>1. CASE gxfp_espi_irq_read_step
  <2>1. CASE assem_active
    BY <1>1, <2>1, ContinueFits DEF gxfp_espi_irq_read_step
  <2>2. CASE ~assem_active
    BY <1>1, <2>2, StartFits DEF gxfp_espi_irq_read_step
  <2> QED
    BY <2>1, <2>2
<1>2. CASE IrqAcknowledge
  <2>1. CASE irq = "complete"
    BY <1>2, <2>1, NoAssembly DEF IrqAcknowledge, AssemblyInv, AssemblyFits
  <2>2. CASE irq = "more"
    BY <1>2, <2>2 DEF IrqAcknowledge, AssemblyInv, AssemblyFits
  <2> QED
    BY <1>2, <2>1, <2>2 DEF IrqAcknowledge
<1>3. CASE UNCHANGED irqVars
  BY <1>3 DEF irqVars, assemVars, AssemblyInv, AssemblyFits
<1>4. CASE IrqLock
  BY <1>4 DEF IrqLock, assemVars, AssemblyInv, AssemblyFits
<1>5. CASE IrqClear
  BY <1>5 DEF IrqClear, assemVars, AssemblyInv, AssemblyFits
<1>6. CASE IrqPush
  <2>1. ~assem_active /\ UNCHANGED <<assem_active, assem_total, assem_copied>>
    BY <1>6 DEF IrqPush, AssemblyInv
  <2>2. (rx_buf \in Seq(Unit))' /\ (Len(rx_buf) <= RxCap)'
    BY <1>6, SizesAssumption DEF IrqPush
  <2> QED
    BY <2>1, <2>2 DEF AssemblyInv, AssemblyFits
<1>7. CASE Controller \/ gxfp_uapi_write
  BY <1>3, <1>7, Zenon DEF Controller, Answer, Unanswered, Report, Garble, Show, ShowLater, gxfp_uapi_write
<1>8. CASE Command \/ gxfp_startup_sequence \/ gxfp_shutdown_sequence
  BY <1>3, <1>8 DEF Command, gxfp_espi_write, gxfp_xfer, StartupRecover, StartupEnd, gxfp_probe,
     ShutdownEnd, disable_irq, gxfp_platform_remove, gxfp_startup_sequence,
     gxfp_shutdown_sequence, Rest
<1> QED
  BY <1>1, <1>2, <1>3, <1>4, <1>5, <1>6, <1>7, <1>8 DEF Next, IrqStep, vars

\* For every size of window, buffer and packet, whatever the controller shows
\* and whenever the synchronous commands take windows away, the assembly in
\* gxfp_espi_irq_read_step() never leaves its packet or its buffer.
THEOREM AssemblyStaysInside == Spec => []AssemblyFits
<1>1. IInv /\ [Next]_vars => IInv'
  BY StepWindows, StepAssembly DEF IInv
<1>2. IInv => AssemblyFits
  BY DEF IInv, AssemblyInv
<1> QED
  BY InitInv, <1>1, <1>2, PTL DEF Spec

-----------------------------------------------------------------------------
\* Types.

Requests == {"user", "ver", "state", "notify", "protocol_init", "tls_unlock", "sleep", "reset"}
JobType == [req : Requests, calls : Nat, tries : 1..XferTries]

\* The commands still to be called are there while one is being called, and
\* the tries left are never more than a command has.
CommandTyped ==
  /\ asked \in Requests \cup {"none"} /\ ver \in {"none", "error", "nodata", "ok"}
  /\ cmd \in {"none", "write", "read", "end"} /\ left \in 0..XferTries
  /\ jobs \in Seq(JobType)
  /\ cmd \in {"write", "read"} => jobs # <<>>

\* A packet that is pushed or about to be is not empty.
ThreadTyped ==
  /\ irq \in {"idle", "read", "more", "complete", "failed", "drained", "push"}
  /\ lastid \in 0..MaxPackets
  /\ irq \in {"complete", "drained", "push"} => rx_buf # <<>>

BindTyped ==
  /\ bind \in {"probed", "startup", "recovery", "answered", "bound", "shutdown", "removing",
              "disabled", "removed"}
  /\ irq_on \in BOOLEAN /\ line \in BOOLEAN /\ lock \in {"free", "irq", "cmd"}

TypeInv == IInv /\ CommandTyped /\ ThreadTyped /\ BindTyped

\* A sequence of commands starts at its first.
LEMMA StartTyped ==
  ASSUME NEW js \in Seq(JobType), js # <<>>, Start(js)
  PROVE  jobs' \in Seq(JobType) /\ jobs' # <<>> /\ left' \in 0..XferTries /\ cmd' = "write"
<1>1. js[1] \in JobType
  OBVIOUS
<1>2. js[1].tries \in 0..XferTries
  BY <1>1, SizesAssumption DEF JobType
<1> QED
  BY <1>2 DEF Start

LEMMA NextJobTyped ==
  ASSUME jobs \in Seq(JobType), jobs # <<>>, NextJob
  PROVE  /\ jobs' \in Seq(JobType) /\ left' \in 0..XferTries
         /\ cmd' \in {"write", "end"} /\ (cmd' = "write" => jobs' # <<>>)
<1>1. jobs' = Tail(jobs) /\ jobs' \in Seq(JobType) /\ Len(jobs') = Len(jobs) - 1
  BY DEF NextJob
<1>2. CASE Len(jobs) > 1
  <2>1. jobs[2] \in JobType
    BY <1>2
  <2>2. jobs[2].tries \in 0..XferTries
    BY <2>1, SizesAssumption DEF JobType
  <2> QED
    BY <1>1, <1>2, <2>2, SMTT(30) DEF NextJob
<1>3. CASE ~(Len(jobs) > 1)
  BY <1>1, <1>3, SizesAssumption DEF NextJob
<1> QED
  BY <1>2, <1>3

LEMMA StatusTyped ==
  ASSUME ver \in {"none", "error", "nodata", "ok"}, NEW s \in {"error", "nodata", "ok"}
  PROVE  Status(s) \in {"none", "error", "nodata", "ok"}
BY DEF Status

\* A failed call is repeated with one call less, or the next one follows.
LEMMA CallFailsTyped ==
  ASSUME CommandTyped, jobs # <<>>, CallFails
  PROVE  /\ jobs' \in Seq(JobType) /\ left' \in 0..XferTries
         /\ ver' \in {"none", "error", "nodata", "ok"}
         /\ cmd' \in {"write", "end"} /\ (cmd' = "write" => jobs' # <<>>)
<1>1. ver' \in {"none", "error", "nodata", "ok"}
  BY StatusTyped DEF CallFails, CommandTyped
<1>2. CASE jobs[1].calls > 1
  <2> DEFINE js == [jobs EXCEPT ![1].calls = @ - 1]
  <2>1. jobs \in Seq(JobType) /\ jobs[1] \in JobType
    BY DEF CommandTyped
  <2>2. jobs[1].calls - 1 \in Nat
    BY <1>2, <2>1 DEF JobType
  <2>3. [jobs[1] EXCEPT !.calls = jobs[1].calls - 1] \in JobType
    BY <2>1, <2>2, Zenon DEF JobType
  <2>4. js = [jobs EXCEPT ![1] = [jobs[1] EXCEPT !.calls = jobs[1].calls - 1]]
    OBVIOUS
  <2>5. js \in Seq(JobType) /\ Len(js) = Len(jobs)
    BY <2>1, <2>3, <2>4
  <2>6. js # <<>> /\ Start(js)
    BY <1>2, <2>1, <2>5 DEF CallFails
  <2> HIDE DEF js
  <2> QED
    BY <1>1, <2>5, <2>6, StartTyped
<1>3. CASE ~(jobs[1].calls > 1)
  <2>1. NextJob
    BY <1>3 DEF CallFails
  <2> QED
    BY <1>1, <2>1, NextJobTyped DEF CommandTyped
<1> QED
  BY <1>2, <1>3

LEMMA RetryTyped ==
  ASSUME CommandTyped, jobs # <<>>, Retry
  PROVE  /\ jobs' \in Seq(JobType) /\ left' \in 0..XferTries
         /\ ver' \in {"none", "error", "nodata", "ok"}
         /\ cmd' \in {"write", "end"} /\ (cmd' = "write" => jobs' # <<>>)
<1>1. CASE left > 1
  BY <1>1, SizesAssumption DEF Retry, CommandTyped
<1>2. CASE ~(left > 1)
  BY <1>2, CallFailsTyped DEF Retry
<1> QED
  BY <1>1, <1>2

LEMMA StepCommand ==
  ASSUME CommandTyped, [Next]_vars
  PROVE  CommandTyped'
<1>1. CASE UNCHANGED <<asked, cmdVars>>
  BY <1>1 DEF CommandTyped, cmdVars
<1>2. CASE gxfp_espi_write
  <2>1. jobs # <<>> /\ jobs[1] \in JobType /\ cmd = "write"
    BY <1>2 DEF gxfp_espi_write, CommandTyped
  <2>2. CASE asked' = jobs[1].req /\ cmd' = "read" /\ UNCHANGED <<jobs, left, ver>>
    BY <2>1, <2>2 DEF CommandTyped, JobType
  <2>3. CASE (Retry \/ CallFails) /\ UNCHANGED asked
    BY <2>1, <2>3, RetryTyped, CallFailsTyped DEF CommandTyped
  <2> QED
    BY <1>2, <2>2, <2>3 DEF gxfp_espi_write
<1>3. CASE gxfp_xfer
  <2>1. jobs # <<>>
    BY <1>3 DEF gxfp_xfer, CommandTyped
  <2>2. asked' = asked
    BY <1>3 DEF gxfp_xfer, gxfp_espi_read, gxfp_gpio_pulse_read_done, ecVars
  <2>3. CASE Retry \/ CallFails
    BY <2>1, <2>2, <2>3, RetryTyped, CallFailsTyped DEF CommandTyped
  <2>4. CASE ver' = Status(IF window.kind = "ver" THEN "ok" ELSE "nodata") /\ NextJob
    <3>1. ver' \in {"none", "error", "nodata", "ok"}
      BY <2>4, StatusTyped DEF CommandTyped
    <3> QED
      BY <2>1, <2>2, <2>4, <3>1, NextJobTyped DEF CommandTyped
  <2> QED
    BY <1>3, <2>3, <2>4 DEF gxfp_xfer
<1>4. \A r \in Requests, c \in Nat, n \in {1, XferTries} : Job(r, c, n) \in JobType
  BY SizesAssumption DEF Job, JobType
<1>5. CASE gxfp_startup_sequence \/ gxfp_shutdown_sequence \/ StartupRecover
  <2>1. \E js \in Seq(JobType) : js # <<>> /\ Start(js)
    <3>1. CASE gxfp_startup_sequence
      <4>1. gxfp_cmd_get_version(CallTries) \in JobType /\ gxfp_cmd_query_mcu_state \in JobType
        BY <1>4, SizesAssumption DEF gxfp_cmd_get_version, gxfp_cmd_query_mcu_state, Requests
      <4>2. \A a, b \in JobType : <<a, b>> \in Seq(JobType) /\ <<a, b>> # <<>>
        OBVIOUS
      <4> QED
        BY <3>1, <4>1, <4>2, Zenon DEF gxfp_startup_sequence
    <3>2. CASE gxfp_shutdown_sequence
      <4>1. gxfp_cmd_notify_power_state(1) \in JobType /\ gxfp_cmd_sleep_cleanup \in JobType
        BY <1>4 DEF gxfp_cmd_notify_power_state, gxfp_cmd_sleep_cleanup, Requests
      <4>2. \A a, b \in JobType : <<a, b>> \in Seq(JobType) /\ <<a, b>> # <<>>
        OBVIOUS
      <4> QED
        BY <3>2, <4>1, <4>2, Zenon DEF gxfp_shutdown_sequence
    <3>3. CASE StartupRecover
      <4>1. /\ gxfp_cmd_notify_power_state(CallTries) \in JobType
            /\ gxfp_cmd_protocol_init \in JobType /\ gxfp_cmd_tls_unlock \in JobType
            /\ gxfp_cmd_sleep_cleanup \in JobType /\ gxfp_cmd_reset_device(CallTries) \in JobType
            /\ gxfp_cmd_get_version(1) \in JobType
        BY <1>4, SizesAssumption
        DEF gxfp_cmd_notify_power_state, gxfp_cmd_protocol_init, gxfp_cmd_tls_unlock,
            gxfp_cmd_sleep_cleanup, gxfp_cmd_reset_device, gxfp_cmd_get_version, Requests
      <4>2. gxfp_cmd_recover_session \in Seq(JobType)
        BY <4>1 DEF gxfp_cmd_recover_session
      <4>3. /\ Append(gxfp_cmd_recover_session, gxfp_cmd_get_version(1)) \in Seq(JobType)
            /\ Append(gxfp_cmd_recover_session, gxfp_cmd_get_version(1)) # <<>>
        BY <4>1, <4>2
      <4> QED
        BY <3>3, <4>3, Zenon DEF StartupRecover
    <3> QED
      BY <1>5, <3>1, <3>2, <3>3
  <2>2. /\ jobs' \in Seq(JobType) /\ jobs' # <<>> /\ left' \in 0..XferTries /\ cmd' = "write"
    BY <2>1, StartTyped
  <2>3. UNCHANGED <<asked, ver>>
    BY <1>5 DEF gxfp_startup_sequence, gxfp_shutdown_sequence, StartupRecover, Rest, ecVars
  <2> QED
    BY <2>2, <2>3 DEF CommandTyped
<1>6. CASE StartupEnd \/ ShutdownEnd
  BY <1>6 DEF StartupEnd, ShutdownEnd, Rest, ecVars, CommandTyped
<1>7. CASE gxfp_probe \/ disable_irq \/ gxfp_platform_remove
  BY <1>1, <1>7 DEF gxfp_probe, disable_irq, gxfp_platform_remove, Rest, ecVars
<1>8. CASE gxfp_uapi_write \/ Answer \/ Unanswered
  BY <1>8, Zenon DEF gxfp_uapi_write, Answer, Unanswered, ShowLater, CommandTyped, Requests, cmdVars
<1>9. CASE Report \/ Garble \/ Show
  BY <1>1, <1>9 DEF Report, Garble, Show, ShowLater
<1>10. CASE IrqLock \/ IrqStep
  BY <1>1, <1>10 DEF IrqLock, IrqStep, gxfp_espi_irq_read_step, IrqAcknowledge, IrqClear, IrqPush,
                     gxfp_gpio_pulse_read_done, ecVars
<1> QED
  BY <1>1, <1>2, <1>3, <1>5, <1>6, <1>7, <1>8, <1>9, <1>10 DEF Next, Controller, Command, vars, ecVars

LEMMA StepThread ==
  ASSUME IInv, ThreadTyped, [Next]_vars
  PROVE  ThreadTyped'
<1>1. AssemblyInv'
  BY StepAssembly
<1>2. assem_active => rx_buf # <<>>
  BY DEF IInv, AssemblyInv, AssemblyFits
<1>3. assem_active' => rx_buf' # <<>>
  BY <1>1 DEF AssemblyInv, AssemblyFits
<1>4. CASE UNCHANGED irqVars
  BY <1>4 DEF irqVars, assemVars, ThreadTyped
<1>5. CASE gxfp_espi_irq_read_step
  <2>1. CASE assem_active
    <3>1. Continue /\ lastid' = lastid
      BY <1>5, <2>1 DEF gxfp_espi_irq_read_step
    <3>2. /\ irq' \in {"failed", "drained", "more", "complete"}
          /\ irq' = "drained" => rx_buf' = rx_buf
          /\ irq' = "complete" => assem_active' = assem_active
      BY <3>1 DEF Continue
    <3> QED
      BY <1>2, <1>3, <2>1, <3>1, <3>2, Zenon DEF ThreadTyped
  <2>2. CASE ~assem_active
    <3>1. gxfp_espi_rx_start_packet /\ lastid' = lastid
      BY <1>5, <2>2 DEF gxfp_espi_irq_read_step
    <3>2. irq' \in {"failed", "more", "complete"} /\ (irq' = "complete" => assem_active')
      BY <3>1 DEF gxfp_espi_rx_start_packet
    <3> QED
      BY <1>3, <3>1, <3>2 DEF ThreadTyped
  <2> QED
    BY <2>1, <2>2
<1>6. CASE IrqAcknowledge \/ IrqLock \/ IrqClear
  BY <1>6 DEF IrqAcknowledge, IrqLock, IrqClear, ThreadTyped, assemVars
<1>7. CASE IrqPush
  <2>1. rx_buf # <<>> /\ rx_buf \in Seq(Unit)
    BY <1>7 DEF IrqPush, ThreadTyped, IInv, AssemblyInv
  <2>2. rx_buf[1] \in Unit
    BY <2>1
  <2>3. rx_buf[1].id \in 0..MaxPackets
    BY <2>2 DEF Unit
  <2> QED
    BY <1>7, <2>3 DEF IrqPush, ThreadTyped
<1>8. CASE Controller \/ gxfp_uapi_write
  BY <1>4, <1>8, Zenon DEF Controller, Answer, Unanswered, Report, Garble, Show, ShowLater, gxfp_uapi_write
<1>9. CASE Command \/ gxfp_startup_sequence \/ gxfp_shutdown_sequence
  BY <1>4, <1>9 DEF Command, gxfp_espi_write, gxfp_xfer, StartupRecover, StartupEnd, gxfp_probe,
     ShutdownEnd, disable_irq, gxfp_platform_remove, gxfp_startup_sequence,
     gxfp_shutdown_sequence, Rest
<1> QED
  BY <1>4, <1>5, <1>6, <1>7, <1>8, <1>9 DEF Next, IrqStep, vars

LEMMA StepBind ==
  ASSUME BindTyped, [Next]_vars
  PROVE  BindTyped'
<1> USE DEF BindTyped
<1>1. CASE UNCHANGED <<bind, irq_on, line, lock>>
  BY <1>1
<1>2. CASE Controller \/ gxfp_uapi_write
  BY <1>2, Zenon DEF Controller, Answer, Unanswered, Report, Garble, Show, ShowLater, gxfp_uapi_write
<1>3. CASE IrqLock \/ IrqStep
  BY <1>3, Zenon DEF IrqLock, IrqStep, gxfp_espi_irq_read_step, IrqAcknowledge, IrqClear, IrqPush,
              gxfp_gpio_pulse_read_done, ecVars
<1>4. CASE gxfp_espi_write \/ gxfp_xfer
  BY <1>4, Zenon DEF gxfp_espi_write, gxfp_xfer, gxfp_espi_read, gxfp_gpio_pulse_read_done, ecVars
<1>5. CASE StartupRecover \/ StartupEnd \/ gxfp_probe \/ ShutdownEnd
  BY <1>5, Zenon DEF StartupRecover, StartupEnd, gxfp_probe, ShutdownEnd, Rest, ecVars
<1>6. CASE disable_irq \/ gxfp_platform_remove \/ gxfp_startup_sequence \/ gxfp_shutdown_sequence
  BY <1>6, Zenon DEF disable_irq, gxfp_platform_remove, gxfp_startup_sequence, gxfp_shutdown_sequence,
              Rest, ecVars
<1> QED
  BY <1>1, <1>2, <1>3, <1>4, <1>5, <1>6 DEF Next, Command, vars, ecVars

\* Every variable has its type; the tries left of an exchange stay within
\* GXFP_DEFAULT_RETRY_COUNT although a failed call starts them over, a command
\* is there whenever one is being called, and the packet whose identity the
\* interrupt thread hands on is never empty.
THEOREM MailboxTypes == Spec => []TypeOK
<1>1. Init => TypeInv
  <2> SUFFICES ASSUME Init PROVE TypeInv
    OBVIOUS
  <2>1. CommandTyped
    BY SizesAssumption DEF Init, CommandTyped
  <2>2. ThreadTyped
    BY SizesAssumption DEF Init, ThreadTyped
  <2>3. BindTyped
    BY Zenon DEF Init, BindTyped
  <2> QED
    BY <2>1, <2>2, <2>3, InitInv DEF TypeInv
<1>2. TypeInv /\ [Next]_vars => TypeInv'
  BY StepWindows, StepAssembly, StepCommand, StepThread, StepBind DEF TypeInv, IInv
<1>3. TypeInv => TypeOK
  <2> SUFFICES ASSUME TypeInv PROVE TypeOK
    OBVIOUS
  <2>1. out \in Seq(Window) /\ window \in Window /\ npkt \in 0..MaxPackets
    BY DEF TypeInv, IInv, WindowsTyped
  <2>2. /\ assem_active \in BOOLEAN /\ assem_total \in Nat /\ assem_copied \in Nat
        /\ rx_buf \in Seq(Unit)
    BY DEF TypeInv, IInv, AssemblyInv
  <2>3. /\ asked \in {"none", "user", "ver", "state", "notify", "protocol_init", "tls_unlock",
                      "sleep", "reset"}
        /\ cmd \in {"none", "write", "read", "end"} /\ ver \in {"none", "error", "nodata", "ok"}
        /\ left \in 0..XferTries
    BY DEF TypeInv, CommandTyped, Requests
  <2> QED
    BY <2>1, <2>2, <2>3 DEF TypeInv, ThreadTyped, BindTyped, TypeOK
<1> QED
  BY <1>1, <1>2, <1>3, PTL DEF Spec

-----------------------------------------------------------------------------
\* Whole packets.

\* A window is the last one of its packet.
Ends(w) == w.total <= w.off + Chunk

\* v is shown right after w: it starts a packet, or goes on with the one of w.
Follows(w, v) ==
  IF v.off = 0 THEN Ends(w)
  ELSE /\ v.id = w.id /\ v.total = w.total
       /\ v.off = w.off + Chunk /\ v.off < v.total

\* Windows that the controller shows one after the other.
Linked(s) ==
  /\ \A i \in 1..(Len(s) - 1) : Follows(s[i], s[i + 1])
  /\ \A i, j \in 1..Len(s) :
       i < j => s[i].id <= s[j].id /\ (s[j].off = 0 => s[i].id < s[j].id)
  /\ Ends(s[Len(s)])

stream == <<window>> \o out

\* What the controller shows is packet after packet, and each is new.
InPackets ==
  /\ Linked(stream)
  /\ \A i \in 1..Len(stream) : stream[i].id <= npkt
  /\ \A i \in 1..Len(out) : out[i].id > 0
  /\ line => window.id > 0

\* Until the interrupt is enabled, packets are single windows.
Starting ==
  bind \in {"probed", "startup", "recovery", "answered"} =>
    /\ ~irq_on /\ irq = "idle" /\ ~assem_active /\ lastid = 0
    /\ bind = "answered" => cmd = "none"
    /\ \A i \in 1..Len(stream) : stream[i].off = 0

\* The units of the packet of w, from its first.
PartOf(b, w) == \A i \in 1..Len(b) : b[i] = [id |-> w.id, total |-> w.total, unit |-> i]

\* All windows still to be read are of packets newer than n.
NewerThan(n) == (line => window.id > n) /\ \A i \in 1..Len(out) : out[i].id > n

\* While the driver is bound only the interrupt thread reads windows, so an
\* assembly goes on with the window that follows.
Serving ==
  bind = "bound" =>
    /\ cmd = "none" /\ lastid \in 0..npkt /\ NewerThan(lastid)
    /\ irq \in {"read", "more", "complete", "failed"} => line
    /\ irq \in {"idle", "read", "more", "complete", "failed", "push"}
    /\ irq \in {"more", "complete"} => assem_active
    /\ ~assem_active => IF line THEN window.off = 0 ELSE Ends(window)
    /\ assem_active =>
         /\ assem_total = window.total /\ PartOf(rx_buf, window)
         /\ irq \in {"idle", "read"} /\ line => window.off = assem_copied
         /\ irq = "complete" => assem_copied = window.total /\ Ends(window)
         /\ irq = "more" \/ ~line => window.off + Chunk = assem_copied
    /\ irq = "push" => /\ Whole(rx_buf) /\ rx_buf[1].id > lastid
                       /\ rx_buf[1].id \in 0..npkt /\ NewerThan(rx_buf[1].id)

PacketInv == InPackets /\ Starting /\ Serving

\* A packet goes on exactly when it has not ended.
LEMMA GoesOn ==
  ASSUME NEW w \in Window, NEW v \in Window, Follows(w, v)
  PROVE  /\ Ends(w) => v.off = 0
         /\ ~Ends(w) => v.id = w.id /\ v.total = w.total /\ v.off = w.off + Chunk
<1>1. w.off \in Nat /\ w.total \in Nat /\ v.off \in Nat /\ v.total \in Nat /\ Chunk \in Nat
  BY SizesAssumption DEF Window
<1>2. CASE v.off = 0
  BY <1>2 DEF Follows
<1>3. CASE v.off # 0
  BY <1>1, <1>3 DEF Follows, Ends
<1> QED
  BY <1>2, <1>3

\* What is left to show after the first window.
LEMMA LinkedTail ==
  ASSUME NEW s \in Seq(Window), Len(s) > 1, Linked(s)
  PROVE  Linked(Tail(s))
<1> DEFINE t == Tail(s)
<1>1. /\ t \in Seq(Window) /\ Len(t) = Len(s) - 1 /\ Len(t) \in Nat /\ Len(t) > 0
      /\ \A i \in 1..Len(t) : t[i] = s[i + 1] /\ i + 1 \in 1..Len(s)
  OBVIOUS
<1> HIDE DEF t
<1>2. \A i \in 1..(Len(t) - 1) : Follows(t[i], t[i + 1])
  <2>1. ASSUME NEW i \in 1..(Len(t) - 1)
        PROVE  Follows(t[i], t[i + 1])
    <3>1. /\ i \in 1..Len(t) /\ i + 1 \in 1..Len(t) /\ i + 1 \in 1..(Len(s) - 1)
      BY <1>1
    <3> QED
      BY <1>1, <3>1, Zenon DEF Linked
  <2> QED
    BY <2>1, Zenon
<1>3. \A i, j \in 1..Len(t) :
        i < j => t[i].id <= t[j].id /\ (t[j].off = 0 => t[i].id < t[j].id)
  <2>1. \A i, j \in 1..Len(t) : i < j => i + 1 < j + 1
    BY <1>1
  <2> QED
    BY <1>1, <2>1, Zenon DEF Linked
<1>4. Ends(t[Len(t)])
  <2>1. Len(t) \in 1..Len(t) /\ Len(t) + 1 = Len(s)
    BY <1>1
  <2> QED
    BY <1>1, <2>1 DEF Linked
<1> QED
  BY <1>2, <1>3, <1>4 DEF Linked, t

\* The windows of a new packet come last.
LEMMA LinkedConcat ==
  ASSUME NEW s \in Seq(Window), NEW w \in Seq(Window), s # <<>>, w # <<>>,
         Linked(s), Linked(w), w[1].off = 0,
         \A i \in 1..Len(s), j \in 1..Len(w) : s[i].id < w[j].id
  PROVE  Linked(s \o w)
<1> DEFINE t == s \o w
<1>1. /\ Len(s) \in Nat \ {0} /\ Len(w) \in Nat \ {0} /\ Len(t) = Len(s) + Len(w)
      /\ \A i \in 1..Len(s) : t[i] = s[i]
      /\ \A i \in 1..Len(w) : t[Len(s) + i] = w[i]
  OBVIOUS
<1>2. \A i \in 1..Len(t) : \/ i \in 1..Len(s) /\ t[i] = s[i]
                           \/ i - Len(s) \in 1..Len(w) /\ t[i] = w[i - Len(s)]
  OBVIOUS
<1> HIDE DEF t
<1>3. ASSUME NEW i \in 1..(Len(t) - 1)
      PROVE  Follows(t[i], t[i + 1])
  <2>1. CASE i < Len(s)
    <3>1. i \in 1..(Len(s) - 1) /\ i \in 1..Len(s) /\ i + 1 \in 1..Len(s)
      BY <1>1, <2>1
    <3> QED
      BY <1>1, <3>1 DEF Linked
  <2>2. CASE i = Len(s)
    <3>1. t[i] = s[Len(s)] /\ t[i + 1] = w[1]
      BY <1>1, <2>2
    <3> QED
      BY <3>1, Zenon DEF Linked, Follows
  <2>3. CASE i > Len(s)
    <3> DEFINE k == i - Len(s)
    <3>1. /\ k \in 1..(Len(w) - 1) /\ k \in 1..Len(w) /\ k + 1 \in 1..Len(w)
          /\ i = Len(s) + k /\ i + 1 = Len(s) + (k + 1)
      BY <1>1, <2>3
    <3> HIDE DEF k
    <3>2. t[i] = w[k] /\ t[i + 1] = w[k + 1]
      BY <1>1, <3>1, Zenon
    <3> QED
      BY <3>1, <3>2, Zenon DEF Linked
  <2> QED
    BY <1>1, <2>1, <2>2, <2>3
<1>4. ASSUME NEW i \in 1..Len(t), NEW j \in 1..Len(t), i < j
      PROVE  t[i].id <= t[j].id /\ (t[j].off = 0 => t[i].id < t[j].id)
  <2>1. CASE i \in 1..Len(s) /\ t[i] = s[i] /\ j \in 1..Len(s) /\ t[j] = s[j]
    BY <1>4, <2>1, Zenon DEF Linked
  <2>2. CASE /\ i \in 1..Len(s) /\ t[i] = s[i]
             /\ j - Len(s) \in 1..Len(w) /\ t[j] = w[j - Len(s)]
    <3>1. s[i] \in Window /\ w[j - Len(s)] \in Window
      BY <2>2
    <3>2. \A x \in Window : x.id \in Int
      BY SizesAssumption DEF Window
    <3>3. s[i].id < w[j - Len(s)].id
      BY <2>2, Zenon
    <3> QED
      BY <2>2, <3>1, <3>2, <3>3, SMTT(30)
  <2>3. CASE /\ i - Len(s) \in 1..Len(w) /\ t[i] = w[i - Len(s)]
             /\ j - Len(s) \in 1..Len(w) /\ t[j] = w[j - Len(s)]
    <3>1. i - Len(s) < j - Len(s)
      BY <1>1, <1>4
    <3> QED
      BY <2>3, <3>1, Zenon DEF Linked
  <2>4. ~(i - Len(s) \in 1..Len(w) /\ j \in 1..Len(s))
    BY <1>1, <1>4
  <2> QED
    BY <1>2, <2>1, <2>2, <2>3, <2>4, Zenon
<1>5. Ends(t[Len(t)])
  <2>1. Len(w) \in 1..Len(w)
    BY <1>1
  <2>2. t[Len(t)] = w[Len(w)]
    BY <1>1, <2>1
  <2> QED
    BY <2>2 DEF Linked
<1> QED
  BY <1>3, <1>4, <1>5, Zenon DEF Linked, t

\* The windows of one new packet.
NewPacket(ws) ==
  /\ ws \in Seq(Window) /\ ws # <<>> /\ Linked(ws) /\ ws[1].off = 0
  /\ \A i \in 1..Len(ws) : ws[i].id = npkt + 1
  /\ irq_on \/ \A i \in 1..Len(ws) : ws[i].off = 0

\* An answer, a report or noise of one window.
LEMMA OneWindow ==
  ASSUME NEW w \in Window, w.off = 0, w.total <= Chunk, w.id = npkt + 1
  PROVE  NewPacket(<<w>>)
<1>1. <<w>> \in Seq(Window) /\ Len(<<w>>) = 1 /\ <<w>>[1] = w
  OBVIOUS
<1>2. Ends(w)
  BY SizesAssumption DEF Ends, Window
<1> QED
  BY <1>1, <1>2 DEF NewPacket, Linked

\* The multiples of a window that start within a packet.
LEMMA Multiples ==
  ASSUME NEW t \in Nat \ {0}
  PROVE  LET n == (t + Chunk - 1) \div Chunk
         IN /\ n \in Nat \ {0} /\ t <= n * Chunk
            /\ \A i \in 1..n : (i - 1) * Chunk \in Nat /\ (i - 1) * Chunk < t
            /\ \A i \in 2..n : (i - 1) * Chunk >= Chunk
            /\ \A i \in 1..n : i * Chunk = (i - 1) * Chunk + Chunk
<1> DEFINE n == (t + Chunk - 1) \div Chunk
<1>1. Chunk \in Nat /\ Chunk > 0
  BY SizesAssumption
<1>2. n \in Nat /\ n * Chunk <= t + Chunk - 1 /\ t + Chunk - 1 < n * Chunk + Chunk
  BY <1>1
<1> HIDE DEF n
<1>3. n # 0 /\ t <= n * Chunk
  BY <1>1, <1>2
<1>4. \A i \in 1..n : i * Chunk = (i - 1) * Chunk + Chunk
  BY <1>1, <1>2
<1>5. ASSUME NEW i \in 1..n
      PROVE  (i - 1) * Chunk \in Nat /\ (i - 1) * Chunk < t
  <2>1. i * Chunk <= n * Chunk
    BY <1>1, <1>2
  <2> QED
    BY <1>1, <1>2, <1>4, <2>1
<1>6. \A i \in 2..n : (i - 1) * Chunk >= Chunk
  BY <1>1, <1>2
<1> QED
  BY <1>2, <1>3, <1>4, <1>5, <1>6 DEF n

\* A report or an image.
LEMMA ManyWindows ==
  ASSUME NEW t \in Totals, WindowsTyped, npkt < MaxPackets, t <= Chunk \/ irq_on
  PROVE  NewPacket(Windows("data", t))
<1> DEFINE n == (t + Chunk - 1) \div Chunk
           ws == Windows("data", t)
<1>1. t \in Nat \ {0} /\ Chunk \in Nat /\ "data" \in Kinds
  BY SizesAssumption DEF Kinds
<1>2. ws \in Seq(Window)
  BY <1>1, WindowsOfPacket, Zenon DEF WindowsTyped
<1>3. /\ n \in Nat \ {0} /\ t <= n * Chunk
      /\ \A i \in 1..n : (i - 1) * Chunk \in Nat /\ (i - 1) * Chunk < t
      /\ \A i \in 2..n : (i - 1) * Chunk >= Chunk
      /\ \A i \in 1..n : i * Chunk = (i - 1) * Chunk + Chunk
  BY <1>1, Multiples
<1>4. ws = [i \in 1..n |-> [id |-> npkt + 1, kind |-> "data", total |-> t, off |-> (i - 1) * Chunk]]
  BY DEF Windows
<1> HIDE DEF n, ws
<1>5. Len(ws) = n
  <2>1. DOMAIN ws = 1..n
    BY <1>4, Zenon
  <2> QED
    BY <1>2, <1>3, <2>1
<1>6. \A i \in 1..n : ws[i].id = npkt + 1 /\ ws[i].total = t /\ ws[i].off = (i - 1) * Chunk
  BY <1>4, Zenon
<1>7. ASSUME NEW i \in 1..(n - 1)
      PROVE  Follows(ws[i], ws[i + 1])
  <2>1. i \in 1..n /\ i + 1 \in 1..n /\ i + 1 \in 2..n /\ (i + 1) - 1 = i
    BY <1>3
  <2>2. ws[i + 1].off = i * Chunk /\ i * Chunk >= Chunk /\ i * Chunk < t
        /\ i * Chunk = (i - 1) * Chunk + Chunk
    BY <1>3, <1>6, <2>1, Zenon
  <2>3. ws[i + 1].off # 0
    BY <2>2, SizesAssumption
  <2> QED
    BY <1>6, <2>1, <2>2, <2>3, Zenon DEF Follows
<1>8. ASSUME NEW i \in 1..n, NEW j \in 1..n, i < j
      PROVE  ws[i].id <= ws[j].id /\ (ws[j].off = 0 => ws[i].id < ws[j].id)
  <2>1. j \in 2..n
    BY <1>3, <1>8
  <2>2. ws[j].off # 0
    BY <1>3, <1>6, <2>1, SizesAssumption
  <2> QED
    BY <1>6, <2>2, SizesAssumption DEF WindowsTyped
<1>9. Ends(ws[n])
  <2>1. n \in 1..n
    BY <1>3
  <2> QED
    BY <1>3, <1>6, <2>1 DEF Ends
<1>10. ws[1].off = 0 /\ ws # <<>>
  <2>1. 1 \in 1..n /\ (1 - 1) * Chunk = 0
    BY <1>1, <1>3
  <2> QED
    BY <1>2, <1>3, <1>5, <1>6, <2>1
<1>11. t <= Chunk => \A i \in 1..n : ws[i].off = 0
  <2>1. \A i \in 1..n : i = 1 \/ i \in 2..n
    BY <1>3
  <2>2. t <= Chunk => n = 1
    <3>1. n \in 2..n \/ n = 1
      BY <1>3
    <3>2. n \in 1..n
      BY <1>3
    <3> QED
      BY <1>1, <1>3, <3>1, <3>2
  <2> QED
    BY <1>3, <1>10, <2>1, <2>2
<1> QED
  BY <1>2, <1>5, <1>6, <1>7, <1>8, <1>9, <1>10, <1>11 DEF NewPacket, Linked, ws

-----------------------------------------------------------------------------
\* What a step does to the mailbox: a new packet, a window shown, or no more
\* than an acknowledgement.
LEMMA MailboxStep ==
  ASSUME WindowsTyped, [Next]_vars
  PROVE  \/ \E ws : NewPacket(ws) /\ ShowLater(ws)
         \/ Show
         \/ UNCHANGED <<out, window, npkt>> /\ line' \in {line, FALSE}
<1>1. CASE Answer
  <2>1. PICK k \in Answers(asked) :
          ShowLater(<<[id |-> npkt + 1, kind |-> k, total |-> 1, off |-> 0]>>)
    BY <1>1 DEF Answer
  <2> DEFINE w == [id |-> npkt + 1, kind |-> k, total |-> 1, off |-> 0]
  <2>2. npkt < MaxPackets /\ npkt \in 0..MaxPackets
    BY <2>1 DEF ShowLater, WindowsTyped
  <2>3. k \in Kinds
    BY DEF Answers, Kinds
  <2>4. w \in Window /\ w.off = 0 /\ w.total <= Chunk /\ w.id = npkt + 1
    BY <2>2, <2>3, SizesAssumption DEF Window
  <2> HIDE DEF w
  <2>5. NewPacket(<<w>>)
    BY <2>4, OneWindow
  <2> QED
    BY <2>1, <2>5, Zenon DEF w
<1>2. CASE Report
  <2>1. PICK t \in Totals : (t <= Chunk \/ irq_on) /\ ShowLater(Windows("data", t))
    BY <1>2 DEF Report
  <2>2. npkt < MaxPackets
    BY <2>1 DEF ShowLater
  <2>3. NewPacket(Windows("data", t))
    BY <2>1, <2>2, ManyWindows
  <2> QED
    BY <2>1, <2>3, Zenon
<1>3. CASE Garble
  <2> DEFINE w == [id |-> npkt + 1, kind |-> "noise", total |-> 0, off |-> 0]
  <2>1. ShowLater(<<w>>)
    BY <1>3 DEF Garble
  <2>2. npkt < MaxPackets /\ npkt \in 0..MaxPackets
    BY <2>1 DEF ShowLater, WindowsTyped
  <2>3. w \in Window /\ w.off = 0 /\ w.total <= Chunk /\ w.id = npkt + 1
    BY <2>2, SizesAssumption DEF Window, Kinds
  <2> HIDE DEF w
  <2>4. NewPacket(<<w>>)
    BY <2>3, OneWindow
  <2> QED
    BY <2>1, <2>4, Zenon
<1>4. CASE UNCHANGED ecVars
  BY <1>4 DEF ecVars
<1>5. CASE gxfp_espi_irq_read_step \/ IrqClear \/ IrqPush \/ IrqLock
  BY <1>4, <1>5, Zenon DEF gxfp_espi_irq_read_step, IrqClear, IrqPush, IrqLock
<1>6. CASE IrqAcknowledge \/ gxfp_espi_write \/ gxfp_xfer \/ gxfp_uapi_write \/ Unanswered
  BY <1>6, Zenon DEF IrqAcknowledge, gxfp_espi_write, gxfp_xfer, gxfp_uapi_write, Unanswered,
     gxfp_espi_read, gxfp_gpio_pulse_read_done, ecVars
<1>7. CASE \/ StartupRecover \/ StartupEnd \/ gxfp_probe \/ ShutdownEnd \/ disable_irq
           \/ gxfp_platform_remove \/ gxfp_startup_sequence \/ gxfp_shutdown_sequence
  BY <1>4, <1>7, Zenon DEF StartupRecover, StartupEnd, gxfp_probe, ShutdownEnd, disable_irq,
     gxfp_platform_remove, gxfp_startup_sequence, gxfp_shutdown_sequence, Rest
<1> QED
  BY <1>1, <1>2, <1>3, <1>4, <1>5, <1>6, <1>7, Zenon DEF Next, Controller, IrqStep, Command, vars

\* The windows of the stream.
LEMMA StreamWindows ==
  ASSUME NEW w \in Window, NEW s \in Seq(Window)
  PROVE  /\ <<w>> \o s \in Seq(Window) /\ Len(<<w>> \o s) = Len(s) + 1 /\ Len(s) \in Nat
         /\ (<<w>> \o s)[1] = w
         /\ \A i \in 1..Len(s) : (<<w>> \o s)[i + 1] = s[i]
         /\ \A i \in 1..(Len(s) + 1) :
              i = 1 \/ (i - 1 \in 1..Len(s) /\ (<<w>> \o s)[i] = s[i - 1])
         /\ s # <<>> => /\ Head(s) \in Window /\ Tail(s) \in Seq(Window)
                        /\ <<Head(s)>> \o Tail(s) = s
OBVIOUS

\* A new packet joins the stream.
LEMMA PacketJoins ==
  ASSUME WindowsTyped, InPackets, NEW ws, NewPacket(ws), ShowLater(ws)
  PROVE  /\ InPackets'
         /\ out' = out \o ws /\ UNCHANGED <<window, line>>
         /\ stream' = stream \o ws
         /\ \A i \in 1..Len(out') :
              \/ i \in 1..Len(out) /\ out'[i] = out[i]
              \/ \E j \in 1..Len(ws) : out'[i] = ws[j]
         /\ \A i \in 1..Len(stream') :
              \/ i \in 1..Len(stream) /\ stream'[i] = stream[i]
              \/ \E j \in 1..Len(ws) : stream'[i] = ws[j]
<1>1. /\ window \in Window /\ out \in Seq(Window) /\ npkt \in Nat /\ ws \in Seq(Window)
      /\ out' = out \o ws /\ UNCHANGED <<window, line>> /\ npkt' = npkt + 1
  BY SizesAssumption DEF WindowsTyped, NewPacket, ShowLater
<1>2. stream \in Seq(Window) /\ stream # <<>>
  BY <1>1 DEF stream
<1>3. stream' = stream \o ws
  <2>1. (<<window>> \o out) \o ws = <<window>> \o (out \o ws)
    BY <1>1
  <2> QED
    BY <1>1, <2>1, Zenon DEF stream
<1>4. \A s \in Seq(Window) : \A i \in 1..Len(s \o ws) :
        \/ i \in 1..Len(s) /\ (s \o ws)[i] = s[i]
        \/ i - Len(s) \in 1..Len(ws) /\ (s \o ws)[i] = ws[i - Len(s)]
  BY <1>1
<1>5. /\ \A i \in 1..Len(out') : \/ i \in 1..Len(out) /\ out'[i] = out[i]
                                 \/ \E j \in 1..Len(ws) : out'[i] = ws[j]
      /\ \A i \in 1..Len(stream') : \/ i \in 1..Len(stream) /\ stream'[i] = stream[i]
                                    \/ \E j \in 1..Len(ws) : stream'[i] = ws[j]
  BY <1>1, <1>2, <1>3, <1>4, Zenon
<1>6. /\ \A i \in 1..Len(stream) : stream[i].id \in Nat /\ stream[i].id <= npkt
      /\ \A j \in 1..Len(ws) : ws[j].id = npkt + 1
  <2>1. \A i \in 1..Len(stream) : stream[i] \in Window
    BY <1>2
  <2>2. \A w \in Window : w.id \in Nat
    BY SizesAssumption DEF Window
  <2> QED
    BY <2>1, <2>2 DEF InPackets, NewPacket
<1>7. Linked(stream')
  <2>1. \A i \in 1..Len(stream), j \in 1..Len(ws) : stream[i].id < ws[j].id
    BY <1>1, <1>6, SMTT(30)
  <2> QED
    BY <1>1, <1>2, <1>3, <2>1, LinkedConcat DEF InPackets, NewPacket
<1>8. \A i \in 1..Len(stream') : stream'[i].id <= npkt'
  <2>1. ASSUME NEW i \in 1..Len(stream')
        PROVE  stream'[i].id <= npkt'
    <3>1. CASE i \in 1..Len(stream) /\ stream'[i] = stream[i]
      <4>1. stream[i].id \in Nat /\ stream[i].id <= npkt
        BY <1>6, <3>1, Zenon
      <4> QED
        BY <1>1, <3>1, <4>1
    <3>2. CASE \E j \in 1..Len(ws) : stream'[i] = ws[j]
      <4>1. stream'[i].id = npkt + 1
        BY <1>6, <3>2, Zenon
      <4> QED
        BY <1>1, <4>1
    <3> QED
      BY <1>5, <3>1, <3>2, Zenon
  <2> QED
    BY <2>1
<1>9. \A i \in 1..Len(out') : out'[i].id > 0
  <2>1. npkt + 1 > 0
    BY <1>1
  <2>2. \A j \in 1..Len(ws) : ws[j].id > 0
    BY <1>6, <2>1, Zenon
  <2> QED
    BY <1>5, <2>2, Zenon DEF InPackets
<1> QED
  BY <1>1, <1>3, <1>5, <1>7, <1>8, <1>9, Zenon DEF InPackets

\* The next window is shown.
LEMMA WindowShown ==
  ASSUME WindowsTyped, InPackets, Show
  PROVE  /\ InPackets'
         /\ out # <<>> /\ window' = out[1] /\ Follows(window, window')
         /\ \A i \in 1..Len(out') : i + 1 \in 1..Len(out) /\ out'[i] = out[i + 1]
         /\ \A i \in 1..Len(stream') : i + 1 \in 1..Len(stream) /\ stream'[i] = stream[i + 1]
         /\ 1 \in 1..Len(out)
<1>1. /\ window \in Window /\ out \in Seq(Window) /\ out # <<>>
      /\ window' = Head(out) /\ out' = Tail(out) /\ UNCHANGED npkt
  BY Zenon DEF WindowsTyped, Show
<1>2. /\ stream \in Seq(Window) /\ Len(stream) = Len(out) + 1 /\ Len(out) \in Nat /\ Len(out) > 0
      /\ stream[1] = window /\ \A i \in 1..Len(out) : stream[i + 1] = out[i]
  BY <1>1, StreamWindows DEF stream
<1>3. stream' = out /\ out = Tail(stream)
  BY <1>1 DEF stream
<1>4. /\ 1 \in 1..Len(out) /\ Head(out) = out[1]
      /\ Len(out') = Len(out) - 1
      /\ \A i \in 1..Len(out') : i + 1 \in 1..Len(out) /\ out'[i] = out[i + 1]
  BY <1>1
<1>5. \A i \in 1..Len(out) : i + 1 \in 1..Len(stream) /\ out[i] = stream[i + 1]
  BY <1>2
<1>6. Linked(out)
  <2>1. Len(stream) > 1
    BY <1>2
  <2> QED
    BY <1>2, <1>3, <2>1, LinkedTail, Zenon DEF InPackets
<1>7. Follows(window, out[1])
  <2>1. 1 \in 1..(Len(stream) - 1) /\ stream[1 + 1] = out[1]
    BY <1>2, <1>4
  <2> QED
    BY <1>2, <2>1, Zenon DEF InPackets, Linked
<1>8. /\ \A i \in 1..Len(out) : out[i].id <= npkt /\ out[i].id > 0
  BY <1>5, Zenon DEF InPackets
<1>9. InPackets'
  BY <1>1, <1>3, <1>4, <1>6, <1>8, Zenon DEF InPackets
<1> QED
  BY <1>1, <1>3, <1>4, <1>5, <1>7, <1>9, Zenon

\* After the last window of a packet comes a newer packet.
LEMMA NewerFollows ==
  ASSUME WindowsTyped, InPackets, Ends(window)
  PROVE  \A i \in 1..Len(out) : out[i].id > window.id
<1>1. /\ stream \in Seq(Window) /\ Len(stream) = Len(out) + 1 /\ Len(out) \in Nat
      /\ stream[1] = window /\ \A i \in 1..Len(out) : stream[i + 1] = out[i]
  BY StreamWindows DEF stream, WindowsTyped
<1>2. \A i \in 1..Len(out) : out[i] \in Window /\ window \in Window
  BY DEF WindowsTyped
<1>3. \A w \in Window : w.id \in Nat /\ w.off \in Nat /\ w.total \in Nat
  BY SizesAssumption DEF Window
<1>4. ASSUME NEW i \in 1..Len(out)
      PROVE  out[i].id > window.id
  <2>1. 1 \in 1..(Len(stream) - 1) /\ 1 \in 1..Len(stream) /\ 1 \in 1..Len(out)
        /\ 1 + 1 \in 1..Len(stream) /\ i + 1 \in 1..Len(stream) /\ 1 < i + 1 /\ 1 < 1 + 1
    BY <1>1
  <2>2. Follows(window, out[1])
    BY <1>1, <2>1 DEF InPackets, Linked
  <2>3. out[1].off = 0
    BY <1>2, <2>1, <2>2, GoesOn
  <2>4. window.id < out[1].id
    BY <1>1, <2>1, <2>3, Zenon DEF InPackets, Linked
  <2>5. i = 1 \/ out[1].id <= out[i].id
    <3>1. i = 1 \/ (1 + 1 < i + 1)
      OBVIOUS
    <3> QED
      BY <1>1, <2>1, <3>1, Zenon DEF InPackets, Linked
  <2> QED
    BY <1>2, <1>3, <2>1, <2>4, <2>5
<1> QED
  BY <1>4

-----------------------------------------------------------------------------
\* The stream stays one of packets.
LEMMA StepPackets ==
  ASSUME WindowsTyped, InPackets, [Next]_vars
  PROVE  InPackets'
<1>1. ASSUME NEW ws, NewPacket(ws), ShowLater(ws)
      PROVE  InPackets'
  BY <1>1, PacketJoins
<1>2. CASE Show
  BY <1>2, WindowShown, Zenon
<1>3. CASE UNCHANGED <<out, window, npkt>> /\ line' \in {line, FALSE}
  <2>1. stream' = stream /\ out' = out /\ npkt' = npkt /\ window' = window
    BY <1>3 DEF stream
  <2>2. line' => line
    BY <1>3, Zenon
  <2> QED
    BY <2>1, <2>2 DEF InPackets
<1> QED
  BY <1>1, <1>2, <1>3, MailboxStep, Zenon

\* Until the interrupt is enabled nothing but single windows is shown, and the
\* interrupt thread has not begun.
LEMMA StepStarting ==
  ASSUME WindowsTyped, InPackets, Starting, [Next]_vars
  PROVE  Starting'
<1> DEFINE Early == {"probed", "startup", "recovery", "answered"}
<1>1. bind' \in Early => bind \in Early
  BY Zenon DEF Next, Controller, Answer, Unanswered, Report, Garble, Show, ShowLater, IrqLock, IrqStep,
     gxfp_espi_irq_read_step, IrqAcknowledge, IrqClear, IrqPush, Command, gxfp_espi_write,
     gxfp_xfer, StartupRecover, StartupEnd, gxfp_probe, ShutdownEnd, disable_irq,
     gxfp_platform_remove, gxfp_startup_sequence, gxfp_shutdown_sequence, gxfp_uapi_write, vars
<1> SUFFICES ASSUME bind' \in Early, bind \in Early PROVE Starting'
  BY <1>1, Zenon DEF Starting
<1>2. /\ ~irq_on /\ irq = "idle" /\ ~assem_active /\ lastid = 0
      /\ bind = "answered" => cmd = "none"
      /\ \A i \in 1..Len(stream) : stream[i].off = 0
  BY Zenon DEF Starting
<1>3. ~IrqLock /\ ~IrqStep
  BY <1>2, Zenon DEF IrqLock, IrqStep, gxfp_espi_irq_read_step, IrqAcknowledge, IrqClear, IrqPush
<1>4. UNCHANGED <<irq, assem_active, lastid>>
  BY <1>3, Zenon DEF Next, Controller, Answer, Unanswered, Report, Garble, Show, ShowLater,
     Command, gxfp_espi_write, gxfp_xfer, StartupRecover, StartupEnd, gxfp_probe, ShutdownEnd,
     disable_irq, gxfp_platform_remove, gxfp_startup_sequence, gxfp_shutdown_sequence,
     gxfp_uapi_write, Rest, irqVars, assemVars, vars
<1>5. UNCHANGED irq_on /\ (bind' = "answered" => cmd' = "none")
  <2>1. CASE Controller \/ gxfp_uapi_write \/ UNCHANGED vars
    BY <1>2, <2>1, Zenon DEF Controller, Answer, Unanswered, Report, Garble, Show, ShowLater,
       gxfp_uapi_write, cmdVars, vars
  <2>2. CASE gxfp_espi_write \/ gxfp_xfer
    <3>1. cmd # "none" /\ UNCHANGED <<bind, irq_on>>
      BY <2>2 DEF gxfp_espi_write, gxfp_xfer
    <3> QED
      BY <1>2, <3>1
  <2>3. CASE \/ StartupRecover \/ StartupEnd \/ gxfp_probe \/ ShutdownEnd \/ disable_irq
             \/ gxfp_platform_remove \/ gxfp_startup_sequence \/ gxfp_shutdown_sequence
    BY <2>3 DEF StartupRecover, StartupEnd, gxfp_probe, ShutdownEnd, disable_irq,
       gxfp_platform_remove, gxfp_startup_sequence, gxfp_shutdown_sequence
  <2> QED
    BY <1>3, <2>1, <2>2, <2>3, Zenon DEF Next, Command
<1>6. \A i \in 1..Len(stream') : stream'[i].off = 0
  <2>1. ASSUME NEW ws, NewPacket(ws), ShowLater(ws)
        PROVE  \A i \in 1..Len(stream') : stream'[i].off = 0
    <3>1. \A j \in 1..Len(ws) : ws[j].off = 0
      BY <1>2, <2>1 DEF NewPacket
    <3>2. \A i \in 1..Len(stream') : \/ i \in 1..Len(stream) /\ stream'[i] = stream[i]
                                     \/ \E j \in 1..Len(ws) : stream'[i] = ws[j]
      BY <2>1, PacketJoins, Zenon
    <3> QED
      BY <1>2, <3>1, <3>2, Zenon
  <2>2. CASE Show
    <3>1. \A i \in 1..Len(stream') : i + 1 \in 1..Len(stream) /\ stream'[i] = stream[i + 1]
      BY <2>2, WindowShown, Zenon
    <3> QED
      BY <1>2, <3>1, Zenon
  <2>3. CASE UNCHANGED <<out, window, npkt>>
    BY <1>2, <2>3, Zenon DEF stream
  <2> QED
    BY <2>1, <2>2, <2>3, MailboxStep, Zenon
<1> QED
  BY <1>2, <1>4, <1>5, <1>6 DEF Starting

\* enable_irq() finds single windows only.
LEMMA ProbeServes ==
  ASSUME WindowsTyped, InPackets, Starting, gxfp_probe
  PROVE  Serving'
<1>1. /\ irq = "idle" /\ ~assem_active /\ lastid = 0 /\ cmd = "none"
      /\ \A i \in 1..Len(stream) : stream[i].off = 0
      /\ UNCHANGED <<ecVars, irqVars, cmdVars>>
  BY Zenon DEF gxfp_probe, Starting, Rest
<1>2. /\ stream \in Seq(Window) /\ Len(stream) = Len(out) + 1 /\ Len(out) \in Nat
      /\ stream[1] = window
  BY StreamWindows, Zenon DEF stream, WindowsTyped
<1>3. window.off = 0 /\ Ends(window)
  <2>1. window.off = 0
    BY <1>1, <1>2
  <2>2. CASE Len(stream) = 1
    <3>1. Ends(stream[Len(stream)])
      BY DEF InPackets, Linked
    <3>2. stream[Len(stream)] = window
      BY <1>2, <2>2, Zenon
    <3> QED
      BY <2>1, <3>1, <3>2, Zenon
  <2>3. CASE Len(stream) > 1
    <3>1. 1 \in 1..(Len(stream) - 1) /\ 1 + 1 \in 1..Len(stream)
      BY <1>2, <2>3, SMTT(30)
    <3>2. Follows(stream[1], stream[1 + 1]) /\ stream[1 + 1].off = 0
      BY <1>1, <3>1, Zenon DEF InPackets, Linked
    <3> QED
      BY <1>2, <2>1, <3>2 DEF Follows
  <2> QED
    BY <1>2, <2>1, <2>2, <2>3
<1>4. NewerThan(lastid) /\ lastid \in 0..npkt
  BY <1>1, SizesAssumption DEF NewerThan, InPackets, WindowsTyped
<1> QED
  BY <1>1, <1>3, <1>4, Zenon DEF Serving, NewerThan, Ends, ecVars, irqVars, assemVars, cmdVars

\* An assembly starts with the first window of a packet.
LEMMA ServeStart ==
  ASSUME WindowsTyped, AssemblyInv, Serving, bind = "bound", ~assem_active,
         irq = "read", gxfp_espi_rx_start_packet, UNCHANGED <<ecVars, bind, lastid, cmdVars>>
  PROVE  Serving'
<1>1. /\ cmd = "none" /\ lastid \in 0..npkt /\ NewerThan(lastid) /\ line /\ window.off = 0
  BY Zenon DEF Serving
<1>2. /\ UNCHANGED <<out, window, line, npkt, lastid, cmd>> /\ (NewerThan(lastid))'
  BY <1>1, Zenon DEF ecVars, cmdVars, NewerThan
<1>3. PICK total \in gxfp_check_mp_head(window) :
        IF total # 0 /\ total <= RxCap
        THEN LET first == gxfp_espi_rx_chunk_calc(total)
             IN /\ assem_active' = TRUE /\ assem_total' = total /\ assem_copied' = first
                /\ rx_buf' = Units(window, first)
                /\ irq' = IF first >= total THEN "complete" ELSE "more"
        ELSE gxfp_espi_irq_assem_reset /\ rx_buf' = <<>> /\ irq' = "failed"
  BY Zenon DEF gxfp_espi_rx_start_packet
<1>4. total \in {window.total, 0} /\ window.total \in Nat /\ window.off \in Nat
  <2>1. ~(window.off > 0)
    BY <1>1, SMTT(30)
  <2> QED
    BY <2>1, Zenon DEF gxfp_check_mp_head, WindowsTyped, Window
<1>5. CASE total # 0 /\ total <= RxCap
  <2> DEFINE first == gxfp_espi_rx_chunk_calc(total)
  <2>1. /\ assem_active' = TRUE /\ assem_total' = total /\ assem_copied' = first
        /\ rx_buf' = Units(window, first)
        /\ irq' = IF first >= total THEN "complete" ELSE "more"
    BY <1>3, <1>5, Zenon
  <2>2. first = (IF total <= Chunk THEN total ELSE Chunk) /\ first \in Nat
    BY <1>4, SizesAssumption DEF gxfp_espi_rx_chunk_calc
  <2> HIDE DEF first
  <2>3. Len(rx_buf') = first
    BY <2>1, <2>2, UnitsCopied, Zenon DEF WindowsTyped
  <2>4. PartOf(rx_buf', window)
    <3>1. \A i \in 1..first : window.off + i = i
      BY <1>1, <2>2
    <3> QED
      BY <2>1, <2>3, <3>1, Zenon DEF PartOf, Units
  <2>5. total = window.total
    BY <1>4, <1>5
  <2>6. irq' = "complete" => first = window.total /\ Ends(window)
    BY <1>1, <1>4, <2>1, <2>2, <2>5, SizesAssumption DEF Ends
  <2>7. irq' = "more" => window.off + Chunk = first
    BY <1>1, <1>4, <2>1, <2>2, <2>5, SizesAssumption
  <2>8. irq' \in {"more", "complete"}
    BY <2>1
  <2>9. PartOf(rx_buf', window')
    BY <1>2, <2>4
  <2>10. Ends(window) => Ends(window')
    BY <1>2, Zenon
  <2> QED
    BY <1>1, <1>2, <2>1, <2>5, <2>6, <2>7, <2>8, <2>9, <2>10, Zenon DEF Serving
<1>6. CASE ~(total # 0 /\ total <= RxCap)
  <2>1. assem_active' = FALSE /\ irq' = "failed"
    BY <1>3, <1>6, Zenon DEF gxfp_espi_irq_assem_reset
  <2> QED
    BY <1>1, <1>2, <2>1, Zenon DEF Serving
<1> QED
  BY <1>5, <1>6, Zenon

\* It goes on with the window that follows.
LEMMA ServeContinue ==
  ASSUME WindowsTyped, AssemblyInv, Serving, bind = "bound", assem_active,
         irq = "read", Continue, UNCHANGED <<ecVars, bind, lastid, cmdVars>>
  PROVE  Serving'
<1>1. /\ cmd = "none" /\ lastid \in 0..npkt /\ NewerThan(lastid) /\ line
      /\ assem_total = window.total /\ PartOf(rx_buf, window) /\ window.off = assem_copied
  BY Zenon DEF Serving
<1>2. /\ UNCHANGED <<out, window, line, npkt, lastid, cmd>> /\ (NewerThan(lastid))'
  BY <1>1, Zenon DEF ecVars, cmdVars, NewerThan
<1>3. /\ assem_copied \in Nat /\ assem_total \in Nat
      /\ 0 < assem_copied /\ assem_copied < assem_total /\ assem_total <= RxCap
      /\ rx_buf \in Seq(Unit) /\ Len(rx_buf) = assem_copied
  BY DEF AssemblyInv, AssemblyFits
<1> DEFINE remain == IF assem_copied < assem_total THEN assem_total - assem_copied ELSE 0
           chunk == gxfp_espi_rx_chunk_calc(remain)
           copied == assem_copied + chunk
<1>4. remain = assem_total - assem_copied /\ remain \in Nat /\ remain > 0
  BY <1>3
<1> HIDE DEF remain
<1>5. /\ chunk = (IF remain <= Chunk THEN remain ELSE Chunk)
      /\ chunk \in Nat /\ chunk > 0 /\ copied <= RxCap /\ copied \in Nat
  BY <1>3, <1>4, SizesAssumption DEF gxfp_espi_rx_chunk_calc
<1> HIDE DEF chunk
<1>6. ~(assem_total = 0 \/ assem_copied = 0 \/ copied > RxCap)
  BY <1>3, <1>5, SizesAssumption
<1>7. ~(chunk = 0 /\ assem_total # 0 /\ assem_copied \in 1..RxCap)
  BY <1>5
<1>8. /\ assem_copied' = copied
      /\ rx_buf' = rx_buf \o Units(window, chunk)
      /\ irq' = IF copied < assem_total THEN "more" ELSE "complete"
      /\ UNCHANGED <<assem_active, assem_total>>
  BY <1>6, <1>7, Zenon DEF Continue, remain, chunk
<1>9. Units(window, chunk) \in Seq(Unit) /\ Len(Units(window, chunk)) = chunk
  BY <1>5, UnitsCopied, Zenon DEF WindowsTyped
<1>10. PartOf(rx_buf', window)
  <2>1. \A i \in 1..chunk : Units(window, chunk)[i]
                              = [id |-> window.id, total |-> window.total, unit |-> assem_copied + i]
    BY <1>1 DEF Units
  <2>2. \A i \in 1..Len(rx_buf') :
          \/ i \in 1..assem_copied /\ rx_buf'[i] = rx_buf[i]
          \/ /\ i - assem_copied \in 1..chunk /\ assem_copied + (i - assem_copied) = i
             /\ rx_buf'[i] = Units(window, chunk)[i - assem_copied]
    <3>1. \A a, b \in Seq(Unit) : \A i \in 1..Len(a \o b) :
            \/ i \in 1..Len(a) /\ (a \o b)[i] = a[i]
            \/ /\ i - Len(a) \in 1..Len(b) /\ Len(a) + (i - Len(a)) = i
               /\ (a \o b)[i] = b[i - Len(a)]
      OBVIOUS
    <3> DEFINE u == Units(window, chunk)
    <3>2. u \in Seq(Unit) /\ Len(u) = chunk /\ rx_buf' = rx_buf \o u
      BY <1>8, <1>9, Zenon
    <3> HIDE DEF u
    <3>3. \A i \in 1..Len(rx_buf \o u) :
            \/ i \in 1..assem_copied /\ (rx_buf \o u)[i] = rx_buf[i]
            \/ /\ i - assem_copied \in 1..chunk /\ assem_copied + (i - assem_copied) = i
               /\ (rx_buf \o u)[i] = u[i - assem_copied]
      BY <1>3, <3>1, <3>2, Zenon
    <3> QED
      BY <3>2, <3>3, Zenon DEF u
  <2> QED
    BY <1>1, <1>3, <2>1, <2>2, Zenon DEF PartOf
<1>11. irq' = "complete" => copied = window.total /\ Ends(window)
  BY <1>1, <1>3, <1>4, <1>5, <1>8, SizesAssumption, SMTT(30) DEF Ends
<1>12. irq' = "more" => window.off + Chunk = copied
  BY <1>1, <1>3, <1>4, <1>5, <1>8, SizesAssumption, SMTT(30)
<1>13. irq' \in {"more", "complete"}
  BY <1>8
<1>14. PartOf(rx_buf', window') /\ (Ends(window) => Ends(window'))
  BY <1>2, <1>10
<1> HIDE DEF copied
<1> QED
  BY <1>1, <1>2, <1>8, <1>11, <1>12, <1>13, <1>14, Zenon DEF Serving

\* The window is acknowledged; a packet that is complete is handed on.
LEMMA ServeAcknowledge ==
  ASSUME WindowsTyped, InPackets, AssemblyInv, Serving, bind = "bound", IrqAcknowledge
  PROVE  Serving'
<1>1. /\ cmd = "none" /\ lastid \in 0..npkt /\ NewerThan(lastid) /\ line /\ assem_active
      /\ assem_total = window.total /\ PartOf(rx_buf, window)
      /\ irq = "complete" => assem_copied = window.total /\ Ends(window)
      /\ irq = "more" => window.off + Chunk = assem_copied
  BY Zenon DEF Serving, IrqAcknowledge
<1>2. /\ UNCHANGED <<out, window, npkt, bind, rx_buf, lastid, cmd>> /\ line' = FALSE
  BY Zenon DEF IrqAcknowledge, gxfp_gpio_pulse_read_done, cmdVars
<1>3. NewerThan(lastid)'
  BY <1>1, <1>2, Zenon DEF NewerThan
<1>4. CASE irq = "complete"
  <2>1. irq' = "push" /\ assem_active' = FALSE
    BY <1>4, Zenon DEF IrqAcknowledge, gxfp_espi_irq_assem_reset
  <2>2. /\ rx_buf \in Seq(Unit) /\ Len(rx_buf) = window.total /\ window.total > 0 /\ Len(rx_buf) \in Nat
    BY <1>1, <1>4 DEF AssemblyInv, AssemblyFits
  <2>3. 1 \in 1..Len(rx_buf) /\ rx_buf # <<>>
    BY <2>2
  <2>4. rx_buf[1].id = window.id /\ rx_buf[1].total = window.total
    <3>1. rx_buf[1] = [id |-> window.id, total |-> window.total, unit |-> 1]
      BY <1>1, <2>3, Zenon DEF PartOf
    <3> QED
      BY <3>1
  <2>5. Whole(rx_buf)
    BY <1>1, <2>2, <2>3, <2>4, Zenon DEF Whole, PartOf
  <2>6. rx_buf[1].id > lastid /\ rx_buf[1].id \in 0..npkt
    <3>1. stream[1] = window /\ 1 \in 1..Len(stream) /\ window.id \in Nat
      BY StreamWindows, SizesAssumption DEF stream, WindowsTyped, Window
    <3>2. window.id <= npkt /\ npkt \in Nat
      BY <3>1, SizesAssumption DEF InPackets, WindowsTyped
    <3> QED
      BY <1>1, <2>4, <3>1, <3>2 DEF NewerThan
  <2>7. \A i \in 1..Len(out) : out[i].id > rx_buf[1].id
    BY <1>1, <1>4, <2>4, NewerFollows, Zenon
  <2>8. /\ Whole(rx_buf)' /\ rx_buf'[1].id > lastid' /\ rx_buf'[1].id \in 0..npkt' /\ NewerThan(rx_buf[1].id)'
        /\ (Ends(window))'
    BY <1>1, <1>2, <1>4, <2>5, <2>6, <2>7, Zenon DEF NewerThan
  <2> QED
    BY <1>1, <1>2, <1>3, <2>1, <2>8, Zenon DEF Serving
<1>5. CASE irq = "more"
  <2>1. irq' = "idle" /\ UNCHANGED <<assem_active, assem_total, assem_copied>>
    BY <1>5, Zenon DEF IrqAcknowledge
  <2>2. PartOf(rx_buf, window)'
    BY <1>1, <1>2 DEF PartOf
  <2> QED
    BY <1>1, <1>2, <1>3, <1>5, <2>1, <2>2, Zenon DEF Serving
<1> QED
  BY <1>4, <1>5 DEF IrqAcknowledge

\* The controller shows the next window.
LEMMA ServeShow ==
  ASSUME WindowsTyped, InPackets, AssemblyInv, Serving, bind = "bound", Show
  PROVE  Serving'
<1>1. /\ ~line /\ line' = TRUE
      /\ UNCHANGED <<npkt, bind, irq, assem_active, assem_total, assem_copied, rx_buf, lastid, cmd>>
  BY Zenon DEF Show, irqVars, assemVars, cmdVars
<1>2. /\ window' = out[1] /\ Follows(window, window') /\ 1 \in 1..Len(out)
      /\ \A i \in 1..Len(out') : i + 1 \in 1..Len(out) /\ out'[i] = out[i + 1]
  BY WindowShown, Zenon
<1>3. /\ cmd = "none" /\ lastid \in 0..npkt /\ NewerThan(lastid) /\ irq \in {"idle", "push"}
      /\ ~assem_active => Ends(window)
      /\ assem_active => /\ assem_total = window.total /\ PartOf(rx_buf, window)
                         /\ window.off + Chunk = assem_copied
      /\ irq = "push" => /\ Whole(rx_buf) /\ rx_buf[1].id > lastid
                         /\ rx_buf[1].id \in 0..npkt /\ NewerThan(rx_buf[1].id)
  BY <1>1, Zenon DEF Serving
<1>4. \A n : NewerThan(n) => NewerThan(n)'
  BY <1>1, <1>2, Zenon DEF NewerThan
<1>5. /\ Ends(window) => window'.off = 0
      /\ ~Ends(window) => /\ window'.id = window.id /\ window'.total = window.total
                          /\ window'.off = window.off + Chunk
  <2>1. window \in Window /\ window' \in Window
    BY <1>2, SMTT(30) DEF WindowsTyped
  <2> QED
    BY <1>2, <2>1, GoesOn, Zenon
<1>6. CASE ~assem_active
  <2>1. window'.off = 0
    BY <1>3, <1>5, <1>6, Zenon
  <2>2. NewerThan(lastid)' /\ (irq = "push" => NewerThan(rx_buf[1].id)')
    BY <1>1, <1>3, <1>4, Zenon
  <2>3. Whole(rx_buf) => Whole(rx_buf)'
    BY <1>1, Zenon
  <2>4. /\ lastid' \in 0..npkt' /\ cmd' = "none" /\ irq' \in {"idle", "push"} /\ ~assem_active'
        /\ irq' = "push" => /\ Whole(rx_buf)' /\ rx_buf'[1].id > lastid'
                            /\ rx_buf'[1].id \in 0..npkt' /\ NewerThan(rx_buf[1].id)'
    BY <1>1, <1>3, <1>6, <2>2, <2>3, Zenon
  <2> QED
    BY <1>1, <2>1, <2>2, <2>4, Zenon DEF Serving
<1>7. CASE assem_active
  <2>1. irq = "idle" /\ assem_copied < assem_total
    BY <1>3, <1>7, Zenon DEF AssemblyInv, AssemblyFits
  <2>2. /\ window'.id = window.id /\ window'.total = window.total
        /\ window'.off = window.off + Chunk
    <3>1. ~(assem_total <= assem_copied)
      BY <2>1, SMTT(30) DEF AssemblyInv
    <3>2. ~Ends(window)
      BY <1>3, <1>7, <3>1, Zenon DEF Ends
    <3> QED
      BY <1>5, <3>2
  <2>3. PartOf(rx_buf, window)'
    BY <1>1, <1>3, <1>7, <2>2, Zenon DEF PartOf
  <2> QED
    BY <1>1, <1>3, <1>4, <1>7, <2>1, <2>2, <2>3, Zenon DEF Serving
<1> QED
  BY <1>6, <1>7, Zenon

\* A packet that the controller will show is newer than all others.
LEMMA ServeLater ==
  ASSUME WindowsTyped, InPackets, AssemblyInv, Serving, bind = "bound",
         NEW ws, NewPacket(ws), ShowLater(ws)
  PROVE  Serving'
<1>1. UNCHANGED <<window, line, bind, irq, assem_active, assem_total, assem_copied, rx_buf, lastid, cmd>>
  BY Zenon DEF ShowLater, irqVars, assemVars, cmdVars
<1>2. /\ stream \in Seq(Window) /\ Len(stream) = Len(out) + 1 /\ Len(out) \in Nat
      /\ stream[1] = window /\ window.id \in Nat /\ npkt \in Nat
  BY StreamWindows, SizesAssumption DEF stream, WindowsTyped, Window
<1>3. window.id <= npkt
  BY <1>2, SMTT(30) DEF InPackets
<1>4. /\ \A j \in 1..Len(ws) : ws[j].id = npkt + 1
      /\ \A i \in 1..Len(out') : \/ i \in 1..Len(out) /\ out'[i] = out[i]
                                 \/ \E j \in 1..Len(ws) : out'[i] = ws[j]
  BY PacketJoins, Zenon DEF NewPacket
<1>5. ASSUME NEW n \in Nat, n <= npkt, NewerThan(n)
      PROVE  NewerThan(n)'
  <2>1. npkt + 1 > n
    BY <1>2, <1>5
  <2> QED
    BY <1>1, <1>4, <1>5, <2>1 DEF NewerThan
<1>6. /\ lastid \in Nat /\ lastid <= npkt /\ NewerThan(lastid)
      /\ irq = "push" => /\ rx_buf[1].id \in Nat /\ rx_buf[1].id <= npkt
                         /\ NewerThan(rx_buf[1].id)
  BY <1>2 DEF Serving
<1>7. /\ lastid' \in 0..npkt' /\ NewerThan(lastid)'
      /\ irq' = "push" => rx_buf'[1].id \in 0..npkt' /\ NewerThan(rx_buf[1].id)'
  <2>1. npkt' = npkt + 1
    BY Zenon DEF ShowLater
  <2>2. \A n \in Nat : n <= npkt => n \in 0..npkt'
    BY <1>2, <2>1, SMTT(30)
  <2>3. NewerThan(lastid)' /\ (irq = "push" => NewerThan(rx_buf[1].id)')
    BY <1>1, <1>5, <1>6, Zenon DEF NewerThan
  <2> QED
    BY <1>1, <1>6, <2>2, <2>3, Zenon
<1>8. /\ PartOf(rx_buf, window) => PartOf(rx_buf, window)'
      /\ Ends(window) => Ends(window)'
      /\ Whole(rx_buf) => Whole(rx_buf)'
  BY <1>1, Zenon DEF PartOf, Ends, Whole
<1> QED
  BY <1>1, <1>7, <1>8, Zenon DEF Serving

\* The packet has reached the receive queue.
LEMMA ServePush ==
  ASSUME AssemblyInv, Serving, bind = "bound", IrqPush
  PROVE  Serving'
<1>1. /\ UNCHANGED <<out, window, line, npkt, bind, assem_active, cmd>>
      /\ irq' = "idle" /\ lastid' = rx_buf[1].id /\ irq = "push"
  BY Zenon DEF IrqPush, ecVars, cmdVars
<1>2. ~assem_active
  BY <1>1, Zenon DEF AssemblyInv
<1>3. NewerThan(lastid)'
  BY <1>1, Zenon DEF Serving, NewerThan
<1>4. IF line' THEN window'.off = 0 ELSE Ends(window')
  BY <1>1, <1>2, Zenon DEF Serving
<1> QED
  BY <1>1, <1>2, <1>3, <1>4, Zenon DEF Serving

\* While the driver is bound, whole packets stay in order.
LEMMA StepServing ==
  ASSUME IInv, PacketInv, [Next]_vars
  PROVE  Serving'
<1> SUFFICES ASSUME bind' = "bound" PROVE Serving'
  BY DEF Serving
<1>1. WindowsTyped /\ AssemblyInv /\ InPackets /\ Starting /\ Serving
  BY DEF IInv, PacketInv
<1>2. CASE gxfp_probe
  BY <1>1, <1>2, ProbeServes, Zenon
<1>3. CASE Answer \/ Report \/ Garble
  <2>1. \E ws : ShowLater(ws)
    BY <1>3, Zenon DEF Answer, Report, Garble
  <2>2. bind = "bound" /\ npkt' = npkt + 1
    BY <2>1, Zenon DEF ShowLater
  <2>3. npkt' # npkt
    BY <1>1, <2>2, SizesAssumption DEF WindowsTyped
  <2>4. ~Show
    BY <2>3, Zenon DEF Show
  <2>5. PICK ws : NewPacket(ws) /\ ShowLater(ws)
    BY <1>1, <2>3, <2>4, MailboxStep, Zenon
  <2> QED
    BY <1>1, <2>2, <2>5, ServeLater, Zenon
<1>4. CASE Show
  BY <1>1, <1>4, ServeShow DEF Show
<1>5. CASE gxfp_espi_irq_read_step
  <2>1. bind = "bound" /\ irq = "read" /\ UNCHANGED <<ecVars, bind, lastid, cmdVars>>
    BY <1>5, Zenon DEF gxfp_espi_irq_read_step
  <2>2. CASE assem_active
    BY <1>1, <1>5, <2>1, <2>2, ServeContinue, Zenon DEF gxfp_espi_irq_read_step
  <2>3. CASE ~assem_active
    BY <1>1, <1>5, <2>1, <2>3, ServeStart, Zenon DEF gxfp_espi_irq_read_step
  <2> QED
    BY <2>2, <2>3, Zenon
<1>6. CASE IrqAcknowledge
  BY <1>1, <1>6, ServeAcknowledge, Zenon DEF IrqAcknowledge
<1>7. CASE IrqPush
  BY <1>1, <1>7, ServePush, Zenon DEF IrqPush
<1>8. CASE IrqLock \/ IrqClear
  <2>1. /\ UNCHANGED <<out, window, line, npkt, bind, assem_active, assem_total, assem_copied,
                       rx_buf, lastid, cmd>>
        /\ \/ irq = "idle" /\ irq' = "read" /\ line
           \/ irq \in {"failed", "drained"} /\ irq' = IF irq = "drained" THEN "push" ELSE "idle"
    BY <1>8, Zenon DEF IrqLock, IrqClear, ecVars, assemVars, cmdVars
  <2>2. bind = "bound" /\ irq # "drained"
    BY <1>1, <2>1, Zenon DEF Serving
  <2>3. irq = "failed" => ~assem_active
    BY <1>1, Zenon DEF AssemblyInv
  <2>4. /\ PartOf(rx_buf, window) => PartOf(rx_buf, window)'
        /\ Ends(window) => Ends(window)'
        /\ NewerThan(lastid) => NewerThan(lastid)'
    BY <2>1, Zenon DEF PartOf, Ends, NewerThan
  <2> QED
    BY <1>1, <2>1, <2>2, <2>3, <2>4, Zenon DEF Serving
<1>9. CASE UNCHANGED <<out, window, line, npkt, bind, irqVars, cmdVars>>
  <2>1. UNCHANGED <<out, window, line, npkt, bind, irq, assem_active, assem_total, assem_copied,
                    rx_buf, lastid, cmd>>
    BY <1>9, Zenon DEF irqVars, assemVars, cmdVars
  <2>2. /\ PartOf(rx_buf, window) => PartOf(rx_buf, window)'
        /\ Ends(window) => Ends(window)'
        /\ Whole(rx_buf) => Whole(rx_buf)'
        /\ \A n : NewerThan(n) => NewerThan(n)'
    BY <2>1, Zenon DEF PartOf, Ends, NewerThan, Whole
  <2>3. bind = "bound"
    BY <2>1, Zenon
  <2> QED
    BY <1>1, <2>1, <2>2, <2>3, Zenon DEF Serving
<1>10. CASE Unanswered \/ gxfp_uapi_write \/ UNCHANGED vars
  BY <1>9, <1>10, Zenon DEF Unanswered, gxfp_uapi_write, vars, ecVars
<1>11. CASE gxfp_espi_write \/ gxfp_xfer
  <2>1. bind = "bound" /\ cmd # "none"
    BY <1>11, Zenon DEF gxfp_espi_write, gxfp_xfer
  <2> QED
    BY <1>1, <2>1, Zenon DEF Serving
<1>12. ~(\/ StartupRecover \/ StartupEnd \/ ShutdownEnd \/ disable_irq
         \/ gxfp_platform_remove \/ gxfp_startup_sequence \/ gxfp_shutdown_sequence)
  BY DEF StartupRecover, StartupEnd, ShutdownEnd, disable_irq, gxfp_platform_remove,
     gxfp_startup_sequence, gxfp_shutdown_sequence
<1> QED
  BY <1>2, <1>3, <1>4, <1>5, <1>6, <1>7, <1>8, <1>10, <1>11, <1>12, Zenon
  DEF Next, Controller, IrqStep, Command

\* For every size of window, buffer and packet, until gxfp_remove() is called
\* each record that reaches the receive queue is one whole packet, newer than
\* the one before: dropping gdev->lock between windows lets nobody take one.
THEOREM RecordsArePackets == Spec => []PacketsWhole
<1>1. Init => PacketInv
  <2> SUFFICES ASSUME Init PROVE PacketInv
    OBVIOUS
  <2>1. stream = <<NoWindow>> /\ out = <<>> /\ npkt = 0 /\ ~line
    BY SMTT(30) DEF Init, stream
  <2>2. Len(stream) = 1 /\ stream[1] = NoWindow /\ Ends(NoWindow) /\ NoWindow.id = 0 /\ NoWindow.off = 0
    BY <2>1, SizesAssumption DEF Ends, NoWindow
  <2>3. InPackets
    BY <2>1, <2>2 DEF InPackets, Linked
  <2>4. Starting
    BY <2>2 DEF Init, Starting
  <2>5. Serving
    BY Zenon DEF Init, Serving
  <2> QED
    BY <2>3, <2>4, <2>5, Zenon DEF PacketInv
<1>2. IInv /\ [Next]_vars => IInv'
  BY StepWindows, StepAssembly DEF IInv
<1>3. IInv /\ PacketInv /\ [Next]_vars => PacketInv'
  BY StepPackets, StepStarting, StepServing, Zenon DEF IInv, PacketInv
<1>4. PacketInv => PacketsWhole
  BY DEF PacketInv, Serving, PacketsWhole
<1> QED
  BY InitInv, <1>1, <1>2, <1>3, <1>4, PTL DEF Spec
=============================================================================
