# Verification of the GXFP5130 driver stack

TLA+ models, TLC configurations and TLAPS proofs for the Linux driver stack of
the Goodix GXFP5130 fingerprint sensor: the kernel module under `kernel/`, the
user-space library under `userspace/`, the libfprint driver with the layers it
plugs into under `libfprint/libfprint/`, and the script that provisions the key.

`PROJECT.json` lists the components, the runs, the map from definitions to
source lines, the hazards the properties answer to, the findings and the
theorems. Paths below are relative to `src/`.

## 1. The system

```
 user of libfprint          open, enrol, verify, identify, capture, cancel, close
      |
 fp-device.c, fpi-device.c  actions, cancellation, returning results from idle
 fpi-image-device.c         image-device state machine, minutiae scan
 drivers/gxfp.c             pump timer, dispatch of session events
      |
 flow/session.c             session modes: TLS, wait-up, dark frame, capture
 flow/fdt.c                 finger detection: arm, re-arm, retry
 tls/tls_service.c          TLS handshake, image request, image sink
 cmd/*.c, io/dev.c          commands over read, write, poll, ioctl of /dev/gxfp
- - - - - - - - - - - - - - - - - - - - - - - - - - - - - - - - - - - - - - -
 driver/gxfp_uapi_*.c       /dev/gxfp, receive queue
 driver/gxfp_irq.c          interrupt thread
 transport/*.c, cmd/*.c     eSPI mailbox, kernel commands
      |
 embedded controller and sensor firmware (not in the repository)
```

| Part | State | Operations that change it | What makes it hard |
|---|---|---|---|
| Receive queue (`gxfp_uapi_fifo.c`, `_ctrl.c`, `_misc.c`) | kfifo, `rxq_inited`, `rxq_reader_open`, mutex, spinlock, wait queue | push, read, poll, flush, open, release, register, unregister | a read uses the queue in three holds of the spinlock; teardown races sleepers |
| Binding (`gxfp_main.c`, `gxfp_platform.c`) | interrupt enabled, device registered | probe, remove | teardown order |
| eSPI transport, kernel commands | chunk assembly, mailbox window | interrupt step, synchronous exchange | assembly spans interrupts |
| Finger detection (`fdt.c`) | mode, last state, retry count and time | set mode, feed record, poll | stale reports, bounded retries |
| TLS service (`tls_service.c`, `plain.c`) | state, pending capture, sink, engine input | init, feed, request, step, take image | images of superseded requests, timeouts |
| Session (`session.c`) | mode, dark frame, pending image, event record | open, close, activate, deactivate, pump, read records, change state | events of one call re-enter the session |
| libfprint driver and image device | image-device state, active, finger present, scan, error, timer | about twenty callbacks | nested callbacks, threaded scan, idle sources |
| libfprint device (`fp-device.c`, `fpi-device.c`) | current action, cancellable, idle sources, critical section, suspend task, temperature | start, cancel, complete, return, suspend, resume, remove | everything may happen while a result is being returned |
| libfprint context (`fp-context.c`) | list of devices, handlers and sources per device | probe, list, remove, finalize | a removal waits for the user's close |
| Kernel trace ring (`gxfp_trace.c`) | ring of lines, head, count, sequence number | log, clear, enable, init, exit | flags tested without the lock; an initialisation that does not take it; index arithmetic |
| Framing, sensor configuration, image decoding | none: pure functions | | size limits of nested frames |
| User-space command loop (`goodix_xfer.c`) | none between calls | request, wait, retry | late answers to an earlier attempt |
| PSK provisioning (`provision-psk.sh`, `psk_tool`) | key on the sensor, key on disk | upload, install | interruption between the two |

## 2. Modules

| Module | Models |
|---|---|
| `GxfpFrame` | the frames of `kernel/proto/` and of a mailbox transfer, as functions on bytes |
| `GxfpFrame_proofs` | theorems about them |
| `GxfpRxq` | the receive queue with its threads, interrupt thread, binding and unbinding |
| `GxfpRxq_proofs` | its inductive invariant and theorems |
| `GxfpEspi` | the eSPI transport, the interrupt thread, the kernel commands, startup and shutdown |
| `GxfpEspi_proofs` | the theorems about its types and its packet assembly |
| `GxfpTrace`, `LastLines` | the trace ring, and what it promises a reader |
| `GxfpTrace_proofs` | that the ring implements `LastLines` |
| `GxfpSensor` | the firmware and the queue as the session sees them (external) |
| `GxfpFdt` | `flow/fdt.c` |
| `GxfpTls` | `tls/tls_service.c` and the image sink of `algo/image/plain.c` |
| `GxfpSession` | `flow/session.c`, extending the two above |
| `GxfpDevice` | `drivers/gxfp.c`, the image device, the actions of an `FpDevice`; the composition of the whole user-space stack |
| `GxfpDevice_proofs` | its inductive invariant, which describes the call stack, and theorems |
| `FpTemperature` | the temperature model of `fpi-device.c` |
| `FpDevice` | a libfprint device under any driver: actions, cancellation, critical sections, suspend, removal; extends `FpTemperature` |
| `FpContext` | a libfprint context with one USB device; extends `FpDevice` |
| `FpDevice_proofs`, `FpContext_proofs` | their invariants, and that the second implements the first |
| `GxfpXfer` | the requests of user-space programs (`cmd/goodix_xfer.c` and the commands over it), the sensor and the queue they talk to |
| `GxfpProvision` | `scripts/provision-psk.sh` over `GxfpXfer` |
| `GxfpProvision_proofs` | theorems about answers, types and the two keys |
| `MCGxfpRxq`, `MCGxfpEspi`, `MCGxfpTrace`, `MCGxfpDevice` | instances for TLC |

A definition that appears in a mutant (for instance `FlushNoLock`) stands right
before the definition it perturbs and is used by nothing else.

### GxfpRxq

A step is what the code does under one hold of the spinlock `rxq_lock`, or
between two holds. `rxq_mutex` is a variable, so blocking on it is a disabled
action. A user thread's position is `pc[t]`:

| `pc` | Code |
|---|---|
| `r_lock` | `mutex_lock_interruptible` in `gxfp_uapi_read` |
| `r_check` | head of the loop of `gxfp_uapi_wait_nonempty` |
| `r_prep`, `r_cond`, `r_sleep` | `wait_event_interruptible`: queue up, test, sleep |
| `r_peek`, `r_pop`, `r_copy` | `gxfp_uapi_peek_need`, `gxfp_uapi_pop_record`, `copy_to_user` |
| `f_lock`, `f_do` | `GXFP_IOCTL_FLUSH_RXQ` |
| `p_check`, `p_sleep` | `gxfp_uapi_poll` and the caller's sleep |

The kfifo is a sequence of cells, one for a record's header and one for each
unit of its payload, so a split record is visible. A packet carries its serial
number; `delivered` is a history variable. Teardown is one action for each of
`disable_irq`, `synchronize_irq`, `misc_deregister`, the mutex, the clearing
under the spinlock, and the wake-up with the free. A driver that is unbound is
not bound again. `write(2)` does not touch the queue; it is in `GxfpEspi`.

### GxfpEspi

The mailbox shows one window at a time. `line` is the level interrupt, which a
read-done pulse lowers; `lock` is `gdev->lock`. A packet is a serial number and a
length in units; a window is a part of it, and `rx_buf` holds units, so a record
put together from two packets is visible. The interrupt thread takes the lock,
copies (`gxfp_espi_irq_read_step`), acknowledges and unlocks (`IrqAcknowledge`,
or `IrqClear` after an error), and pushes.

`jobs` is the sequence of commands that probe or remove still has to send: how
often each is called, and how many tries an exchange has. A command is a write
and a synchronous read of whatever the window holds; the lock is kept from the
first command to the last. An unvalidated length field of a window that does not
start a packet is any length.

Controller assumptions: it is idle when the driver is bound; it shows the windows
of a packet in order, the next one after a pulse; a window stays readable after
its pulse; packets longer than a window are sent only once the interrupt is
enabled (images need a TLS session, which needs a bound driver). It may ignore
any request. `Noise` adds windows with a bad head, and lets the middle of a
packet pass for a head.

### GxfpTrace

`gxfp_trace_logf` is three steps: the unlocked test of the flags, the spinlock, and
the push with the unlock; timestamps and texts are left out, sequence numbers wrap
around. The driver may be bound again with a logger still between its steps.
`gxfp_trace_init` is four: `memset` over the lock and the flags, which come first in
the structure, `memset` over the ring, `spin_lock_init` with the debugfs files, and
the flag `inited`. None of them takes the lock, so they can meet a logger between
`spin_lock` and `spin_unlock` (`inside`), and a lock that was cleared lets a second
one in. Such loggers are `raced`: each of their loads is from before or after the
other stores, and each of their stores may be lost. The waiters queued in a
contended spinlock are not modelled; a `memset` would lose them too.

`LastLines` is the abstract specification: the last lines since a clear, unless the
trace is spoilt. The refinement mapping is the snapshot that `gxfp_trace_dump_show`
takes, and the history variable `torn`: the ring or its lock was initialised under a
logger, and not cleared or initialised with no logger inside since.

### The user-space stack

The user-space program is one main-loop thread. `calls` is its call stack: a
step runs the first call as far as the next call it makes and replaces it by
what is still to be called. That keeps the nesting of the code, where an event
handler changes the image device's state, which signals the driver, which
changes the session's state, whose events are handled before the outer handler
goes on. The sensor and the clock move between any two steps. `ev` is the
session's event record; `handle_session_events` turns it into calls in the
order of the code. A failed `g_assert` leaves the call `abort` on the stack.

Abstractions:

- A record from the sensor is one of six labels. `IMG` and `OLDIMG` are the
  same to the program; the label tells the properties which request an image
  was scanned for.
- Time is two flags, `overdue` (the finger-up retry period has passed) and
  `late` (the TLS timeout has passed), cleared where the code restarts its clock.
- Commands may fail wherever the code tests their result. A failed recovery
  leaves the sensor as it was.
- The bootstrap inside `gxfp_session_open` (chip id, OTP, configuration) is one
  step that succeeds or fails. The cap of 64 steps in `session_poll_tls` is left
  out: the loop ends when the engine's input is empty.
- The scan thread's outcome is nondeterministic.
- A file error other than "no data" in the driver's poll is left out, as are
  suspend, device removal and storage commands of libfprint, which are in
  `FpDevice`.

Sensor assumptions (module `GxfpSensor`, from how the code and its comments use
it): an armed detection answers at most once; an armed finger-up may be missed,
or answered in the encoding `REVERSE` (comment in `fdt.c:301`); `TLS_SERVER_INIT`
ends what the sensor was serving; an image is sent only for a request, and only
over an established TLS session.

The main loop dispatches by priority. The idle source that returns a result has
the default priority and is ready at once, so it runs before a timer or a scan
completion that becomes ready after it: `Ready` is that argument. A user's call,
and the cancellation's idle source, are not ordered by it.

### FpDevice and FpContext

A step is a call of the user, one dispatched source, or one callback of the
driver. `task` is `current_task` with its cancellable and idle sources, `crit` the
driver's critical section with the requests queued in it, `pm` the suspend or
resume that waits. The user's callback for a finished action runs inside the idle
source that returns it, and may call the library again before the handlers of
`notify::completed` run; `unwinding` is that interval, `notify` the handlers that
are left. The driver (`drv`) is any driver that keeps the contract of
`fpi-device.h`; whether its class implements suspend, and whether it has a
temperature model (`temp_hot_seconds` is not negative), is chosen at the start. Its
class has a cancel function; for the few drivers that have none the library queues
no cancellation (`fp-device.c:143`), and `CancelHeard` and `SuspendEnds` say nothing.
`outcome` is what the library hands to the task; GTask shows the user
`G_IO_ERROR_CANCELLED` instead when it was the user who cancelled. `caught` is a
history variable: suspend was called while the current task ran.

Where an assertion of the library or of a driver fails the model stops with
`aborted`. Two such places can be reached: a driver is asked to suspend a match it
has already finished (`drivers/synaptics/synaptics.c:1448`, `1449`), and a
resume finds a short action running (`fpi-device.c:1683`, `1683`), which
`fp_device_clear_storage` can start on a suspended device. The liveness properties end there too. A suspend that
waits for a short action returns without ever setting `is_suspended`, as in the
code.

In `FpContext` an action is a step of the device together with what the context's
callbacks do in it (`device_removed_cb`, `device_remove_on_notify_open_cb`), since
the code runs them inside it. The context owns one device, which it has just
found a driver for.

### GxfpXfer and GxfpProvision

A program is the sequence `todo` of its requests. A request is sent, then records
are read until one has the expected command byte; when the deadline passes it is
sent again, up to its number of tries. `wire` holds commands the sensor has not
executed, `rxq` the kernel's queue. `own` marks what belongs to the request that
is waited for; the program cannot see it. `Start` includes the flush every program
begins with. `Killed` ends a program at any step and leaves what it has sent.

`GxfpProvision` adds the file on disk, the key of the sensor and the position of
the script: a key is generated, uploaded, and only then installed, which is two
steps, so that an interruption can leave a torn file. The trap of the script removes
its working directory and does not exit; the next command then fails for want of its
file, and `set -e` ends the script, which is what `Interrupted` does.

Sensor assumptions: it executes commands in order, answers each with an
acknowledgement and, where the code waits for one, a reply behind it; an answer is
lost as a whole, or loses its reply to a full queue. It may refuse a command.

### GxfpFrame

A build function returns its bytes, or the empty sequence for an error; a parse
function returns the set of what it parsed. Sizes and constants are the code's.
`GxfpEspi` abstracts these frames to units and heads; the two modules share no
state, and the theorems of section 5 are what links them.

## 3. Runs that pass

| Run | Instance | Distinct states | Properties |
|---|---|---|---|
| `rxq` | 2 threads, 2 files, blocking and non-blocking readers, 2 cells, 2 packets of 0 or 1 cells, read buffers of 1 and 2 cells | 86 447 | `TypeOK`, `WellFramed`, `ReadsOneRecord`, `InOrder`, `NoUseAfterFree`, `NoLostWakeup`, `SleepingReaderPinsQueue`, `UnbindCompletes`, `SleeperServed` |
| `espi` | windows of 2 units, packets of 1, 3 and 5, buffers of 6 and 3, 2 tries and 2 calls, 3 packets, noise | 125 167 | `TypeOK`, `AssemblyFits`, `PacketsWhole`, `GoodChunksAcknowledged`, `StartupEnds` |
| `trace_ring` | 2 loggers, 2 lines, 5 sequence numbers | 558 096 | `DumpShowsLastLines` |
| `dev_safety` | enrol (2 stages), identify, capture; 2 queued records; 1 retry | 1 054 808 | `TypeOK`, `ImageFresh`, `WaitingHasTimer`, `NotCompletedTwice`, `ReturnsQuiet` |
| `dev_live` | verify | 295 806 | `NoAbort`, `StatesAgree`, `CancelCompletes`, `CaptureEnds`, `WaitOffRetried` |
| `fp_context` | verify and capture, probe, open, close, clear storage; critical sections nested twice | 149 962 | `QueuedIsFlushed`, `Overheating`, `SuspendedActionAgreed`, `SuspendTellsBusy`, `RemovedClosed`, `FinalizedUntouched`, `CancelOnlyBusy`, `CancelHeard`, `SuspendEnds`, `ClosedLeavesList` |
| `provision` | 3 keys, 2 tries, 3 queued records, 2 commands under way, 2 faults | 1 561 864 | `TypeOK`, `AnswerIsOwn`, `InstalledMatches`, `PairKept`, `ProgramReturns` |

What they show:

- **The queue.** In every interleaving of readers, pollers, flushes, pushes and
  an unbinding, the kfifo holds whole records, a read returns exactly the record
  whose length it peeked, delivery is in order and never repeated, no sleeper
  misses its wake-up, and the storage is not used after it is freed. A blocking
  reader that sleeps holds `rxq_mutex`, so unbinding waits for it
  (`SleepingReaderPinsQueue`); `UnbindCompletes` says this is the only thing that
  can hold it up.
- **The mailbox.** The assembly never leaves its packet or its buffer, so the
  defensive branches of `gxfp_espi_irq_read_step` are not taken; until removal
  starts the queue gets whole packets in order; windows with good heads are always
  acknowledged; startup ends even when the sensor never answers.
- **The trace.** A dump is the last lines since the last clear, none missing, also
  with loggers that passed the test of the flags long ago. The exception is real: when
  `gxfp_trace_init` runs under a logger that holds the lock, the ring may count a line
  that was never stored, and stays so until the next clear. With `spoilt` mapped to
  `FALSE` TLC finds a dump that is wrong, after thirteen states.
- **The stack.** An image that is handed on belongs to the current request even
  when an earlier one was cancelled; a session that waits has a pump scheduled;
  an action completes once and only when the device is inactive and no scan runs.
  For verify no assertion fails, and image device and session agree about what they
  wait for.
- **Progress.** A cancelled verify ends; a capture ends even when the sensor
  never answers; the wait for a finger to lift after an image is retried or given up.

- **The device.** Whatever the order of cancellation, critical sections, suspend,
  overheating and removal, a queued request is delivered, the driver is told to
  cancel only what it works on, the action that a suspend found has returned when the
  suspend has, or its driver agreed to carry it over, a device marked suspended runs
  no other interactive action, and a removal is announced once, after the close. Cancellation, suspend and
  the removal of a closed device reach their end.
- **Requests.** Every program returns. As long as no attempt was given up since the
  flush and nothing else was under way, it accepts only its own answers
  (`AnswerIsOwn`); after a timeout the code cannot tell a late answer from a new one.
- **The key.** When the script reports success, the sensor holds the installed key,
  unless a write of an interrupted run was still under way at the upload (`rival`):
  the flush does not reach it, and its answer can be taken for the new one. Without
  `--replace` a pair that agrees is never touched.

### Bounds

*Queue.* Two threads give reader against flusher, reader against poller, and two
readers sharing a descriptor; two files exercise the single-reader rule. Two cells
hold one long record or two short ones, so drops and partial room occur. Buffer
size 1 is too small for a long record (`-EMSGSIZE`), 2 is enough. The theorems
remove these bounds for all safety properties; they matter for the two
liveness properties only.

*Mailbox.* Packets of one, two and three windows, with a last window that is not
full; the synchronous buffer holds one window but not two, as in the code (0x1000
against 0xe00). Two tries and two calls reach both the repeated and the last one
(8, 3 and 6 in the code). Three packets give an answer to startup, a packet in
assembly and one behind it.

*Trace.* A ring of two lines fills, wraps and is cleared at every position; five
sequence numbers let the number wrap while the ring is full, out of step with it.
Two loggers are what a torn lock needs; they are interchangeable, so the run uses
symmetry. The theorem removes these bounds.

*Stack.* Two queued records let a stale report stand before a fresh one. With
one retry both the re-arming and the exhausted budget are reached (the code's
budget is `FDT_WAIT_UP_MAX_RETRIES`). Two enrol stages give a stage that is not
the last and one that is. The engine's input is bounded by the queue and by the
images requested. A full queue blocks the sensor in the model where the kernel
would drop the record; a dropped finger-up is the missed one, a dropped image is
the one that is never sent. The theorems about the safety properties hold for any
of these bounds.

*Device.* One action of each kind the code distinguishes: a match, which a driver
may carry over a suspend, an interactive action that is none, the actions that open
and close, and one that is neither. Nesting of two tells leaving a critical section
from leaving the last. The theorems hold for any of these sets.

*Requests.* Two tries tell a repeated attempt from the last one; the code makes up
to 8. Three records hold an answer of two frames behind a finger report, of which
one is queued at a time. Two commands under way are an attempt given up and its
repetition; two faults let an answer be lost twice, or a loss meet an interruption.
Three keys let the script run again after a `--replace` that was interrupted between
the upload and the installation. The programs other than the key tool run only before
the first key is provisioned (`RunsFirst`); the theorems hold without that, too.

The rxq, espi, fp_context and provision runs set `CHECK_DEADLOCK FALSE`: the system may stop once the
driver is unbound and all threads have returned, when the context is finalized or an
assertion has failed, when the faults are used up and no program is running. The
stack never stops, because the finger keeps moving.

### Fairness

*Queue.* Kernel threads keep running (weak fairness of their steps), and a mutex
is handed to its waiters in turn (strong fairness of the three acquisitions).
Nothing is assumed of users, packets, signals, the timeout of `poll(2)`, or that
anyone unbinds: a sleeper is served by its wake-up alone.

*Mailbox.* The controller shows what it has to show, the interrupt thread and the
probing or removing thread run (weak), and the mutex reaches a waiting thread
(strong, for the interrupt thread and for startup). No answer is assumed.

*Stack.* The program runs its calls and the clock moves (weak). Each main-loop
callback is strongly fair, because other callbacks disable it only while they run
and GLib dispatches every ready source of a priority. `SF(Drained)` says that
the sensor, which takes milliseconds for an answer, does not keep the read loop
full for ever. Nothing is assumed of the user, of the finger, or of the sensor
ever answering.

*Device.* Idle sources and handlers run. A driver leaves its critical sections,
answers suspend and resume, and completes a short action, an action it was told to
cancel, and an action of a removed device (`Obliged`): the contract of
`fpi-device.h`. These are strongly fair where the user's calls can disable them in
between. An interactive action that nobody cancels need not end.

*Requests.* The program sends, and its deadline passes (weak). Nothing is assumed
of the sensor.

## 4. Runs that fail, and what they found

Each of these runs checks one statement made by the repository, which the code
does not keep.

| Run | Statement | What happens |
|---|---|---|
| `dev_waitup` | README: a missed finger-up is retried automatically | the retry is skipped while `flow->state` is UP, and a report left from an earlier arming leaves it so; the activation then waits for ever |
| `dev_cancel` | `fp-image-device.c:87`: cancelling a capture operation deactivates and returns | a session error during the scan of an enrol stage that is not the last leaves the enrolment current on an inactive device, with nothing to cancel |
| `espi_noise` | `kernel/docs/gxfp5130.rst:25`: read-done is pulsed after each chunk | a window with a bad head is read without a pulse; the level interrupt fires for it for ever |
| `espi_remove` | `kernel/docs/gxfp5130.rst:44`: `read(2)` returns one response record at a time | a shutdown command takes a window out of a packet in assembly, and the record queued mixes two packets |
| `fp_close` | `fp-device.c:521`: a removed device can be closed at once, from the handler of the signal | a device unplugged while it is suspended refuses the close, and being removed it refuses to resume; its context never drops it |

The enrolment of `dev_cancel` goes on with the device inactive: the next stage is
awaited and scanned, and an error of that scan completes the enrolment while the
finger is still marked present, so that the next action fails the assertion of
`fp-image-device.c:132`.  `dev_safety` therefore leaves `NoAbort` and
`StatesAgree` to `dev_live`, which has no enrolment. They are checked for verify
only; the theorems of section 5 add identify and capture.

Two more disagreements were met that no run is spent on. `fp-device.c:1002` says that
any operation started while the device is suspended fails with `BUSY`.

- A suspend that finds a short action waits for it and then returns success
  (`fpi-device.c:1586`, `1637`) without setting `is_suspended`: a verify can be started
  after it, and the resume that should follow is refused. `SuspendedActionAgreed` is
  stated so as not to claim the contrary.
- `fp_device_clear_storage` does not test `is_suspended`; the resume then fails the
  assertion of `fpi-device.c:1683`, where the model stops.

## 5. Proofs

Eight modules hold theorems. `theorems` in `PROJECT.json` names the results; each
that has a `property` is the statement a run checks, proved for all constants that
satisfy the named assumption of its module. The inductive invariants were checked
with TLC, on the instances of the runs, before they were proved. Four properties are
proved for all constants and not repeated in a run: `SingleReader` of the queue,
`ReportedSuccess` and `RemovalKept` of the device, `CtxTypeOK` of the context.

### The receive queue

`GxfpRxq_proofs` proves each safety invariant of `rxq`, and `SingleReader`, for any
sets of threads, files and lengths, any capacity and any number of packets.

*Assumptions.* Only `ConstAssumption` of `GxfpRxq`: the names of the remover and
of "nobody" are not threads or files, open modes are the three of the code,
sizes are natural numbers. TLC evaluates it in the run.

*Inductive invariant.* `IInv == TypeOK /\ Control /\ Framing /\ Ordered`.

- `Ownership` (in `Control`): a thread holds the mutex exactly at the steps in
  `Holding`, the remover exactly in `locked` and `cleared`; `rxq_inited`, the
  storage and the registration follow the remover's progress; an interrupt in
  flight means the interrupt has not been synchronised. Without it nothing links
  the reader's steps to the remover's, and `NoUseAfterFree` is not inductive.
- `Queued` (in `Control`): whoever is past `r_prep` or `poll_wait` is on the wait
  queue, so a wake-up reaches it. `NoLostWakeup` needs it.
- `Readers` (in `Control`): an open reader has the flag set while the queue lives.
- `Framing`: between peek and pop the head of the kfifo is still the peeked
  record, because only holders of the mutex remove cells and a push only appends.
- `Ordered`: the record in a reader's hands is newer than all delivered and older
  than all queued; a packet in flight is newer than everything.

*Argument.* `FramedConcat` and `FramedPop` say that appending a record's cells
and removing the head record keep a sequence framed. `TypeStep`, `ControlStep`,
`FramingStep` and `OrderedStep` are the four parts of the induction step;
`RecordMoves` reduces the last two to the few actions that move records.
`Invariance` combines them, and each theorem follows by expanding one conjunct.

### The mailbox

`GxfpEspi_proofs` proves `AssemblyFits` and `PacketsWhole` for any sizes that
satisfy `SizesAssumption` (a window fits both buffers, a packet fits the receive
buffer) and any number of packets.

`AssemblyFits` is not inductive alone: `WindowsTyped` says that what the
controller shows has a length, and `AssemblyInv` adds that a packet handed on or
given up is no longer active, without which the push would leave an active
assembly with an empty buffer. `ChunkBounded` is the reason it holds: a chunk is
at most what is left. `StartFits` and `ContinueFits` are the two branches of the
interrupt's step.

`PacketsWhole` needs `PacketInv == InPackets /\ Starting /\ Serving`.

- `InPackets`: the window shown and those behind it are one stream in which each
  window continues the one before or starts a packet after a last window (`Linked`).
  `ManyWindows` shows it of the windows of a packet, `PacketJoins` of a packet put
  behind the stream.
- `Starting`: until the interrupt is enabled every packet is one window. So the
  synchronous reads of startup never leave the rest of a packet behind.
- `Serving`: while the driver is bound, the assembly holds the part of one packet
  that ends where the stream begins, and everything to come is newer than every
  record queued. It is kept because a bound driver reads windows only in the
  interrupt thread; `gxfp_remove` ends that, which is what `espi_remove` shows.

`MailboxTypes` proves `TypeOK` from `TypeInv`, in three parts:
`CommandTyped` (a thread in an exchange has a command left to send),
`ThreadTyped` (a packet that is about to be pushed is not empty) and `BindTyped`.

### The trace ring

`GxfpTrace_proofs` proves `Spec => DumpShowsLastLines`, that is, `GxfpTrace`
implements `LastLines`, for any ring size, loggers and number of sequence numbers.
The argument is the arithmetic of the slots: the dump's line `i` is in slot
`(head - count + i - 1) % size` (`DumpSlot`), so a push appends to the dump and
drops its first line exactly when the ring is full (`PushShown`). Besides the types
the invariant has `Alone`: while the ring is not torn, a logger inside holds the lock,
is the only one, and does not race (`AloneStep`).

### The device and its context

`FpDevice_proofs` proves the safety properties of `FpDevice` for any actions
(`ActionsAssumption`) and any nesting. `IInv == TypeOK /\ Safe`; what `Safe` adds to
the properties is

- `Working`: a critical section belongs to a busy driver, a flush source to a
  section that was left, a queued cancellation to a cancelled action;
- `Answering`: a waiting suspend or resume has one party to finish it: the driver
  asked, a queued request, or a handler of `notify::completed`;
- `Suspending`: an action that suspend cancelled has a reason to report, and its
  handler stays while the suspend waits, also over the interval in which the user's
  callback may start the next action.

`SuspendedActionAgreed` needs one more, `Caught`, proved on top of `IInv`: the action
that suspend found is still there as long as it is remembered, and the handlers that
end the suspend run only after it has returned.

`FpContext_proofs` proves `CtxSpec => Spec`, so that all of this holds of a device in
a context, and `RemovedClosed` and `FinalizedUntouched` from `Listed`, which says who
will remove the device in every state of it. `Calm` collects the steps of the device
that the context does not notice. `ContextTyped` is its type invariant.

### The user-space stack

`GxfpDevice_proofs` proves the safety properties of `dev_safety` and `dev_live` for
any set of actions, number of enrolment stages, retry limit and queue length.

*Assumptions.* `ActionsAssumption` (actions are capture actions, an enrolment has a
stage), `MaxRetriesAssumption`, `MaxQueueAssumption`. `NoAbort` and `StatesAgree` are
proved for sets of actions without enrolment: with one they are false, for the reason
given in section 4.

*Below the image device.* `LowInv` adds `OneImage` to the types: when the TLS service
could be asked for an image, none is in the sensor, the kernel's queue or the
engine's input; while it waits, there is at most one in all three. So no image is
ever superseded by a second request, which is `ImageFresh`.

*The call stack.* `Control == ImageTyped /\ Flags /\ Staged /\ Stacked` is the
inductive invariant of the rest.

- `Stacked` has one conjunct for each function that can be on top of the stack. It
  says which calls are left under it and in which states it is called. What is left
  after a function and its callees (`Tails`) is one of four: nothing, the end of a
  pump, a report of an error, a timer to be set.
- `Resumable` says when these remaining calls can go on: with no event pending, and,
  where nothing else would poll the session again, with a timer if it waits. Its case for the empty stack is
  `WaitingHasTimer`.
- `InStep` and `Errable` relate the image device to the session between callbacks:
  they are in step, or an error is about to end what runs. They are stated for
  action sets without enrolment and give `NoAbort` and `StatesAgree`.
- `Flags`: an action whose result is ready has no active device and no scan
  (`ReturnsQuiet`). An action is completed only while its result is not there yet
  (`AtMaybeComplete`, `CloseOK`), which is `NotCompletedTwice`.
- `Staged`: behind the last stage of an enrolment there are only calls that end it,
  so that no further scan counts a stage. `TypeOK` needs it.

*Argument.* There is one lemma for each function, and one for what each leaves to
be handled (`HandleNext`). The lemmas about `Push` and the tails keep the reasoning
about sequences out of them. `SameControl` covers the steps of the sensor, the clock
and the session that the upper layers do not see.

### The key

`GxfpProvision_proofs` proves `AnswerIsOwn`, `TypeOK`, `InstalledMatches` and
`PairKept` for any keys and any bounds (`XferAssumption`, `KeysAssumption`). The
programs are those of `Programs` and the upload.

- `Fresh`: until an attempt is given up, a program that sends finds no trace of
  earlier requests, and one that waits has its own command on the wire or its answer
  in the queue, among finger reports, which no request waits for. This gives
  `AnswerIsOwn`.
- `Counted`, `KeysTyped`: the counters stay inside their bounds, and a write on the
  wire carries a generated key. They give `TypeOK`.
- `KeyFollowed`: from the upload to the report, if no other write was under way at
  the upload, all writes under way carry the script's key, and a reply that says
  "written" is in the queue only if the sensor holds it. So whichever answer the
  request accepts, of whichever attempt, proves the write.
- `LastKey`: without `--replace`, a key on disk is the last key ever sent, so once
  the sensor holds it no late write can change it.

### The frames

`GxfpFrame_proofs` is about functions only.

- `FrameIsParsed`, `BodyIsParsed`: each parser reads back what its builder wrote.
  The one exception is a frame of exactly `GXFP_GOODIX_MP_LEN_MAX` bytes of payload,
  which the builder accepts and the parser refuses; no caller has a buffer for it.
- `RequestIsParsed`: the two layers together, as `gxfp_xfer` builds them.
- `WriteLimit`, `RequestLimit`: `write(2)` sends payloads of at most 500 bytes, a
  kernel request carries at most 496. `GXFP_IOCTL_TX_PAYLOAD_MAX` is 508, and the
  builders accept 504, because neither counts the 8 bytes of the wrapper; the larger
  ones are refused by `gxfp_espi_write` with `-EOVERFLOW`, and nothing is truncated.

The checksum is a recursive function. That the parser computes the same value as
the builder needs only that both apply it to the same bytes; nothing is proved
about its value.

### Only model-checked

Liveness, since fairness is out of the prover's reach: `UnbindCompletes`,
`SleeperServed`, `GoodChunksAcknowledged`, `StartupEnds`, `CancelCompletes`,
`CaptureEnds`, `WaitOffRetried`, `CancelHeard`, `SuspendEnds`, `ClosedLeavesList`,
`ProgramReturns`. Every other property of a passing run is a theorem.

## 6. What is not modelled

- The memory of the device structure itself (only the queue's storage is).
- Baseline tables sent with finger-detection commands; TLS cryptography; pixel
  processing; the fields of the sensor configuration; building the key blob; GPIO
  and register access; ACPI resources. These are computations or I/O without state
  that other parts can see.
- A controller that drops the rest of a packet when the sensor is reset. Nothing in
  the repository says whether it does.
- In `gxfp_xfer` the copy of the window and the read-done pulse are one step, so a
  controller that changes the window in between is not covered; nor are errors of a
  register read in the interrupt thread (`gxfp_espi_rx_irq.c:90`), after which the code
  clears the assembly as after a bad head.
- Two provisioning scripts at once: the test for a key and its installation are not
  one step, and nothing in the script excludes a second one.
- Errors of `kmalloc` that only return an error, where the model already has an
  error return at that point.
- In libfprint: finger status and enrol progress, the wrappers that run a loop until
  a call returns, udev and virtual devices, the choice of a driver.
- The vendored part of libfprint that this sensor does not use: the other
  drivers, the minutiae code and its tables. It is by far the largest part of the
  113 000 lines under `src/`, so the share of all lines that the map covers stays
  small although the driver stack itself is covered.
- Demo programs and packaging, apart from the recovery program, the key tool and
  the provisioning script.

## 7. What would come next

- `GxfpEspi` feeding `GxfpRxq` in one model. The proofs already meet in the middle:
  what is pushed is whole packets in order (`RecordsArePackets`), and what is read
  is what was pushed, in order (`ReadIsWhole`, `DeliveryInOrder`).
