------------------------------ MODULE FpDevice ------------------------------
(***************************************************************************)
(* A libfprint device (fp-device.c, fpi-device.c) between its users and    *)
(* its driver: one action at a time, cancellation, critical sections of    *)
(* the driver, suspend and resume, removal, and the temperature model.     *)
(*                                                                         *)
(* Everything runs in one main loop.  A step is a call of the user, one    *)
(* dispatched source, or one callback of the driver.  The user's callback  *)
(* for a finished action runs inside the source that returns it and may    *)
(* call the library again before the handlers of notify::completed run:    *)
(* `unwinding' is that interval.                                           *)
(*                                                                         *)
(* The driver is any driver that keeps the contract of fpi-device.h: it    *)
(* completes a started action once, with its critical sections left, and   *)
(* answers suspend and resume once.  A driver asked to suspend or resume a *)
(* match action that it has finished fails an assertion, as the two        *)
(* drivers that implement suspend do (synaptics.c, fpc.c).                 *)
(***************************************************************************)
EXTENDS FpTemperature

CONSTANTS
  Long,          \* the interactive actions a user may start
  Short,         \* the other actions
  MaxCritical    \* bound: nesting of critical sections

ASSUME ActionsAssumption ==
  /\ Long \subseteq {"ENROLL", "VERIFY", "IDENTIFY", "CAPTURE"}
  /\ Short \subseteq {"PROBE", "OPEN", "CLOSE", "DELETE", "LIST", "CLEAR_STORAGE"}
  /\ "PROBE" \in Short
  /\ MaxCritical \in Nat

VARIABLES
  dev,         \* is_open, is_suspended, is_removed; emitted: the signal
               \* "removed" was emitted; wakeup: it may wake the machine
  task,        \* current_task and its sources
  crit,        \* the driver's critical section and what is queued for later
  pm,          \* suspend_resume_task and suspend_error
  drv,         \* the driver: see below
  unwinding,   \* a task has returned, its completion handlers have not run
  notify,      \* the handlers of notify::completed of that task
  outcome,     \* what it returned, until the handlers run (history)
  caught,      \* fp_device_suspend was called while this task ran (history)
  has_suspend, \* the class implements suspend and resume
  aborted      \* an assertion failed

devVars == <<tempVars, dev, task, crit, pm, drv, unwinding, notify, outcome,
             caught, has_suspend, aborted>>

Actions == Long \cup Short
Match == {"VERIFY", "IDENTIFY"}
Handlers == {"removed", "suspended", "short"}

Devices == [open : BOOLEAN, suspended : BOOLEAN, removed : BOOLEAN,
            emitted : BOOLEAN, wakeup : BOOLEAN]

\* cancellable: the internal one; connected: its handler and the one on the
\* user's cancellable; idle_cancel, idle_return: the idle sources; result: what
\* the driver reported for a match; handlers: connected to notify::completed.
Tasks == [action : Actions \cup {"NONE"},
          cancellable : {"none", "live", "cancelled"},
          connected : BOOLEAN,
          reason : {"none", "BUSY", "TOO_HOT"},
          idle_cancel : BOOLEAN,
          idle_return : {"none", "ok", "error"},
          result : {"none", "given", "error"},
          handlers : SUBSET Handlers]

Criticals == [depth : 0..MaxCritical, flush : BOOLEAN,
              cancel : BOOLEAN, suspend : BOOLEAN, resume : BOOLEAN]

\* busy: with the current action; told: its cancel function was called for it;
\* asked: owes the answer to suspend or resume; agreed: it answered suspend
\* without an error, so that the action goes on after resume.
Drivers == [busy : BOOLEAN, told : BOOLEAN,
            asked : {"none", "suspend", "resume"}, agreed : BOOLEAN]

NoTask == [action |-> "NONE", cancellable |-> "none", connected |-> FALSE,
           reason |-> "none", idle_cancel |-> FALSE, idle_return |-> "none",
           result |-> "none", handlers |-> {}]

TypeOK ==
  /\ TempTypeOK
  /\ dev \in Devices
  /\ task \in Tasks
  /\ crit \in Criticals
  /\ pm \in [task : {"none", "suspend", "resume"}, error : BOOLEAN]
  /\ drv \in Drivers
  /\ unwinding \in BOOLEAN
  /\ notify \in SUBSET Handlers
  /\ outcome \in {"none", "ok", "error", "BUSY", "TOO_HOT", "REMOVED"}
  /\ caught \in BOOLEAN
  /\ has_suspend \in BOOLEAN
  /\ aborted \in BOOLEAN

\* setup_task_cancellable, of a class that has a cancel function.
NewTask(a) ==
  [NoTask EXCEPT !.action = a, !.cancellable = "live", !.connected = TRUE]

\* A device as fp_device_async_initable_init_async leaves it: probing.
Init ==
  /\ TempInit
  /\ dev = [open |-> FALSE, suspended |-> FALSE, removed |-> FALSE,
            emitted |-> FALSE, wakeup |-> FALSE]
  /\ task = NewTask("PROBE")
  /\ crit = [depth |-> 0, flush |-> FALSE,
             cancel |-> FALSE, suspend |-> FALSE, resume |-> FALSE]
  /\ pm = [task |-> "none", error |-> FALSE]
  /\ drv = [busy |-> TRUE, told |-> FALSE, asked |-> "none", agreed |-> FALSE]
  /\ unwinding = FALSE
  /\ notify = {}
  /\ outcome = "none"
  /\ caught = FALSE
  /\ has_suspend \in BOOLEAN
  /\ aborted = FALSE

---------------------------------------------------------------------------
\* Starting an action.

\* The checks every function makes before it starts an action.
MayStart(a) ==
  /\ a = "OPEN" => ~dev.open
  /\ a # "OPEN" => dev.open
  /\ task.action = "NONE"
  /\ a # "CLEAR_STORAGE" => ~dev.suspended

\* The new task, and the driver's function for the action.
Begin(a) ==
  /\ task' = NewTask(a)
  /\ drv' = [drv EXCEPT !.busy = TRUE]

\* fp_device_open, close, delete_print, list_prints and clear_storage.
StartShort(a) ==
  /\ MayStart(a)
  /\ Begin(a)
  /\ UNCHANGED <<tempVars, dev, crit, pm, unwinding, notify, outcome, caught, has_suspend, aborted>>

\* fp_device_enroll, verify, identify and capture.
StartLong(a) ==
  /\ MayStart(a)
  /\ \E ratio \in Drift :
       \/ /\ Temperature(ratio) # "HOT"
          /\ UpdateTemp(ratio, TRUE)
          /\ Begin(a)
       \/ /\ Temperature(ratio) = "HOT"
          /\ UpdateTemp(ratio, FALSE)
          /\ UNCHANGED <<task, drv>>
  /\ UNCHANGED <<dev, crit, pm, unwinding, notify, outcome, caught, has_suspend, aborted>>

---------------------------------------------------------------------------
\* Cancellation.

\* g_cancellable_cancel on the internal cancellable; the handler queues the
\* idle source.  A cancellable is cancelled only once.
Cancelled(t) ==
  IF t.cancellable = "live"
    THEN [t EXCEPT !.cancellable = "cancelled", !.idle_cancel = t.connected]
    ELSE t

CancelledNoReason(t, why) == Cancelled(t)

\* A cancellation by the library keeps the first reason.
CancelledFor(t, why) ==
  Cancelled([t EXCEPT !.reason = IF t.reason = "none" THEN why ELSE t.reason])

\* The user cancels the cancellable passed with the current action.
Cancel ==
  /\ task.connected
  /\ task.cancellable = "live"
  /\ task' = Cancelled(task)
  /\ UNCHANGED <<tempVars, dev, crit, pm, drv, unwinding, notify, outcome,
                 caught, has_suspend, aborted>>

\* Its idle priority lets the flush source go first.
fp_device_cancel_in_idle_cb ==
  /\ task.idle_cancel
  /\ ~unwinding
  /\ ~crit.flush
  /\ task' = [task EXCEPT !.idle_cancel = FALSE]
  /\ IF crit.depth > 0
       THEN crit' = [crit EXCEPT !.cancel = TRUE] /\ UNCHANGED drv
       ELSE drv' = [drv EXCEPT !.told = TRUE] /\ UNCHANGED crit
  /\ UNCHANGED <<tempVars, dev, pm, unwinding, notify, outcome, caught, has_suspend, aborted>>

---------------------------------------------------------------------------
\* Suspend and resume.

SuspendCompleteAtOnce(error) ==
  /\ pm' = [task |-> "none", error |-> FALSE]
  /\ dev' = [dev EXCEPT !.suspended = TRUE, !.wakeup = @ \/ task.action # "NONE"]
  /\ UNCHANGED task

\* fpi_device_suspend_complete, with fpi_device_suspend_completed when there
\* is nothing to wait for.
SuspendComplete(error) ==
  IF error /\ task.action # "NONE"
    THEN /\ pm' = [task |-> "suspend", error |-> TRUE]
         /\ dev' = [dev EXCEPT !.suspended = TRUE]
         /\ task' = [CancelledFor(task, "BUSY") EXCEPT !.handlers = @ \cup {"suspended"}]
    ELSE /\ pm' = [task |-> "none", error |-> FALSE]
         /\ dev' = [dev EXCEPT !.suspended = TRUE,
                               !.wakeup = @ \/ task.action # "NONE"]
         /\ UNCHANGED task

ResumeComplete ==
  /\ pm' = [pm EXCEPT !.task = "none"]
  /\ dev' = [dev EXCEPT !.suspended = FALSE, !.wakeup = FALSE]
  /\ UNCHANGED task

\* The class's suspend or resume function: a driver that has finished a match
\* action has no command to stop, and fails its assertion.
AskDriver(what) ==
  /\ aborted' = (task.action \in Match /\ ~drv.busy)
  /\ drv' = [drv EXCEPT !.asked = what]
  /\ pm' = [pm EXCEPT !.task = what]
  /\ UNCHANGED <<dev, task>>

\* fpi_device_suspend, from the queue c of the critical section.
Suspend(c) ==
  \/ /\ task.action = "NONE"
     /\ SuspendComplete(FALSE)
     /\ crit' = c
     /\ UNCHANGED <<drv, aborted>>
  \/ /\ task.action \in Long /\ has_suspend /\ c.depth > 0
     /\ pm' = [pm EXCEPT !.task = "suspend"]
     /\ crit' = [c EXCEPT !.suspend = TRUE]
     /\ UNCHANGED <<dev, task, drv, aborted>>
  \/ /\ task.action \in Long /\ has_suspend /\ c.depth = 0
     /\ AskDriver("suspend")
     /\ crit' = c
  \/ /\ task.action \in Long /\ ~has_suspend
     /\ SuspendComplete(TRUE)
     /\ crit' = c
     /\ UNCHANGED <<drv, aborted>>
  \/ /\ task.action \in Short
     /\ pm' = [pm EXCEPT !.task = "suspend"]
     /\ task' = [task EXCEPT !.handlers = @ \cup {"short"}]
     /\ crit' = c
     /\ UNCHANGED <<dev, drv, aborted>>

\* fpi_device_resume, from the queue c of the critical section.
Resume(c) ==
  \/ /\ task.action = "NONE" \/ (task.action \in Long /\ ~has_suspend)
     /\ ResumeComplete
     /\ crit' = c
     /\ UNCHANGED <<drv, aborted>>
  \/ /\ task.action \in Long /\ has_suspend /\ c.depth > 0
     /\ pm' = [pm EXCEPT !.task = "resume"]
     /\ crit' = [c EXCEPT !.resume = TRUE]
     /\ UNCHANGED <<dev, task, drv, aborted>>
  \/ /\ task.action \in Long /\ has_suspend /\ c.depth = 0
     /\ AskDriver("resume")
     /\ crit' = c
  \/ /\ task.action \in Short
     /\ aborted' = TRUE
     /\ pm' = [pm EXCEPT !.task = "resume"]
     /\ crit' = c
     /\ UNCHANGED <<dev, task, drv>>

fp_device_suspend ==
  /\ pm.task = "none" /\ ~dev.suspended /\ ~dev.removed
  /\ Suspend(crit)
  /\ caught' = (task.action # "NONE")
  /\ UNCHANGED <<tempVars, unwinding, notify, outcome, has_suspend>>

fp_device_resume ==
  /\ pm.task = "none" /\ dev.suspended /\ ~dev.removed
  /\ Resume(crit)
  /\ UNCHANGED <<tempVars, unwinding, notify, outcome, caught, has_suspend>>

\* fpi_device_remove: the hardware is gone.
fpi_device_remove ==
  /\ ~dev.removed
  /\ ~unwinding
  /\ dev' = [dev EXCEPT !.removed = TRUE, !.emitted = (task.action = "NONE")]
  /\ task' = IF task.action = "NONE" THEN task
             ELSE [task EXCEPT !.handlers = @ \cup {"removed"}]
  /\ UNCHANGED <<tempVars, crit, pm, drv, unwinding, notify, outcome, caught, has_suspend, aborted>>

---------------------------------------------------------------------------
\* The driver's critical section.

fpi_device_critical_enter ==
  /\ drv.busy
  /\ crit.depth < MaxCritical
  /\ crit' = [crit EXCEPT !.depth = @ + 1, !.flush = FALSE]
  /\ UNCHANGED <<tempVars, dev, task, pm, drv, unwinding, notify, outcome, caught, has_suspend, aborted>>

LeaveNoFlush(c) == [c EXCEPT !.depth = @ - 1]

Left(c) == [c EXCEPT !.depth = @ - 1, !.flush = (c.depth = 1)]

fpi_device_critical_leave ==
  /\ drv.busy
  /\ crit.depth > 0
  /\ crit' = Left(crit)
  /\ UNCHANGED <<tempVars, dev, task, pm, drv, unwinding, notify, outcome, caught, has_suspend, aborted>>

CancelDueIfAction == task.action # "NONE"
CancelForgotten == FALSE

\* A queued cancellation is passed on only while the driver is busy.
CancelDue == task.action # "NONE" /\ task.idle_return = "none"

\* fpi_device_critical_section_flush_idle_cb: one queued request at a time.
FlushCritical ==
  /\ crit.flush
  /\ ~unwinding
  /\ \/ /\ crit.cancel
        /\ crit' = [crit EXCEPT !.cancel = FALSE]
        /\ drv' = [drv EXCEPT !.told = @ \/ CancelDue]
        /\ UNCHANGED <<dev, task, pm, aborted>>
     \/ /\ ~crit.cancel /\ crit.suspend
        /\ Suspend([crit EXCEPT !.suspend = FALSE])
     \/ /\ ~crit.cancel /\ ~crit.suspend /\ crit.resume
        /\ Resume([crit EXCEPT !.resume = FALSE])
     \/ /\ ~crit.cancel /\ ~crit.suspend /\ ~crit.resume
        /\ crit' = [crit EXCEPT !.flush = FALSE]
        /\ UNCHANGED <<dev, task, pm, drv, aborted>>
  /\ UNCHANGED <<tempVars, unwinding, notify, outcome, caught, has_suspend>>

---------------------------------------------------------------------------
\* The driver's other callbacks.

\* fpi_device_verify_report and fpi_device_identify_report.
Report(r) ==
  /\ drv.busy
  /\ task.action \in Match
  /\ task.result = "none"
  /\ task' = [task EXCEPT !.result = r]
  /\ UNCHANGED <<tempVars, dev, crit, pm, drv, unwinding, notify, outcome, caught, has_suspend, aborted>>

\* What a completion returns: a missing print, image, list or match report is
\* an error, and so is a reported one.
Returned(a, given, error) ==
  CASE error -> "error"
    [] ~error /\ a \in Match -> IF task.result = "given" THEN "ok" ELSE "error"
    [] ~error /\ a \in {"ENROLL", "CAPTURE", "LIST"} -> IF given THEN "ok" ELSE "error"
    [] OTHER -> "ok"

clear_device_cancel_action(t) == [t EXCEPT !.connected = FALSE, !.idle_cancel = FALSE]

\* fpi_device_*_complete with clear_device_cancel_action and the idle source
\* of fpi_device_return_task_in_idle.  A driver may leave its last critical
\* section at the end of the same callback.
DriverCompletes(given, error) ==
  /\ drv.busy
  /\ crit.depth < 2
  /\ task' = [clear_device_cancel_action(task)
                EXCEPT !.idle_return = Returned(task.action, given, error)]
  /\ drv' = [drv EXCEPT !.busy = FALSE]
  /\ crit' = IF crit.depth = 1 THEN Left(crit) ELSE crit
  /\ UNCHANGED <<tempVars, dev, pm, unwinding, notify, outcome, caught, has_suspend, aborted>>

\* The driver's answer to suspend or resume.
DriverAnswers(error) ==
  /\ drv.asked # "none"
  /\ drv' = [drv EXCEPT !.asked = "none",
                        !.agreed = IF drv.asked = "suspend" THEN ~error /\ task.action # "NONE" ELSE @]
  /\ IF drv.asked = "suspend" THEN SuspendComplete(error) ELSE ResumeComplete
  /\ UNCHANGED <<tempVars, crit, unwinding, notify, outcome, caught, has_suspend, aborted>>

---------------------------------------------------------------------------
\* The main loop's sources.

\* update_temp_timeout with fpi_device_update_temp: a hot device cancels an
\* interactive action.
TempTimeout ==
  /\ temp_timeout
  /\ ~unwinding
  /\ \E ratio \in Crossed :
       /\ UpdateTemp(ratio, temp_last_active)
       /\ task' = IF Temperature(ratio) = "HOT" /\ task.action \in Long
                    THEN CancelledFor(task, "TOO_HOT") ELSE task
  /\ UNCHANGED <<dev, crit, pm, drv, unwinding, notify, outcome, caught, has_suspend, aborted>>

\* What the task returns; for a task whose user cancelled it, GTask then puts
\* G_IO_ERROR_CANCELLED in its place.
Outcome ==
  CASE dev.removed /\ ~(task.action = "OPEN" /\ task.idle_return = "ok") -> "REMOVED"
    [] task.idle_return = "error" /\ task.reason # "none" -> task.reason
    [] OTHER -> task.idle_return

\* fp_device_task_return_in_idle_cb, up to the user's callback.  The flush
\* source has a higher priority and was queued before.
TaskReturn ==
  /\ task.idle_return # "none"
  /\ ~unwinding
  /\ ~crit.flush
  /\ \E ratio \in Drift : UpdateTemp(ratio, FALSE)
  /\ dev' = [dev EXCEPT !.open = \/ task.action = "OPEN" /\ task.idle_return = "ok"
                                 \/ dev.open /\ task.action # "CLOSE"]
  /\ outcome' = Outcome
  /\ notify' = task.handlers
  /\ task' = NoTask
  /\ drv' = [drv EXCEPT !.told = FALSE, !.agreed = FALSE]
  /\ caught' = FALSE
  /\ unwinding' = TRUE
  /\ UNCHANGED <<crit, pm, has_suspend, aborted>>

CompletedNoShort ==
  /\ unwinding
  /\ unwinding' = FALSE
  /\ notify' = {}
  /\ outcome' = "none"
  /\ dev' = [dev EXCEPT !.emitted = @ \/ "removed" \in notify,
                        !.wakeup = @ \/ ("suspended" \in notify /\ task.action # "NONE")]
  /\ pm' = IF "suspended" \in notify THEN [task |-> "none", error |-> FALSE] ELSE pm
  /\ UNCHANGED <<tempVars, task, crit, drv, caught, has_suspend, aborted>>

\* The user's callback is done: notify::completed.
Completed ==
  /\ unwinding
  /\ unwinding' = FALSE
  /\ notify' = {}
  /\ outcome' = "none"
  /\ dev' = [dev EXCEPT !.emitted = @ \/ "removed" \in notify,
                        !.wakeup = @ \/ ("suspended" \in notify /\ task.action # "NONE")]
  /\ pm' = IF notify \cap {"suspended", "short"} = {} THEN pm
           ELSE [task |-> "none", error |-> FALSE]
  /\ UNCHANGED <<tempVars, task, crit, drv, caught, has_suspend, aborted>>

---------------------------------------------------------------------------
UserStep ==
  \/ \E a \in Long : StartLong(a)
  \/ \E a \in Short \ {"PROBE"} : StartShort(a)
  \/ Cancel
  \/ fp_device_suspend
  \/ fp_device_resume

DriverStep ==
  \/ fpi_device_critical_enter
  \/ fpi_device_critical_leave
  \/ \E r \in {"given", "error"} : Report(r)
  \/ \E given, error \in BOOLEAN : DriverCompletes(given, error)
  \/ \E error \in BOOLEAN : DriverAnswers(error)

LoopStep ==
  \/ fp_device_cancel_in_idle_cb
  \/ FlushCritical
  \/ TempTimeout
  \/ TaskReturn
  \/ Completed

Next == ~aborted /\ (UserStep \/ DriverStep \/ LoopStep \/ fpi_device_remove)

Spec == Init /\ [][Next]_devVars

---------------------------------------------------------------------------
\* What must hold.

\* A request queued while the driver is in a critical section
\* (fp_device_cancel_in_idle_cb, fpi_device_suspend, fpi_device_resume) always
\* has someone who will look at it: the driver has still to leave the section,
\* or the flush source is attached.
QueuedIsFlushed ==
  (crit.cancel \/ crit.suspend \/ crit.resume) => (crit.depth > 0 \/ crit.flush)

\* The class's cancel function is called only for an action that was cancelled
\* and that the driver has not completed, and never inside its critical section,
\* however cancellation, queueing, completion and the idle return interleave
\* ("Cancellation must only happen if the driver is busy").
CancelOnlyBusy ==
  [][drv'.told /\ ~drv.told
       => drv.busy /\ task.cancellable = "cancelled" /\ crit.depth = 0]_devVars

\* While an interactive action runs, a device with a temperature model is either
\* watched, by a timeout for the next threshold, or hot, and then the action has
\* been cancelled.
Overheating ==
  has_temp =>
    /\ temp_last_active <=> task.action \in Long
    /\ task.action \in Long =>
         IF temp_current = "HOT" THEN task.cancellable = "cancelled" ELSE temp_timeout

\* No interactive action runs on a device marked suspended, once the call has
\* returned, but one that the driver agreed to carry over.
MarkedAgreed ==
  dev.suspended /\ pm.task # "suspend" /\ task.action \in Long => drv.agreed

\* When the call of suspend has returned, in whichever of its ways, the action
\* that it found running has returned as well, or the driver agreed to carry it
\* over; and while the device is marked suspended no interactive action runs but
\* such a one.  A suspend that waited for a short action does not mark the
\* device: of actions that are started after it nothing is said.
SuspendedActionAgreed ==
  /\ MarkedAgreed
  /\ caught /\ pm.task # "suspend" => drv.agreed

\* An action that suspend cancels does not fail with the driver's own error: the
\* caller is told BUSY, or the reason that was there first ("it will complete
\* with an error code of #FP_DEVICE_ERROR_BUSY before the suspend async routine
\* finishes").
SuspendTellsBusy ==
  unwinding /\ "suspended" \in notify
    => outcome # "error" /\ pm.task = "suspend"

\* A match that returns without an error has a report of the driver.
ReportedSuccess ==
  task.action \in Match /\ task.idle_return = "ok"
    => task.result = "given"

\* A removal is announced, or some task still carries the handler that will.
RemovalKept == dev.removed /\ ~dev.emitted => "removed" \in task.handlers \cup notify

\* A cancelled action ends or the driver is told, whatever critical sections the
\* driver goes through.
CancelHeard ==
  task.cancellable = "cancelled" ~>
    (drv.told \/ ~drv.busy \/ task.cancellable # "cancelled" \/ aborted)

\* The call of suspend or resume returns.
SuspendEnds == pm.task # "none" ~> pm.task = "none" \/ aborted
=============================================================================
