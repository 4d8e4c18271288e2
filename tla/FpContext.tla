------------------------------ MODULE FpContext ------------------------------
(***************************************************************************)
(* A libfprint context (fp-context.c) and one USB device it has seen: the  *)
(* probe, the list of devices, and the removal of an unplugged device,     *)
(* which waits until its user has closed it.                               *)
(*                                                                         *)
(* The context hears of the device through callbacks that run inside the   *)
(* device's own steps, so an action here is a step of FpDevice together    *)
(* with what the context's callbacks do in it.                             *)
(***************************************************************************)
EXTENDS FpDevice

VARIABLES
  context,    \* "alive" or "finalized"
  listing,    \* of the device: "pending", "listed", "ignored" or "dropped"
  plugged,    \* the hardware is there
  on_open,    \* device_remove_on_notify_open_cb is connected
  removals    \* the idle sources of remove_device

ctxVars == <<context, listing, plugged, on_open, removals>>
vars == <<devVars, ctxVars>>

CtxTypeOK ==
  /\ TypeOK
  /\ context \in {"alive", "finalized"}
  /\ listing \in {"pending", "listed", "ignored", "dropped"}
  /\ plugged \in BOOLEAN
  /\ on_open \in BOOLEAN
  /\ removals \in 0..2

\* usb_device_added_cb has found a driver and created the device.
CtxInit ==
  /\ Init
  /\ context = "alive"
  /\ listing = "pending"
  /\ plugged = TRUE
  /\ on_open = FALSE
  /\ removals = 0

\* Users know a device from the device-added signal on.
Known == listing \in {"listed", "dropped"}

RemoveAtOnce ==
  /\ removals' = removals + 1
  /\ UNCHANGED on_open

RemoveAfterOpen ==
  /\ on_open' = TRUE
  /\ UNCHANGED removals

\* device_removed_cb: wait for the close of an open device.
device_removed_cb ==
  IF dev'.open
    THEN on_open' = TRUE /\ UNCHANGED removals
    ELSE removals' = removals + 1 /\ UNCHANGED on_open

\* The signal "removed", if this step emits it and the context listens.
Removed ==
  IF dev'.emitted /\ ~dev.emitted /\ listing = "listed" /\ context = "alive"
    THEN device_removed_cb
    ELSE UNCHANGED <<on_open, removals>>

\* Opening a USB device that is not there fails (g_usb_device_open).
UserCall ==
  /\ Known
  /\ UserStep
  /\ (task.action = "NONE" /\ task'.action = "OPEN") => plugged
  /\ UNCHANGED ctxVars

Driver == DriverStep /\ UNCHANGED ctxVars

Source ==
  /\ fp_device_cancel_in_idle_cb \/ FlushCritical \/ TempTimeout
  /\ UNCHANGED ctxVars

ListUnlessError ==
  /\ task.action = "PROBE"
  /\ TaskReturn
  /\ listing' = IF task.idle_return = "ok" THEN "listed" ELSE "ignored"
  /\ UNCHANGED <<context, plugged, on_open, removals>>

\* async_device_init_done_cb, the callback of the probe.  A probe whose
\* cancellable was cancelled by the finalized context returns CANCELLED,
\* whatever the driver answered.
ProbeReturns ==
  /\ task.action = "PROBE"
  /\ TaskReturn
  /\ listing' = IF context = "alive" /\ outcome' = "ok" THEN "listed" ELSE "ignored"
  /\ UNCHANGED <<context, plugged, on_open, removals>>

\* Another action returns; notify::open comes first.
ActionReturns ==
  /\ task.action # "PROBE"
  /\ TaskReturn
  /\ removals' = IF /\ on_open
                    /\ task.action = "CLOSE" \/ (task.action = "OPEN" /\ task.idle_return = "ok")
                 THEN removals + 1 ELSE removals
  /\ UNCHANGED <<context, listing, plugged, on_open>>

HandlersRun ==
  /\ Completed
  /\ Removed
  /\ UNCHANGED <<context, listing, plugged>>

\* The device is unplugged; usb_device_removed_cb looks for it in the list.
usb_device_removed_cb ==
  /\ plugged
  /\ ~unwinding
  /\ plugged' = FALSE
  /\ IF listing = "listed" /\ context = "alive"
       THEN fpi_device_remove /\ Removed
       ELSE UNCHANGED <<devVars, on_open, removals>>
  /\ UNCHANGED <<context, listing>>

\* Emits device-removed.
remove_device_idle_cb ==
  /\ removals > 0
  /\ ~unwinding
  /\ removals' = removals - 1
  /\ listing' = IF listing = "listed" THEN "dropped" ELSE listing
  /\ UNCHANGED <<devVars, context, plugged, on_open>>

\* The cancellable of a running probe is cancelled, the sources and the
\* handlers of the context are gone with it.  A user's callback may do it.
fp_context_finalize ==
  /\ context = "alive"
  /\ context' = "finalized"
  /\ task' = IF task.action = "PROBE" /\ task.connected THEN Cancelled(task) ELSE task
  /\ listing' = IF listing = "listed" THEN "dropped" ELSE listing
  /\ on_open' = FALSE
  /\ removals' = 0
  /\ UNCHANGED <<tempVars, dev, crit, pm, drv, unwinding, notify, outcome,
                 caught, has_suspend, aborted, plugged>>

CtxNext ==
  /\ ~aborted
  /\ \/ UserCall
     \/ Driver
     \/ Source
     \/ ProbeReturns
     \/ ActionReturns
     \/ HandlersRun
     \/ usb_device_removed_cb
     \/ remove_device_idle_cb
     \/ fp_context_finalize

CtxSpec == CtxInit /\ [][CtxNext]_vars

\* A driver completes a short action, one it was told to cancel, and one whose
\* device is gone.
Obliged ==
  /\ ~aborted
  /\ drv.told \/ task.action \in Short \/ dev.removed
  /\ \E given, error \in BOOLEAN : DriverCompletes(given, error)
  /\ UNCHANGED ctxVars

Fair(A) == ~aborted /\ A /\ UNCHANGED ctxVars

CtxFairSpec ==
  /\ CtxSpec
  /\ WF_vars(~aborted /\ (ProbeReturns \/ ActionReturns))
  /\ WF_vars(~aborted /\ HandlersRun)
  /\ WF_vars(~aborted /\ remove_device_idle_cb)
  /\ SF_vars(Fair(FlushCritical))
  /\ SF_vars(Fair(fp_device_cancel_in_idle_cb))
  /\ WF_vars(Fair(fpi_device_critical_leave))
  /\ SF_vars(Fair(crit.depth = 1 /\ fpi_device_critical_leave))
  /\ SF_vars(Fair(\E error \in BOOLEAN : DriverAnswers(error)))
  /\ SF_vars(Obliged)

---------------------------------------------------------------------------
\* What must hold.

\* device-removed is emitted once, and when the source that emits it is queued
\* nobody uses the device or can use it again: "It is guaranteed that the device
\* has been closed before this signal is emitted."
RemovedClosed ==
  removals > 0 => /\ removals = 1
                  /\ listing = "listed"
                  /\ ~dev.open
                  /\ task.action = "NONE"

\* A finalized context is not touched again: no source of it is left, and the
\* callback of a probe that ends later does not add the device to its list.
FinalizedUntouched ==
  context = "finalized" => listing # "listed" /\ removals = 0 /\ ~on_open

\* An unplugged device that its user has closed leaves the list.
ClosedLeavesList ==
  (dev.removed /\ ~dev.open /\ listing = "listed") ~>
    (listing = "dropped" \/ dev.open \/ aborted)

\* "The API user is still required to close a removed device. ... the call to
\* close the device can be made immediately from the signal handler."
RemovedCanBeClosed ==
  dev.emitted /\ dev.open /\ task.action = "NONE" => MayStart("CLOSE")
=============================================================================
