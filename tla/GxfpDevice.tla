----------------------------- MODULE GxfpDevice -----------------------------
(***************************************************************************)
(* The libfprint driver drivers/gxfp.c and the image-device layer it plugs *)
(* into, fpi-image-device.c, over the session.  A user opens the device,   *)
(* starts actions, may cancel them, and closes it; the main loop runs the  *)
(* pump timer, the completion of a minutiae scan, and the idle callbacks   *)
(* that cancel an action and return its result.                            *)
(***************************************************************************)
EXTENDS GxfpSession

CONSTANTS
  Actions,        \* the actions a user starts, of ENROLL, VERIFY, IDENTIFY, CAPTURE
  EnrollStages    \* nr_enroll_stages

ASSUME ActionsAssumption ==
  /\ Actions \subseteq {"ENROLL", "VERIFY", "IDENTIFY", "CAPTURE"}
  /\ EnrollStages \in Nat \ {0}

VARIABLES
  istate,     \* priv->state of the image device
  active,     \* priv->active
  present,    \* priv->finger_present
  scanning,   \* priv->minutiae_scan_active
  action_error, \* priv->action_error
  stage,      \* priv->enroll_stage
  timer,      \* self->timer_source is set
  action,     \* priv->current_action of the FpDevice
  cancelled,  \* the action's cancellable is cancelled
  idle_cancel,  \* current_idle_cancel_source is set
  returning,  \* current_task_idle_return_source and what it will return
  is_open

imgVars == <<istate, active, present, scanning, action_error, stage>>
taskVars == <<action, cancelled, idle_cancel, returning, is_open>>
lowVars == <<sessVars, sensorVars, fdtVars, tlsVars>>
vars == <<lowVars, imgVars, taskVars, timer, calls>>

ImageStates == {"INACTIVE", "ACTIVATING", "DEACTIVATING", "IDLE",
                "AWAIT_FINGER_ON", "CAPTURE", "AWAIT_FINGER_OFF"}

Init ==
  /\ SensorInit /\ SessionInit
  /\ istate = "INACTIVE" /\ active = FALSE /\ present = FALSE /\ scanning = FALSE
  /\ action_error = "none" /\ stage = 0
  /\ timer = FALSE /\ calls = <<>>
  /\ action = "NONE" /\ cancelled = FALSE /\ idle_cancel = FALSE
  /\ returning = "none" /\ is_open = FALSE

ChangeState(s) == <<"change_state", s>>
Deactivate(how) == <<"deactivate", how>>
MaybeComplete(e) == <<"maybe_complete", e>>
Call(fn) == <<fn, "">>

Events == {"cancel_tick", "finger_on", "finger_off", "image_ready", "err_activate", "err_session",
           "activate_complete", "deactivate_complete", "close_complete", "request_tick"}
Failed(es) == es \cap {"err_activate", "err_session"} # {}
Seen(es) == IF Failed(es)
            THEN es \ {"activate_complete", "deactivate_complete", "close_complete", "request_tick"}
            ELSE es
Upon(e, rest) == IF e \in Seen(ev) THEN <<Call(e)>> \o rest ELSE rest

\* handle_session_events() looks at the flags in this order, and returns
\* after an error.
handle_session_events ==
  /\ Running("handle")
  /\ calls' = Upon("cancel_tick", Upon("finger_on", Upon("finger_off", Upon("image_ready",
              Upon("err_activate", Upon("err_session", Upon("activate_complete",
              Upon("deactivate_complete", Upon("close_complete", Upon("request_tick",
              Tail(calls)))))))))))
  /\ ev' = {}
  /\ UNCHANGED <<mode, dark, img_ready, sensorVars, fdtVars, tlsVars, imgVars, taskVars, timer>>

-----------------------------------------------------------------------------
\* A failed assertion ends the program.
Abort == calls' = <<Call("abort")>>

CaptureActions == {"ENROLL", "VERIFY", "IDENTIFY", "CAPTURE"}

\* An action is over; its result is returned from an idle callback.
\* fpi_device_action_error() and the fpi_device_*_complete() functions.
Complete(result) ==
  /\ returning' = result
  /\ idle_cancel' = FALSE
  /\ UNCHANGED <<action, cancelled, is_open>>

\* The session state for a state of the image device.
ChangeStateForgetsOff(s) ==
  IF s \in {"ACTIVATING", "DEACTIVATING", "AWAIT_FINGER_OFF"} THEN "IDLE" ELSE s
gxfp_change_state(s) == IF s \in {"ACTIVATING", "DEACTIVATING"} THEN "IDLE" ELSE s

\* fp_image_device_change_state(), whose signal runs gxfp_change_state().
fp_image_device_change_state ==
  /\ Running("change_state")
  /\ istate' = Arg
  /\ gxfp_session_change_state(gxfp_change_state(Arg))
  /\ Then(<<Call("handle")>>)
  /\ UNCHANGED <<active, present, scanning, action_error, stage, taskVars, timer>>

fpi_image_device_deactivate ==
  /\ Running("deactivate")
  /\ Then(IF ~active \/ istate = "DEACTIVATING" THEN <<>>
          ELSE <<ChangeState("DEACTIVATING"), Call("gxfp_deactivate")>>)
  /\ UNCHANGED <<lowVars, imgVars, taskVars, timer>>

gxfp_deactivate ==
  /\ Running("gxfp_deactivate")
  /\ timer' = FALSE
  /\ gxfp_session_request_deactivate
  /\ Then(<<Call("handle")>>)
  /\ UNCHANGED <<imgVars, taskVars>>

gxfp_activate ==
  /\ Running("gxfp_activate")
  /\ UNCHANGED <<imgVars, taskVars, timer>>
  /\ \/ gxfp_session_activate /\ Then(<<Call("handle"), Call("request_tick")>>)
     \/ ActivateFails /\ Then(<<Call("handle")>>)

\* Keep the first error, unless it was a retry.
KeptError(e) == IF e = "none" \/ action_error \notin {"none", "retry"} THEN action_error ELSE e
BusyIfActive == active
StillBusy == active \/ scanning

fp_image_device_maybe_complete_action ==
  /\ Running("maybe_complete")
  /\ UNCHANGED <<istate, active, present, scanning, stage, lowVars, timer>>
  /\ IF StillBusy
     THEN /\ action_error' = KeptError(Arg)
          /\ UNCHANGED taskVars
          /\ Then(<<>>)
     ELSE LET failed == KeptError(Arg) # "none" \/ cancelled
          IN /\ action_error' = "none"
             /\ IF action = "NONE" THEN UNCHANGED taskVars
                ELSE Complete(IF failed THEN "error" ELSE "ok")
             /\ IF failed \/ action \in CaptureActions THEN Then(<<>>) ELSE Abort

fp_image_device_enroll_maybe_await_finger_on ==
  /\ Running("enroll_maybe")
  /\ Then(IF scanning \/ present THEN <<>> ELSE <<ChangeState("AWAIT_FINGER_ON")>>)
  /\ UNCHANGED <<lowVars, imgVars, taskVars, timer>>

-----------------------------------------------------------------------------
\* The events of the session, as handle_session_events() hands them on.
FingerCalls(on) ==
  CASE on /\ istate = "AWAIT_FINGER_ON" -> <<ChangeState("CAPTURE")>>
    [] ~on /\ istate = "AWAIT_FINGER_OFF" ->
         <<ChangeState("IDLE"),
           IF action # "ENROLL" THEN Deactivate("done") ELSE Call("enroll_maybe")>>
    [] OTHER -> <<>>

fpi_image_device_report_finger_status(on) ==
  /\ Running(IF on THEN "finger_on" ELSE "finger_off")
  /\ UNCHANGED <<istate, active, scanning, action_error, stage, lowVars, taskVars, timer>>
  /\ IF istate = "INACTIVE" THEN Then(<<>>) /\ UNCHANGED present
     ELSE /\ present' = on
          /\ IF action \in {"OPEN", "CLOSE"} THEN Abort ELSE Then(FingerCalls(on))

\* gxfp_session_take_image() and fpi_image_device_image_captured().
emit_image_captured ==
  /\ Running("image_ready")
  /\ img_ready' = FALSE
  /\ IF img_ready /\ istate = "CAPTURE" /\ action \in CaptureActions
     THEN scanning' = TRUE /\ Then(<<ChangeState("AWAIT_FINGER_OFF")>>)
     ELSE UNCHANGED scanning /\ Then(IF img_ready THEN <<>> ELSE <<Call("err_session")>>)
  /\ UNCHANGED <<mode, dark, ev, sensorVars, fdtVars, tlsVars,
                 istate, active, present, action_error, stage, taskVars, timer>>

ActivationPending == ~active /\ istate = "ACTIVATING" /\ action \in CaptureActions

\* fpi_image_device_activate_complete() with an error: the state stays.
ActivationError ==
  /\ Running("err_activate")
  /\ timer' = FALSE
  /\ IF ActivationPending THEN Complete("error") ELSE UNCHANGED taskVars
  /\ Then(<<>>)
  /\ UNCHANGED <<lowVars, imgVars>>

ErrorFallsThrough ==
  IF ~active /\ action # "NONE" THEN <<Call("err_activate"), MaybeComplete("error")>>
  ELSE <<MaybeComplete("error"), Deactivate("cancel")>>
ErrorCalls ==
  CASE ~active /\ action # "NONE" -> <<Call("err_activate")>>
    [] active /\ istate = "INACTIVE" -> <<>>
    [] OTHER -> <<MaybeComplete("error"), Deactivate("cancel")>>

fpi_image_device_session_error ==
  /\ Running("err_session")
  /\ timer' = FALSE
  /\ Then(ErrorCalls)
  /\ UNCHANGED <<lowVars, imgVars, taskVars>>

fpi_image_device_activate_complete ==
  /\ Running("activate_complete")
  /\ active' = (active \/ ActivationPending)
  /\ Then(IF ActivationPending
          THEN <<ChangeState("IDLE"), ChangeState("AWAIT_FINGER_ON")>> ELSE <<>>)
  /\ UNCHANGED <<istate, present, scanning, action_error, stage, lowVars, taskVars, timer>>

\* "Assume finger was removed."
FingerStays == present
FingerRemoved == FALSE

fpi_image_device_deactivate_complete ==
  /\ Running("deactivate_complete")
  /\ timer' = FALSE
  /\ IF active /\ istate = "DEACTIVATING"
     THEN /\ active' = FALSE /\ present' = FingerRemoved
          /\ Then(<<ChangeState("INACTIVE"), MaybeComplete("none")>>)
     ELSE UNCHANGED <<active, present>> /\ Then(<<>>)
  /\ UNCHANGED <<istate, scanning, action_error, stage, lowVars, taskVars>>

fpi_image_device_close_complete ==
  /\ Running("close_complete")
  /\ timer' = FALSE
  /\ IF ~active /\ action = "CLOSE" THEN istate' = "INACTIVE" /\ Complete("ok")
     ELSE UNCHANGED <<istate, taskVars>>
  /\ Then(<<>>)
  /\ UNCHANGED <<active, present, scanning, action_error, stage, lowVars>>

\* schedule_pump_soon() keeps a pump already scheduled.
Tick ==
  /\ Running("request_tick") \/ Running("cancel_tick")
  /\ timer' = Running("request_tick")
  /\ Then(<<>>)
  /\ UNCHANGED <<lowVars, imgVars, taskVars>>

-----------------------------------------------------------------------------
\* What the main loop starts when no call is running.  The idle source that
\* returns a result has the default priority and is dispatched before a timer
\* or a scan that becomes ready after it.
Idle == calls = <<>>
Ready == Idle /\ returning = "none"
Clean == UNCHANGED <<cancelled, idle_cancel>>

fp_device_open ==
  /\ Idle /\ action = "NONE" /\ ~is_open
  /\ action' = "OPEN" /\ istate' = "INACTIVE"
  /\ \/ gxfp_session_open /\ returning' = "ok"
     \/ OpenFails /\ returning' = "error"
  /\ Clean
  /\ UNCHANGED <<active, present, scanning, action_error, stage, is_open, timer, calls>>

fp_device_close ==
  /\ Idle /\ action = "NONE" /\ is_open
  /\ action' = "CLOSE"
  /\ IF active THEN Abort /\ UNCHANGED <<lowVars, timer>>
     ELSE /\ timer' = FALSE
          /\ gxfp_session_request_close
          /\ calls' = <<Call("handle")>>
  /\ Clean
  /\ UNCHANGED <<imgVars, returning, is_open>>

fp_image_device_start_capture_action(a) ==
  /\ Idle /\ action = "NONE" /\ is_open
  /\ action' = a
  /\ stage' = 0
  /\ IF present \/ scanning \/ active THEN Abort
     ELSE calls' = <<ChangeState("ACTIVATING"), Call("gxfp_activate")>>
  /\ Clean
  /\ UNCHANGED <<istate, active, present, scanning, action_error, lowVars, timer, returning, is_open>>

\* The user cancels; fp_device_cancelled_cb() defers the rest to an idle source.
Cancel ==
  /\ Ready /\ action # "NONE" /\ ~cancelled
  /\ cancelled' = TRUE /\ idle_cancel' = TRUE
  /\ UNCHANGED <<lowVars, imgVars, timer, calls, action, returning, is_open>>

fp_device_cancel_in_idle_cb ==
  /\ Idle /\ idle_cancel
  /\ idle_cancel' = FALSE
  /\ calls' = <<Deactivate("cancel")>>
  /\ UNCHANGED <<lowVars, imgVars, timer, action, cancelled, returning, is_open>>

fp_device_task_return_in_idle_cb ==
  /\ Idle /\ returning # "none"
  /\ is_open' = CASE action = "OPEN" -> returning = "ok"
                  [] action = "CLOSE" -> FALSE
                  [] OTHER -> is_open
  /\ action' = "NONE" /\ cancelled' = FALSE /\ returning' = "none"
  /\ UNCHANGED <<lowVars, imgVars, timer, calls, idle_cancel>>

\* fpi_device_action_is_cancelled() says so too when there is no action.
IsCancelled == action = "NONE" \/ cancelled

gxfp_pump_timeout_cb ==
  /\ Ready /\ timer
  /\ timer' = FALSE
  /\ calls' = <<Call("pump"), Call("handle"), Call("after_pump")>>
  /\ UNCHANGED <<lowVars, imgVars, taskVars>>

\* Nothing is read after a cancellation, or when the poll fails.
AfterPump ==
  /\ Running("after_pump")
  /\ \/ Then(<<>>)
     \/ ~IsCancelled /\ Then(<<Call("on_fd"), Call("handle")>>)
  /\ UNCHANGED <<lowVars, imgVars, taskVars, timer>>

\* The outcome of a scan: an error, a bad image, or a print that is good for
\* this action.
ScanEnds(s) ==
  IF cancelled \/ (s = "error" /\ action # "CAPTURE")
  THEN <<MaybeComplete("error"), Deactivate("cancel")>>
  ELSE CASE action = "CAPTURE" -> <<MaybeComplete(IF s = "retry" THEN s ELSE "none")>>
         [] action = "ENROLL" /\ stage' = EnrollStages ->
              <<MaybeComplete("none"), Deactivate("done")>>
         [] action = "ENROLL" /\ stage' # EnrollStages -> <<Call("enroll_maybe")>>
         [] action \in {"VERIFY", "IDENTIFY"} ->
              <<MaybeComplete(IF s = "match_error" THEN "error" ELSE "none")>>
         [] OTHER -> <<Call("abort")>>

fpi_image_device_minutiae_detected ==
  /\ Ready /\ scanning
  /\ scanning' = FALSE
  /\ \E s \in {"ok", "retry", "error", "match_error"} :
       /\ stage' = IF action = "ENROLL" /\ s \in {"ok", "match_error"} /\ ~cancelled
                   THEN stage + 1 ELSE stage
       /\ calls' = ScanEnds(s)
  /\ UNCHANGED <<istate, active, present, action_error, lowVars, taskVars, timer>>

\* After a failed assertion nothing happens any more.
Aborted == Running("abort") /\ UNCHANGED vars

-----------------------------------------------------------------------------
SessionCall ==
  /\ \/ gxfp_session_pump(IsCancelled)
     \/ session_poll_tls
     \/ PumpRest
     \/ OnFd
  /\ UNCHANGED <<imgVars, taskVars, timer>>

\* The program runs on with what it has started.
Program ==
  \/ SessionCall
  \/ handle_session_events
  \/ fp_image_device_change_state
  \/ fpi_image_device_deactivate
  \/ gxfp_deactivate
  \/ gxfp_activate
  \/ fp_image_device_maybe_complete_action
  \/ fp_image_device_enroll_maybe_await_finger_on
  \/ \E on \in BOOLEAN : fpi_image_device_report_finger_status(on)
  \/ emit_image_captured
  \/ ActivationError
  \/ fpi_image_device_session_error
  \/ fpi_image_device_activate_complete
  \/ fpi_image_device_deactivate_complete
  \/ fpi_image_device_close_complete
  \/ Tick
  \/ AfterPump

MainLoop ==
  \/ fp_device_cancel_in_idle_cb
  \/ fp_device_task_return_in_idle_cb
  \/ gxfp_pump_timeout_cb
  \/ fpi_image_device_minutiae_detected

User ==
  \/ fp_device_open
  \/ fp_device_close
  \/ \E a \in Actions : fp_image_device_start_capture_action(a)
  \/ Cancel

Sensor == SensorNext /\ UNCHANGED <<sessVars, fdtVars, tlsVars, imgVars, taskVars, timer, calls>>

Clock ==
  /\ \/ RetryPeriodPasses /\ UNCHANGED tlsVars
     \/ TlsTimeoutPasses /\ UNCHANGED fdtVars
  /\ UNCHANGED <<sessVars, sensorVars, imgVars, taskVars, timer, calls>>

Next == Program \/ MainLoop \/ User \/ Sensor \/ Clock \/ Aborted
Spec == Init /\ [][Next]_vars

\* gxfp_session_on_fd() finds the queue drained.
Drained == gxfp_session_on_fd /\ UNCHANGED <<imgVars, taskVars, timer>>

\* Every callback the main loop has been given is run sooner or later, the
\* program runs what it was called to run, and the clock moves.  The sensor
\* takes milliseconds to answer a command: it does not keep the read loop full
\* for ever.
Fairness ==
  /\ WF_vars(Program) /\ SF_vars(Drained)
  /\ SF_vars(fp_device_cancel_in_idle_cb) /\ WF_vars(fp_device_task_return_in_idle_cb)
  /\ SF_vars(gxfp_pump_timeout_cb) /\ SF_vars(fpi_image_device_minutiae_detected)
  /\ WF_vars(Clock)
FairSpec == Spec /\ Fairness

-----------------------------------------------------------------------------
\* The values the variables take.
TypeOK ==
  /\ finger \in BOOLEAN /\ armed \in {"none", "down", "up"}
  /\ link \in {"none", "hello", "up"} /\ shot \in {"none", "IMG", "OLDIMG"}
  /\ rxq \in Seq(Records) /\ Len(rxq) <= MaxQueue
  /\ fmode \in {"IDLE", "WAIT_DOWN", "WAIT_UP"} /\ fstate \in {"UNKNOWN", "UP", "DOWN"}
  /\ retries \in 0..MaxRetries /\ overdue \in BOOLEAN
  /\ svc \in {"NULL", "CONNECTING", "CONNECTED", "CAPTURING", "DONE", "ERROR"}
  /\ pending \in BOOLEAN /\ late \in BOOLEAN
  /\ inbox \in Seq({"HS", "IMG", "OLDIMG"}) /\ img \in {"none", "IMG", "OLDIMG"}
  /\ mode \in Modes /\ dark \in BOOLEAN /\ img_ready \in BOOLEAN
  /\ ev \subseteq Events
  /\ istate \in ImageStates /\ stage \in 0..EnrollStages
  /\ {active, present, scanning, timer, cancelled, idle_cancel, is_open} \subseteq BOOLEAN
  /\ action_error \in {"none", "retry", "error"} /\ returning \in {"none", "ok", "error"}
  /\ action \in Actions \cup {"NONE", "OPEN", "CLOSE"}

\* An image the session hands on, or takes as its dark frame, was scanned for
\* the request it is waiting for: gxfp_tls_service_request_capture() empties the
\* sink and a capture left behind by a cancelled action is consumed first.
ImageFresh == mode \in Capturing /\ svc = "DONE" => img # "OLDIMG"

\* Whenever the main loop is idle and the session waits for something, a pump is
\* scheduled: nothing else polls the fd, the finger retries or the timeouts.
WaitingHasTimer ==
  Idle /\ mode \in ({"ACTIVATING_TLS", "WAIT_FINGER_ON"} \cup WaitingUp \cup Capturing) => timer

\* An action is completed once, although an error, a scan result and a
\* deactivation can each complete it.
NotCompletedTwice ==
  (\/ Running("maybe_complete") /\ ~StillBusy
   \/ Running("err_activate") /\ ActivationPending) => returning = "none"

\* A result is returned to the user only once the device is inactive and no scan
\* is running, so the next action finds both idle.
ReturnsQuiet == returning # "none" => ~active /\ ~scanning

\* No assertion of the image-device layer fails; starting an action asserts
\* that "the internal state machine guarantees" no finger and no scan.
NoAbort == ~Running("abort")

\* Between callbacks the image device and the session are in step.
StatesAgree ==
  Idle => CASE istate = "AWAIT_FINGER_ON" -> mode = "WAIT_FINGER_ON"
            [] istate = "CAPTURE" -> mode = "CAPTURING"
            [] istate = "AWAIT_FINGER_OFF" -> mode = "WAIT_FINGER_OFF"
            [] istate = "ACTIVATING" /\ action # "NONE" /\ returning = "none" ->
                 mode \in {"ACTIVATING_TLS", "ACTIVATING_WAIT_UP", "ACTIVATING_DARK_CAPTURE"}
            [] OTHER -> mode \in Quiet

\* A cancelled action is over sooner or later.
CancelCompletes == cancelled ~> ~cancelled

\* A capture ends, with an image, an error or a timeout.
CaptureEnds == istate = "CAPTURE" ~> istate # "CAPTURE"

\* After an image was taken, a wait for the finger to lift that outlasts the
\* retry period is armed again or given up.
WaitOffRetried ==
  (overdue /\ mode = "WAIT_FINGER_OFF") ~> ~(overdue /\ mode = "WAIT_FINGER_OFF")

\* The same of every wait for the finger to lift, the one that precedes the dark
\* frame included: a missed finger-up is retried automatically.
WaitUpRetried ==
  (overdue /\ mode \in WaitingUp) ~> ~(overdue /\ mode \in WaitingUp)
=============================================================================
