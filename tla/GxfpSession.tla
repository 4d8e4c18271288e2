---------------------------- MODULE GxfpSession -----------------------------
(***************************************************************************)
(* The session, flow/session.c, over finger detection and the TLS service. *)
(*                                                                         *)
(* The program is one main-loop thread.  calls is its call stack, the      *)
(* running call first: a step runs the first call up to the next call it   *)
(* makes and replaces it by what is still to be called.  The sensor and    *)
(* the clock move between any two steps.  ev is the event record the       *)
(* session fills in for its caller, as the set of the flags it raised.     *)
(***************************************************************************)
EXTENDS GxfpFdt, GxfpTls

VARIABLES
  calls,      \* the pending calls, <<function, argument>>
  mode,       \* SESSION(s)->mode
  dark,       \* dark_loaded
  img_ready,  \* pending_img_ready
  ev          \* the events of the session call in progress

sessVars == <<mode, dark, img_ready, ev>>

Modes == {"CLOSED", "READY", "ACTIVATING_TLS", "ACTIVATING_WAIT_UP",
          "ACTIVATING_DARK_CAPTURE", "IDLE", "WAIT_FINGER_ON", "CAPTURING",
          "WAIT_FINGER_OFF", "FAILED"}
Quiet == {"CLOSED", "READY", "FAILED"}
Capturing == {"ACTIVATING_DARK_CAPTURE", "CAPTURING"}
WaitingUp == {"ACTIVATING_WAIT_UP", "WAIT_FINGER_OFF"}

SessionInit ==
  /\ mode = "CLOSED" /\ dark = FALSE /\ img_ready = FALSE /\ ev = {}
  /\ fmode = "IDLE" /\ fstate = "UNKNOWN" /\ retries = 0 /\ overdue = FALSE
  /\ svc = "NULL" /\ pending = FALSE /\ inbox = <<>> /\ img = "none" /\ late = FALSE

Running(fn) == calls # <<>> /\ Head(calls)[1] = fn
Arg == Head(calls)[2]
Then(s) == calls' = s \o Tail(calls)

-----------------------------------------------------------------------------
\* gxfp_device_recovery(dev, 1, 1, 0): the queue is flushed and the MCU reset;
\* whether the reset worked is ignored.
gxfp_device_recovery ==
  /\ gxfp_dev_flush_rxq
  /\ UNCHANGED finger
  /\ \/ armed' = "none" /\ link' = "none" /\ shot' = "none"
     \/ UNCHANGED <<armed, link, shot>>

Error(target) ==
  /\ mode' = "FAILED"
  /\ ev' = ev \cup {IF target = "ACTIVATE" THEN "err_activate" ELSE "err_session"}
  /\ UNCHANGED <<dark, img_ready>>

\* An error other than -ECANCELED, and not one of a capture, resets the sensor.
session_set_error(target) ==
  /\ Error(target)
  /\ IF target = "CAPTURE" THEN UNCHANGED sensorVars ELSE gxfp_device_recovery

\* The rest of the session's state when its mode and events change.
Enter(m, es) ==
  /\ mode' = m
  /\ ev' = ev \cup es
  /\ UNCHANGED <<dark, img_ready>>

gxfp_session_reset_runtime ==
  /\ gxfp_fdt_flow_init
  /\ dark' = FALSE /\ img_ready' = FALSE
  /\ mode' = "CLOSED"

-----------------------------------------------------------------------------
\* gxfp_session_open(): every failure after the open ends in a reset.
gxfp_session_open ==
  /\ gxfp_fdt_flow_init
  /\ gxfp_tls_service_init
  /\ mode' = "READY" /\ dark' = FALSE /\ img_ready' = FALSE
  /\ UNCHANGED <<finger, armed, ev>>

OpenFails ==
  /\ gxfp_session_reset_runtime
  /\ gxfp_tls_service_free
  /\ gxfp_dev_flush_rxq \/ UNCHANGED rxq
  /\ UNCHANGED <<ev, finger, armed, link, shot>>

\* session_begin_cleanup() for the two goals; close passes reset_mcu = 0.
gxfp_session_request_deactivate ==
  /\ Enter(IF mode = "CLOSED" THEN mode ELSE "READY", {"cancel_tick", "deactivate_complete"})
  /\ UNCHANGED <<sensorVars, fdtVars, tlsVars>>

gxfp_session_request_close ==
  /\ IF mode = "CLOSED"
     THEN UNCHANGED <<mode, dark, img_ready, fdtVars, tlsVars>>
     ELSE gxfp_session_reset_runtime /\ gxfp_tls_service_free
  /\ ev' = ev \cup {"cancel_tick", "close_complete"}
  /\ UNCHANGED sensorVars

\* session_rearm_tls_if_needed() starts TLS over only after an error.
NeedsTls == svc = "ERROR"

gxfp_session_activate ==
  \/ /\ ~NeedsTls
     /\ Enter("ACTIVATING_TLS", {"request_tick"})
     /\ gxfp_fdt_flow_init
     /\ UNCHANGED <<sensorVars, tlsVars>>
  \/ /\ NeedsTls
     /\ Enter("ACTIVATING_TLS", {"request_tick"})
     /\ gxfp_fdt_flow_init
     /\ gxfp_tls_service_init
     /\ UNCHANGED <<finger, armed>>

ActivateFails ==
  /\ NeedsTls
  /\ gxfp_tls_service_free
  /\ session_set_error("ACTIVATE")
  /\ UNCHANGED fdtVars

-----------------------------------------------------------------------------
\* gxfp_session_pump(), as the calls pump, poll_tls and pump_rest.
NotWhileWaitingUp == {"ACTIVATING_TLS", "ACTIVATING_DARK_CAPTURE", "CAPTURING"}
Cancellable == {"ACTIVATING_TLS", "ACTIVATING_WAIT_UP", "ACTIVATING_DARK_CAPTURE", "CAPTURING"}

gxfp_session_pump(cancelled) ==
  /\ Running("pump")
  /\ UNCHANGED <<sensorVars, fdtVars, tlsVars>>
  /\ \/ /\ cancelled /\ mode \in Cancellable
        /\ Enter("FAILED", {"cancel_tick",
                            IF mode = "CAPTURING" THEN "err_session" ELSE "err_activate"})
        /\ Then(<<>>)
     \/ /\ ~(cancelled /\ mode \in Cancellable)
        /\ Then(IF mode \in Quiet THEN <<>> ELSE <<<<"poll_tls", "">>>>)
        /\ UNCHANGED sessVars

\* session_poll_tls(): steps until one idles or fails.
session_poll_tls ==
  /\ Running("poll_tls")
  /\ UNCHANGED fdtVars
  /\ \/ /\ StepFails
        /\ session_set_error("GENERIC")
        /\ Then(<<>>)
     \/ /\ StepProgresses
        /\ UNCHANGED <<calls, sessVars, finger, armed, link, rxq>>
     \/ /\ StepIdles
        /\ Then(<<<<"pump_rest", "">>>>)
        /\ UNCHANGED <<sessVars, finger, armed, link, rxq>>

\* session_maybe_finish_activation(), and nothing else to do in its mode.
TlsUp == svc \in {"CONNECTED", "DONE"}

session_maybe_finish_activation ==
  /\ mode = "ACTIVATING_TLS"
  /\ UNCHANGED tlsVars
  /\ \/ /\ TlsUp
        /\ gxfp_fdt_flow_set_mode("WAIT_UP")
        /\ Enter("ACTIVATING_WAIT_UP", {"request_tick"})
        /\ UNCHANGED <<finger, link, shot, rxq>>
     \/ /\ TlsUp
        /\ session_set_error("GENERIC")
        /\ UNCHANGED fdtVars
     \/ /\ ~TlsUp
        /\ Enter(mode, {"request_tick"})
        /\ UNCHANGED <<sensorVars, fdtVars>>

\* gxfp_fdt_flow_poll() while the finger is awaited to lift.
gxfp_fdt_flow_poll ==
  /\ mode \in WaitingUp
  /\ UNCHANGED tlsVars
  /\ \/ /\ RetryDue
        /\ Rearm
        /\ Enter(mode, {"request_tick"})
        /\ UNCHANGED <<finger, link, shot, rxq>>
     \/ /\ RetryDue \/ RetriesSpent
        /\ session_set_error("GENERIC")
        /\ UNCHANGED fdtVars
     \/ /\ ~AwaitsRetry
        /\ Enter(mode, {"request_tick"})
        /\ UNCHANGED <<sensorVars, fdtVars>>

\* session_finalize_capture() of the dark frame, and of the finger's image.
session_finalize_capture ==
  /\ mode \in Capturing
  /\ svc = "DONE"
  /\ gxfp_tls_service_get_raw_image
  /\ \/ /\ img # "none" /\ mode = "ACTIVATING_DARK_CAPTURE"
        /\ dark' = TRUE
        /\ gxfp_fdt_flow_set_mode("IDLE")
        /\ mode' = "IDLE"
        /\ ev' = ev \cup {"activate_complete"}
        /\ UNCHANGED <<img_ready, finger, link, shot, rxq>>
     \/ /\ img # "none" /\ mode = "CAPTURING"
        /\ img_ready' = TRUE
        /\ mode' = "IDLE"
        /\ ev' = ev \cup {"image_ready"}
        /\ UNCHANGED <<dark, sensorVars, fdtVars>>
     \/ /\ session_set_error(IF mode = "CAPTURING" THEN "CAPTURE" ELSE "ACTIVATE")
        /\ UNCHANGED fdtVars

AwaitImage ==
  /\ mode \in Capturing /\ svc # "DONE"
  /\ Enter(mode, {"request_tick"})
  /\ UNCHANGED <<sensorVars, fdtVars, tlsVars>>

AwaitsNoTick ==
  /\ mode \in {"IDLE", "WAIT_FINGER_ON"}
  /\ Enter(mode, {})
  /\ UNCHANGED <<sensorVars, fdtVars, tlsVars>>

AwaitFinger ==
  /\ mode \in {"IDLE", "WAIT_FINGER_ON"}
  /\ Enter(mode, IF mode = "IDLE" THEN {} ELSE {"request_tick"})
  /\ UNCHANGED <<sensorVars, fdtVars, tlsVars>>

PumpRest ==
  /\ Running("pump_rest")
  /\ Then(<<>>)
  /\ \/ session_maybe_finish_activation
     \/ gxfp_fdt_flow_poll
     \/ session_finalize_capture
     \/ AwaitImage
     \/ AwaitFinger

-----------------------------------------------------------------------------
\* gxfp_session_on_fd(): reads records until the queue is empty, then pumps.
gxfp_session_on_fd ==
  /\ Running("on_fd")
  /\ mode \in Quiet \/ rxq = <<>>
  /\ Then(IF mode \in Quiet THEN <<>> ELSE <<<<"pump", "">>>>)
  /\ UNCHANGED <<sessVars, sensorVars, fdtVars, tlsVars>>

Reading == Running("on_fd") /\ mode \notin Quiet /\ rxq # <<>>
Fed == Reading /\ svc # "NULL"

\* A record that only tells whether the finger is there.
FingerEvents(r) ==
  CASE mode = "WAIT_FINGER_ON" /\ r = "DOWN" -> {"finger_on"}
    [] mode = "WAIT_FINGER_OFF" /\ "UP" \in fdt_status_to_events(r) -> {"finger_off"}
    [] OTHER -> {}
StartsDark(r) == mode = "ACTIVATING_WAIT_UP" /\ "UP" \in fdt_status_to_events(r)

ReadFinger ==
  /\ Fed /\ ~IsTls(Head(rxq)) /\ ~StartsDark(Head(rxq))
  /\ gxfp_fdt_flow_feed_record(Head(rxq))
  /\ rxq' = Tail(rxq)
  /\ Enter(mode, FingerEvents(Head(rxq)))
  /\ UNCHANGED <<calls, finger, link, shot, tlsVars>>

\* The finger is off: the dark frame is requested.
ReadUpForDark ==
  /\ Reading /\ StartsDark(Head(rxq))
  /\ IF MayRequest
     THEN /\ gxfp_fdt_flow_feed_record(Head(rxq))
          /\ gxfp_tls_service_request_capture
          /\ rxq' = AllSuperseded(Tail(rxq))
          /\ Enter("ACTIVATING_DARK_CAPTURE", {"request_tick"})
          /\ UNCHANGED <<calls, finger, link>>
     ELSE /\ fstate' = "UP"
          /\ session_set_error("ACTIVATE")
          /\ Then(<<<<"pump", "">>>>)
          /\ UNCHANGED <<fmode, retries, overdue, tlsVars>>

ReadTls ==
  /\ Fed /\ IsTls(Head(rxq))
  /\ gxfp_tls_service_feed_tap_record(Head(rxq))
  /\ rxq' = Tail(rxq)
  /\ UNCHANGED <<calls, sessVars, finger, armed, link, shot, fdtVars>>

\* The read fails, the re-arming command does, or the engine takes no more.
ReadFails ==
  /\ Reading
  /\ \/ UNCHANGED tlsVars
     \/ IsTls(Head(rxq)) /\ FeedFails
  /\ session_set_error("GENERIC")
  /\ Then(<<<<"pump", "">>>>)
  /\ UNCHANGED fdtVars

OnFd == gxfp_session_on_fd \/ ReadFinger \/ ReadUpForDark \/ ReadTls \/ ReadFails

-----------------------------------------------------------------------------
\* gxfp_session_change_state(), one operator per state.
Await(m, fm) ==
  /\ UNCHANGED tlsVars
  /\ \/ /\ gxfp_fdt_flow_set_mode(fm)
        /\ Enter(m, {"request_tick"})
        /\ UNCHANGED <<finger, link, shot, rxq>>
     \/ /\ NeedsCommand(fm)
        /\ session_set_error("GENERIC")
        /\ UNCHANGED fdtVars

Stop(m) ==
  /\ gxfp_fdt_flow_set_mode("IDLE")
  /\ Enter(m, {})
  /\ UNCHANGED <<finger, link, shot, rxq, tlsVars>>

Capture ==
  /\ UNCHANGED fdtVars
  /\ IF mode \in {"IDLE", "WAIT_FINGER_ON"} /\ MayRequest
     THEN /\ gxfp_tls_service_request_capture
          /\ rxq' = AllSuperseded(rxq)
          /\ Enter("CAPTURING", {"request_tick"})
          /\ UNCHANGED <<finger, armed, link>>
     ELSE /\ session_set_error("CAPTURE")
          /\ UNCHANGED tlsVars

gxfp_session_change_state(s) ==
  IF mode \in {"CLOSED", "FAILED"}
  THEN UNCHANGED <<sessVars, sensorVars, fdtVars, tlsVars>>
  ELSE CASE s = "AWAIT_FINGER_ON" -> Await("WAIT_FINGER_ON", "WAIT_DOWN")
         [] s = "AWAIT_FINGER_OFF" -> Await("WAIT_FINGER_OFF", "WAIT_UP")
         [] s = "CAPTURE" -> Capture
         [] s = "INACTIVE" -> Stop("READY")
         [] OTHER -> Stop("IDLE")
=============================================================================
