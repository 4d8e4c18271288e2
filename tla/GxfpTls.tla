------------------------------ MODULE GxfpTls -------------------------------
(***************************************************************************)
(* The TLS service, tls/tls_service.c: handshake, image request, and the   *)
(* sink that keeps the first image whose checksum is right.  mbedtls is    *)
(* external: a record fed to the engine waits in inbox until a step pulls  *)
(* it.  capture_sent is the negation of pending_capture whenever the code  *)
(* reads it, and is left out.                                              *)
(***************************************************************************)
EXTENDS GxfpSensor

VARIABLES
  svc,        \* svc->impl->state, or NULL
  pending,    \* pending_capture
  inbox,      \* records fed to the engine and not yet pulled
  img,        \* the image in the sink
  late        \* cfg.timeout_ms have passed without progress

tlsVars == <<svc, pending, inbox, img, late>>

gxfp_tls_service_state == IF svc = "NULL" THEN "INIT" ELSE svc

gxfp_tls_service_free ==
  /\ svc' = "NULL"
  /\ pending' = FALSE
  /\ inbox' = <<>>
  /\ img' = "none"
  /\ late' = FALSE

\* TLS_SERVER_INIT ends what the sensor was serving.
gxfp_cmd_tls_server_init ==
  /\ link' = "hello"
  /\ shot' = "none"

gxfp_cmd_get_image == shot' = "IMG"

gxfp_tls_service_init ==
  /\ gxfp_dev_flush_rxq
  /\ gxfp_cmd_tls_server_init
  /\ svc' = "CONNECTING"
  /\ pending' = FALSE
  /\ inbox' = <<>>
  /\ img' = "none"
  /\ late' = FALSE

IsTls(r) == r \in {"HS", "IMG", "OLDIMG"}

gxfp_tls_service_feed_tap_record(r) ==
  /\ inbox' = IF IsTls(r) THEN Append(inbox, r) ELSE inbox
  /\ late' = (late /\ (svc = "CONNECTING" \/ ~IsTls(r)))
  /\ UNCHANGED <<svc, pending, img>>

FeedFails ==
  /\ svc' = "ERROR"
  /\ UNCHANGED <<pending, inbox, img, late>>

MayRequest == svc \in {"CONNECTED", "DONE"}
SinkKept == Superseded(img)
SinkReset == "none"

gxfp_tls_service_request_capture ==
  /\ pending' = TRUE
  /\ img' = SinkReset
  /\ svc' = "CONNECTED"
  /\ inbox' = AllSuperseded(inbox)
  /\ shot' = Superseded(shot)
  /\ UNCHANGED late

\* svc_timed_out()
NeverTimedOut == FALSE
svc_timed_out == late

\* The outcomes of one gxfp_tls_service_step(): an error, progress (the
\* caller steps again), or nothing more to do for now.
StepFails ==
  /\ \/ svc = "NULL" \/ svc = "ERROR"
     \/ svc \in {"CONNECTING", "CAPTURING"} /\ inbox = <<>> /\ svc_timed_out
     \/ svc \in {"CONNECTING", "CAPTURING"} /\ inbox # <<>>
     \/ svc = "CONNECTED" /\ pending
  /\ svc' = IF svc = "NULL" THEN svc ELSE "ERROR"
  /\ UNCHANGED <<pending, inbox, img, late>>

HandshakeDone ==
  /\ svc = "CONNECTING"
  /\ inbox # <<>> /\ Head(inbox) = "HS"
  /\ svc' = "CONNECTED"
  /\ inbox' = Tail(inbox)
  /\ UNCHANGED <<pending, img, late, shot>>

\* The request and svc_mark_capture_started().
GetImage ==
  /\ svc = "CONNECTED" /\ pending
  /\ svc' = "CAPTURING"
  /\ pending' = FALSE
  /\ late' = FALSE
  /\ gxfp_cmd_get_image
  /\ UNCHANGED <<inbox, img>>

\* A pulled image has the right checksum and completes the capture, unless
\* the sink already holds one.
PullImage ==
  /\ svc = "CAPTURING"
  /\ inbox # <<>> /\ Head(inbox) # "HS"
  /\ img' = IF img = "none" THEN Head(inbox) ELSE img
  /\ svc' = "DONE"
  /\ inbox' = Tail(inbox)
  /\ UNCHANGED <<pending, late, shot>>

\* A pulled image has a wrong checksum and is ignored.
PullRubbish ==
  /\ svc = "CAPTURING"
  /\ inbox # <<>> /\ Head(inbox) # "HS"
  /\ inbox' = Tail(inbox)
  /\ late' = FALSE
  /\ UNCHANGED <<svc, pending, img, shot>>

StepProgresses == HandshakeDone \/ GetImage \/ PullImage \/ PullRubbish

StepIdles ==
  /\ \/ svc = "CONNECTED" /\ ~pending
     \/ svc = "DONE"
     \/ svc \in {"CONNECTING", "CAPTURING"} /\ inbox = <<>> /\ ~svc_timed_out
  /\ UNCHANGED <<svc, pending, inbox, img, late, shot>>

\* gxfp_plain_image_sink_extract(), reached from get_raw_image.
gxfp_tls_service_get_raw_image ==
  /\ img' = "none"
  /\ UNCHANGED <<svc, pending, inbox, late>>

\* gxfp_monotonic_ms() moves past the timeout.
TlsTimeoutPasses ==
  /\ svc \in {"CONNECTING", "CAPTURING"}
  /\ ~late
  /\ late' = TRUE
  /\ UNCHANGED <<svc, pending, inbox, img>>
=============================================================================
