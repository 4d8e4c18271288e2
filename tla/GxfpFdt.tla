------------------------------ MODULE GxfpFdt -------------------------------
(***************************************************************************)
(* Finger detection, flow/fdt.c: the flow's mode, the last state a record  *)
(* reported, and the bounded re-arming of a wait for the finger to lift.   *)
(* The baseline tables sent along with every command are left out.         *)
(***************************************************************************)
EXTENDS GxfpSensor

CONSTANT MaxRetries   \* FDT_WAIT_UP_MAX_RETRIES

ASSUME MaxRetriesAssumption == MaxRetries \in Nat

VARIABLES
  fmode,      \* flow->mode
  fstate,     \* flow->state
  retries,    \* flow->wait_up_retries
  overdue     \* FDT_WAIT_UP_RETRY_MS have passed since wait_up_armed_ms

fdtVars == <<fmode, fstate, retries, overdue>>

gxfp_fdt_flow_init ==
  /\ fmode' = "IDLE"
  /\ fstate' = "UNKNOWN"
  /\ retries' = 0
  /\ overdue' = FALSE

\* The commands that arm a detection.  Each follows a gxfp_cmd_fdt_set_mode(),
\* which carries a baseline table and arms nothing.
gxfp_cmd_fdt_send_down == armed' = "down"
gxfp_cmd_fdt_send_up == armed' = "up"

NeedsCommand(m) == m \notin {fmode, "IDLE"}

gxfp_fdt_flow_set_mode(m) ==
  /\ fmode' = m
  /\ UNCHANGED fstate
  /\ \/ /\ ~NeedsCommand(m)
        /\ UNCHANGED <<armed, retries, overdue>>
     \/ /\ NeedsCommand(m) /\ m = "WAIT_DOWN"
        /\ gxfp_cmd_fdt_send_down
        /\ UNCHANGED <<retries, overdue>>
     \/ /\ NeedsCommand(m) /\ m = "WAIT_UP"
        /\ gxfp_cmd_fdt_send_up
        /\ retries' = 0 /\ overdue' = FALSE

\* The events a record is taken for; a REVERSE answers an armed FDT_UP.
fdt_status_to_events(r) ==
  IF r = "REVERSE" /\ fmode = "WAIT_UP" THEN {"REVERSE", "UP"}
  ELSE {r} \cap {"UP", "DOWN", "REVERSE"}

Rearms(r) == r = "REVERSE" /\ fmode = "WAIT_DOWN"

gxfp_fdt_flow_feed_record(r) ==
  /\ IF Rearms(r) THEN gxfp_cmd_fdt_send_down ELSE UNCHANGED armed
  /\ fstate' = CASE "UP" \in fdt_status_to_events(r) -> "UP"
                 [] r = "DOWN" -> "DOWN"
                 [] OTHER -> fstate
  /\ UNCHANGED <<fmode, retries, overdue>>

RetriesUnknown == fmode = "WAIT_UP" /\ fstate = "UNKNOWN" /\ overdue
AwaitsRetry == fmode = "WAIT_UP" /\ fstate # "UP" /\ overdue
RetriesForEver == AwaitsRetry
RetryDue == AwaitsRetry /\ retries < MaxRetries
RetriesSpent == AwaitsRetry /\ retries >= MaxRetries

\* The re-arming step of gxfp_fdt_flow_poll().
Rearm ==
  /\ gxfp_cmd_fdt_send_up
  /\ retries' = retries + 1
  /\ overdue' = FALSE
  /\ UNCHANGED <<fmode, fstate>>

\* gxfp_monotonic_ms() moves past the retry period.
RetryPeriodPasses ==
  /\ fmode = "WAIT_UP"
  /\ ~overdue
  /\ overdue' = TRUE
  /\ UNCHANGED <<fmode, fstate, retries>>
=============================================================================
