--------------------------- MODULE FpTemperature ---------------------------
(***************************************************************************)
(* The temperature model of a libfprint device (fpi_device_update_temp).   *)
(* The code keeps a ratio that moves exponentially towards 1 while the     *)
(* device is active and towards 0 while it is not.  Only the thresholds    *)
(* matter to the code, so the ratio is one of four bands:                  *)
(*   0  below TEMP_COLD_THRESH                                             *)
(*   1  from there to TEMP_HOT_WARM_THRESH                                 *)
(*   2  from there to TEMP_WARM_HOT_THRESH                                 *)
(*   3  above                                                              *)
(* How far the ratio has moved since the last update is any distance in    *)
(* the direction of the activity.                                          *)
(***************************************************************************)
EXTENDS Naturals

VARIABLES
  temp_current,       \* "COLD", "WARM" or "HOT"
  temp_ratio,         \* the band of temp_current_ratio
  temp_last_active,   \* the device is taken to be heating up
  temp_timeout,       \* an update is scheduled for the next threshold
  has_temp            \* temp_hot_seconds >= 0: the model is not disabled

tempVars == <<temp_current, temp_ratio, temp_last_active, temp_timeout, has_temp>>

Bands == 0..3

TempTypeOK ==
  /\ temp_current \in {"COLD", "WARM", "HOT"}
  /\ temp_ratio \in Bands
  /\ temp_last_active \in BOOLEAN
  /\ temp_timeout \in BOOLEAN
  /\ has_temp \in BOOLEAN

TempInit ==
  /\ temp_current = "COLD"
  /\ temp_ratio = 1
  /\ temp_last_active = FALSE
  /\ temp_timeout = FALSE
  /\ has_temp \in BOOLEAN

Drift == IF temp_last_active THEN temp_ratio..3 ELSE 0..temp_ratio

\* The temperature shown for a ratio: HOT is kept until TEMP_HOT_WARM_THRESH.
Temperature(ratio) ==
  CASE ratio = 0 -> "COLD"
    [] ratio = 1 -> "WARM"
    [] ratio = 2 -> IF temp_current = "HOT" THEN "HOT" ELSE "WARM"
    [] ratio = 3 -> "HOT"

\* There is a threshold ahead, that is, an update is worth scheduling.
NextThreshold(ratio, is_active) == IF is_active THEN ratio < 3 ELSE ratio > 0

\* The bands beyond the threshold the pending timeout was set for.
Crossed ==
  CASE temp_last_active /\ temp_ratio = 0 -> 1..3
    [] temp_last_active /\ temp_ratio > 0 -> {3}
    [] ~temp_last_active /\ temp_ratio > 1 -> 0..1
    [] ~temp_last_active /\ temp_ratio < 2 -> {0}

NoTimeoutWhenActive(ratio, is_active) ==
  IF has_temp
    THEN /\ temp_ratio' = ratio
         /\ temp_current' = Temperature(ratio)
         /\ temp_last_active' = is_active
         /\ temp_timeout' = (~is_active /\ NextThreshold(ratio, is_active))
         /\ UNCHANGED has_temp
    ELSE UNCHANGED tempVars

\* fpi_device_update_temp, without the cancellation of a running action.
UpdateTemp(ratio, is_active) ==
  IF has_temp
    THEN /\ temp_ratio' = ratio
         /\ temp_current' = Temperature(ratio)
         /\ temp_last_active' = is_active
         /\ temp_timeout' = NextThreshold(ratio, is_active)
         /\ UNCHANGED has_temp
    ELSE UNCHANGED tempVars
=============================================================================
