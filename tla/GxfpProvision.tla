--------------------------- MODULE GxfpProvision ---------------------------
(***************************************************************************)
(* scripts/provision-psk.sh over the exchange of GxfpXfer: a fresh key is  *)
(* built, uploaded to the sensor and only then installed on disk, where    *)
(* the driver looks for it.  The script may be interrupted at any step,    *)
(* and is then simply run again.                                           *)
(***************************************************************************)
EXTENDS GxfpXfer

CONSTANTS
  Keys,        \* bound: the keys a run may generate
  Factory,     \* what the sensor holds before the first run
  NoKey,       \* no file on disk
  Torn,        \* a file that install(1) has not finished
  RunsFirst    \* bound: other programs run only before the first key

ASSUME KeysAssumption ==
  /\ Keys \subseteq Args \ {NoArg}
  /\ {Factory, NoKey, Torn} \cap Args = {}
  /\ Factory \notin {NoKey, Torn}

VARIABLES
  psk,         \* the file $PSK
  mcu,         \* the key the sensor holds (external)
  work,        \* the key in $WORK
  step,        \* of the script: "off", "upload", "uploading", "install" or "copy"
  replaced,    \* history: --replace was given once
  rival,       \* history: at the upload, another write was on its way
  reported     \* history: the last run has reported success

provVars == <<psk, mcu, work, step, replaced, rival, reported>>
vars == <<xferVars, provVars>>

TypeOK ==
  /\ XferTypeOK
  /\ psk \in Keys \cup {NoKey, Torn}
  /\ mcu \in Keys \cup {Factory}
  /\ work \in Keys \cup {NoKey}
  /\ step \in {"off", "upload", "uploading", "install", "copy"}
  /\ step = "off" <=> work = NoKey
  /\ replaced \in BOOLEAN /\ rival \in BOOLEAN /\ reported \in BOOLEAN

Init ==
  /\ XferInit
  /\ psk = NoKey /\ mcu = Factory /\ work = NoKey /\ step = "off"
  /\ replaced = FALSE /\ rival = FALSE /\ reported = FALSE

Writes == {i \in DOMAIN wire : wire[i].reply = "PRODUCTION_WRITE_MCU"}

---------------------------------------------------------------------------
\* The script.

AlwaysMayReplace(replace) == TRUE

\* test -e "$PSK" && test "${1:-}" != "--replace"
MayReplace(replace) == psk = NoKey \/ replace

\* Up to the generated key, which is unlike all others.
provision(replace) ==
  /\ step = "off" /\ phase = "idle"
  /\ MayReplace(replace)
  /\ work' \in Keys \ ({psk, mcu} \cup {wire[i].arg : i \in Writes})
  /\ step' = "upload" /\ reported' = FALSE /\ rival' = FALSE
  /\ replaced' = (replaced \/ replace)
  /\ UNCHANGED <<xferVars, psk, mcu>>

\* gxfp_psk_tool --upload-bb010002 is started.
Upload ==
  /\ step = "upload"
  /\ Start(<<gxfp_cmd_production_write_mcu(work)>>)
  /\ step' = "uploading" /\ rival' = (Writes # {})
  /\ UNCHANGED <<psk, mcu, work, replaced, reported>>

InstallAnyway(result) == TRUE

\* set -e: the script goes on only if the tool has returned 0.
GoesOn(result) == result = "ok"

Uploaded ==
  /\ step = "uploading" /\ phase = "idle"
  /\ IF GoesOn(rc) THEN step' = "install" /\ UNCHANGED <<work, rival>>
                   ELSE step' = "off" /\ work' = NoKey /\ rival' = FALSE
  /\ UNCHANGED <<xferVars, psk, mcu, replaced, reported>>

\* install(1) removes the old file, then writes the new one.
InstallBegins ==
  /\ step = "install" /\ step' = "copy"
  /\ psk' \in {NoKey, Torn}
  /\ UNCHANGED <<xferVars, mcu, work, replaced, rival, reported>>

InstallEnds ==
  /\ step = "copy" /\ step' = "off"
  /\ psk' = work /\ work' = NoKey /\ reported' = TRUE
  /\ UNCHANGED <<xferVars, mcu, replaced, rival>>

\* The script is interrupted between two programs, or with install(1).  Its trap
\* removes $WORK and does not exit, but the next command fails for want of its
\* file, and set -e ends the script.
Interrupted ==
  /\ step \in {"upload", "install", "copy"}
  /\ faults < MaxFaults /\ faults' = faults + 1
  /\ step' = "off" /\ work' = NoKey
  /\ rival' = FALSE
  /\ UNCHANGED <<wire, rxq, todo, attempts, phase, rc, stale,
                 psk, mcu, replaced, reported>>

---------------------------------------------------------------------------
\* The other programs and the sensor.

\* None of them reads or changes a key.
Run ==
  /\ step = "off"
  /\ RunsFirst => psk = NoKey /\ mcu = Factory /\ ~replaced
  /\ \E p \in Programs : Start(p)
  /\ UNCHANGED provVars

HostStep ==
  /\ \/ gxfp_goodix_send_async
     \/ gxfp_goodix_wait_selected
     \/ DeadlinePasses
     \/ ReadFails
     \/ Killed
  /\ UNCHANGED provVars

SensorExecutes ==
  \E status \in {0, 1} :
    /\ Execute(status)
    /\ mcu' = IF Head(wire).reply = "PRODUCTION_WRITE_MCU" /\ status = 0
                THEN Head(wire).arg ELSE mcu
    /\ UNCHANGED <<psk, work, step, replaced, rival, reported>>

Others ==
  /\ SensorEvent \/ (step = "off" /\ SendUnawaited)
  /\ UNCHANGED provVars

Next ==
  \/ \E replace \in BOOLEAN : provision(replace)
  \/ Upload \/ Uploaded \/ InstallBegins \/ InstallEnds \/ Interrupted
  \/ Run \/ HostStep \/ SensorExecutes \/ Others

Spec == Init /\ [][Next]_vars

\* A running process is scheduled and its clock advances; nothing is assumed of
\* the sensor.
Fairness ==
  /\ WF_vars(gxfp_goodix_send_async /\ UNCHANGED provVars)
  /\ WF_vars(DeadlinePasses /\ UNCHANGED provVars)

FairSpec == Spec /\ Fairness

---------------------------------------------------------------------------
\* What must hold.

\* When the script reports success and no write of an earlier, interrupted run
\* was on its way when it uploaded, the sensor holds the installed key: retries,
\* lost answers and refusals included.
InstalledMatches == reported /\ ~rival => psk = mcu

\* Without --replace, a pair of keys that agree is never touched, neither on
\* disk nor by a late write of an interrupted run.
PairKept == [][~replaced /\ psk = mcu => psk' = psk /\ mcu' = mcu]_vars
=============================================================================
