----------------------------- MODULE GxfpSensor -----------------------------
(***************************************************************************)
(* The sensor's firmware and the kernel's queue of received records, seen  *)
(* from the user-space session: what the session may find when it reads    *)
(* /dev/gxfp, and what its commands do.  The firmware is not in this       *)
(* repository; this is the behaviour its driver is written for.            *)
(*                                                                         *)
(* A record is one of the finger-detection reports UP, DOWN and REVERSE    *)
(* (status 0x0200, 0x0002 and 0x0080/0x0082), the TLS handshake flight HS, *)
(* an image IMG, or an image OLDIMG scanned for a request that a later     *)
(* request has superseded.  The last two are one kind of record to the     *)
(* program; the label is there for the properties.                         *)
(***************************************************************************)
EXTENDS Integers, Sequences

CONSTANT MaxQueue    \* bound: records waiting in the kernel queue

ASSUME MaxQueueAssumption == MaxQueue \in Nat

VARIABLES
  finger,     \* a finger is on the sensor
  armed,      \* the detection the firmware was last told to report
  link,       \* the sensor's end of the TLS session
  shot,       \* the image request the firmware is serving
  rxq         \* the records received and not yet read

sensorVars == <<finger, armed, link, shot, rxq>>

Records == {"UP", "DOWN", "REVERSE", "HS", "IMG", "OLDIMG"}

SensorInit ==
  /\ finger \in BOOLEAN
  /\ armed = "none"
  /\ link = "none"
  /\ shot = "none"
  /\ rxq = <<>>

Send(r) ==
  /\ Len(rxq) < MaxQueue
  /\ rxq' = Append(rxq, r)

\* The person using the sensor puts a finger on it or lifts it.
FingerMoves ==
  /\ finger' = ~finger
  /\ UNCHANGED <<armed, link, shot, rxq>>

\* An armed detection answers once.  FDT_UP may be answered by UP or by the
\* REVERSE encoding, and an armed FDT_DOWN by REVERSE while no finger is there.
FingerReport ==
  /\ \/ armed = "down" /\ finger /\ Send("DOWN")
     \/ armed = "down" /\ ~finger /\ Send("REVERSE")
     \/ armed = "up" /\ ~finger /\ (Send("UP") \/ Send("REVERSE"))
  /\ armed' = "none"
  /\ UNCHANGED <<finger, link, shot>>

\* The firmware occasionally misses a finger-up.
FingerUpMissed ==
  /\ armed = "up"
  /\ armed' = "none"
  /\ UNCHANGED <<finger, link, shot, rxq>>

Handshake ==
  /\ link = "hello"
  /\ Send("HS")
  /\ link' = "up"
  /\ UNCHANGED <<finger, armed, shot>>

Scan ==
  /\ shot # "none"
  /\ link = "up"
  /\ Send(shot)
  /\ shot' = "none"
  /\ UNCHANGED <<finger, armed, link>>

SensorNext == FingerMoves \/ FingerReport \/ FingerUpMissed \/ Handshake \/ Scan

\* The session empties the queue.
gxfp_dev_flush_rxq == rxq' = <<>>

\* A new image request supersedes every image still on its way.
Superseded(r) == IF r = "IMG" THEN "OLDIMG" ELSE r
AllSuperseded(s) == [i \in DOMAIN s |-> Superseded(s[i])]
=============================================================================
