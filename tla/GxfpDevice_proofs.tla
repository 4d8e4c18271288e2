-------------------------- MODULE GxfpDevice_proofs -------------------------
(***************************************************************************)
(* Proofs about GxfpDevice, for every number of enrolment stages and       *)
(* retries, every bound on the kernel queue and every set of actions.      *)
(*                                                                         *)
(* The argument has two parts.  Below the call stack, the images on their  *)
(* way are accounted for: a capture that is asked for finds none.  Above,  *)
(* the invariant says which call stacks occur and, for each function that  *)
(* can be on top, in which states it is called.                            *)
(***************************************************************************)
EXTENDS GxfpDevice, SequenceTheorems, TLAPS

-----------------------------------------------------------------------------
(* Images in the kernel queue and in the TLS engine. *)

Images == {"IMG", "OLDIMG"}
NoImage(s) == \A i \in 1..Len(s) : s[i] \notin Images
OneAtMost(s) == \A i, j \in 1..Len(s) : s[i] \in Images /\ s[j] \in Images => i = j
NoneOld(s) == \A i \in 1..Len(s) : s[i] # "OLDIMG"

\* What is left of a queue when its first record is taken.
LEMMA TailImages ==
  ASSUME NEW S, NEW s \in Seq(S), s # <<>>
  PROVE  /\ Tail(s) \in Seq(S) /\ Len(Tail(s)) = Len(s) - 1
         /\ Head(s) \in S /\ (NoneOld(s) => Head(s) # "OLDIMG")
         /\ NoImage(s) => NoImage(Tail(s)) /\ Head(s) \notin Images
         /\ NoneOld(s) => NoneOld(Tail(s))
         /\ OneAtMost(s) => OneAtMost(Tail(s))
         /\ OneAtMost(s) /\ Head(s) \in Images => NoImage(Tail(s))
<1>1. /\ Tail(s) \in Seq(S) /\ Len(Tail(s)) = Len(s) - 1 /\ Head(s) = s[1] /\ Head(s) \in S
      /\ Len(s) \in Nat \ {0}
      /\ \A i \in 1..Len(s) - 1 : Tail(s)[i] = s[i + 1]
  OBVIOUS
<1> DEFINE n == Len(s)
           u == Tail(s)
<1>2. /\ n \in Nat \ {0} /\ Len(u) = n - 1 /\ \A i \in 1..n - 1 : u[i] = s[i + 1]
      /\ Head(s) = s[1]
  BY <1>1
<1>3. \A i \in 1..n - 1 : i + 1 \in 1..n /\ i + 1 # 1
  BY <1>2
<1>4. 1 \in 1..n
  BY <1>2
<1> HIDE DEF n, u
<1>5. NoneOld(s) => Head(s) # "OLDIMG" /\ NoneOld(u)
  BY <1>2, <1>3, <1>4 DEF NoneOld, n
<1>6. NoImage(s) => NoImage(u) /\ Head(s) \notin Images
  BY <1>2, <1>3, <1>4 DEF NoImage, n
<1>7. OneAtMost(s) => OneAtMost(u)
  <2>1. \A i, j \in 1..n - 1 : i + 1 = j + 1 => i = j
    BY <1>2
  <2> QED
    BY <1>2, <1>3, <2>1, ZenonT(30) DEF OneAtMost, n
<1>8. OneAtMost(s) /\ Head(s) \in Images => NoImage(u)
  BY <1>2, <1>3, <1>4 DEF OneAtMost, NoImage, n
<1> QED
  BY <1>1, <1>5, <1>6, <1>7, <1>8 DEF u

\* What a queue holds when a record is added.
LEMMA AppendImages ==
  ASSUME NEW S, NEW s \in Seq(S), NEW r \in S
  PROVE  /\ Append(s, r) \in Seq(S) /\ Len(Append(s, r)) = Len(s) + 1
         /\ NoImage(s) /\ r \notin Images => NoImage(Append(s, r))
         /\ NoneOld(s) /\ r # "OLDIMG" => NoneOld(Append(s, r))
         /\ NoImage(s) => OneAtMost(Append(s, r))
         /\ OneAtMost(s) /\ r \notin Images => OneAtMost(Append(s, r))
<1> DEFINE n == Len(s)
           u == Append(s, r)
<1>1. /\ u \in Seq(S) /\ Len(u) = n + 1 /\ n \in Nat
      /\ \A i \in 1..n : u[i] = s[i]
      /\ u[n + 1] = r
  OBVIOUS
<1>2. \A i \in 1..n + 1 : i \in 1..n \/ i = n + 1
  BY <1>1
<1> HIDE DEF n, u
<1>3. NoImage(s) /\ r \notin Images => NoImage(u)
  BY <1>1, <1>2 DEF NoImage, n
<1>4. NoneOld(s) /\ r # "OLDIMG" => NoneOld(u)
  BY <1>1, <1>2 DEF NoneOld, n
<1>5. NoImage(s) => OneAtMost(u)
  BY <1>1, <1>2 DEF NoImage, OneAtMost, n
<1>6. OneAtMost(s) /\ r \notin Images => OneAtMost(u)
  BY <1>1, <1>2 DEF OneAtMost, n
<1> QED
  BY <1>1, <1>3, <1>4, <1>5, <1>6 DEF n, u

\* A request supersedes nothing in a queue without images.
LEMMA SupersededImages ==
  ASSUME NEW S, NEW s \in Seq(S), NoImage(s)
  PROVE  /\ AllSuperseded(s) \in Seq(S) /\ Len(AllSuperseded(s)) = Len(s)
         /\ NoImage(AllSuperseded(s)) /\ NoneOld(AllSuperseded(s))
<1>1. Len(s) \in Nat /\ DOMAIN s = 1..Len(s) /\ \A i \in 1..Len(s) : s[i] \in S
  OBVIOUS
<1>2. \A i \in 1..Len(s) : AllSuperseded(s)[i] = s[i]
  BY <1>1 DEF AllSuperseded, Superseded, NoImage, Images
<1>3. AllSuperseded(s) = [i \in 1..Len(s) |-> s[i]]
  BY <1>1, <1>2 DEF AllSuperseded
<1>4. [i \in 1..Len(s) |-> s[i]] = s
  BY <1>1
<1>5. NoneOld(s)
  BY DEF NoImage, NoneOld, Images
<1> QED
  BY <1>3, <1>4, <1>5

LEMMA EmptyImages == NoImage(<<>>) /\ NoneOld(<<>>) /\ OneAtMost(<<>>)
  BY DEF NoImage, NoneOld, OneAtMost

-----------------------------------------------------------------------------
(* The state below the image device. *)

TlsRecords == {"HS", "IMG", "OLDIMG"}

SensorTyped ==
  /\ finger \in BOOLEAN /\ armed \in {"none", "down", "up"}
  /\ link \in {"none", "hello", "up"} /\ shot \in {"none", "IMG", "OLDIMG"}
  /\ rxq \in Seq(Records) /\ Len(rxq) <= MaxQueue
FdtTyped ==
  /\ fmode \in {"IDLE", "WAIT_DOWN", "WAIT_UP"} /\ fstate \in {"UNKNOWN", "UP", "DOWN"}
  /\ retries \in 0..MaxRetries /\ overdue \in BOOLEAN
TlsTyped ==
  /\ svc \in {"NULL", "CONNECTING", "CONNECTED", "CAPTURING", "DONE", "ERROR"}
  /\ pending \in BOOLEAN /\ late \in BOOLEAN
  /\ inbox \in Seq(TlsRecords) /\ img \in {"none", "IMG", "OLDIMG"}
SessionTyped ==
  /\ mode \in Modes /\ dark \in BOOLEAN /\ img_ready \in BOOLEAN
  /\ ev \subseteq Events

\* No image is on its way when the TLS service could be asked for one, and at
\* most one while it waits for it: none is ever superseded.
OneImage ==
  /\ shot # "OLDIMG" /\ img # "OLDIMG" /\ NoneOld(rxq) /\ NoneOld(inbox)
  /\ svc \in {"CONNECTING", "CONNECTED", "DONE"} =>
       shot = "none" /\ NoImage(rxq) /\ NoImage(inbox)
  /\ svc = "CAPTURING" =>
       /\ OneAtMost(rxq) /\ OneAtMost(inbox)
       /\ shot # "none" => NoImage(rxq) /\ NoImage(inbox)
       /\ NoImage(rxq) \/ NoImage(inbox)

LowInv == SensorTyped /\ FdtTyped /\ TlsTyped /\ SessionTyped /\ OneImage

\* Typing and the image account split over the steps that only touch one part.
ImageVars == <<shot, rxq, svc, inbox, img>>

LEMMA SameLow == ASSUME LowInv, UNCHANGED lowVars PROVE LowInv'
  BY DEF LowInv, SensorTyped, FdtTyped, TlsTyped, SessionTyped, OneImage, lowVars, sessVars,
         sensorVars, fdtVars, tlsVars, NoneOld, NoImage, OneAtMost

LEMMA SameImages == ASSUME OneImage, UNCHANGED ImageVars PROVE OneImage'
  BY DEF OneImage, ImageVars, NoneOld, NoImage, OneAtMost

\* The sensor reports a finger, answers the handshake or sends the image.
LEMMA SensorKeepsLow == ASSUME LowInv, Sensor PROVE LowInv'
<1> USE DEF LowInv
<1>1. FdtTyped' /\ TlsTyped' /\ SessionTyped'
  BY DEF Sensor, FdtTyped, TlsTyped, SessionTyped, sessVars, fdtVars, tlsVars
<1>2. UNCHANGED <<svc, inbox, img>>
  BY DEF Sensor, tlsVars
<1>3. CASE FingerMoves \/ FingerUpMissed
  <2>1. SensorTyped'
    BY <1>3, Zenon DEF FingerMoves, FingerUpMissed, SensorTyped
  <2>2. OneImage'
    BY <1>2, <1>3, SameImages DEF FingerMoves, FingerUpMissed, ImageVars
  <2> QED
    BY <1>1, <2>1, <2>2
<1>4. ASSUME NEW r \in {"UP", "DOWN", "REVERSE", "HS"}, Send(r), UNCHANGED shot,
             armed' \in {"none", "down", "up"}, link' \in {"none", "hello", "up"},
             finger' \in BOOLEAN
      PROVE  SensorTyped' /\ OneImage'
  <2>1. r \in Records /\ r \notin Images /\ r # "OLDIMG"
    BY DEF Records, Images
  <2>2. rxq \in Seq(Records) /\ rxq' = Append(rxq, r) /\ Len(rxq) < MaxQueue
    BY <1>4 DEF Send, SensorTyped
  <2>3. /\ rxq' \in Seq(Records) /\ Len(rxq') = Len(rxq) + 1
        /\ NoImage(rxq) => NoImage(rxq')
        /\ NoneOld(rxq) => NoneOld(rxq')
        /\ OneAtMost(rxq) => OneAtMost(rxq')
    BY ONLY <2>1, <2>2, AppendImages
  <2>4. SensorTyped'
    BY <1>4, <2>2, <2>3, MaxQueueAssumption DEF SensorTyped
  <2>5. OneImage'
    BY <1>2, <1>4, <2>3 DEF OneImage, NoneOld, NoImage, OneAtMost
  <2> QED
    BY <2>4, <2>5
<1>5. CASE FingerReport
  <2>1. PICK r \in {"UP", "DOWN", "REVERSE"} : Send(r)
    BY <1>5 DEF FingerReport
  <2> QED
    BY <1>1, <1>4, <1>5, <2>1 DEF FingerReport, SensorTyped
<1>6. CASE Handshake
  BY <1>1, <1>4, <1>6 DEF Handshake, SensorTyped
<1>7. CASE Scan
  <2>1. shot = "IMG" /\ shot \in Records /\ shot' = "none"
    BY <1>7 DEF Scan, OneImage, SensorTyped, Records
  <2>2. rxq \in Seq(Records) /\ rxq' = Append(rxq, shot) /\ Len(rxq) < MaxQueue
    BY <1>7 DEF Scan, Send, SensorTyped
  <2>3. /\ rxq' \in Seq(Records) /\ Len(rxq') = Len(rxq) + 1
        /\ NoneOld(rxq) => NoneOld(rxq')
        /\ NoImage(rxq) => OneAtMost(rxq')
    BY ONLY <2>1, <2>2, AppendImages
  <2>4. SensorTyped'
    BY <1>7, <2>1, <2>2, <2>3, MaxQueueAssumption DEF SensorTyped, Scan
  <2>5. OneImage'
    <3>1. svc' \notin {"CONNECTING", "CONNECTED", "DONE"}
      BY <1>2, <2>1 DEF OneImage
    <3>2. NoneOld(rxq) /\ NoneOld(inbox) /\ NoneOld(inbox')
      BY <1>2 DEF OneImage
    <3>3. svc = "CAPTURING" => NoImage(rxq) /\ NoImage(inbox') /\ OneAtMost(inbox')
      BY <1>2, <2>1 DEF OneImage
    <3> QED
      BY <1>2, <2>1, <2>3, <3>1, <3>2, <3>3 DEF OneImage
  <2> QED
    BY <1>1, <2>4, <2>5
<1> QED
  BY <1>3, <1>5, <1>6, <1>7 DEF Sensor, SensorNext

\* The clock passes a retry period or a timeout.
LEMMA ClockKeepsLow == ASSUME LowInv, Clock PROVE LowInv'
<1>1. OneImage'
  BY SameImages DEF LowInv, Clock, ImageVars, RetryPeriodPasses, TlsTimeoutPasses, sensorVars,
                    tlsVars
<1>2. SensorTyped' /\ SessionTyped'
  BY DEF LowInv, Clock, SensorTyped, SessionTyped, sensorVars, sessVars
<1>3. FdtTyped'
  BY Zenon DEF LowInv, Clock, RetryPeriodPasses, FdtTyped, fdtVars
<1>4. TlsTyped'
  BY Zenon DEF LowInv, Clock, TlsTimeoutPasses, TlsTyped, tlsVars
<1> QED
  BY <1>1, <1>2, <1>3, <1>4 DEF LowInv

\* Most steps only lose images.
LEMMA FewerImages ==
  ASSUME OneImage, rxq' \in {rxq, <<>>}, shot' \in {shot, "none"}, inbox' \in {inbox, <<>>},
         img' \in {img, "none"}, svc' \in {svc, "NULL", "ERROR"}
  PROVE  OneImage'
<1>1. /\ NoImage(rxq) => NoImage(rxq')
      /\ NoneOld(rxq) => NoneOld(rxq')
      /\ OneAtMost(rxq) => OneAtMost(rxq')
  BY EmptyImages DEF NoImage, NoneOld, OneAtMost
<1>2. /\ NoImage(inbox) => NoImage(inbox')
      /\ NoneOld(inbox) => NoneOld(inbox')
      /\ OneAtMost(inbox) => OneAtMost(inbox')
  BY EmptyImages DEF NoImage, NoneOld, OneAtMost
<1> QED
  BY <1>1, <1>2 DEF OneImage

LEMMA SetErrorTyped ==
  ASSUME SensorTyped, SessionTyped, NEW target, session_set_error(target)
  PROVE  SensorTyped' /\ SessionTyped' /\ rxq' \in {rxq, <<>>} /\ shot' \in {shot, "none"}
<1>1. SessionTyped'
  BY DEF SessionTyped, session_set_error, Error, Modes, Events
<1>2. \/ UNCHANGED sensorVars
      \/ rxq' = <<>> /\ finger' = finger /\ armed' \in {armed, "none"} /\ link' \in {link, "none"}
         /\ shot' \in {shot, "none"}
  BY DEF session_set_error, gxfp_device_recovery, gxfp_dev_flush_rxq
<1>3. <<>> \in Seq(Records) /\ Len(<<>>) <= MaxQueue
  BY MaxQueueAssumption
<1> QED
  BY <1>1, <1>2, <1>3, Zenon DEF SensorTyped, sensorVars

LEMMA EnterTyped ==
  ASSUME SessionTyped, NEW m \in Modes, NEW es \in SUBSET Events, Enter(m, es)
  PROVE  SessionTyped'
  BY DEF SessionTyped, Enter

LEMMA SetModeTyped ==
  ASSUME FdtTyped, SensorTyped, NEW m \in {"IDLE", "WAIT_DOWN", "WAIT_UP"},
         gxfp_fdt_flow_set_mode(m), UNCHANGED <<finger, link, shot, rxq>>
  PROVE  FdtTyped' /\ SensorTyped'
<1>1. 0 \in 0..MaxRetries
  BY MaxRetriesAssumption
<1>2. FdtTyped'
  BY <1>1, Zenon DEF FdtTyped, gxfp_fdt_flow_set_mode
<1>3. armed' \in {armed, "down", "up"}
  BY DEF gxfp_fdt_flow_set_mode, gxfp_cmd_fdt_send_down, gxfp_cmd_fdt_send_up
<1> QED
  BY <1>2, <1>3 DEF SensorTyped

LEMMA FlowInitTyped == ASSUME gxfp_fdt_flow_init PROVE FdtTyped'
<1>1. 0 \in 0..MaxRetries
  BY MaxRetriesAssumption
<1> QED
  BY <1>1, Zenon DEF FdtTyped, gxfp_fdt_flow_init

\* gxfp_tls_service_init() flushes what was on its way.
LEMMA TlsInitTyped ==
  ASSUME SensorTyped, gxfp_tls_service_init, UNCHANGED <<finger, armed>>
  PROVE  SensorTyped' /\ TlsTyped' /\ OneImage'
<1>1. <<>> \in Seq(Records) /\ <<>> \in Seq(TlsRecords) /\ Len(<<>>) <= MaxQueue
  BY MaxQueueAssumption
<1>2. SensorTyped'
  BY <1>1 DEF SensorTyped, gxfp_tls_service_init, gxfp_dev_flush_rxq, gxfp_cmd_tls_server_init
<1>3. TlsTyped'
  BY <1>1, Zenon DEF TlsTyped, gxfp_tls_service_init
<1>4. OneImage'
  BY EmptyImages DEF OneImage, gxfp_tls_service_init, gxfp_dev_flush_rxq, gxfp_cmd_tls_server_init
<1> QED
  BY <1>2, <1>3, <1>4

LEMMA TlsFreeTyped ==
  ASSUME gxfp_tls_service_free
  PROVE  TlsTyped' /\ svc' = "NULL" /\ inbox' = <<>> /\ img' = "none"
<1>1. <<>> \in Seq(TlsRecords)
  OBVIOUS
<1> QED
  BY <1>1, Zenon DEF TlsTyped, gxfp_tls_service_free

\* A capture is asked for while no image is on its way.
LEMMA RequestTyped ==
  ASSUME SensorTyped, TlsTyped, OneImage, MayRequest, gxfp_tls_service_request_capture,
         NEW s \in {rxq, Tail(rxq)}, s = rxq \/ rxq # <<>>, rxq' = AllSuperseded(s),
         finger' = finger, link' = link, armed' \in {"none", "down", "up"}
  PROVE  SensorTyped' /\ TlsTyped' /\ OneImage'
<1>1. shot = "none" /\ NoImage(rxq) /\ NoImage(inbox) /\ NoneOld(rxq)
  BY DEF OneImage, MayRequest
<1>2. rxq \in Seq(Records) /\ Len(rxq) <= MaxQueue /\ Len(rxq) \in Nat /\ inbox \in Seq(TlsRecords)
  BY DEF SensorTyped, TlsTyped
<1>3. s \in Seq(Records) /\ NoImage(s) /\ Len(s) \in Nat /\ Len(s) <= Len(rxq)
  <2>1. rxq # <<>> => /\ Tail(rxq) \in Seq(Records) /\ Len(Tail(rxq)) = Len(rxq) - 1
                     /\ NoImage(Tail(rxq))
    BY ONLY <1>1, <1>2, TailImages
  <2>2. CASE s = rxq
    BY <1>1, <1>2, <2>2
  <2>3. CASE s = Tail(rxq) /\ rxq # <<>>
    BY ONLY <1>2, <2>1, <2>3
  <2> QED
    BY <2>2, <2>3
<1>4. /\ rxq' \in Seq(Records) /\ Len(rxq') = Len(s) /\ NoImage(rxq') /\ NoneOld(rxq')
  BY <1>3, SupersededImages
<1>5. inbox' \in Seq(TlsRecords) /\ NoImage(inbox') /\ NoneOld(inbox')
  BY <1>1, <1>2, SupersededImages DEF gxfp_tls_service_request_capture
<1>6. shot' = "none" /\ img' = "none" /\ svc' = "CONNECTED" /\ pending' = TRUE /\ late' = late
  BY <1>1 DEF gxfp_tls_service_request_capture, Superseded, SinkReset
<1>7. SensorTyped'
  BY <1>2, <1>3, <1>4, <1>6, MaxQueueAssumption DEF SensorTyped
<1>8. TlsTyped'
  BY <1>5, <1>6, Zenon DEF TlsTyped
<1>9. OneImage'
  BY <1>4, <1>5, <1>6 DEF OneImage
<1> QED
  BY <1>7, <1>8, <1>9

\* One step of the TLS service.
LEMMA PollKeepsLow == ASSUME LowInv, session_poll_tls PROVE LowInv'
<1> USE DEF LowInv
<1>1. FdtTyped'
  BY DEF session_poll_tls, FdtTyped, fdtVars
<1>2. CASE StepFails /\ session_set_error("GENERIC")
  <2>1. svc' \in {svc, "NULL", "ERROR"} /\ UNCHANGED <<pending, inbox, img, late>>
    BY <1>2 DEF StepFails
  <2>2. SensorTyped' /\ SessionTyped' /\ rxq' \in {rxq, <<>>} /\ shot' \in {shot, "none"}
    BY <1>2, SetErrorTyped
  <2>3. TlsTyped'
    BY <2>1 DEF TlsTyped
  <2>4. OneImage'
    BY <2>1, <2>2, FewerImages
  <2> QED
    BY <1>1, <2>2, <2>3, <2>4
<1>3. CASE UNCHANGED <<sessVars, finger, armed, link, rxq>> /\ (StepProgresses \/ StepIdles)
  <2>1. SessionTyped'
    BY <1>3 DEF SessionTyped, sessVars
  <2>2. CASE StepIdles
    <3>1. OneImage'
      BY <1>3, <2>2, SameImages DEF StepIdles, ImageVars
    <3> QED
      BY <1>1, <1>3, <2>1, <2>2, <3>1 DEF StepIdles, SensorTyped, TlsTyped
  <2>3. CASE GetImage
    <3>1. shot = "none" /\ NoImage(rxq) /\ NoImage(inbox)
      BY <2>3 DEF GetImage, OneImage
    <3>2. OneAtMost(rxq) /\ OneAtMost(inbox)
      BY <3>1 DEF OneAtMost, NoImage
    <3>3. UNCHANGED <<rxq, inbox, img>> /\ svc' = "CAPTURING" /\ shot' = "IMG"
      BY <1>3, <2>3 DEF GetImage, gxfp_cmd_get_image
    <3>4. OneImage'
      BY <3>1, <3>2, <3>3 DEF OneImage, NoImage, NoneOld, OneAtMost
    <3> QED
      BY <1>1, <1>3, <2>1, <2>3, <3>3, <3>4, Zenon DEF GetImage, SensorTyped, TlsTyped
  <2>4. CASE HandshakeDone \/ PullImage \/ PullRubbish
    <3>1. inbox \in Seq(TlsRecords) /\ inbox # <<>> /\ inbox' = Tail(inbox)
      BY <2>4 DEF HandshakeDone, PullImage, PullRubbish, TlsTyped
    <3>2. /\ inbox' \in Seq(TlsRecords)
          /\ Head(inbox) \in TlsRecords /\ (NoneOld(inbox) => Head(inbox) # "OLDIMG")
          /\ NoImage(inbox) => NoImage(inbox') /\ Head(inbox) \notin Images
          /\ NoneOld(inbox) => NoneOld(inbox')
          /\ OneAtMost(inbox) => OneAtMost(inbox')
          /\ OneAtMost(inbox) /\ Head(inbox) \in Images => NoImage(inbox')
      BY ONLY <3>1, TailImages
    <3>3. UNCHANGED <<finger, armed, link, rxq, shot, pending>>
      BY <1>3, <2>4 DEF HandshakeDone, PullImage, PullRubbish
    <3>4. SensorTyped'
      BY <3>3 DEF SensorTyped
    <3>5. TlsTyped'
      BY <2>4, <3>2, <3>3, Zenon DEF TlsTyped, HandshakeDone, PullImage, PullRubbish, TlsRecords
    <3>6. /\ NoImage(rxq) => NoImage(rxq')
          /\ NoneOld(rxq) => NoneOld(rxq')
          /\ OneAtMost(rxq) => OneAtMost(rxq')
      BY <3>3
    <3>7. CASE HandshakeDone
      BY <1>1, <2>1, <3>2, <3>3, <3>4, <3>5, <3>6, <3>7 DEF HandshakeDone, OneImage
    <3>8. CASE PullRubbish
      BY <1>1, <2>1, <3>2, <3>3, <3>4, <3>5, <3>6, <3>8 DEF PullRubbish, OneImage
    <3>9. CASE PullImage
      <4>1. Head(inbox) \in Images
        BY <3>2, <3>9, Zenon DEF PullImage, TlsRecords, Images
      <4>2. NoImage(inbox') /\ NoneOld(inbox') /\ img' # "OLDIMG" /\ NoneOld(rxq')
        BY <3>2, <3>6, <3>9, <4>1, Zenon DEF OneImage, PullImage
      <4>3. NoImage(rxq') /\ shot' = "none"
        BY <3>2, <3>3, <3>6, <3>9, <4>1 DEF OneImage, PullImage
      <4> QED
        BY <1>1, <2>1, <3>4, <3>5, <3>9, <4>2, <4>3 DEF OneImage, PullImage
    <3> QED
      BY <1>1, <2>1, <2>4, <3>4, <3>5, <3>7, <3>8, <3>9
  <2> QED
    BY <1>3, <2>2, <2>3, <2>4 DEF StepProgresses
<1> QED
  BY <1>2, <1>3 DEF session_poll_tls

\* The rest of a pump.
LEMMA PumpRestKeepsLow == ASSUME LowInv, PumpRest PROVE LowInv'
<1> USE DEF LowInv
<1>1. CASE session_set_error("GENERIC") /\ UNCHANGED <<tlsVars, fdtVars>>
  <2>1. SensorTyped' /\ SessionTyped' /\ rxq' \in {rxq, <<>>} /\ shot' \in {shot, "none"}
    BY <1>1, SetErrorTyped
  <2>2. OneImage'
    BY <1>1, <2>1, FewerImages DEF tlsVars
  <2> QED
    BY <1>1, <2>1, <2>2 DEF FdtTyped, TlsTyped, tlsVars, fdtVars
<1>2. ASSUME NEW m \in Modes, NEW es \in SUBSET Events, Enter(m, es),
             UNCHANGED <<tlsVars, sensorVars, fdtVars>>
      PROVE  LowInv'
  <2>1. SessionTyped'
    BY <1>2, EnterTyped
  <2>2. OneImage'
    BY <1>2, SameImages DEF tlsVars, sensorVars, ImageVars
  <2> QED
    BY <1>2, <2>1, <2>2 DEF SensorTyped, FdtTyped, TlsTyped, tlsVars, fdtVars, sensorVars
<1>3. {} \in SUBSET Events /\ {"request_tick"} \in SUBSET Events /\ mode \in Modes
      /\ "ACTIVATING_WAIT_UP" \in Modes
  BY DEF Events, SessionTyped, Modes
<1>4. CASE session_maybe_finish_activation
  <2>1. CASE /\ gxfp_fdt_flow_set_mode("WAIT_UP")
             /\ Enter("ACTIVATING_WAIT_UP", {"request_tick"})
             /\ UNCHANGED <<finger, link, shot, rxq>>
    <3>1. FdtTyped' /\ SensorTyped' /\ SessionTyped'
      BY <1>3, <2>1, EnterTyped, SetModeTyped
    <3>2. OneImage'
      BY <1>4, <2>1, SameImages, Zenon DEF session_maybe_finish_activation, tlsVars, ImageVars
    <3> QED
      BY <1>4, <3>1, <3>2 DEF session_maybe_finish_activation, TlsTyped, tlsVars
  <2> QED
    BY <1>1, <1>2, <1>3, <1>4, <2>1 DEF session_maybe_finish_activation
<1>5. CASE gxfp_fdt_flow_poll
  <2>1. CASE RetryDue /\ Rearm /\ Enter(mode, {"request_tick"}) /\ UNCHANGED <<finger, link, shot, rxq>>
    <3>1. FdtTyped'
      <4>1. retries < MaxRetries /\ retries' = retries + 1 /\ overdue' = FALSE
            /\ fmode' = fmode /\ fstate' = fstate
        BY <2>1 DEF RetryDue, Rearm
      <4>2. retries' \in 0..MaxRetries
        BY <4>1, MaxRetriesAssumption DEF FdtTyped
      <4> QED
        BY <4>1, <4>2, Zenon DEF FdtTyped
    <3>2. SessionTyped' /\ SensorTyped'
      BY <1>3, <2>1, EnterTyped DEF Rearm, gxfp_cmd_fdt_send_up, SensorTyped
    <3>3. OneImage'
      BY <1>5, <2>1, SameImages DEF gxfp_fdt_flow_poll, tlsVars, ImageVars
    <3> QED
      BY <1>5, <3>1, <3>2, <3>3 DEF gxfp_fdt_flow_poll, TlsTyped, tlsVars
  <2> QED
    BY <1>1, <1>2, <1>3, <1>5, <2>1, Zenon DEF gxfp_fdt_flow_poll
<1>6. CASE session_finalize_capture
  <2>1. svc' = svc /\ inbox' = inbox /\ img' = "none" /\ TlsTyped'
    BY <1>6 DEF session_finalize_capture, gxfp_tls_service_get_raw_image, TlsTyped
  <2>2. CASE /\ gxfp_fdt_flow_set_mode("IDLE") /\ UNCHANGED <<img_ready, finger, link, shot, rxq>>
             /\ dark' = TRUE /\ mode' = "IDLE" /\ ev' = ev \cup {"activate_complete"}
    <3>1. FdtTyped' /\ SensorTyped'
      BY <2>2, SetModeTyped
    <3>2. SessionTyped'
      BY <2>2 DEF SessionTyped, Modes, Events
    <3>3. OneImage'
      BY <2>1, <2>2, FewerImages
    <3> QED
      BY <2>1, <3>1, <3>2, <3>3
  <2>3. CASE /\ img_ready' = TRUE /\ mode' = "IDLE" /\ ev' = ev \cup {"image_ready"}
             /\ UNCHANGED <<dark, sensorVars, fdtVars>>
    <3>1. FdtTyped' /\ SensorTyped' /\ SessionTyped'
      BY <2>3 DEF SessionTyped, Modes, Events, FdtTyped, SensorTyped, sensorVars, fdtVars
    <3>2. OneImage'
      BY <2>1, <2>3, FewerImages, Zenon DEF sensorVars
    <3> QED
      BY <2>1, <3>1, <3>2, Zenon
  <2>4. ASSUME NEW g, session_set_error(g), UNCHANGED fdtVars PROVE LowInv'
    <3>1. SensorTyped' /\ SessionTyped' /\ rxq' \in {rxq, <<>>} /\ shot' \in {shot, "none"}
      BY <2>4, SetErrorTyped
    <3>2. OneImage'
      BY <2>1, <3>1, FewerImages, Zenon
    <3> QED
      BY <2>1, <2>4, <3>1, <3>2 DEF FdtTyped, fdtVars
  <2> QED
    BY <1>6, <2>2, <2>3, <2>4, Zenon DEF session_finalize_capture
<1>7. CASE AwaitImage
  BY <1>2, <1>3, <1>7, Zenon DEF AwaitImage
<1>8. CASE AwaitFinger
  BY <1>2, <1>3, <1>8, Zenon DEF AwaitFinger
<1> QED
  BY <1>4, <1>5, <1>6, <1>7, <1>8 DEF PumpRest

\* One record read, or the end of the reading.
LEMMA OnFdKeepsLow == ASSUME LowInv, OnFd PROVE LowInv'
<1> USE DEF LowInv
<1>1. CASE gxfp_session_on_fd
  BY <1>1, SameLow DEF gxfp_session_on_fd, lowVars
<1>2. rxq # <<>> =>
        /\ Tail(rxq) \in Seq(Records) /\ Len(Tail(rxq)) = Len(rxq) - 1 /\ Len(rxq) \in Nat
        /\ Head(rxq) \in Records /\ (NoneOld(rxq) => Head(rxq) # "OLDIMG")
        /\ NoImage(rxq) => NoImage(Tail(rxq)) /\ Head(rxq) \notin Images
        /\ NoneOld(rxq) => NoneOld(Tail(rxq))
        /\ OneAtMost(rxq) => OneAtMost(Tail(rxq))
        /\ OneAtMost(rxq) /\ Head(rxq) \in Images => NoImage(Tail(rxq))
  <2>1. rxq \in Seq(Records)
    BY DEF SensorTyped
  <2> QED
    BY ONLY <2>1, TailImages
<1>3. ASSUME rxq # <<>>, gxfp_fdt_flow_feed_record(Head(rxq))
      PROVE  FdtTyped' /\ armed' \in {"none", "down", "up"}
  BY <1>3 DEF gxfp_fdt_flow_feed_record, gxfp_cmd_fdt_send_down, FdtTyped, SensorTyped
<1>4. CASE ReadFinger
  <2>1. rxq # <<>> /\ rxq' = Tail(rxq) /\ UNCHANGED <<finger, link, shot, svc, pending, inbox, img, late>>
    BY <1>4 DEF ReadFinger, Fed, Reading, tlsVars
  <2>2. FdtTyped' /\ armed' \in {"none", "down", "up"}
    BY <1>3, <1>4, <2>1 DEF ReadFinger
  <2>3. SensorTyped'
    BY <1>2, <2>1, <2>2, MaxQueueAssumption DEF SensorTyped
  <2>4. TlsTyped'
    BY <2>1 DEF TlsTyped
  <2>5. SessionTyped'
    <3>1. FingerEvents(Head(rxq)) \in SUBSET Events
      BY DEF FingerEvents, Events
    <3>2. mode \in Modes
      BY Zenon DEF SessionTyped
    <3> QED
      BY <1>4, <3>1, <3>2, EnterTyped DEF ReadFinger
  <2>6. OneImage'
    BY <1>2, <2>1 DEF OneImage
  <2> QED
    BY <2>2, <2>3, <2>4, <2>5, <2>6
<1>5. CASE ReadUpForDark
  <2>1. rxq # <<>>
    BY <1>5 DEF ReadUpForDark, Reading
  <2>2. CASE MayRequest
    <3>1. FdtTyped' /\ armed' \in {"none", "down", "up"}
      BY <1>3, <1>5, <2>1, <2>2, Zenon DEF ReadUpForDark
    <3>2. SensorTyped' /\ TlsTyped' /\ OneImage'
      BY <1>5, <2>1, <2>2, <3>1, RequestTyped DEF ReadUpForDark
    <3>3. SessionTyped'
      <4>1. {"request_tick"} \in SUBSET Events /\ "ACTIVATING_DARK_CAPTURE" \in Modes
        BY DEF Events, Modes
      <4> QED
        BY <1>5, <2>2, <4>1, EnterTyped DEF ReadUpForDark
    <3> QED
      BY <3>1, <3>2, <3>3
  <2>3. CASE ~MayRequest
    <3>1. SensorTyped' /\ SessionTyped' /\ rxq' \in {rxq, <<>>} /\ shot' \in {shot, "none"}
      BY <1>5, <2>3, SetErrorTyped DEF ReadUpForDark
    <3>2. UNCHANGED <<fmode, retries, overdue, svc, pending, inbox, img, late>> /\ fstate' = "UP"
      BY <1>5, <2>3 DEF ReadUpForDark, tlsVars
    <3>3. OneImage'
      BY <3>1, <3>2, FewerImages
    <3> QED
      BY <3>1, <3>2, <3>3 DEF FdtTyped, TlsTyped
  <2> QED
    BY <2>2, <2>3
<1>6. CASE ReadTls
  <2>1. rxq # <<>> /\ rxq' = Tail(rxq) /\ IsTls(Head(rxq))
        /\ UNCHANGED <<finger, armed, link, shot, svc, pending, img, fdtVars, sessVars>>
        /\ inbox' = Append(inbox, Head(rxq)) /\ late' = (late /\ (svc = "CONNECTING" \/ ~IsTls(Head(rxq))))
    BY <1>6 DEF ReadTls, Fed, Reading, gxfp_tls_service_feed_tap_record
  <2>2. Head(rxq) \in TlsRecords /\ inbox \in Seq(TlsRecords)
    BY <2>1 DEF IsTls, TlsRecords, TlsTyped
  <2>3. /\ inbox' \in Seq(TlsRecords)
        /\ NoImage(inbox) /\ Head(rxq) \notin Images => NoImage(inbox')
        /\ NoneOld(inbox) /\ Head(rxq) # "OLDIMG" => NoneOld(inbox')
        /\ NoImage(inbox) => OneAtMost(inbox')
        /\ OneAtMost(inbox) /\ Head(rxq) \notin Images => OneAtMost(inbox')
    BY ONLY <2>1, <2>2, AppendImages, Zenon
  <2>4. SensorTyped'
    BY <1>2, <2>1, MaxQueueAssumption DEF SensorTyped
  <2>5. TlsTyped' /\ FdtTyped' /\ SessionTyped'
    BY <2>1, <2>3, ZenonT(30) DEF TlsTyped, FdtTyped, fdtVars, SessionTyped, sessVars
  <2>6. Head(rxq) \in Images => ~NoImage(rxq)
    BY <1>2, <2>1, Zenon
  <2>7. OneImage'
    BY <1>2, <2>1, <2>3, <2>6, Zenon DEF OneImage
  <2> QED
    BY <2>4, <2>5, <2>7, Zenon
<1>7. CASE ReadFails
  <2>1. SensorTyped' /\ SessionTyped' /\ rxq' \in {rxq, <<>>} /\ shot' \in {shot, "none"}
    BY <1>7, SetErrorTyped, Zenon DEF ReadFails
  <2>2. svc' \in {svc, "ERROR"} /\ UNCHANGED <<pending, inbox, img, late, fdtVars>>
    BY <1>7 DEF ReadFails, FeedFails, tlsVars
  <2>3. OneImage'
    BY <2>1, <2>2, FewerImages
  <2> QED
    BY <2>1, <2>2, <2>3, ZenonT(30) DEF FdtTyped, TlsTyped, fdtVars
<1> QED
  BY <1>1, <1>4, <1>5, <1>6, <1>7, Zenon DEF OnFd

\* The session is told of a state of the image device.
LEMMA ChangeStateKeepsLow ==
  ASSUME LowInv, NEW s, gxfp_session_change_state(s)
  PROVE  LowInv'
<1> USE DEF LowInv
<1>1. ASSUME NEW m \in Modes, NEW fm \in {"WAIT_DOWN", "WAIT_UP"}, Await(m, fm)
      PROVE  LowInv'
  <2>1. TlsTyped' /\ UNCHANGED <<svc, inbox, img>>
    BY <1>1 DEF Await, TlsTyped, tlsVars
  <2>2. CASE gxfp_fdt_flow_set_mode(fm) /\ Enter(m, {"request_tick"}) /\ UNCHANGED <<finger, link, shot, rxq>>
    <3>1. FdtTyped' /\ SensorTyped'
      BY <2>2, SetModeTyped
    <3>2. {"request_tick"} \in SUBSET Events
      BY DEF Events
    <3>3. SessionTyped'
      BY <2>2, <3>2, EnterTyped, Zenon
    <3>4. OneImage'
      BY <2>1, <2>2, SameImages DEF ImageVars
    <3> QED
      BY <2>1, <3>1, <3>3, <3>4, Zenon
  <2>3. CASE session_set_error("GENERIC") /\ UNCHANGED fdtVars
    <3>1. SensorTyped' /\ SessionTyped' /\ rxq' \in {rxq, <<>>} /\ shot' \in {shot, "none"}
      BY <2>3, SetErrorTyped
    <3>2. OneImage'
      BY <2>1, <3>1, FewerImages
    <3> QED
      BY <2>1, <2>3, <3>1, <3>2, Zenon DEF FdtTyped, fdtVars
  <2> QED
    BY <1>1, <2>2, <2>3 DEF Await
<1>2. ASSUME NEW m \in Modes, Stop(m) PROVE LowInv'
  <2>1. FdtTyped' /\ SensorTyped'
    BY <1>2, SetModeTyped, Zenon DEF Stop
  <2>2. SessionTyped' /\ TlsTyped'
    BY <1>2 DEF Stop, Enter, SessionTyped, TlsTyped, tlsVars
  <2>3. OneImage'
    BY <1>2, SameImages DEF Stop, ImageVars, tlsVars
  <2> QED
    BY <2>1, <2>2, <2>3
<1>3. CASE Capture
  <2>1. FdtTyped'
    BY <1>3 DEF Capture, FdtTyped, fdtVars
  <2>2. CASE mode \in {"IDLE", "WAIT_FINGER_ON"} /\ MayRequest
    <3>1. SensorTyped' /\ TlsTyped' /\ OneImage'
      BY <1>3, <2>2, RequestTyped DEF Capture, SensorTyped
    <3>2. {"request_tick"} \in SUBSET Events /\ "CAPTURING" \in Modes
      BY DEF Events, Modes
    <3>3. SessionTyped'
      BY <1>3, <2>2, <3>2, EnterTyped, Zenon DEF Capture
    <3> QED
      BY <2>1, <3>1, <3>3, Zenon
  <2>3. CASE ~(mode \in {"IDLE", "WAIT_FINGER_ON"} /\ MayRequest)
    <3>1. SensorTyped' /\ SessionTyped' /\ rxq' \in {rxq, <<>>} /\ shot' \in {shot, "none"}
      BY <1>3, <2>3, SetErrorTyped DEF Capture
    <3>2. UNCHANGED tlsVars
      BY <1>3, <2>3 DEF Capture
    <3>3. OneImage'
      BY <3>1, <3>2, FewerImages DEF tlsVars
    <3> QED
      BY <2>1, <3>1, <3>2, <3>3 DEF TlsTyped, tlsVars
  <2> QED
    BY <2>2, <2>3
<1>4. {"WAIT_FINGER_ON", "WAIT_FINGER_OFF", "READY", "IDLE"} \subseteq Modes
  BY DEF Modes
<1>5. CASE UNCHANGED <<sessVars, sensorVars, fdtVars, tlsVars>>
  BY <1>5, SameLow, Zenon DEF lowVars
<1> QED
  BY <1>1, <1>2, <1>3, <1>4, <1>5, Zenon DEF gxfp_session_change_state

\* The session is opened, closed, activated or deactivated.
LEMMA CommandsKeepLow ==
  ASSUME LowInv,
         \/ gxfp_session_open \/ OpenFails \/ gxfp_session_request_close
         \/ gxfp_session_request_deactivate \/ gxfp_session_activate \/ ActivateFails
  PROVE  LowInv'
<1> USE DEF LowInv
<1>1. CASE gxfp_session_open
  <2>1. FdtTyped' /\ SensorTyped' /\ TlsTyped' /\ OneImage'
    BY <1>1, FlowInitTyped, TlsInitTyped, Zenon DEF gxfp_session_open
  <2>2. SessionTyped'
    BY <1>1, Zenon DEF gxfp_session_open, SessionTyped, Modes
  <2> QED
    BY <2>1, <2>2, Zenon
<1>2. CASE OpenFails
  <2>1. FdtTyped' /\ TlsTyped' /\ svc' = "NULL" /\ inbox' = <<>> /\ img' = "none"
    BY <1>2, FlowInitTyped, TlsFreeTyped DEF OpenFails, gxfp_session_reset_runtime
  <2>2. rxq' \in {rxq, <<>>} /\ UNCHANGED <<finger, armed, link, shot>>
    BY <1>2 DEF OpenFails, gxfp_dev_flush_rxq
  <2>3. <<>> \in Seq(Records) /\ Len(<<>>) <= MaxQueue
    BY MaxQueueAssumption
  <2>4. SensorTyped'
    BY <2>2, <2>3, Zenon DEF SensorTyped
  <2>5. SessionTyped'
    BY <1>2, Zenon DEF OpenFails, gxfp_session_reset_runtime, SessionTyped, Modes
  <2>6. OneImage'
    BY <2>1, <2>2, FewerImages
  <2> QED
    BY <2>1, <2>4, <2>5, <2>6
<1>3. CASE gxfp_session_request_close
  <2>1. CASE mode = "CLOSED"
    <3>1. OneImage'
      BY <1>3, <2>1, SameImages DEF gxfp_session_request_close, ImageVars, sensorVars, tlsVars
    <3>2. SessionTyped'
      BY <1>3, <2>1 DEF gxfp_session_request_close, SessionTyped, Events
    <3> QED
      BY <1>3, <2>1, <3>1, <3>2
      DEF gxfp_session_request_close, SensorTyped, FdtTyped, TlsTyped, sensorVars, fdtVars, tlsVars
  <2>2. CASE mode # "CLOSED"
    <3>1. FdtTyped' /\ TlsTyped' /\ svc' = "NULL" /\ inbox' = <<>> /\ img' = "none"
      BY <1>3, <2>2, FlowInitTyped, TlsFreeTyped, Zenon
      DEF gxfp_session_request_close, gxfp_session_reset_runtime
    <3>2. SensorTyped' /\ UNCHANGED <<rxq, shot>>
      BY <1>3, Zenon DEF gxfp_session_request_close, SensorTyped, sensorVars
    <3>3. SessionTyped'
      BY <1>3, <2>2, Zenon
      DEF gxfp_session_request_close, gxfp_session_reset_runtime, SessionTyped, Modes, Events
    <3>4. OneImage'
      BY <3>1, <3>2, FewerImages
    <3> QED
      BY <3>1, <3>2, <3>3, <3>4, Zenon
  <2> QED
    BY <2>1, <2>2
<1>4. CASE gxfp_session_request_deactivate
  <2>1. SessionTyped'
    BY <1>4 DEF gxfp_session_request_deactivate, Enter, SessionTyped, Modes, Events
  <2>2. OneImage'
    BY <1>4, SameImages DEF gxfp_session_request_deactivate, ImageVars, sensorVars, tlsVars
  <2> QED
    BY <1>4, <2>1, <2>2 DEF gxfp_session_request_deactivate, SensorTyped, FdtTyped, TlsTyped,
                            sensorVars, fdtVars, tlsVars
<1>5. CASE gxfp_session_activate
  <2>1. FdtTyped' /\ SessionTyped'
    BY <1>5, FlowInitTyped, Zenon DEF gxfp_session_activate, Enter, SessionTyped, Modes, Events
  <2>2. CASE UNCHANGED <<sensorVars, tlsVars>>
    <3>1. OneImage'
      BY <2>2, SameImages DEF ImageVars, sensorVars, tlsVars
    <3> QED
      BY <2>1, <2>2, <3>1 DEF SensorTyped, TlsTyped, sensorVars, tlsVars
  <2>3. CASE gxfp_tls_service_init /\ UNCHANGED <<finger, armed>>
    BY <2>1, <2>3, TlsInitTyped
  <2> QED
    BY <1>5, <2>2, <2>3, Zenon DEF gxfp_session_activate
<1>6. CASE ActivateFails
  <2>1. TlsTyped' /\ svc' = "NULL" /\ inbox' = <<>> /\ img' = "none"
    BY <1>6, TlsFreeTyped DEF ActivateFails
  <2>2. SensorTyped' /\ SessionTyped' /\ rxq' \in {rxq, <<>>} /\ shot' \in {shot, "none"}
    BY <1>6, SetErrorTyped DEF ActivateFails
  <2>3. OneImage'
    BY <2>1, <2>2, FewerImages, Zenon
  <2> QED
    BY <1>6, <2>1, <2>2, <2>3 DEF ActivateFails, FdtTyped, fdtVars
<1> QED
  BY <1>1, <1>2, <1>3, <1>4, <1>5, <1>6

LEMMA NextKeepsLow == ASSUME LowInv, [Next]_vars PROVE LowInv'
<1>1. CASE UNCHANGED lowVars
  BY <1>1, SameLow
<1>2. CASE SessionCall
  <2>1. CASE gxfp_session_pump(IsCancelled)
    <3>1. OneImage'
      BY <2>1, SameImages, Zenon DEF LowInv, gxfp_session_pump, ImageVars, sensorVars, tlsVars
    <3>2. SessionTyped'
      BY <2>1 DEF LowInv, gxfp_session_pump, Enter, SessionTyped, sessVars, Modes, Events
    <3>3. UNCHANGED <<sensorVars, fdtVars, tlsVars>>
      BY <2>1, Zenon DEF gxfp_session_pump
    <3>4. SensorTyped' /\ FdtTyped' /\ TlsTyped'
      BY <3>3 DEF LowInv, SensorTyped, FdtTyped, TlsTyped, sensorVars, fdtVars, tlsVars
    <3> QED
      BY <3>1, <3>2, <3>4 DEF LowInv
  <2> QED
    BY <1>2, <2>1, PollKeepsLow, PumpRestKeepsLow, OnFdKeepsLow DEF SessionCall
<1>3. CASE handle_session_events \/ emit_image_captured
  <2>1. UNCHANGED <<mode, dark, sensorVars, fdtVars, tlsVars>>
    BY <1>3, Zenon DEF handle_session_events, emit_image_captured
  <2>2. SessionTyped'
    BY <1>3, Zenon DEF LowInv, handle_session_events, emit_image_captured, SessionTyped
  <2>3. OneImage'
    BY <2>1, SameImages DEF LowInv, ImageVars, sensorVars, tlsVars
  <2> QED
    BY <2>1, <2>2, <2>3 DEF LowInv, SensorTyped, FdtTyped, TlsTyped, sensorVars, fdtVars, tlsVars
<1>4. CASE fp_image_device_change_state
  BY <1>4, ChangeStateKeepsLow DEF fp_image_device_change_state
<1>5. CASE gxfp_deactivate \/ gxfp_activate \/ fp_device_open
  BY <1>5, CommandsKeepLow DEF gxfp_deactivate, gxfp_activate, fp_device_open
<1>6. CASE fp_device_close
  BY <1>1, <1>6, CommandsKeepLow DEF fp_device_close
<1>7. CASE Sensor \/ Clock
  BY <1>7, SensorKeepsLow, ClockKeepsLow, Zenon
<1>8. CASE \/ fpi_image_device_deactivate \/ fp_image_device_maybe_complete_action
           \/ fp_image_device_enroll_maybe_await_finger_on
           \/ \E on \in BOOLEAN : fpi_image_device_report_finger_status(on)
           \/ ActivationError \/ fpi_image_device_session_error
           \/ fpi_image_device_activate_complete \/ fpi_image_device_deactivate_complete
           \/ fpi_image_device_close_complete \/ Tick \/ AfterPump
  BY <1>1, <1>8
  DEF fpi_image_device_deactivate, fp_image_device_maybe_complete_action,
      fp_image_device_enroll_maybe_await_finger_on, fpi_image_device_report_finger_status,
      ActivationError, fpi_image_device_session_error, fpi_image_device_activate_complete,
      fpi_image_device_deactivate_complete, fpi_image_device_close_complete, Tick, AfterPump
<1>9. CASE MainLoop
  BY <1>1, <1>9, Zenon DEF MainLoop, fp_device_cancel_in_idle_cb, fp_device_task_return_in_idle_cb,
                    gxfp_pump_timeout_cb, fpi_image_device_minutiae_detected
<1>10. CASE Cancel \/ \E a \in Actions : fp_image_device_start_capture_action(a)
  BY <1>1, <1>10 DEF Cancel, fp_image_device_start_capture_action
<1>11. CASE Aborted \/ UNCHANGED vars
  BY <1>1, <1>11 DEF Aborted, vars
<1> QED
  BY <1>2, <1>3, <1>4, <1>5, <1>6, <1>7, <1>8, <1>9, <1>10, <1>11 DEF Next, Program, User

LEMMA InitLow == ASSUME Init PROVE LowInv
<1>1. <<>> \in Seq(Records) /\ <<>> \in Seq(TlsRecords) /\ Len(<<>>) <= MaxQueue /\ 0 \in 0..MaxRetries
  BY MaxQueueAssumption, MaxRetriesAssumption
<1>2. SensorTyped /\ TlsTyped
  BY <1>1, Zenon DEF Init, SensorInit, SessionInit, SensorTyped, TlsTyped
<1>3. FdtTyped /\ SessionTyped
  BY <1>1, Zenon DEF Init, SessionInit, FdtTyped, SessionTyped, Modes
<1>4. OneImage
  BY EmptyImages DEF Init, SensorInit, SessionInit, OneImage
<1> QED
  BY <1>2, <1>3, <1>4 DEF LowInv

\* Below the image device every variable has its type, and a capture is only
\* ever asked for when no image is on its way.
THEOREM LowInvariant == Spec => []LowInv
<1>1. Init => LowInv
  BY InitLow
<1>2. LowInv /\ [Next]_vars => LowInv'
  BY NextKeepsLow
<1> QED
  BY <1>1, <1>2, PTL DEF Spec

\* The image the session hands on, or takes as its dark frame, is never one
\* scanned for an earlier request: whatever was cancelled, failed or timed out
\* before, gxfp_tls_service_request_capture() finds no image in the kernel
\* queue, in the TLS engine or in the sensor.
THEOREM ImageFreshHolds == Spec => []ImageFresh
<1>1. LowInv => ImageFresh
  BY DEF LowInv, OneImage, ImageFresh
<1> QED
  BY <1>1, LowInvariant, PTL

-----------------------------------------------------------------------------
(* The call stacks. *)

Functions ==
  {"pump", "poll_tls", "pump_rest", "on_fd", "handle", "after_pump", "change_state",
   "maybe_complete", "deactivate", "enroll_maybe", "gxfp_activate", "gxfp_deactivate", "abort"}
    \cup Events
Arguments == ImageStates \cup {"", "cancel", "done", "none", "retry", "error"}
Frame == Functions \X Arguments
Stack == Seq(Frame)
Push(c, s) == <<c>> \o s

\* What can be left to do under the function that runs and its callees.
Pumped == Push(Call("after_pump"), <<>>)
Errs == Push(Call("err_session"), <<>>)
Ticks == Push(Call("request_tick"), <<>>)
Tails == {<<>>, Pumped, Errs, Ticks}

Waits == {"ACTIVATING_TLS", "WAIT_FINGER_ON"} \cup WaitingUp \cup Capturing
Activating == {"ACTIVATING_TLS", "ACTIVATING_WAIT_UP", "ACTIVATING_DARK_CAPTURE"}
Live == returning = "none"
Polled == mode \in Waits => timer
Undone == Live /\ istate # "DEACTIVATING"

\* No enrolment is ever started.
Plain == "ENROLL" \notin Actions

\* Without enrolments, the image device and the session are in step between
\* callbacks.
InStep ==
  Plain =>
    /\ active <=> istate \in {"AWAIT_FINGER_ON", "CAPTURE", "AWAIT_FINGER_OFF"}
    /\ istate = "AWAIT_FINGER_ON" => mode = "WAIT_FINGER_ON"
    /\ istate = "CAPTURE" => mode = "CAPTURING"
    /\ istate = "AWAIT_FINGER_OFF" => mode = "WAIT_FINGER_OFF"
    /\ istate = "ACTIVATING" =>
         IF action \in CaptureActions /\ Live THEN mode \in Activating ELSE mode \in Quiet
    /\ istate = "ACTIVATING" /\ Live => action \notin {"OPEN", "CLOSE"}
    /\ istate = "INACTIVE" => mode \in Quiet
    /\ istate \notin {"IDLE", "DEACTIVATING"}

\* An error finds something that it ends.
Errable ==
  Plain => \/ active /\ istate # "INACTIVE"
           \/ ActivationPending /\ Live /\ mode \in Quiet
           \/ ~active /\ istate = "INACTIVE" /\ mode \in Quiet

\* The calls in t can go on.
Resumable(t) ==
  /\ ev = {} /\ istate # "DEACTIVATING"
  /\ t = <<>> => Polled
  /\ t = Pumped => Polled /\ (Live \/ mode \in Quiet)
  /\ t = Errs => mode \notin Waits /\ (Live \/ istate = "INACTIVE")
\* ... and the two layers are as these calls expect them.
Agreeing(t) == IF t = Errs THEN Errable ELSE InStep

Deactivating == Live /\ active /\ istate = "DEACTIVATING"
AfterError(t) == t = Errs => mode = "FAILED"

-----------------------------------------------------------------------------
(* When a function can be called, with t left to do after it and its peers. *)

DeactivateOK(t) ==
  /\ Resumable(t) /\ (t # <<>> => Live)
  /\ (Plain /\ active) \/ Agreeing(t)
GxfpDeactivateOK == Deactivating /\ ev = {}
DeactivateCompleteOK == Deactivating /\ mode \in Quiet /\ ev = {}
CompleteOK ==
  /\ Live /\ ev = {} /\ mode \in Quiet
  /\ ~active /\ action \in CaptureActions
EnrollOK(t) ==
  /\ Undone /\ ev = {} /\ ~Plain
  /\ t # Pumped /\ (t = <<>> => Polled) /\ AfterError(t)
GxfpActivateOK(t) ==
  /\ Undone /\ ev = {} /\ t = <<>>
  /\ ~scanning /\ ~active /\ action \in CaptureActions
AwaitOK(t) ==
  /\ Undone /\ ev = {} /\ AfterError(t)
  /\ Plain => active /\ mode = "IDLE"
CloseOK(t) ==
  /\ Undone /\ ev = {} /\ t = <<>>
  /\ mode = "CLOSED" /\ ~active /\ action = "CLOSE"
ErrorOK(f, t) ==
  /\ ev = {} /\ istate # "DEACTIVATING" /\ t # Errs /\ mode \notin Waits
  /\ t = Pumped => mode \in Quiet
  /\ Live \/ (t = <<>> /\ istate = "INACTIVE")
  /\ Errable
  /\ f = "err_activate" => (Plain => ~active)
TickOK(t) ==
  /\ ev = {} /\ istate # "DEACTIVATING" /\ InStep
  /\ t # Errs /\ (t # <<>> => Live)

\* A finger was reported on or off while the image device waited for it.
FingerOK(f, t) ==
  /\ Undone /\ t \in {Ticks, Errs} /\ AfterError(t)
  /\ Plain => /\ active
              /\ f = "finger_on" => istate = "AWAIT_FINGER_ON"
              /\ f = "finger_off" => istate = "AWAIT_FINGER_OFF"
              /\ f = "finger_on" /\ t = Ticks => mode = "WAIT_FINGER_ON"
ImageOK == Undone /\ mode = "IDLE" /\ img_ready /\ (Plain => active /\ istate = "CAPTURE")
ActivatedOK == Undone /\ mode = "IDLE" /\ (Plain => ActivationPending)

-----------------------------------------------------------------------------
(* The invariant, by the function that runs. *)

\* The events a pump starts with.
PumpEvents ==
  \/ ev = {} /\ InStep
  \/ ev = {"finger_on"} /\ mode = "WAIT_FINGER_ON" /\ InStep
  \/ ev = {"finger_off"} /\ mode = "WAIT_FINGER_OFF" /\ InStep
  \/ ev = {"request_tick"} /\ mode = "ACTIVATING_DARK_CAPTURE" /\ InStep
FailedEvents ==
  /\ mode = "FAILED"
  /\ \/ ev \in {{"err_session"}, {"request_tick", "err_session"}} /\ Errable
     \/ ev = {"err_activate"} /\ Errable /\ (Plain => ~active)
     \/ ev = {"finger_on", "err_session"} /\ FingerOK("finger_on", Errs)
     \/ ev = {"finger_off", "err_session"} /\ FingerOK("finger_off", Errs)

AtPump(p) ==
  \E t \in {<<>>, Pumped} :
    /\ calls = Push(Call(p), Push(Call("handle"), t))
    /\ Undone
    /\ PumpEvents \/ FailedEvents
    /\ t = Pumped => ev = {}
    /\ p # "pump" => mode \notin Quiet

AtOnFd ==
  /\ calls = Push(Call("on_fd"), Push(Call("handle"), <<>>))
  /\ istate # "DEACTIVATING"
  /\ Live \/ mode \in Quiet
  /\ PumpEvents

\* The events a session call can leave.
Handled(t) ==
  \/ ev = {} /\ Resumable(t) /\ Agreeing(t)
  \/ ev = {"request_tick"} /\ t # Errs /\ Undone /\ InStep
  \/ /\ ev \in {{"err_session"}, {"request_tick", "err_session"}, {"cancel_tick", "err_session"}}
     /\ t # Errs /\ Undone /\ mode = "FAILED" /\ Errable
  \/ /\ ev \in {{"err_activate"}, {"request_tick", "err_activate"}, {"cancel_tick", "err_activate"},
                {"request_tick", "cancel_tick", "err_activate"}}
     /\ t # Errs /\ Undone /\ mode = "FAILED" /\ Errable /\ (Plain => ~active)
  \/ /\ ev = {"cancel_tick", "deactivate_complete"}
     /\ Deactivating /\ mode \in Quiet
  \/ /\ ev = {"cancel_tick", "close_complete"}
     /\ t = <<>> /\ Undone /\ mode = "CLOSED" /\ ~active /\ action = "CLOSE"
  \/ \E f \in {"finger_on", "finger_off"} :
       /\ t = <<>>
       /\ \/ ev = {f, "request_tick"} /\ FingerOK(f, Ticks)
          \/ ev = {f, "err_session"} /\ FingerOK(f, Errs)
  \/ ev = {"image_ready"} /\ t \in {<<>>, Pumped} /\ ImageOK
  \/ ev = {"activate_complete"} /\ t \in {<<>>, Pumped} /\ ActivatedOK
  \/ ev = {"activate_complete", "request_tick"} /\ t = <<>> /\ ActivatedOK

AtHandle ==
  \E t \in Tails :
    \/ calls = Push(Call("handle"), t) /\ Handled(t)
    \/ /\ calls = Push(Call("handle"), Push(Call("gxfp_deactivate"), t))
       /\ GxfpDeactivateOK
    \/ /\ calls = Push(Call("handle"), Push(MaybeComplete("none"), t))
       /\ CompleteOK /\ istate = "INACTIVE"
    \/ /\ calls = Push(Call("handle"), Push(Deactivate("done"), t))
       /\ DeactivateOK(t)
    \/ /\ calls = Push(Call("handle"), Push(Call("enroll_maybe"), t))
       /\ EnrollOK(t)
    \/ /\ calls = Push(Call("handle"), Push(ChangeState("AWAIT_FINGER_ON"), t))
       /\ AwaitOK(t)
    \/ /\ calls = Push(Call("handle"), Push(Call("gxfp_activate"), t))
       /\ GxfpActivateOK(t) /\ istate = "ACTIVATING"

AtChangeState ==
  \E t \in Tails :
    \/ calls = Push(ChangeState("CAPTURE"), t) /\ ev = {} /\ FingerOK("finger_on", t)
    \/ /\ calls = Push(ChangeState("IDLE"), Push(Deactivate("done"), t))
       /\ ev = {} /\ FingerOK("finger_off", t)
    \/ /\ calls = Push(ChangeState("IDLE"), Push(Call("enroll_maybe"), t))
       /\ ev = {} /\ FingerOK("finger_off", t) /\ ~Plain
    \/ calls = Push(ChangeState("AWAIT_FINGER_ON"), t) /\ AwaitOK(t)
    \/ /\ calls = Push(ChangeState("IDLE"), Push(ChangeState("AWAIT_FINGER_ON"), t))
       /\ AwaitOK(t)
    \/ /\ calls = Push(ChangeState("AWAIT_FINGER_OFF"), t)
       /\ t \in {<<>>, Pumped} /\ Undone /\ ev = {} /\ (Plain => active /\ mode = "IDLE")
    \/ /\ calls = Push(ChangeState("ACTIVATING"), Push(Call("gxfp_activate"), t))
       /\ GxfpActivateOK(t)
    \/ /\ calls = Push(ChangeState("DEACTIVATING"), Push(Call("gxfp_deactivate"), t))
       /\ Live /\ active /\ ev = {}
    \/ /\ calls = Push(ChangeState("INACTIVE"), Push(MaybeComplete("none"), t))
       /\ CompleteOK

AtMaybeComplete ==
  \E t \in Tails :
    \/ calls = Push(MaybeComplete("none"), t) /\ CompleteOK /\ istate = "INACTIVE"
    \/ \E e \in {"none", "retry", "error"} :
         /\ calls = Push(MaybeComplete(e), t)
         /\ t = <<>> /\ Undone /\ Resumable(t) /\ InStep
         /\ action \in CaptureActions \ {"ENROLL"} /\ istate # "ACTIVATING"
    \/ \E e \in {"none", "error"}, how \in {"cancel", "done"} :
         /\ calls = Push(MaybeComplete(e), Push(Deactivate(how), t))
         /\ Undone /\ t # Errs /\ DeactivateOK(t)
         /\ t # <<>> \/ istate = "ACTIVATING" => active \/ action = "NONE"
         /\ e = "none" => t = <<>> /\ action \in CaptureActions

AtIdle == Resumable(<<>>) /\ InStep
AtDeactivate ==
  \E t \in Tails, how \in {"cancel", "done"} :
    calls = Push(Deactivate(how), t) /\ DeactivateOK(t)
AtEnroll == \E t \in Tails : calls = Push(Call("enroll_maybe"), t) /\ EnrollOK(t)
AtGxfpActivate ==
  \E t \in Tails : /\ calls = Push(Call("gxfp_activate"), t)
                   /\ GxfpActivateOK(t) /\ istate = "ACTIVATING"
AtGxfpDeactivate ==
  \E t \in Tails : calls = Push(Call("gxfp_deactivate"), t) /\ GxfpDeactivateOK
AtCancelTick ==
  \E t \in Tails :
    \/ \E f \in {"err_activate", "err_session"} :
         calls = Push(Call("cancel_tick"), Push(Call(f), t)) /\ ErrorOK(f, t)
    \/ /\ calls = Push(Call("cancel_tick"), Push(Call("deactivate_complete"), t))
       /\ DeactivateCompleteOK
    \/ calls = Push(Call("cancel_tick"), Push(Call("close_complete"), t)) /\ CloseOK(t)
AtError(f) == \E t \in Tails : calls = Push(Call(f), t) /\ ErrorOK(f, t)
AtDeactivateComplete ==
  \E t \in Tails : calls = Push(Call("deactivate_complete"), t) /\ DeactivateCompleteOK
AtCloseComplete == \E t \in Tails : calls = Push(Call("close_complete"), t) /\ CloseOK(t)
AtTick == \E t \in Tails : calls = Push(Call("request_tick"), t) /\ TickOK(t)
AtActivateComplete ==
  \E t \in Tails : /\ calls = Push(Call("activate_complete"), t) /\ ev = {}
                   /\ t # Errs /\ ActivatedOK
AtImageReady ==
  \E t \in {<<>>, Pumped} : calls = Push(Call("image_ready"), t) /\ ev = {} /\ ImageOK
AtFinger(f) == \E t \in Tails : calls = Push(Call(f), t) /\ ev = {} /\ FingerOK(f, t)
AtAfterPump == calls = Pumped /\ Resumable(Pumped) /\ InStep

Stacked ==
  /\ Idle => AtIdle
  /\ Running("pump") => AtPump("pump")
  /\ Running("poll_tls") => AtPump("poll_tls")
  /\ Running("pump_rest") => AtPump("pump_rest")
  /\ Running("on_fd") => AtOnFd
  /\ Running("handle") => AtHandle
  /\ Running("change_state") => AtChangeState
  /\ Running("maybe_complete") => AtMaybeComplete
  /\ Running("deactivate") => AtDeactivate
  /\ Running("enroll_maybe") => AtEnroll
  /\ Running("gxfp_activate") => AtGxfpActivate
  /\ Running("gxfp_deactivate") => AtGxfpDeactivate
  /\ Running("cancel_tick") => AtCancelTick
  /\ Running("err_activate") => AtError("err_activate")
  /\ Running("err_session") => AtError("err_session")
  /\ Running("deactivate_complete") => AtDeactivateComplete
  /\ Running("close_complete") => AtCloseComplete
  /\ Running("request_tick") => AtTick
  /\ Running("activate_complete") => AtActivateComplete
  /\ Running("image_ready") => AtImageReady
  /\ Running("finger_on") => AtFinger("finger_on")
  /\ Running("finger_off") => AtFinger("finger_off")
  /\ Running("after_pump") => AtAfterPump
  /\ Running("abort") => ~Plain

\* The last stage of an enrolment is followed by its end.
Ending ==
  /\ calls # <<>>
  /\ \/ /\ Head(calls) = MaybeComplete("none")
        /\ Tail(calls) \in {<<>>, Push(Deactivate("done"), <<>>)}
     \/ Head(calls) = Deactivate("done") /\ Tail(calls) = <<>> /\ active
     \/ /\ Head(calls) \in {ChangeState("DEACTIVATING"), Call("handle")}
        /\ Tail(calls) = Push(Call("gxfp_deactivate"), <<>>)
     \/ Head(calls) \in {Call("gxfp_deactivate"), Call("deactivate_complete")} /\ Tail(calls) = <<>>
     \/ /\ Head(calls) = Call("handle") /\ Tail(calls) = <<>>
        /\ ev = {"cancel_tick", "deactivate_complete"}
     \/ Head(calls) = Call("cancel_tick") /\ Tail(calls) = Push(Call("deactivate_complete"), <<>>)
     \/ /\ Head(calls) \in {ChangeState("INACTIVE"), Call("handle")}
        /\ Tail(calls) = Push(MaybeComplete("none"), <<>>)

ImageTyped ==
  /\ istate \in ImageStates /\ stage \in 0..EnrollStages
  /\ active \in BOOLEAN /\ present \in BOOLEAN /\ scanning \in BOOLEAN /\ timer \in BOOLEAN
  /\ cancelled \in BOOLEAN /\ idle_cancel \in BOOLEAN /\ is_open \in BOOLEAN
  /\ action_error \in {"none", "retry", "error"} /\ returning \in {"none", "ok", "error"}
  /\ action \in Actions \cup {"NONE", "OPEN", "CLOSE"}

Flags ==
  /\ ~Live => ~active /\ ~scanning /\ action # "NONE"
  /\ action \notin CaptureActions => ~active /\ ~scanning
  /\ istate = "ACTIVATING" => ~scanning
  /\ Plain => (present => active)
LastStage == action = "ENROLL" /\ stage = EnrollStages /\ Live
Staged == LastStage => ~scanning /\ Ending

Control == ImageTyped /\ Flags /\ Staged /\ Stacked

-----------------------------------------------------------------------------
(* Facts about stacks. *)

LEMMA PushIs ==
  ASSUME NEW c \in Frame, NEW s \in Stack
  PROVE  /\ Push(c, s) \in Stack /\ Push(c, s) # <<>>
         /\ Head(Push(c, s)) = c /\ Tail(Push(c, s)) = s
  BY DEF Frame, Stack, Push

LEMMA PairIs ==
  ASSUME NEW c \in Frame, NEW d \in Frame
  PROVE  <<c, d>> = <<c>> \o <<d>> /\ <<c>> \in Stack /\ <<d>> \in Stack
<1> DEFINE u == <<c>> \o <<d>>
<1>1. u \in Seq(Frame) /\ Len(u) = 2 /\ u[1] = c /\ u[2] = d
  OBVIOUS
<1> HIDE DEF u
<1>2. u = <<c, d>>
  BY <1>1
<1>3. <<c>> \in Stack /\ <<d>> \in Stack
  BY DEF Stack
<1> QED
  BY <1>2, <1>3, Zenon DEF u

LEMMA ThenIs ==
  ASSUME NEW s \in Stack
  PROVE  /\ <<>> \o s = s
         /\ \A c \in Frame : <<c>> \o s = Push(c, s)
         /\ \A c, d \in Frame : <<c, d>> \o s = Push(c, Push(d, s))
<1>1. <<>> \o s = s
  BY ConcatEmptySeq DEF Stack
<1>2. ASSUME NEW c \in Frame, NEW d \in Frame PROVE <<c, d>> \o s = <<c>> \o (<<d>> \o s)
  BY PairIs, ConcatAssociative DEF Stack
<1> QED
  BY <1>1, <1>2, Zenon DEF Push

LEMMA PushedAre ==
  ASSUME NEW c \in Frame, NEW d \in Frame
  PROVE  <<c>> = Push(c, <<>>) /\ <<c, d>> = Push(c, Push(d, <<>>))
<1>1. <<c>> \o <<>> = <<c>> /\ <<d>> \o <<>> = <<d>>
  BY PairIs, ConcatEmptySeq DEF Stack
<1> QED
  BY <1>1, PairIs, Zenon DEF Push

LEMMA CallsAre ==
  /\ Call("pump") \in Frame /\ Call("pump")[1] = "pump"
  /\ Call("poll_tls") \in Frame /\ Call("poll_tls")[1] = "poll_tls"
  /\ Call("pump_rest") \in Frame /\ Call("pump_rest")[1] = "pump_rest"
  /\ Call("on_fd") \in Frame /\ Call("on_fd")[1] = "on_fd"
  /\ Call("handle") \in Frame /\ Call("handle")[1] = "handle"
  /\ Call("after_pump") \in Frame /\ Call("after_pump")[1] = "after_pump"
  /\ Call("enroll_maybe") \in Frame /\ Call("enroll_maybe")[1] = "enroll_maybe"
  /\ Call("gxfp_activate") \in Frame /\ Call("gxfp_activate")[1] = "gxfp_activate"
  /\ Call("gxfp_deactivate") \in Frame /\ Call("gxfp_deactivate")[1] = "gxfp_deactivate"
  /\ Call("abort") \in Frame /\ Call("abort")[1] = "abort"
  /\ Call("cancel_tick") \in Frame /\ Call("cancel_tick")[1] = "cancel_tick"
  /\ Call("finger_on") \in Frame /\ Call("finger_on")[1] = "finger_on"
  /\ Call("finger_off") \in Frame /\ Call("finger_off")[1] = "finger_off"
  /\ Call("image_ready") \in Frame /\ Call("image_ready")[1] = "image_ready"
  /\ Call("err_activate") \in Frame /\ Call("err_activate")[1] = "err_activate"
  /\ Call("err_session") \in Frame /\ Call("err_session")[1] = "err_session"
  /\ Call("activate_complete") \in Frame /\ Call("activate_complete")[1] = "activate_complete"
  /\ Call("deactivate_complete") \in Frame /\ Call("deactivate_complete")[1] = "deactivate_complete"
  /\ Call("close_complete") \in Frame /\ Call("close_complete")[1] = "close_complete"
  /\ Call("request_tick") \in Frame /\ Call("request_tick")[1] = "request_tick"
  BY Zenon DEF Frame, Functions, Arguments, Events, Call

LEMMA FramesAre ==
  /\ \A x \in ImageStates : /\ ChangeState(x) \in Frame /\ ChangeState(x)[1] = "change_state"
                            /\ ChangeState(x)[2] = x
  /\ \A x \in {"cancel", "done"} : Deactivate(x) \in Frame /\ Deactivate(x)[1] = "deactivate"
  /\ \A x \in {"none", "retry", "error"} :
       /\ MaybeComplete(x) \in Frame /\ MaybeComplete(x)[1] = "maybe_complete"
       /\ MaybeComplete(x)[2] = x
  BY Zenon DEF Frame, Functions, Arguments, ChangeState, Deactivate, MaybeComplete

LEMMA TailsAre ==
  /\ Tails \subseteq Stack
  /\ <<>> \in Tails /\ Pumped \in Tails /\ Errs \in Tails /\ Ticks \in Tails
  /\ Pumped # <<>> /\ Errs # <<>> /\ Ticks # <<>>
  /\ Pumped # Errs /\ Pumped # Ticks /\ Errs # Ticks
<1>1. <<>> \in Stack
  BY DEF Stack
<1>2. Pumped \in Stack /\ Pumped # <<>> /\ Head(Pumped) = Call("after_pump")
  BY <1>1, PushIs, CallsAre, Zenon DEF Pumped
<1>3. Errs \in Stack /\ Errs # <<>> /\ Head(Errs) = Call("err_session")
  BY <1>1, PushIs, CallsAre, Zenon DEF Errs
<1>4. Ticks \in Stack /\ Ticks # <<>> /\ Head(Ticks) = Call("request_tick")
  BY <1>1, PushIs, CallsAre, Zenon DEF Ticks
<1>5. /\ Call("after_pump") # Call("err_session") /\ Call("after_pump") # Call("request_tick")
      /\ Call("err_session") # Call("request_tick")
  BY CallsAre, Zenon
<1> QED
  BY <1>1, <1>2, <1>3, <1>4, <1>5, Zenon DEF Tails

LEMMA TailTops ==
  /\ Head(Pumped)[1] = "after_pump" /\ Head(Errs)[1] = "err_session"
  /\ Head(Ticks)[1] = "request_tick"
<1>1. <<>> \in Stack
  BY DEF Stack
<1>2. Head(Pumped) = Call("after_pump")
  BY <1>1, PushIs, CallsAre, Zenon DEF Pumped
<1>3. Head(Errs) = Call("err_session")
  BY <1>1, PushIs, CallsAre, Zenon DEF Errs
<1>4. Head(Ticks) = Call("request_tick")
  BY <1>1, PushIs, CallsAre, Zenon DEF Ticks
<1> QED
  BY <1>2, <1>3, <1>4, CallsAre, Zenon

LEMMA AbortIs == <<Call("abort")>> # <<>> /\ Head(<<Call("abort")>>)[1] = "abort"
<1>1. \A c : <<c>> # <<>> /\ Head(<<c>>) = c
  OBVIOUS
<1> QED
  BY <1>1, CallsAre, Zenon

\* The function on top of a stack.
LEMMA TopIs ==
  ASSUME NEW c \in Frame, NEW s \in Stack, calls = Push(c, s)
  PROVE  calls # <<>> /\ Head(calls) = c /\ Tail(calls) = s
  BY PushIs, Zenon

LEMMA TopIsNext ==
  ASSUME NEW c \in Frame, NEW s \in Stack, calls' = Push(c, s)
  PROVE  calls' # <<>> /\ Head(calls') = c /\ Tail(calls') = s
  BY PushIs, Zenon

LEMMA Calling ==
  ASSUME NEW t \in Stack, Tail(calls) = t
  PROVE  /\ Then(<<>>) => calls' = t
         /\ \A c \in Frame : Then(<<c>>) => calls' = Push(c, t)
         /\ \A c, d \in Frame : Then(<<c, d>>) => calls' = Push(c, Push(d, t))
  BY ThenIs, Zenon DEF Then

\* Going on with what is left to do.
LEMMA Resume ==
  ASSUME NEW t \in Tails, calls' = t, Resumable(t)', Agreeing(t)'
  PROVE  Stacked'
<1>1. CASE t = <<>>
  <2>1. AtIdle' /\ ~(calls' # <<>>)
    BY <1>1, TailsAre, Zenon DEF AtIdle, Agreeing
  <2> QED
    BY <2>1 DEF Stacked, Running, Idle
<1>2. CASE t = Pumped
  <2>1. AtAfterPump' /\ calls' # <<>> /\ Head(calls')[1] = "after_pump"
    BY <1>2, TailsAre, TailTops, Zenon DEF AtAfterPump, Agreeing
  <2> QED
    BY <2>1, Zenon DEF Stacked, Running, Idle
<1>3. CASE t = Errs
  <2>1. calls' # <<>> /\ Head(calls')[1] = "err_session" /\ calls' = Push(Call("err_session"), <<>>)
    <3>1. calls' # <<>> /\ Head(calls')[1] = "err_session"
      BY <1>3, TailsAre, TailTops, Zenon
    <3> QED
      BY <1>3, <3>1, Zenon DEF Errs
  <2>2. ErrorOK("err_session", <<>>)'
    BY <1>3, TailsAre DEF ErrorOK, Agreeing, Resumable
  <2>3. AtError("err_session")'
    BY <2>1, <2>2, TailsAre DEF AtError
  <2> QED
    BY <2>1, <2>3 DEF Stacked, Running, Idle
<1>4. CASE t = Ticks
  <2>1. calls' # <<>> /\ Head(calls')[1] = "request_tick" /\ calls' = Push(Call("request_tick"), <<>>)
    <3>1. calls' # <<>> /\ Head(calls')[1] = "request_tick"
      BY <1>4, TailsAre, TailTops, Zenon
    <3> QED
      BY <1>4, <3>1, Zenon DEF Ticks
  <2>2. TickOK(<<>>)'
    BY <1>4, TailsAre DEF TickOK, Agreeing, Resumable
  <2>3. AtTick'
    BY <2>1, <2>2, TailsAre DEF AtTick
  <2> QED
    BY <2>1, <2>3 DEF Stacked, Running, Idle
<1> QED
  BY <1>1, <1>2, <1>3, <1>4 DEF Tails

-----------------------------------------------------------------------------
(* One lemma for each action above the session. *)

\* The functions that run at the end of the last stage.
LEMMA EndingTop ==
  ASSUME Ending
  PROVE  /\ calls # <<>>
         /\ Head(calls)[1] \in {"maybe_complete", "deactivate", "change_state", "handle",
                                "gxfp_deactivate", "cancel_tick", "deactivate_complete"}
         /\ Head(calls)[1] = "deactivate" => Tail(calls) = <<>> /\ active
         /\ Head(calls)[1] \in {"gxfp_deactivate", "deactivate_complete"} => Tail(calls) = <<>>
<1>1. /\ MaybeComplete("none")[1] = "maybe_complete" /\ Deactivate("done")[1] = "deactivate"
      /\ ChangeState("DEACTIVATING")[1] = "change_state"
      /\ ChangeState("INACTIVE")[1] = "change_state"
      /\ Call("handle")[1] = "handle" /\ Call("gxfp_deactivate")[1] = "gxfp_deactivate"
      /\ Call("deactivate_complete")[1] = "deactivate_complete"
      /\ Call("cancel_tick")[1] = "cancel_tick"
  BY CallsAre, FramesAre, Zenon DEF ImageStates
<1>2. CASE Head(calls) = MaybeComplete("none")
  BY <1>1, <1>2, Zenon DEF Ending
<1>3. CASE Head(calls) = Deactivate("done") /\ Tail(calls) = <<>> /\ active
  BY <1>1, <1>3, Zenon DEF Ending
<1>4. CASE Head(calls) \in {ChangeState("DEACTIVATING"), ChangeState("INACTIVE"), Call("handle"),
                           Call("cancel_tick")}
  BY <1>1, <1>4, Zenon DEF Ending
<1>5. CASE Head(calls) \in {Call("gxfp_deactivate"), Call("deactivate_complete")}
           /\ Tail(calls) = <<>>
  BY <1>1, <1>5, Zenon DEF Ending
<1> QED
  BY <1>2, <1>3, <1>4, <1>5, Zenon DEF Ending

\* The last stage is over when any other function runs.
LEMMA NotLastStage ==
  ASSUME Staged,
         calls = <<>> \/ Head(calls)[1] \notin {"maybe_complete", "deactivate", "change_state",
                           "handle", "gxfp_deactivate", "cancel_tick", "deactivate_complete"}
  PROVE  ~LastStage
  BY EndingTop, Zenon DEF Staged

\* Nothing but the stack changes.
SameButCalls == UNCHANGED <<lowVars, imgVars, taskVars, timer>>

LEMMA OnlyCalls ==
  ASSUME SameButCalls
  PROVE  /\ ImageTyped => ImageTyped'
         /\ Flags => Flags'
         /\ LastStage' = LastStage /\ UNCHANGED <<scanning, active, ev, istate, mode>>
         /\ Live' = Live
         /\ Undone' = Undone /\ InStep' = InStep /\ PumpEvents' = PumpEvents
         /\ \A t : Resumable(t)' = Resumable(t) /\ Agreeing(t)' = Agreeing(t)
<1>1. /\ UNCHANGED <<mode, ev, istate, active, present, scanning, action_error, stage, timer>>
      /\ UNCHANGED <<action, cancelled, idle_cancel, returning, is_open>>
  BY Zenon DEF SameButCalls, lowVars, sessVars, imgVars, taskVars
<1>2. (ImageTyped => ImageTyped') /\ Live' = Live /\ LastStage' = LastStage
  <2>1. ImageTyped => ImageTyped'
    BY <1>1, ZenonT(30) DEF ImageTyped
  <2>2. Live' = Live /\ LastStage' = LastStage
    BY <1>1, Zenon DEF Live, LastStage
  <2> QED
    BY <2>1, <2>2, Zenon
<1>3. (Flags => Flags') /\ Undone' = Undone /\ Polled' = Polled
  BY <1>1, <1>2, Zenon DEF Flags, Undone, Polled
<1>4. InStep' = InStep
  BY <1>1, <1>2, Zenon DEF InStep
<1>5. Errable' = Errable
  BY <1>1, <1>2, Zenon DEF Errable, ActivationPending
<1>6. PumpEvents' = PumpEvents
  BY <1>1, <1>4, Zenon DEF PumpEvents
<1>7. \A t : Resumable(t)' = Resumable(t) /\ Agreeing(t)' = Agreeing(t)
  BY <1>1, <1>2, <1>3, <1>4, <1>5, Zenon DEF Resumable, Agreeing
<1> QED
  BY <1>1, <1>2, <1>3, <1>4, <1>6, <1>7, Zenon

LEMMA DeactivateStep == ASSUME Control, fpi_image_device_deactivate PROVE Control'
<1>1. PICK t \in Tails, how \in {"cancel", "done"} :
        calls = Push(Deactivate(how), t) /\ DeactivateOK(t)
  BY DEF Control, Stacked, AtDeactivate, fpi_image_device_deactivate
<1>2. t \in Stack /\ calls # <<>> /\ Head(calls) = Deactivate(how) /\ Tail(calls) = t
  BY <1>1, TailsAre, TopIs, FramesAre, Zenon
<1>3. SameButCalls
  BY Zenon DEF fpi_image_device_deactivate, SameButCalls
<1>4. ImageTyped' /\ Flags'
  BY <1>3, OnlyCalls, Zenon DEF Control
<1>5. CASE ~active
  <2>1. calls' = t
    BY <1>2, <1>5, ThenIs, Zenon DEF fpi_image_device_deactivate, Then
  <2>2. Resumable(t)' /\ Agreeing(t)'
    BY <1>1, <1>3, <1>5, OnlyCalls, Zenon DEF DeactivateOK
  <2>3. Stacked'
    BY <2>1, <2>2, Resume, Zenon
  <2>4. Staged'
    <3>1. ~LastStage
      BY <1>2, <1>5, EndingTop, FramesAre, Zenon DEF Control, Staged
    <3> QED
      BY <1>3, <3>1, OnlyCalls, Zenon DEF Staged
  <2> QED
    BY <1>4, <2>3, <2>4, Zenon DEF Control
<1>6. CASE active
  <2>1. istate # "DEACTIVATING"
    BY <1>1 DEF DeactivateOK, Resumable
  <2> DEFINE s == Push(Call("gxfp_deactivate"), t)
  <2>2. calls' = Push(ChangeState("DEACTIVATING"), s) /\ s \in Stack
    BY <1>2, <1>6, <2>1, ThenIs, PushIs, CallsAre, FramesAre, ZenonT(30)
    DEF fpi_image_device_deactivate, Then, ImageStates
  <2>3. /\ calls' # <<>> /\ Head(calls') = ChangeState("DEACTIVATING") /\ Tail(calls') = s
        /\ Head(calls')[1] = "change_state"
    BY <2>2, TopIsNext, FramesAre DEF ImageStates
  <2>4. (Live /\ active /\ ev = {})'
    BY <1>1, <1>3, <1>6, OnlyCalls, Zenon DEF Control, Flags, DeactivateOK, Resumable
  <2>5. AtChangeState'
    BY <1>1, <2>2, <2>4, Zenon DEF AtChangeState
  <2>6. Stacked'
    BY <2>3, <2>5, Zenon DEF Stacked, Running, Idle
  <2>7. Staged'
    <3>1. LastStage => t = <<>> /\ ~scanning
      BY <1>2, EndingTop, FramesAre, Zenon DEF Control, Staged
    <3> QED
      BY <1>3, <2>3, <3>1, OnlyCalls, Zenon DEF Staged, Ending
  <2> QED
    BY <1>4, <2>6, <2>7 DEF Control
<1> QED
  BY <1>5, <1>6 DEF Control, ImageTyped

LEMMA EnrollStep ==
  ASSUME Control, fp_image_device_enroll_maybe_await_finger_on
  PROVE  Control'
<1>1. PICK t \in Tails : calls = Push(Call("enroll_maybe"), t) /\ EnrollOK(t)
  BY DEF Control, Stacked, AtEnroll, fp_image_device_enroll_maybe_await_finger_on
<1>2. t \in Stack /\ calls # <<>> /\ Head(calls) = Call("enroll_maybe") /\ Tail(calls) = t
  BY <1>1, TailsAre, TopIs, CallsAre
<1>3. SameButCalls
  BY DEF fp_image_device_enroll_maybe_await_finger_on, SameButCalls
<1>4. ImageTyped' /\ Flags'
  BY <1>3, OnlyCalls, Zenon DEF Control
<1>5. Staged'
  BY <1>2, <1>3, OnlyCalls, NotLastStage, CallsAre, Zenon DEF Control, Staged
<1>6. CASE scanning \/ present
  <2>1. calls' = t
    BY <1>2, <1>6, ThenIs, Zenon DEF fp_image_device_enroll_maybe_await_finger_on, Then
  <2>2. Resumable(t) /\ Agreeing(t)
    BY <1>1, TailsAre
    DEF EnrollOK, Undone, AfterError, Resumable, Agreeing, InStep, Errable, Waits, WaitingUp, Capturing
  <2> QED
    BY <1>3, <1>4, <1>5, <2>1, <2>2, OnlyCalls, Resume, Zenon DEF Control
<1>7. CASE ~(scanning \/ present)
  <2>1. calls' = Push(ChangeState("AWAIT_FINGER_ON"), t)
    BY <1>2, <1>7, ThenIs, FramesAre, Zenon
    DEF fp_image_device_enroll_maybe_await_finger_on, Then, ImageStates
  <2>2. calls' # <<>> /\ Head(calls')[1] = "change_state"
    BY <1>2, <2>1, TopIsNext, FramesAre DEF ImageStates
  <2>3. AwaitOK(t)'
    BY <1>1, <1>3, OnlyCalls DEF EnrollOK, AwaitOK, AfterError
  <2>4. AtChangeState'
    BY <1>1, <2>1, <2>3, Zenon DEF AtChangeState
  <2> QED
    BY <1>4, <1>5, <2>2, <2>4, Zenon DEF Control, Stacked, Running, Idle
<1> QED
  BY <1>6, <1>7

LEMMA AfterPumpStep == ASSUME Control, AfterPump PROVE Control'
<1>1. calls = Push(Call("after_pump"), <<>>) /\ Resumable(Pumped) /\ InStep
  BY Zenon DEF Control, Stacked, AtAfterPump, AfterPump, Pumped
<1>2. <<>> \in Stack /\ calls # <<>> /\ Head(calls) = Call("after_pump") /\ Tail(calls) = <<>>
  BY <1>1, TailsAre, TopIs, CallsAre, Zenon
<1>3. SameButCalls
  BY Zenon DEF AfterPump, SameButCalls
<1>4. ImageTyped' /\ Flags'
  BY <1>3, OnlyCalls, Zenon DEF Control
<1>5. Staged'
  BY <1>2, <1>3, OnlyCalls, NotLastStage, CallsAre, Zenon DEF Control, Staged
<1>6. CASE Then(<<>>)
  <2>1. calls' = <<>>
    BY <1>2, <1>6, ThenIs DEF Then
  <2>2. Resumable(<<>>) /\ Agreeing(<<>>)
    BY <1>1, TailsAre DEF Resumable, Agreeing
  <2>3. Resumable(<<>>)' /\ Agreeing(<<>>)' /\ <<>> \in Tails
    BY <1>3, <2>2, OnlyCalls, TailsAre, Zenon
  <2> QED
    BY <1>4, <1>5, <2>1, <2>3, Resume DEF Control
<1>7. CASE Then(<<Call("on_fd"), Call("handle")>>)
  <2>1. calls' = Push(Call("on_fd"), Push(Call("handle"), <<>>)) /\ Push(Call("handle"), <<>>) \in Stack
    BY <1>2, <1>7, Calling, CallsAre, PushIs, Zenon
  <2>2. calls' # <<>> /\ Head(calls')[1] = "on_fd"
    BY <2>1, TopIsNext, CallsAre
  <2>3. (istate # "DEACTIVATING" /\ (Live \/ mode \in Quiet) /\ PumpEvents)'
    BY <1>1, <1>3, OnlyCalls DEF Resumable, PumpEvents
  <2>4. AtOnFd'
    BY <2>1, <2>3, Zenon DEF AtOnFd
  <2> QED
    BY <1>4, <1>5, <2>2, <2>4, Zenon DEF Control, Stacked, Running, Idle
<1> QED
  BY <1>6, <1>7, Zenon DEF AfterPump

LEMMA GxfpDeactivateStep == ASSUME Control, gxfp_deactivate PROVE Control'
<1>1. PICK t \in Tails : calls = Push(Call("gxfp_deactivate"), t) /\ GxfpDeactivateOK
  BY Zenon DEF Control, Stacked, AtGxfpDeactivate, gxfp_deactivate
<1>2. t \in Stack /\ calls # <<>> /\ Head(calls) = Call("gxfp_deactivate") /\ Tail(calls) = t
  BY <1>1, TailsAre, TopIs, CallsAre, Zenon
<1>3. /\ UNCHANGED <<imgVars, taskVars>> /\ timer' = FALSE
      /\ mode' \in Quiet /\ ev' = {"cancel_tick", "deactivate_complete"}
  BY <1>1, Zenon DEF gxfp_deactivate, gxfp_session_request_deactivate, Enter, GxfpDeactivateOK, Quiet
<1>4. ImageTyped' /\ Flags'
  BY <1>3, Zenon DEF Control, ImageTyped, Flags, Live, imgVars, taskVars
<1>5. calls' = Push(Call("handle"), t)
  BY <1>2, ThenIs, CallsAre, Zenon DEF gxfp_deactivate, Then
<1>6. calls' # <<>> /\ Head(calls') = Call("handle") /\ Tail(calls') = t
      /\ Head(calls')[1] = "handle"
  BY <1>2, <1>5, TopIsNext, CallsAre, Zenon
<1>7. Staged'
  <2>1. LastStage => t = <<>> /\ ~scanning
    BY <1>2, EndingTop, CallsAre, Zenon DEF Control, Staged
  <2> QED
    BY <1>3, <1>6, <2>1, Zenon DEF Staged, LastStage, Live, Ending, imgVars, taskVars
<1>8. Handled(t)'
  BY <1>1, <1>3 DEF Handled, GxfpDeactivateOK, Deactivating, Live, imgVars, taskVars
<1>9. AtHandle'
  BY <1>5, <1>8 DEF AtHandle
<1> QED
  BY <1>4, <1>6, <1>7, <1>9, Zenon DEF Control, Stacked, Running, Idle

LEMMA GxfpActivateStep == ASSUME Control, gxfp_activate PROVE Control'
<1>1. /\ calls = Push(Call("gxfp_activate"), <<>>)
      /\ GxfpActivateOK(<<>>) /\ istate = "ACTIVATING"
  BY Zenon DEF Control, Stacked, AtGxfpActivate, GxfpActivateOK, gxfp_activate
<1>2. <<>> \in Stack /\ calls # <<>> /\ Head(calls) = Call("gxfp_activate") /\ Tail(calls) = <<>>
  BY <1>1, TailsAre, TopIs, CallsAre, Zenon
<1>3. UNCHANGED <<imgVars, taskVars, timer>>
  BY Zenon DEF gxfp_activate
<1>4. ImageTyped' /\ Flags'
  <2>1. ImageTyped'
    BY <1>3, ZenonT(30) DEF Control, ImageTyped, imgVars, taskVars
  <2>2. Flags'
    BY <1>3 DEF Control, Flags, Live, imgVars, taskVars
  <2> QED
    BY <2>1, <2>2, Zenon
<1>5. Staged'
  BY <1>2, <1>3, NotLastStage, CallsAre, Zenon DEF Control, Staged, LastStage, Live, imgVars, taskVars
<1>6. CASE gxfp_session_activate /\ Then(<<Call("handle"), Call("request_tick")>>)
  <2>1. calls' = Push(Call("handle"), Ticks) /\ Ticks \in Stack
    BY <1>2, <1>6, Calling, CallsAre, TailsAre, Zenon DEF Ticks
  <2>2. calls' # <<>> /\ Head(calls')[1] = "handle"
    BY <2>1, TopIsNext, CallsAre
  <2>3. mode' = "ACTIVATING_TLS" /\ ev' = {"request_tick"}
    BY <1>1, <1>6, Zenon DEF gxfp_session_activate, Enter, GxfpActivateOK
  <2>4. (Undone /\ InStep)'
    BY <1>1, <1>3, <2>3, Zenon
    DEF GxfpActivateOK, Undone, InStep, CaptureActions, Live, Activating, imgVars, taskVars
  <2>5. AtHandle'
    BY <2>1, <2>3, <2>4, TailsAre, Zenon DEF AtHandle, Handled
  <2> QED
    BY <1>4, <1>5, <2>2, <2>5, Zenon DEF Control, Stacked, Running, Idle
<1>7. CASE ActivateFails /\ Then(<<Call("handle")>>)
  <2>1. calls' = Push(Call("handle"), <<>>)
    BY <1>2, <1>7, ThenIs, CallsAre, ZenonT(30) DEF Then
  <2>2. calls' # <<>> /\ Head(calls')[1] = "handle"
    BY <1>2, <2>1, TopIsNext, CallsAre, Zenon
  <2>3. mode' = "FAILED" /\ ev' = {"err_activate"}
    BY <1>1, <1>7, Zenon DEF ActivateFails, session_set_error, Error, GxfpActivateOK
  <2>4. (Undone /\ Errable /\ ~active)'
    BY <1>1, <1>3, <2>3, Zenon
    DEF GxfpActivateOK, Undone, Errable, ActivationPending, Live, Quiet, imgVars, taskVars
  <2>5. AtHandle'
    BY <2>1, <2>3, <2>4, TailsAre, Zenon DEF AtHandle, Handled
  <2> QED
    BY <1>4, <1>5, <2>2, <2>5, Zenon DEF Control, Stacked, Running, Idle
<1> QED
  BY <1>6, <1>7 DEF gxfp_activate

\* An action is over, for the user.
LEMMA MaybeCompleteEffect ==
  ASSUME Control, fp_image_device_maybe_complete_action,
         Arg = "error" \/ action \in CaptureActions
  PROVE  /\ UNCHANGED <<lowVars, istate, active, present, scanning, stage, timer>>
         /\ UNCHANGED <<action, cancelled, is_open>>
         /\ Then(<<>>)
         /\ StillBusy \/ action = "NONE" => UNCHANGED taskVars
         /\ ~StillBusy /\ action # "NONE" => returning' \in {"ok", "error"} /\ idle_cancel' = FALSE
<1>1. KeptError("error") # "none"
  BY DEF KeptError
<1>2. CASE StillBusy
  BY <1>2 DEF fp_image_device_maybe_complete_action, taskVars
<1>3. CASE ~StillBusy
  <2>1. (KeptError(Arg) # "none" \/ cancelled) \/ action \in CaptureActions
    BY <1>1
  <2>2. Then(<<>>)
    BY <1>3, <2>1 DEF fp_image_device_maybe_complete_action
  <2>3. CASE action = "NONE"
    BY <1>3, <2>2, <2>3 DEF fp_image_device_maybe_complete_action, taskVars
  <2>4. CASE action # "NONE"
    BY <1>3, <2>2, <2>4, Zenon DEF fp_image_device_maybe_complete_action, Complete
  <2> QED
    BY <2>3, <2>4, Zenon
<1> QED
  BY <1>2, <1>3, Zenon

LEMMA MaybeCompleteStep ==
  ASSUME Control, fp_image_device_maybe_complete_action
  PROVE  Control'
<1>1. PICK e \in {"none", "retry", "error"}, t \in Tails, s \in Stack :
        /\ calls = Push(MaybeComplete(e), s)
        /\ e = "error" \/ action \in CaptureActions
        /\ Live
        /\ \/ s = t /\ e = "none" /\ CompleteOK /\ istate = "INACTIVE"
           \/ /\ s = t /\ t = <<>> /\ Undone /\ Resumable(t) /\ InStep
              /\ action \in CaptureActions \ {"ENROLL"} /\ istate # "ACTIVATING"
           \/ \E how \in {"cancel", "done"} :
                /\ s = Push(Deactivate(how), t)
                /\ Undone /\ t # Errs /\ DeactivateOK(t)
                /\ t # <<>> \/ istate = "ACTIVATING" => active \/ action = "NONE"
  <2>1. AtMaybeComplete
    BY Zenon DEF Control, Stacked, fp_image_device_maybe_complete_action
  <2>2. \A t \in Tails : /\ t \in Stack
                         /\ \A how \in {"cancel", "done"} : Push(Deactivate(how), t) \in Stack
    BY TailsAre, PushIs, FramesAre, Zenon
  <2> QED
    BY <2>1, <2>2, Zenon DEF AtMaybeComplete, CompleteOK, Undone
<1>2. calls # <<>> /\ Head(calls) = MaybeComplete(e) /\ Tail(calls) = s /\ Arg = e
  BY <1>1, TopIs, FramesAre, Zenon DEF Arg
<1>3. /\ UNCHANGED <<lowVars, istate, active, present, scanning, stage, timer>>
      /\ UNCHANGED <<action, cancelled, is_open>>
      /\ calls' = s
      /\ StillBusy \/ action = "NONE" => UNCHANGED taskVars
      /\ ~StillBusy /\ action # "NONE" => returning' \in {"ok", "error"} /\ idle_cancel' = FALSE
  BY <1>1, <1>2, MaybeCompleteEffect, Calling, Zenon
<1>4. ImageTyped'
  <2>1. action_error' \in {"none", "retry", "error"}
    BY <1>1, <1>2 DEF Control, ImageTyped, fp_image_device_maybe_complete_action, KeptError
  <2> QED
    BY <1>3, <2>1, ZenonT(30) DEF Control, ImageTyped, taskVars
<1>5. Flags'
  BY <1>3 DEF Control, Flags, Live, StillBusy, taskVars
<1>6. UNCHANGED <<mode, ev>>
  BY <1>3, Zenon DEF lowVars, sessVars
<1>7. CASE s = t /\ e = "none" /\ CompleteOK /\ istate = "INACTIVE"
  <2>1. Resumable(t)'
    BY <1>3, <1>6, <1>7, Zenon
    DEF CompleteOK, Resumable, Polled, Live, Quiet, Waits, WaitingUp, Capturing
  <2>2. (InStep /\ Errable)'
    BY <1>3, <1>6, <1>7, Zenon DEF CompleteOK, InStep, Errable, Quiet
  <2>3. Stacked'
    BY <1>1, <1>3, <1>7, <2>1, <2>2, Resume, Zenon DEF Agreeing
  <2>4. Staged'
    BY <1>3, <1>7, Zenon DEF Control, Staged, LastStage, Live, StillBusy, CompleteOK
  <2> QED
    BY <1>4, <1>5, <2>3, <2>4, Zenon DEF Control
<1>8. CASE /\ s = t /\ t = <<>> /\ Undone /\ Resumable(t) /\ InStep
           /\ action \in CaptureActions \ {"ENROLL"} /\ istate # "ACTIVATING"
  <2>1. (Resumable(t) /\ InStep)'
    BY <1>3, <1>6, <1>8, TailsAre, Zenon DEF Undone, Resumable, Polled, InStep
  <2>2. Stacked'
    BY <1>1, <1>3, <1>8, <2>1, Resume, TailsAre, Zenon DEF Agreeing
  <2>3. Staged'
    BY <1>3, <1>8, Zenon DEF Staged, LastStage
  <2> QED
    BY <1>4, <1>5, <2>2, <2>3 DEF Control
<1>9. ASSUME NEW how \in {"cancel", "done"}, s = Push(Deactivate(how), t), Undone, t # Errs,
             DeactivateOK(t), t # <<>> \/ istate = "ACTIVATING" => active \/ action = "NONE"
      PROVE  Control'
  <2>1. t \in Stack /\ calls' # <<>> /\ Head(calls') = Deactivate(how) /\ Tail(calls') = t
        /\ Head(calls')[1] = "deactivate"
    BY <1>3, <1>9, TopIsNext, FramesAre, TailsAre, Zenon
  <2>2. t # <<>> => Live'
    BY <1>3, <1>9, Zenon DEF Undone, StillBusy, Live, taskVars
  <2>3. Resumable(t)'
    BY <1>3, <1>6, <1>9, <2>2, TailsAre, Zenon DEF DeactivateOK, Resumable, Polled, Undone
  <2>4. ((Plain /\ active) \/ Agreeing(t))'
    <3>1. CASE active
      BY <1>3, <1>6, <1>9, <3>1, Zenon DEF DeactivateOK, Agreeing, InStep, StillBusy, Live, taskVars
    <3>2. CASE ~active
      BY <1>3, <1>6, <1>9, <3>2, Zenon DEF DeactivateOK, Agreeing, InStep, StillBusy, Live, taskVars
    <3> QED
      BY <3>1, <3>2, Zenon
  <2>5. AtDeactivate'
    BY <1>3, <1>9, <2>2, <2>3, <2>4, Zenon DEF AtDeactivate, DeactivateOK
  <2>6. Stacked'
    BY <2>1, <2>5, Zenon DEF Stacked, Running, Idle
  <2>7. Staged'
    <3>1. ASSUME LastStage' PROVE ~scanning' /\ Ending'
      <4>1. LastStage
        BY <1>1, <1>3, <3>1, Zenon DEF LastStage
      <4>2. ~scanning /\ s \in {<<>>, Push(Deactivate("done"), <<>>)}
        <5>1. Ending /\ ~scanning
          BY <4>1 DEF Control, Staged
        <5>2. Head(calls)[1] = "maybe_complete"
          BY <1>2, FramesAre
        <5>3. /\ ChangeState("INACTIVE")[1] = "change_state" /\ ChangeState("DEACTIVATING")[1] = "change_state"
              /\ Deactivate("done")[1] = "deactivate"
          BY FramesAre DEF ImageStates
        <5> QED
          BY <1>2, <5>1, <5>2, <5>3, CallsAre, Zenon DEF Ending
      <4>3. s # <<>> /\ Tail(s) = t /\ Head(s) = Deactivate(how)
        BY <1>9, <2>1, PushIs, FramesAre, Zenon
      <4>4. /\ Tail(Push(Deactivate("done"), <<>>)) = <<>>
            /\ Head(Push(Deactivate("done"), <<>>)) = Deactivate("done")
        BY PushIs, TailsAre, FramesAre, Zenon
      <4>5. t = <<>> /\ Deactivate(how) = Deactivate("done")
        BY <4>2, <4>3, <4>4, Zenon
      <4>6. active
        BY <1>3, <3>1, <4>1, <4>2 DEF LastStage, Live, StillBusy
      <4> QED
        BY <1>3, <2>1, <4>2, <4>5, <4>6, Zenon DEF Ending
    <3> QED
      BY <3>1, Zenon DEF Staged
  <2> QED
    BY <1>4, <1>5, <2>6, <2>7, Zenon DEF Control
<1> QED
  BY <1>1, <1>7, <1>8, <1>9, Zenon

LEMMA FingerStep ==
  ASSUME Control, NEW on \in BOOLEAN, fpi_image_device_report_finger_status(on)
  PROVE  Control'
<1> DEFINE f == IF on THEN "finger_on" ELSE "finger_off"
<1>1. PICK t \in Tails : calls = Push(Call(f), t) /\ ev = {} /\ FingerOK(f, t)
  BY Zenon DEF Control, Stacked, AtFinger, fpi_image_device_report_finger_status
<1>2. /\ t \in Stack /\ calls # <<>> /\ Head(calls) = Call(f) /\ Tail(calls) = t
      /\ Head(calls)[1] = f
  BY <1>1, TailsAre, TopIs, CallsAre, Zenon
<1>3. /\ UNCHANGED <<istate, active, scanning, action_error, stage, lowVars, taskVars, timer>>
      /\ UNCHANGED <<ev, mode, action, returning>>
      /\ present' \in {present, on}
  BY Zenon DEF fpi_image_device_report_finger_status, lowVars, sessVars, taskVars
<1>4. ImageTyped'
  <2>1. present' \in BOOLEAN
    BY <1>3, Zenon DEF Control, ImageTyped
  <2> QED
    BY <1>3, <2>1, Zenon DEF Control, ImageTyped, taskVars
<1>5. Flags'
  BY <1>1, <1>3, Zenon DEF Control, Flags, FingerOK, Live
<1>6. ~LastStage
  BY <1>2, NotLastStage, Zenon DEF Control
<1>7. Staged'
  BY <1>3, <1>6, Zenon DEF Staged, LastStage, Live
<1>8. CASE calls' = t /\ ~(on /\ istate = "AWAIT_FINGER_ON") /\ ~(~on /\ istate = "AWAIT_FINGER_OFF")
  <2>1. ~Plain
    BY <1>1, <1>8, Zenon DEF FingerOK
  <2>2. (Resumable(t) /\ Agreeing(t))'
    BY <1>1, <1>3, <2>1, TailsAre, Zenon
    DEF FingerOK, Undone, Live, AfterError, Resumable, Agreeing, InStep, Errable, Waits,
        WaitingUp, Capturing
  <2> QED
    BY <1>4, <1>5, <1>7, <1>8, <2>2, Resume, Zenon DEF Control
<1>9. CASE action \in {"OPEN", "CLOSE"} /\ Abort
  <2>1. ~Plain
    BY <1>1, <1>9, Zenon DEF FingerOK, Control, Flags, CaptureActions
  <2>2. calls' # <<>> /\ Head(calls')[1] = "abort"
    BY <1>9, AbortIs, Zenon DEF Abort
  <2> QED
    BY <1>4, <1>5, <1>7, <2>1, <2>2, Zenon DEF Control, Stacked, Running, Idle
<1>10. CASE on /\ istate = "AWAIT_FINGER_ON" /\ Then(<<ChangeState("CAPTURE")>>)
  <2>1. calls' = Push(ChangeState("CAPTURE"), t)
    BY <1>2, <1>10, Calling, FramesAre, Zenon DEF ImageStates
  <2>2. calls' # <<>> /\ Head(calls')[1] = "change_state"
    BY <1>2, <2>1, TopIsNext, FramesAre, Zenon DEF ImageStates
  <2>3. FingerOK("finger_on", t)'
    BY <1>1, <1>3, <1>10, Zenon DEF FingerOK, Undone, Live, AfterError
  <2>4. AtChangeState'
    BY <1>1, <1>3, <2>1, <2>3, Zenon DEF AtChangeState
  <2> QED
    BY <1>4, <1>5, <1>7, <2>2, <2>4, Zenon DEF Control, Stacked, Running, Idle
<1>11. ASSUME ~on, istate = "AWAIT_FINGER_OFF",
              NEW x \in {Deactivate("done"), Call("enroll_maybe")},
              x = Call("enroll_maybe") => action = "ENROLL",
              Then(<<ChangeState("IDLE"), x>>)
       PROVE  Control'
  <2>1. x \in Frame
    BY CallsAre, FramesAre, Zenon
  <2>2. calls' = Push(ChangeState("IDLE"), Push(x, t)) /\ Push(x, t) \in Stack
    BY <1>2, <1>11, <2>1, Calling, FramesAre, PushIs, Zenon DEF ImageStates
  <2>3. calls' # <<>> /\ Head(calls')[1] = "change_state"
    BY <2>2, TopIsNext, FramesAre DEF ImageStates
  <2>4. FingerOK("finger_off", t)'
    BY <1>1, <1>3, <1>11 DEF FingerOK, Undone, Live, AfterError
  <2>5. action = "ENROLL" => ~Plain
    BY Zenon DEF Control, ImageTyped, Plain
  <2>6. AtChangeState'
    BY <1>1, <1>3, <1>11, <2>2, <2>4, <2>5, Zenon DEF AtChangeState
  <2> QED
    BY <1>4, <1>5, <1>7, <2>3, <2>6, Zenon DEF Control, Stacked, Running, Idle
<1>12. CASE Then(<<>>) /\ ~(on /\ istate = "AWAIT_FINGER_ON") /\ ~(~on /\ istate = "AWAIT_FINGER_OFF")
  BY <1>2, <1>8, <1>12, Calling, Zenon
<1>13. CASE Then(FingerCalls(on))
  <2>1. CASE on /\ istate = "AWAIT_FINGER_ON"
    BY <1>10, <1>13, <2>1, Zenon DEF FingerCalls
  <2>2. CASE ~on /\ istate = "AWAIT_FINGER_OFF"
    <3> DEFINE x == IF action # "ENROLL" THEN Deactivate("done") ELSE Call("enroll_maybe")
    <3>1. FingerCalls(on) = <<ChangeState("IDLE"), x>>
      BY <2>2, Zenon DEF FingerCalls
    <3>2. x \in {Deactivate("done"), Call("enroll_maybe")}
          /\ (x = Call("enroll_maybe") => action = "ENROLL")
      BY CallsAre, FramesAre, Zenon
    <3> HIDE DEF x
    <3> QED
      BY <1>11, <1>13, <2>2, <3>1, <3>2, Zenon
  <2>3. CASE ~(on /\ istate = "AWAIT_FINGER_ON") /\ ~(~on /\ istate = "AWAIT_FINGER_OFF")
    <3>1. FingerCalls(on) = <<>>
      BY <2>3, Zenon DEF FingerCalls
    <3> QED
      BY <1>12, <1>13, <2>3, <3>1
  <2> QED
    BY <2>1, <2>2, <2>3
<1> QED
  BY <1>9, <1>12, <1>13 DEF fpi_image_device_report_finger_status

LEMMA ImageStep == ASSUME Control, emit_image_captured PROVE Control'
<1>1. PICK t \in {<<>>, Pumped} : calls = Push(Call("image_ready"), t) /\ ev = {} /\ ImageOK
  BY DEF Control, Stacked, AtImageReady, emit_image_captured
<1>2. /\ t \in Tails /\ t \in Stack /\ calls # <<>> /\ Tail(calls) = t
      /\ Head(calls)[1] = "image_ready"
  BY <1>1, TailsAre, TopIs, CallsAre
<1>3. /\ UNCHANGED <<istate, active, present, action_error, stage, taskVars, timer>>
      /\ UNCHANGED <<ev, mode, action, returning>>
  BY DEF emit_image_captured, taskVars
<1>4. ~LastStage
  BY <1>2, NotLastStage, Zenon DEF Control
<1>5. Staged'
  BY <1>3, <1>4, Zenon DEF Staged, LastStage, Live
<1>6. CASE /\ istate = "CAPTURE" /\ action \in CaptureActions
           /\ scanning' = TRUE /\ Then(<<ChangeState("AWAIT_FINGER_OFF")>>)
  <2>1. calls' = Push(ChangeState("AWAIT_FINGER_OFF"), t)
    BY <1>2, <1>6, Calling, FramesAre, Zenon DEF ImageStates
  <2>2. calls' # <<>> /\ Head(calls')[1] = "change_state"
    BY <1>2, <2>1, TopIsNext, FramesAre, Zenon DEF ImageStates
  <2>3. (Undone /\ ev = {} /\ (Plain => active /\ mode = "IDLE"))'
    BY <1>1, <1>3, Zenon DEF ImageOK, Undone, Live
  <2>4. AtChangeState'
    BY <1>2, <2>1, <2>3, Zenon DEF AtChangeState
  <2>5. ImageTyped' /\ Flags'
    BY <1>1, <1>3, <1>6, Zenon DEF Control, ImageTyped, Flags, ImageOK, Undone, Live, taskVars
  <2> QED
    BY <1>5, <2>2, <2>4, <2>5, Zenon DEF Control, Stacked, Running, Idle
<1>7. CASE /\ ~(istate = "CAPTURE" /\ action \in CaptureActions)
           /\ scanning' = scanning /\ Then(<<>>)
  <2>1. ~Plain
    BY <1>1, <1>7, Zenon DEF Control, Flags, ImageOK
  <2>2. (Resumable(t) /\ Agreeing(t))'
    BY <1>1, <1>3, <2>1, TailsAre, Zenon
    DEF ImageOK, Undone, Live, Resumable, Polled, Agreeing, InStep, Errable, Waits, WaitingUp, Capturing
  <2>3. ImageTyped' /\ Flags'
    BY <1>3, <1>7 DEF Control, ImageTyped, Flags, Live, taskVars
  <2> QED
    BY <1>2, <1>5, <1>7, <2>2, <2>3, Calling, Resume, Zenon DEF Control
<1> QED
  BY <1>1, <1>6, <1>7, ZenonT(30) DEF emit_image_captured, ImageOK

LEMMA ActivationErrorStep == ASSUME Control, ActivationError PROVE Control'
<1>1. PICK t \in Tails : calls = Push(Call("err_activate"), t) /\ ErrorOK("err_activate", t)
  BY Zenon DEF Control, Stacked, AtError, ActivationError
<1>2. t \in Stack /\ calls # <<>> /\ Head(calls)[1] = "err_activate" /\ Tail(calls) = t
  BY <1>1, TailsAre, TopIs, CallsAre, Zenon
<1>3. /\ UNCHANGED <<lowVars, imgVars, action, cancelled, is_open>> /\ timer' = FALSE
      /\ UNCHANGED <<ev, mode, istate, active, scanning, stage, present>> /\ calls' = t
  BY <1>2, Calling, Zenon DEF ActivationError, Complete, taskVars, lowVars, sessVars, imgVars
<1>4. ~LastStage
  BY <1>2, NotLastStage, Zenon DEF Control
<1>5. CASE ActivationPending
  <2>1. returning' = "error" /\ idle_cancel' = FALSE
    BY <1>5 DEF ActivationError, Complete
  <2>2. ImageTyped' /\ Flags'
    <3>1. ImageTyped'
      BY <1>3, <2>1, Zenon DEF Control, ImageTyped, imgVars
    <3>2. Flags'
      BY <1>3, <1>5, <2>1 DEF Control, Flags, Live, ActivationPending, CaptureActions
    <3> QED
      BY <3>1, <3>2, Zenon
  <2>3. Staged'
    BY <2>1 DEF Staged, LastStage, Live
  <2>4. Resumable(t)'
    BY <1>1, <1>3, TailsAre DEF ErrorOK, Resumable, Polled
  <2>5. Agreeing(t)'
    BY <1>1, <1>3, <1>5, <2>1, Zenon
    DEF ErrorOK, Errable, ActivationPending, Agreeing, InStep, Live
  <2> QED
    BY <1>3, <2>2, <2>3, <2>4, <2>5, Resume, Zenon DEF Control
<1>6. CASE ~ActivationPending
  <2>1. UNCHANGED <<taskVars, returning>>
    BY <1>6, Zenon DEF ActivationError, taskVars
  <2>2. ImageTyped' /\ Flags'
    <3>1. ImageTyped'
      BY <1>3, <2>1, Zenon DEF Control, ImageTyped, imgVars, taskVars
    <3>2. Flags'
      BY <1>3, <2>1 DEF Control, Flags, Live
    <3> QED
      BY <3>1, <3>2
  <2>3. Staged'
    BY <1>3, <1>4, <2>1 DEF Staged, LastStage, Live
  <2>4. Resumable(t)'
    BY <1>1, <1>3, TailsAre DEF ErrorOK, Resumable, Polled
  <2>5. Agreeing(t)'
    BY <1>1, <1>3, <1>6, Zenon DEF ErrorOK, Errable, Agreeing, InStep
  <2> QED
    BY <1>3, <2>2, <2>3, <2>4, <2>5, Resume DEF Control
<1> QED
  BY <1>5, <1>6, Zenon

LEMMA SessionErrorStep == ASSUME Control, fpi_image_device_session_error PROVE Control'
<1>1. PICK t \in Tails : calls = Push(Call("err_session"), t) /\ ErrorOK("err_session", t)
  BY Zenon DEF Control, Stacked, AtError, fpi_image_device_session_error
<1>2. t \in Stack /\ calls # <<>> /\ Head(calls)[1] = "err_session" /\ Tail(calls) = t
  BY <1>1, TailsAre, TopIs, CallsAre, Zenon
<1>3. /\ UNCHANGED <<lowVars, imgVars, taskVars>> /\ timer' = FALSE
      /\ UNCHANGED <<ev, mode, istate, active, scanning, stage, present, action, returning>>
      /\ Then(ErrorCalls)
  BY Zenon DEF fpi_image_device_session_error, taskVars, lowVars, sessVars, imgVars
<1>4. ~LastStage
  BY <1>2, NotLastStage, Zenon DEF Control
<1>5. ImageTyped'
  BY <1>3, Zenon DEF Control, ImageTyped, imgVars, taskVars
<1>6. Flags' /\ Staged'
  BY <1>3, <1>4 DEF Control, Flags, Staged, LastStage, Live
<1>7. CASE ~active /\ action # "NONE"
  <2>1. ErrorCalls = <<Call("err_activate")>>
    BY <1>7, Zenon DEF ErrorCalls
  <2>2. calls' = Push(Call("err_activate"), t)
    BY <1>2, <1>3, <2>1, Calling, CallsAre, Zenon
  <2>3. calls' # <<>> /\ Head(calls')[1] = "err_activate"
    BY <1>2, <2>2, TopIsNext, CallsAre, Zenon
  <2>4. ErrorOK("err_activate", t)'
    BY <1>1, <1>3, <1>7, Zenon DEF ErrorOK, Live, Errable, ActivationPending
  <2>5. AtError("err_activate")'
    BY <2>2, <2>4, Zenon DEF AtError
  <2> QED
    BY <1>5, <1>6, <2>3, <2>5, Zenon DEF Control, Stacked, Running, Idle
<1>8. CASE active /\ istate = "INACTIVE"
  <2>1. ErrorCalls = <<>>
    BY <1>8, Zenon DEF ErrorCalls
  <2>2. calls' = t
    BY <1>2, <1>3, <2>1, Calling, Zenon
  <2>3. Resumable(t)'
    BY <1>1, <1>3, TailsAre, Zenon DEF ErrorOK, Resumable, Polled
  <2>4. Agreeing(t)'
    BY <1>1, <1>8, Zenon DEF ErrorOK, Errable, ActivationPending, Agreeing, InStep
  <2> QED
    BY <1>5, <1>6, <2>2, <2>3, <2>4, Resume, Zenon DEF Control
<1>9. CASE (active \/ action = "NONE") /\ ~(active /\ istate = "INACTIVE")
  <2> DEFINE s == Push(Deactivate("cancel"), t)
  <2>1. ErrorCalls = <<MaybeComplete("error"), Deactivate("cancel")>>
    BY <1>9, Zenon DEF ErrorCalls
  <2>2. calls' = Push(MaybeComplete("error"), s) /\ s \in Stack
    BY <1>2, <1>3, <2>1, Calling, FramesAre, PushIs, Zenon
  <2>3. calls' # <<>> /\ Head(calls')[1] = "maybe_complete"
    BY <2>2, TopIsNext, FramesAre, Zenon
  <2>4. Live
    BY <1>9, Zenon DEF Control, Flags
  <2>5. (Undone /\ Resumable(t))' /\ t # Errs
    BY <1>1, <1>3, <2>4, TailsAre, Zenon DEF ErrorOK, Resumable, Polled, Undone, Live
  <2>6. ((Plain /\ active) \/ Agreeing(t))'
    BY <1>1, <1>3, <1>9, Zenon
    DEF ErrorOK, Errable, ActivationPending, CaptureActions, Agreeing, InStep
  <2>7. DeactivateOK(t)'
    BY <2>5, <2>6, Zenon DEF DeactivateOK, Undone
  <2>8. AtMaybeComplete'
    BY <1>3, <1>9, <2>2, <2>5, <2>7, Zenon DEF AtMaybeComplete
  <2> QED
    BY <1>5, <1>6, <2>3, <2>8, Zenon DEF Control, Stacked, Running, Idle
<1> QED
  BY <1>7, <1>8, <1>9, Zenon DEF Control, ImageTyped

LEMMA ActivateCompleteStep == ASSUME Control, fpi_image_device_activate_complete PROVE Control'
<1>1. PICK t \in Tails : /\ calls = Push(Call("activate_complete"), t) /\ ev = {}
                         /\ t # Errs /\ ActivatedOK
  BY Zenon DEF Control, Stacked, AtActivateComplete, fpi_image_device_activate_complete
<1>2. t \in Stack /\ calls # <<>> /\ Head(calls)[1] = "activate_complete" /\ Tail(calls) = t
  BY <1>1, TailsAre, TopIs, CallsAre, Zenon
<1>3. /\ UNCHANGED <<istate, present, scanning, action_error, stage, lowVars, taskVars, timer>>
      /\ UNCHANGED <<ev, mode, action, returning>>
  BY Zenon DEF fpi_image_device_activate_complete, taskVars, lowVars, sessVars
<1>4. ~LastStage
  BY <1>2, NotLastStage, Zenon DEF Control
<1>5. Staged'
  BY <1>3, <1>4, Zenon DEF Staged, LastStage, Live
<1>6. CASE ActivationPending
  <2> DEFINE s == Push(ChangeState("AWAIT_FINGER_ON"), t)
  <2>1. active' = TRUE /\ Then(<<ChangeState("IDLE"), ChangeState("AWAIT_FINGER_ON")>>)
    BY <1>6, Zenon DEF fpi_image_device_activate_complete
  <2>2. calls' = Push(ChangeState("IDLE"), s) /\ s \in Stack
    BY <1>2, <2>1, Calling, FramesAre, PushIs, Zenon DEF ImageStates
  <2>3. calls' # <<>> /\ Head(calls')[1] = "change_state"
    BY <2>2, TopIsNext, FramesAre DEF ImageStates
  <2>4. AwaitOK(t)'
    BY <1>1, <1>3, <2>1, Zenon DEF AwaitOK, ActivatedOK, Undone, Live, AfterError
  <2>5. AtChangeState'
    BY <2>2, <2>4, Zenon DEF AtChangeState
  <2>6. ImageTyped'
    BY <1>3, <2>1, Zenon DEF Control, ImageTyped, taskVars
  <2>7. Flags'
    BY <1>1, <1>3, <1>6, <2>1, Zenon
    DEF Control, Flags, Live, ActivatedOK, Undone, ActivationPending
  <2> QED
    BY <1>5, <2>3, <2>5, <2>6, <2>7, Zenon DEF Control, Stacked, Running, Idle
<1>7. CASE ~ActivationPending
  <2>1. active' = active /\ Then(<<>>)
    BY <1>7, Zenon DEF fpi_image_device_activate_complete, Control, ImageTyped
  <2>2. Resumable(t)'
    BY <1>1, <1>3, Zenon
    DEF ActivatedOK, Undone, Live, Resumable, Polled, Waits, WaitingUp, Capturing
  <2>3. Agreeing(t)'
    BY <1>1, <1>7, Zenon DEF ActivatedOK, Agreeing, InStep
  <2>4. ImageTyped'
    BY <1>3, <2>1, Zenon DEF Control, ImageTyped, taskVars
  <2>5. Flags'
    BY <1>3, <2>1, Zenon DEF Control, Flags, Live
  <2> QED
    BY <1>2, <1>5, <2>1, <2>2, <2>3, <2>4, <2>5, Calling, Resume, Zenon DEF Control
<1> QED
  BY <1>6, <1>7

LEMMA DeactivateCompleteStep ==
  ASSUME Control, fpi_image_device_deactivate_complete
  PROVE  Control'
<1>1. PICK t \in Tails : calls = Push(Call("deactivate_complete"), t) /\ DeactivateCompleteOK
  BY Zenon DEF Control, Stacked, AtDeactivateComplete, fpi_image_device_deactivate_complete
<1>2. t \in Stack /\ calls # <<>> /\ Head(calls) = Call("deactivate_complete") /\ Tail(calls) = t
  BY <1>1, TailsAre, TopIs, CallsAre, Zenon
<1>3. /\ UNCHANGED <<istate, scanning, action_error, stage, lowVars, taskVars>> /\ timer' = FALSE
      /\ UNCHANGED <<ev, mode, action, returning>> /\ active' = FALSE /\ present' = FALSE
      /\ Then(<<ChangeState("INACTIVE"), MaybeComplete("none")>>)
  BY <1>1, Zenon DEF fpi_image_device_deactivate_complete, DeactivateCompleteOK, Deactivating,
              FingerRemoved, taskVars, lowVars, sessVars
<1> DEFINE s == Push(MaybeComplete("none"), t)
<1>4. calls' = Push(ChangeState("INACTIVE"), s) /\ s \in Stack
  BY <1>2, <1>3, Calling, FramesAre, PushIs, Zenon DEF ImageStates
<1>5. /\ calls' # <<>> /\ Head(calls') = ChangeState("INACTIVE") /\ Tail(calls') = s
      /\ Head(calls')[1] = "change_state"
  BY <1>4, TopIsNext, FramesAre, Zenon DEF ImageStates
<1>6. CompleteOK'
  BY <1>1, <1>3, Zenon DEF Control, Flags, CompleteOK, DeactivateCompleteOK, Deactivating, Live
<1>7. AtChangeState'
  BY <1>4, <1>6, Zenon DEF AtChangeState
<1>8. ImageTyped'
  BY <1>3, Zenon DEF Control, ImageTyped, taskVars
<1>9. Flags'
  BY <1>3 DEF Control, Flags, Live
<1>10. Staged'
  <2>1. LastStage => t = <<>> /\ ~scanning
    BY <1>2, EndingTop, CallsAre, Zenon DEF Control, Staged
  <2> QED
    BY <1>3, <1>5, <2>1, Zenon DEF Staged, LastStage, Live, Ending
<1> QED
  BY <1>5, <1>7, <1>8, <1>9, <1>10, Zenon DEF Control, Stacked, Running, Idle

LEMMA CloseCompleteStep == ASSUME Control, fpi_image_device_close_complete PROVE Control'
<1>1. calls = Push(Call("close_complete"), <<>>) /\ CloseOK(<<>>)
  BY DEF Control, Stacked, AtCloseComplete, CloseOK, fpi_image_device_close_complete
<1>2. <<>> \in Stack /\ calls # <<>> /\ Tail(calls) = <<>>
  BY <1>1, TailsAre, TopIs, CallsAre, Zenon
<1>3. /\ UNCHANGED <<active, present, scanning, action_error, stage, lowVars>> /\ timer' = FALSE
      /\ UNCHANGED <<ev, mode, action, cancelled, is_open>> /\ istate' = "INACTIVE"
      /\ returning' = "ok" /\ idle_cancel' = FALSE /\ calls' = <<>>
  BY <1>1, <1>2, Calling, Zenon
  DEF fpi_image_device_close_complete, CloseOK, Complete, lowVars, sessVars
<1>4. ImageTyped'
  BY <1>3, Zenon DEF Control, ImageTyped, ImageStates
<1>5. Flags' /\ Staged'
  BY <1>1, <1>3 DEF Control, Flags, Staged, LastStage, Live, CloseOK, CaptureActions
<1>6. (Resumable(<<>>) /\ InStep)'
  BY <1>1, <1>3, TailsAre, Zenon
  DEF CloseOK, Resumable, Polled, InStep, Waits, WaitingUp, Capturing, Quiet
<1>7. Stacked'
  BY <1>3, <1>6, TailsAre, Resume, Zenon DEF Agreeing
<1> QED
  BY <1>4, <1>5, <1>7 DEF Control

LEMMA TickStep == ASSUME Control, Tick PROVE Control'
<1>1. UNCHANGED <<lowVars, imgVars, taskVars>>
      /\ UNCHANGED <<ev, mode, istate, active, scanning, stage, present, action, returning>>
      /\ Then(<<>>) /\ timer' \in BOOLEAN
  BY Zenon DEF Tick, Running, taskVars, lowVars, sessVars, imgVars
<1>2. ImageTyped'
  BY <1>1, Zenon DEF Control, ImageTyped, imgVars, taskVars
<1>3. Flags'
  BY <1>1, Zenon DEF Control, Flags, Live
<1>4. CASE Running("request_tick")
  <2>1. PICK t \in Tails : calls = Push(Call("request_tick"), t) /\ TickOK(t)
    BY <1>4, Zenon DEF Control, Stacked, AtTick
  <2>2. t \in Stack /\ Head(calls)[1] = "request_tick" /\ Tail(calls) = t
    BY <2>1, TailsAre, TopIs, CallsAre, Zenon
  <2>3. timer' = TRUE
    BY <1>4, Zenon DEF Tick
  <2>4. (Resumable(t) /\ Agreeing(t))'
    BY <1>1, <2>1, <2>3, TailsAre, Zenon DEF TickOK, Resumable, Polled, Agreeing, InStep, Live
  <2>5. Staged'
    BY <1>1, <2>2, NotLastStage, Zenon DEF Control, Staged, LastStage, Live
  <2> QED
    BY <1>1, <1>2, <1>3, <2>2, <2>4, <2>5, Calling, Resume, Zenon DEF Control
<1>5. CASE Running("cancel_tick")
  <2>1. PICK t \in Tails, f \in {"err_activate", "err_session", "deactivate_complete", "close_complete"} :
          /\ calls = Push(Call("cancel_tick"), Push(Call(f), t))
          /\ \/ f \in {"err_activate", "err_session"} /\ ErrorOK(f, t)
             \/ f = "deactivate_complete" /\ DeactivateCompleteOK
             \/ f = "close_complete" /\ CloseOK(t)
    BY <1>5, Zenon DEF Control, Stacked, AtCancelTick
  <2>a. Call(f) \in Frame /\ Call(f)[1] = f /\ Push(Call(f), t) \in Stack
    <3>1. Call(f) \in Frame /\ Call(f)[1] = f
      BY CallsAre, Zenon
    <3> QED
      BY <3>1, PushIs, TailsAre, Zenon
  <2>2. /\ t \in Stack /\ Push(Call(f), t) \in Stack /\ calls # <<>>
        /\ Head(calls) = Call("cancel_tick") /\ Tail(calls) = Push(Call(f), t)
    BY <2>1, <2>a, TailsAre, TopIs, CallsAre, Zenon
  <2>3. /\ calls' = Push(Call(f), t) /\ calls' # <<>> /\ Head(calls') = Call(f) /\ Tail(calls') = t
        /\ Head(calls')[1] = f
    BY <1>1, <2>a, <2>2, Calling, TopIsNext, Zenon
  <2>4. Stacked'
    <3>1. CASE f \in {"err_activate", "err_session"} /\ ErrorOK(f, t)
      <4>1. ErrorOK(f, t)'
        BY <1>1, <3>1, Zenon DEF ErrorOK, Live, Errable, ActivationPending
      <4>2. AtError(f)'
        BY <2>3, <4>1, Zenon DEF AtError
      <4> QED
        BY <2>3, <3>1, <4>2, Zenon DEF Stacked, Running, Idle
    <3>2. CASE f = "deactivate_complete" /\ DeactivateCompleteOK
      <4>1. DeactivateCompleteOK'
        BY <1>1, <3>2, Zenon DEF DeactivateCompleteOK, Deactivating, Live
      <4>2. AtDeactivateComplete'
        BY <2>3, <3>2, <4>1, Zenon DEF AtDeactivateComplete
      <4> QED
        BY <2>3, <3>2, <4>2, Zenon DEF Stacked, Running, Idle
    <3>3. CASE f = "close_complete" /\ CloseOK(t)
      <4>1. CloseOK(t)'
        BY <1>1, <3>3, Zenon DEF CloseOK, Undone, Live
      <4>2. AtCloseComplete'
        BY <2>3, <3>3, <4>1, Zenon DEF AtCloseComplete
      <4> QED
        BY <2>3, <3>3, <4>2, Zenon DEF Stacked, Running, Idle
    <3> QED
      BY <2>1, <3>1, <3>2, <3>3, Zenon
  <2>5. Staged'
    <3>1. ASSUME LastStage PROVE ~scanning /\ t = <<>> /\ Call(f) = Call("deactivate_complete")
      <4>1. ~scanning /\ Push(Call(f), t) = Push(Call("deactivate_complete"), <<>>)
        <5>1. Ending /\ ~scanning
          BY <3>1, Zenon DEF Control, Staged
        <5>2. Head(calls)[1] = "cancel_tick"
          BY <2>2, CallsAre, Zenon
        <5>3. /\ ChangeState("INACTIVE")[1] = "change_state" /\ Deactivate("done")[1] = "deactivate"
              /\ ChangeState("DEACTIVATING")[1] = "change_state"
              /\ MaybeComplete("none")[1] = "maybe_complete"
          BY FramesAre, Zenon DEF ImageStates
        <5> QED
          BY <2>2, <5>1, <5>2, <5>3, CallsAre, Zenon DEF Ending
      <4>2. /\ Tail(Push(Call("deactivate_complete"), <<>>)) = <<>>
            /\ Head(Push(Call("deactivate_complete"), <<>>)) = Call("deactivate_complete")
        BY PushIs, TailsAre, CallsAre, Zenon
      <4>3. Head(Push(Call(f), t)) = Call(f) /\ Tail(Push(Call(f), t)) = t
        BY <2>2, <2>a, PushIs, Zenon
      <4> QED
        BY <4>1, <4>2, <4>3, Zenon
    <3> QED
      BY <1>1, <2>3, <3>1, Zenon DEF Staged, LastStage, Live, Ending
  <2> QED
    BY <1>2, <1>3, <2>4, <2>5, Zenon DEF Control
<1> QED
  BY <1>4, <1>5, Zenon DEF Tick

-----------------------------------------------------------------------------
(* What the main loop and the user start. *)

LEMMA OpenStep == ASSUME Control, fp_device_open PROVE Control'
<1>1. /\ calls = <<>> /\ calls' = <<>> /\ action = "NONE" /\ AtIdle
      /\ action' = "OPEN" /\ istate' = "INACTIVE" /\ returning' \in {"ok", "error"}
      /\ UNCHANGED <<active, present, scanning, action_error, stage, is_open, timer, cancelled, idle_cancel>>
      /\ mode' \in {"READY", "CLOSED"} /\ ev' = ev
  BY Zenon DEF fp_device_open, Clean, Control, Stacked, Idle, gxfp_session_open, OpenFails,
         gxfp_session_reset_runtime
<1>2. ImageTyped'
  BY <1>1, Zenon DEF Control, ImageTyped, ImageStates
<1>3. ~active /\ ~scanning
  BY <1>1, Zenon DEF Control, Flags, CaptureActions
<1>4. Flags' /\ Staged'
  BY <1>1, <1>3, Zenon DEF Control, Flags, Staged, LastStage, Live
<1>5. (Resumable(<<>>) /\ InStep)'
  BY <1>1, <1>3, TailsAre, Zenon
  DEF AtIdle, Resumable, Polled, InStep, Waits, WaitingUp, Capturing, Quiet
<1> QED
  BY <1>1, <1>2, <1>4, <1>5, TailsAre, Resume, Zenon DEF Control, Agreeing

LEMMA CloseStep == ASSUME Control, fp_device_close PROVE Control'
<1>1. ~active /\ ~scanning /\ AtIdle /\ action = "NONE" /\ Live
  BY Zenon DEF fp_device_close, Control, Stacked, Flags, CaptureActions
<1>2. /\ action' = "CLOSE" /\ timer' = FALSE /\ calls' = <<Call("handle")>>
      /\ UNCHANGED <<imgVars, returning, is_open, cancelled, idle_cancel>>
      /\ UNCHANGED <<active, istate, scanning, present>>
      /\ mode' = "CLOSED" /\ ev' = {"cancel_tick", "close_complete"}
  BY <1>1, Zenon DEF fp_device_close, Clean, AtIdle, Resumable, gxfp_session_request_close,
              gxfp_session_reset_runtime, imgVars
<1>3. calls' = Push(Call("handle"), <<>>)
  BY <1>2, PushedAre, CallsAre, Zenon
<1>4. calls' # <<>> /\ Head(calls')[1] = "handle"
  BY <1>3, TopIsNext, TailsAre, CallsAre, Zenon
<1>5. ImageTyped'
  BY <1>2, Zenon DEF Control, ImageTyped, imgVars
<1>6. Flags' /\ Staged'
  BY <1>1, <1>2 DEF Control, Flags, Staged, LastStage, Live
<1>7. Handled(<<>>)'
  BY <1>1, <1>2 DEF Handled, Undone, Live, AtIdle, Resumable
<1>8. AtHandle'
  BY <1>3, <1>7, TailsAre, Zenon DEF AtHandle
<1> QED
  BY <1>4, <1>5, <1>6, <1>8, Zenon DEF Control, Stacked, Running, Idle

LEMMA StartStep ==
  ASSUME Control, NEW a \in Actions, fp_image_device_start_capture_action(a)
  PROVE  Control'
<1>1. ~active /\ ~scanning /\ AtIdle /\ action = "NONE" /\ Live
  BY Zenon DEF fp_image_device_start_capture_action, Control, Stacked, Flags, CaptureActions
<1>2. /\ action' = a /\ stage' = 0
      /\ UNCHANGED <<istate, active, present, scanning, action_error, lowVars, timer, returning,
                     is_open, cancelled, idle_cancel>>
      /\ UNCHANGED <<ev, mode>> /\ a \in CaptureActions
  BY ActionsAssumption, Zenon
  DEF fp_image_device_start_capture_action, Clean, lowVars, sessVars, CaptureActions
<1>3. ImageTyped'
  <2>1. stage' \in 0..EnrollStages
    BY <1>2, ActionsAssumption
  <2> QED
    BY <1>2, <2>1, Zenon DEF Control, ImageTyped
<1>4. stage' # EnrollStages
  BY <1>2, ActionsAssumption, Zenon
<1>5. Flags' /\ Staged'
  BY <1>1, <1>2, <1>4, Zenon DEF Control, Flags, Staged, LastStage, Live
<1>6. CASE present
  <2>1. ~Plain
    BY <1>1, <1>6, Zenon DEF Control, Flags
  <2>2. calls' = <<Call("abort")>>
    BY <1>6, Zenon DEF fp_image_device_start_capture_action, Abort
  <2>3. calls' # <<>> /\ Head(calls')[1] = "abort"
    BY <2>2, AbortIs, Zenon
  <2> QED
    BY <1>3, <1>5, <2>1, <2>3, Zenon DEF Control, Stacked, Running, Idle
<1>7. CASE ~present
  <2> DEFINE s == Push(Call("gxfp_activate"), <<>>)
  <2>1. calls' = Push(ChangeState("ACTIVATING"), s) /\ s \in Stack
    <3>1. calls' = <<ChangeState("ACTIVATING"), Call("gxfp_activate")>>
      BY <1>1, <1>7, Zenon DEF fp_image_device_start_capture_action
    <3>2. ChangeState("ACTIVATING") \in Frame
      BY FramesAre, Zenon DEF ImageStates
    <3> QED
      BY <3>1, <3>2, PushedAre, PushIs, TailsAre, CallsAre, Zenon
  <2>2. calls' # <<>> /\ Head(calls')[1] = "change_state"
    BY <2>1, TopIsNext, FramesAre, Zenon DEF ImageStates
  <2>3. GxfpActivateOK(<<>>)'
    BY <1>1, <1>2, Zenon DEF GxfpActivateOK, Undone, Live, AtIdle, Resumable
  <2>4. AtChangeState'
    BY <2>1, <2>3, TailsAre, Zenon DEF AtChangeState
  <2> QED
    BY <1>3, <1>5, <2>2, <2>4, Zenon DEF Control, Stacked, Running, Idle
<1> QED
  BY <1>6, <1>7, Zenon

LEMMA CancelStep ==
  ASSUME Control, Cancel \/ fp_device_task_return_in_idle_cb
  PROVE  Control'
<1>1. /\ UNCHANGED <<lowVars, imgVars, timer, calls>> /\ calls = <<>> /\ AtIdle
      /\ UNCHANGED <<ev, mode, istate, active, scanning, present, stage>>
  BY Zenon DEF Cancel, fp_device_task_return_in_idle_cb, Ready, Idle, Control, Stacked, lowVars,
         sessVars, imgVars
<1>2. \/ cancelled' = TRUE /\ idle_cancel' = TRUE /\ UNCHANGED <<action, returning, is_open>>
      \/ /\ cancelled' = FALSE /\ idle_cancel' = idle_cancel /\ action' = "NONE"
         /\ returning # "none" /\ returning' = "none" /\ is_open' \in BOOLEAN
  BY Zenon DEF Cancel, fp_device_task_return_in_idle_cb, Control, ImageTyped
<1>3. ImageTyped'
  BY <1>1, <1>2, Zenon DEF Control, ImageTyped, imgVars
<1>4. ~LastStage
  BY <1>1, NotLastStage DEF Control
<1>5. Flags'
  BY <1>1, <1>2 DEF Control, Flags, Live
<1>6. Staged'
  BY <1>1, <1>2, <1>4, Zenon DEF Staged, LastStage, Live
<1>7. (Resumable(<<>>) /\ InStep)'
  BY <1>1, <1>2, TailsAre, Zenon DEF AtIdle, Resumable, Polled, InStep, Live, CaptureActions
<1> QED
  BY <1>1, <1>3, <1>5, <1>6, <1>7, TailsAre, Resume, Zenon DEF Control, Agreeing

LEMMA CancelInIdleStep == ASSUME Control, fp_device_cancel_in_idle_cb PROVE Control'
<1>1. /\ UNCHANGED <<lowVars, imgVars, timer, action, cancelled, returning, is_open>>
      /\ UNCHANGED <<ev, mode, istate, active, scanning, present, stage>>
      /\ idle_cancel' = FALSE
      /\ calls = <<>> /\ AtIdle /\ calls' = Push(Deactivate("cancel"), <<>>)
  BY PushedAre, FramesAre, Zenon
  DEF fp_device_cancel_in_idle_cb, Idle, Control, Stacked, lowVars, sessVars, imgVars
<1>2. ImageTyped'
  BY <1>1, Zenon DEF Control, ImageTyped, imgVars
<1>3. ~LastStage
  BY <1>1, NotLastStage DEF Control
<1>4. Flags' /\ Staged'
  BY <1>1, <1>3 DEF Control, Flags, Staged, LastStage, Live
<1>5. calls' # <<>> /\ Head(calls')[1] = "deactivate"
  BY <1>1, TopIsNext, TailsAre, FramesAre, Zenon
<1>6. DeactivateOK(<<>>)'
  BY <1>1, TailsAre, Zenon DEF AtIdle, DeactivateOK, Resumable, Agreeing, Polled, InStep, Live
<1>7. AtDeactivate'
  BY <1>1, <1>6, TailsAre, Zenon DEF AtDeactivate
<1> QED
  BY <1>2, <1>4, <1>5, <1>7, Zenon DEF Control, Stacked, Running, Idle

LEMMA PumpTimeoutStep == ASSUME Control, gxfp_pump_timeout_cb PROVE Control'
<1>1. /\ UNCHANGED <<lowVars, imgVars, taskVars>> /\ timer' = FALSE
      /\ UNCHANGED <<ev, mode, istate, active, scanning, present, stage, action, returning>>
      /\ calls = <<>> /\ AtIdle /\ Live
  BY Zenon DEF gxfp_pump_timeout_cb, Ready, Idle, Live, Control, Stacked, lowVars, sessVars, imgVars, taskVars
<1> DEFINE s == Push(Call("handle"), Pumped)
<1>2. calls' = Push(Call("pump"), s) /\ s \in Stack
  <2>1. <<Call("handle"), Call("after_pump")>> = s /\ s \in Stack
    BY PushedAre, CallsAre, PushIs, TailsAre, Zenon DEF Pumped
  <2>2. <<Call("pump"), Call("handle"), Call("after_pump")>>
          = <<Call("pump")>> \o <<Call("handle"), Call("after_pump")>>
    OBVIOUS
  <2> QED
    BY <2>1, <2>2, Zenon DEF gxfp_pump_timeout_cb, Push
<1>3. calls' # <<>> /\ Head(calls')[1] = "pump"
  BY <1>2, TopIsNext, CallsAre, Zenon
<1>4. ImageTyped'
  BY <1>1, Zenon DEF Control, ImageTyped, imgVars, taskVars
<1>5. ~LastStage
  BY <1>1, NotLastStage DEF Control
<1>6. Flags' /\ Staged'
  BY <1>1, <1>5 DEF Control, Flags, Staged, LastStage, Live
<1>7. (Undone /\ PumpEvents /\ ev = {})'
  BY <1>1, Zenon DEF AtIdle, Undone, Live, PumpEvents, Resumable, InStep
<1>8. AtPump("pump")'
  BY <1>2, <1>7, Zenon DEF AtPump
<1> QED
  BY <1>3, <1>4, <1>6, <1>8, Zenon DEF Control, Stacked, Running, Idle

LEMMA ScanStep == ASSUME Control, fpi_image_device_minutiae_detected PROVE Control'
<1>1. /\ UNCHANGED <<istate, active, present, action_error, lowVars, taskVars, timer>>
      /\ UNCHANGED <<ev, mode, action, returning, cancelled>> /\ scanning' = FALSE
      /\ calls = <<>> /\ AtIdle /\ Live /\ scanning
  BY Zenon DEF fpi_image_device_minutiae_detected, Ready, Idle, Live, Control, Stacked, lowVars,
         sessVars, taskVars
<1>2. PICK s \in {"ok", "retry", "error", "match_error"} :
        /\ stage' = IF action = "ENROLL" /\ s \in {"ok", "match_error"} /\ ~cancelled
                    THEN stage + 1 ELSE stage
        /\ calls' = ScanEnds(s)
  BY Zenon DEF fpi_image_device_minutiae_detected
<1>3. ~LastStage
  BY <1>1, NotLastStage, Zenon DEF Control
<1>4. stage' \in 0..EnrollStages
  <2>1. stage \in 0..EnrollStages /\ (action = "ENROLL" => stage # EnrollStages)
    BY <1>1, <1>3, Zenon DEF Control, ImageTyped, LastStage
  <2> QED
    BY <1>2, <2>1, ActionsAssumption
<1>5. ImageTyped'
  BY <1>1, <1>4, Zenon DEF Control, ImageTyped, taskVars
<1>6. Flags'
  BY <1>1 DEF Control, Flags, Live
<1>7. action \in CaptureActions /\ istate # "ACTIVATING"
  BY <1>1 DEF Control, Flags
<1>8. (Undone /\ Resumable(<<>>) /\ InStep /\ DeactivateOK(<<>>))'
  BY <1>1, TailsAre, Zenon DEF AtIdle, DeactivateOK, Undone, Resumable, Agreeing, Polled, InStep, Live
<1>9. CASE cancelled \/ (s = "error" /\ action # "CAPTURE")
  <2>1. calls' = <<MaybeComplete("error"), Deactivate("cancel")>>
    BY <1>2, <1>9, Zenon DEF ScanEnds
  <2> DEFINE u == Push(Deactivate("cancel"), <<>>)
  <2>2. calls' = Push(MaybeComplete("error"), u) /\ u \in Stack
    BY <2>1, PushedAre, PushIs, TailsAre, FramesAre, Zenon
  <2>3. calls' # <<>> /\ Head(calls')[1] = "maybe_complete"
    BY <2>2, TopIsNext, FramesAre, Zenon
  <2>4. AtMaybeComplete'
    BY <1>1, <1>7, <1>8, <2>2, TailsAre, Zenon DEF AtMaybeComplete
  <2>5. Staged'
    BY <1>1, <1>2, <1>3, <1>9, Zenon DEF Staged, LastStage, Live
  <2> QED
    BY <1>5, <1>6, <2>3, <2>4, <2>5, Zenon DEF Control, Stacked, Running, Idle
<1>10. CASE ~cancelled /\ ~(s = "error" /\ action # "CAPTURE") /\ action # "ENROLL"
  <2>1. PICK e \in {"none", "retry", "error"} : calls' = <<MaybeComplete(e)>>
    <3>1. CASE action = "CAPTURE"
      BY <1>2, <1>10, <3>1, Zenon DEF ScanEnds
    <3>2. CASE action \in {"VERIFY", "IDENTIFY"}
      BY <1>2, <1>10, <3>2, Zenon DEF ScanEnds
    <3> QED
      BY <1>7, <1>10, <3>1, <3>2, Zenon DEF CaptureActions
  <2>2. calls' = Push(MaybeComplete(e), <<>>)
    BY <2>1, PushedAre, FramesAre, Zenon
  <2>3. calls' # <<>> /\ Head(calls')[1] = "maybe_complete"
    BY <2>2, TopIsNext, TailsAre, FramesAre, Zenon
  <2>4. AtMaybeComplete'
    BY <1>1, <1>7, <1>8, <1>10, <2>2, TailsAre, Zenon DEF AtMaybeComplete
  <2>5. Staged'
    BY <1>1, <1>10, Zenon DEF Staged, LastStage, Live
  <2> QED
    BY <1>5, <1>6, <2>3, <2>4, <2>5, Zenon DEF Control, Stacked, Running, Idle
<1>11. CASE /\ ~cancelled /\ ~(s = "error" /\ action # "CAPTURE") /\ action = "ENROLL"
            /\ stage' = EnrollStages
  <2>1. calls' = <<MaybeComplete("none"), Deactivate("done")>>
    BY <1>2, <1>11, Zenon DEF ScanEnds
  <2> DEFINE u == Push(Deactivate("done"), <<>>)
  <2>2. calls' = Push(MaybeComplete("none"), u) /\ u \in Stack
    BY <2>1, PushedAre, PushIs, TailsAre, FramesAre, Zenon
  <2>3. /\ calls' # <<>> /\ Head(calls') = MaybeComplete("none") /\ Tail(calls') = u
        /\ Head(calls')[1] = "maybe_complete"
    BY <2>2, TopIsNext, FramesAre, Zenon
  <2>4. AtMaybeComplete'
    BY <1>1, <1>7, <1>8, <2>2, TailsAre, Zenon DEF AtMaybeComplete
  <2>5. Staged'
    BY <1>1, <2>3, Zenon DEF Staged, Ending
  <2> QED
    BY <1>5, <1>6, <2>3, <2>4, <2>5, Zenon DEF Control, Stacked, Running, Idle
<1>12. CASE /\ ~cancelled /\ ~(s = "error" /\ action # "CAPTURE") /\ action = "ENROLL"
            /\ stage' # EnrollStages
  <2>1. calls' = <<Call("enroll_maybe")>>
    BY <1>2, <1>12, Zenon DEF ScanEnds
  <2>2. calls' = Push(Call("enroll_maybe"), <<>>)
    BY <2>1, PushedAre, CallsAre, Zenon
  <2>3. calls' # <<>> /\ Head(calls')[1] = "enroll_maybe"
    BY <2>2, TopIsNext, TailsAre, CallsAre, Zenon
  <2>4. ~Plain
    BY <1>12, Zenon DEF Control, ImageTyped, Plain
  <2>5. EnrollOK(<<>>)'
    BY <1>8, <2>4, TailsAre, Zenon DEF EnrollOK, Resumable, AfterError
  <2>6. AtEnroll'
    BY <2>2, <2>5, TailsAre, Zenon DEF AtEnroll
  <2>7. Staged'
    BY <1>12, Zenon DEF Staged, LastStage
  <2> QED
    BY <1>5, <1>6, <2>3, <2>6, <2>7, Zenon DEF Control, Stacked, Running, Idle
<1> QED
  BY <1>9, <1>10, <1>11, <1>12, Zenon

-----------------------------------------------------------------------------
(* What the sensor and the clock do between two steps of the program. *)

LEMMA SameControl ==
  ASSUME Control, UNCHANGED <<sessVars, imgVars, taskVars, timer, calls>>
  PROVE  Control'
<1>1. /\ UNCHANGED <<mode, ev, img_ready, istate, active, present, scanning, action_error, stage>>
      /\ UNCHANGED <<action, cancelled, idle_cancel, returning, is_open, timer, calls>>
  BY Zenon DEF sessVars, imgVars, taskVars
<1>2. ImageTyped' /\ Flags'
  BY <1>1, ZenonT(30) DEF Control, ImageTyped, Flags, Live
<1>3. Staged'
  BY <1>1, Zenon DEF Control, Staged, LastStage, Live, Ending
<1>4. /\ Live' = Live /\ Undone' = Undone /\ Polled' = Polled /\ InStep' = InStep
      /\ Errable' = Errable /\ Deactivating' = Deactivating
  <2>1. Live' = Live /\ Polled' = Polled
    <3>1. Live' = Live
      BY <1>1 DEF Live
    <3>2. Polled' = Polled
      BY <1>1 DEF Polled
    <3> QED
      BY <3>1, <3>2
  <2>2. Undone' = Undone /\ Deactivating' = Deactivating
    BY <1>1, <2>1, Zenon DEF Undone, Deactivating
  <2>3. InStep' = InStep
    BY <1>1, <2>1, Zenon DEF InStep
  <2>4. Errable' = Errable
    BY <1>1, <2>1, Zenon DEF Errable, ActivationPending
  <2> QED
    BY <2>1, <2>2, <2>3, <2>4, Zenon
<1>5. \A t : /\ Resumable(t)' = Resumable(t) /\ Agreeing(t)' = Agreeing(t)
             /\ AfterError(t)' = AfterError(t)
  BY <1>1, <1>4, Zenon DEF Resumable, Agreeing, AfterError
<1>6. /\ GxfpDeactivateOK' = GxfpDeactivateOK /\ DeactivateCompleteOK' = DeactivateCompleteOK
      /\ CompleteOK' = CompleteOK /\ ImageOK' = ImageOK /\ ActivatedOK' = ActivatedOK
      /\ PumpEvents' = PumpEvents
  BY <1>1, <1>4, Zenon
  DEF GxfpDeactivateOK, DeactivateCompleteOK, CompleteOK, ImageOK, ActivatedOK, PumpEvents,
      ActivationPending
<1>7. \A t : /\ DeactivateOK(t)' = DeactivateOK(t) /\ EnrollOK(t)' = EnrollOK(t)
             /\ GxfpActivateOK(t)' = GxfpActivateOK(t) /\ AwaitOK(t)' = AwaitOK(t)
             /\ CloseOK(t)' = CloseOK(t) /\ TickOK(t)' = TickOK(t)
  BY <1>1, <1>4, <1>5, Zenon DEF DeactivateOK, EnrollOK, GxfpActivateOK, AwaitOK, CloseOK, TickOK
<1>8. \A f, t : ErrorOK(f, t)' = ErrorOK(f, t) /\ FingerOK(f, t)' = FingerOK(f, t)
  BY <1>1, <1>4, <1>5, Zenon DEF ErrorOK, FingerOK
<1>9. FailedEvents' = FailedEvents /\ \A t : Handled(t)' = Handled(t)
  <2>1. FailedEvents' = FailedEvents
    BY <1>1, <1>4, <1>8, Zenon DEF FailedEvents
  <2>2. ASSUME NEW t PROVE Handled(t)' = Handled(t)
    BY <1>1, <1>4, <1>5, <1>6, <1>8, ZenonT(30) DEF Handled
  <2> QED
    BY <2>1, <2>2, Zenon
<1>10. /\ AtOnFd' = AtOnFd /\ AtChangeState' = AtChangeState /\ AtIdle' = AtIdle
       /\ \A p : AtPump(p)' = AtPump(p)
  BY <1>1, <1>4, <1>5, <1>6, <1>7, <1>8, <1>9, Zenon DEF AtOnFd, AtChangeState, AtIdle, AtPump
<1>11. AtHandle' = AtHandle /\ AtMaybeComplete' = AtMaybeComplete /\ AtCancelTick' = AtCancelTick
  BY <1>1, <1>4, <1>5, <1>6, <1>7, <1>8, <1>9, Zenon DEF AtHandle, AtMaybeComplete, AtCancelTick
<1>12. /\ AtDeactivate' = AtDeactivate /\ AtEnroll' = AtEnroll /\ AtGxfpActivate' = AtGxfpActivate
       /\ AtGxfpDeactivate' = AtGxfpDeactivate /\ AtDeactivateComplete' = AtDeactivateComplete
       /\ AtCloseComplete' = AtCloseComplete /\ AtTick' = AtTick /\ AtAfterPump' = AtAfterPump
       /\ AtActivateComplete' = AtActivateComplete /\ AtImageReady' = AtImageReady
       /\ \A f : AtError(f)' = AtError(f) /\ AtFinger(f)' = AtFinger(f)
  <2>1. AtDeactivate' = AtDeactivate /\ AtEnroll' = AtEnroll /\ AtGxfpActivate' = AtGxfpActivate
    BY <1>1, <1>7, Zenon DEF AtDeactivate, AtEnroll, AtGxfpActivate
  <2>2. /\ AtGxfpDeactivate' = AtGxfpDeactivate /\ AtDeactivateComplete' = AtDeactivateComplete
        /\ AtCloseComplete' = AtCloseComplete /\ AtTick' = AtTick
    BY <1>1, <1>6, <1>7, Zenon DEF AtGxfpDeactivate, AtDeactivateComplete, AtCloseComplete, AtTick
  <2>3. /\ AtAfterPump' = AtAfterPump /\ AtActivateComplete' = AtActivateComplete
        /\ AtImageReady' = AtImageReady
    BY <1>1, <1>4, <1>5, <1>6, Zenon DEF AtAfterPump, AtActivateComplete, AtImageReady
  <2>4. \A f : AtError(f)' = AtError(f) /\ AtFinger(f)' = AtFinger(f)
    BY <1>1, <1>8, Zenon DEF AtError, AtFinger
  <2> QED
    BY <2>1, <2>2, <2>3, <2>4, Zenon
<1>13. Stacked'
  <2>1. Idle' = Idle /\ \A f : Running(f)' = Running(f)
    BY <1>1, Zenon DEF Running, Idle
  <2>2. Stacked
    BY Zenon DEF Control
  <2>3. /\ (Idle' => AtIdle') /\ (Running("pump")' => AtPump("pump")')
        /\ (Running("poll_tls")' => AtPump("poll_tls")') /\ (Running("pump_rest")' => AtPump("pump_rest")')
        /\ (Running("on_fd")' => AtOnFd') /\ (Running("handle")' => AtHandle')
    BY <1>10, <1>11, <1>12, <2>1, <2>2, Zenon DEF Stacked
  <2>4. /\ (Running("change_state")' => AtChangeState') /\ (Running("maybe_complete")' => AtMaybeComplete')
        /\ (Running("deactivate")' => AtDeactivate') /\ (Running("enroll_maybe")' => AtEnroll')
        /\ (Running("gxfp_activate")' => AtGxfpActivate') /\ (Running("gxfp_deactivate")' => AtGxfpDeactivate')
    BY <1>10, <1>11, <1>12, <2>1, <2>2, Zenon DEF Stacked
  <2>5. /\ (Running("cancel_tick")' => AtCancelTick') /\ (Running("err_activate")' => AtError("err_activate")')
        /\ (Running("err_session")' => AtError("err_session")') /\ (Running("deactivate_complete")' => AtDeactivateComplete')
        /\ (Running("close_complete")' => AtCloseComplete') /\ (Running("request_tick")' => AtTick')
    BY <1>10, <1>11, <1>12, <2>1, <2>2, Zenon DEF Stacked
  <2>6. /\ (Running("activate_complete")' => AtActivateComplete') /\ (Running("image_ready")' => AtImageReady')
        /\ (Running("finger_on")' => AtFinger("finger_on")') /\ (Running("finger_off")' => AtFinger("finger_off")')
        /\ (Running("after_pump")' => AtAfterPump') /\ (Running("abort")' => ~Plain')
    BY <1>10, <1>11, <1>12, <2>1, <2>2, Zenon DEF Stacked
  <2> QED
    BY <2>3, <2>4, <2>5, <2>6, Zenon DEF Stacked
<1> QED
  BY <1>2, <1>3, <1>13, Zenon DEF Control

LEMMA OutsideStep == ASSUME Control, Sensor \/ Clock \/ Aborted \/ UNCHANGED vars PROVE Control'
<1>1. UNCHANGED <<sessVars, imgVars, taskVars, timer, calls>>
  BY DEF Sensor, Clock, Aborted, vars, lowVars
<1> QED
  BY <1>1, SameControl

-----------------------------------------------------------------------------
(* The image device changes its state, and the session follows. *)

\* What the session makes of a new state, when no event is pending.
Followed(x) ==
  IF mode \in {"CLOSED", "FAILED"} THEN mode' = mode /\ ev' = {}
  ELSE /\ x \in {"AWAIT_FINGER_ON", "AWAIT_FINGER_OFF", "CAPTURE"} =>
            \/ mode' = "FAILED" /\ ev' = {"err_session"}
            \/ /\ ev' = {"request_tick"}
               /\ x = "AWAIT_FINGER_ON" => mode' = "WAIT_FINGER_ON"
               /\ x = "AWAIT_FINGER_OFF" => mode' = "WAIT_FINGER_OFF"
               /\ x = "CAPTURE" => mode' = "CAPTURING"
       /\ x = "INACTIVE" => mode' = "READY" /\ ev' = {}
       /\ x \in {"IDLE", "ACTIVATING", "DEACTIVATING"} => mode' = "IDLE" /\ ev' = {}

LEMMA SessionFollows ==
  ASSUME NEW x \in ImageStates, ev = {}, gxfp_session_change_state(gxfp_change_state(x))
  PROVE  Followed(x)
<1> DEFINE y == gxfp_change_state(x)
<1>1. CASE mode \in {"CLOSED", "FAILED"}
  BY <1>1 DEF gxfp_session_change_state, Followed, sessVars
<1>2. CASE mode \notin {"CLOSED", "FAILED"}
  <2>1. CASE x = "AWAIT_FINGER_ON"
    <3>1. Await("WAIT_FINGER_ON", "WAIT_DOWN")
      BY <1>2, <2>1, Zenon DEF gxfp_session_change_state, gxfp_change_state
    <3> QED
      BY <1>2, <2>1, <3>1, Zenon DEF Await, Enter, session_set_error, Error, Followed
  <2>2. CASE x = "AWAIT_FINGER_OFF"
    <3>1. Await("WAIT_FINGER_OFF", "WAIT_UP")
      BY <1>2, <2>2, Zenon DEF gxfp_session_change_state, gxfp_change_state
    <3> QED
      BY <1>2, <2>2, <3>1, Zenon DEF Await, Enter, session_set_error, Error, Followed
  <2>3. CASE x = "CAPTURE"
    <3>1. Capture
      BY <1>2, <2>3, Zenon DEF gxfp_session_change_state, gxfp_change_state
    <3> QED
      BY <1>2, <2>3, <3>1, Zenon DEF Capture, Enter, session_set_error, Error, Followed
  <2>4. CASE x = "INACTIVE"
    <3>1. Stop("READY")
      BY <1>2, <2>4, Zenon DEF gxfp_session_change_state, gxfp_change_state
    <3> QED
      BY <1>2, <2>4, <3>1, Zenon DEF Stop, Enter, Followed
  <2>5. CASE x \in {"IDLE", "ACTIVATING", "DEACTIVATING"}
    <3>1. y = "IDLE"
      BY <2>5 DEF gxfp_change_state
    <3>2. Stop("IDLE")
      BY <1>2, <3>1, Zenon DEF gxfp_session_change_state
    <3> QED
      BY <1>2, <2>5, <3>2, Zenon DEF Stop, Enter, Followed
  <2> QED
    BY <2>1, <2>2, <2>3, <2>4, <2>5, Zenon DEF ImageStates
<1> QED
  BY <1>1, <1>2

LEMMA ChangingState ==
  ASSUME Control, fp_image_device_change_state, ev = {},
         NEW x \in ImageStates, NEW u \in Stack, calls = Push(ChangeState(x), u),
         x = "ACTIVATING" => ~scanning
  PROVE  /\ istate' = x /\ UNCHANGED <<active, present, scanning, action, returning, timer>>
         /\ calls' = Push(Call("handle"), u) /\ calls' # <<>> /\ Head(calls')[1] = "handle"
         /\ Followed(x)
         /\ ImageTyped' /\ Flags' /\ Staged'
<1>1. Head(calls) = ChangeState(x) /\ Tail(calls) = u /\ calls # <<>> /\ Arg = x
  BY TopIs, FramesAre, Zenon DEF Arg
<1>2. /\ istate' = x /\ UNCHANGED <<active, present, scanning, action, returning, timer, stage>>
      /\ UNCHANGED <<action_error, taskVars>>
  BY <1>1, Zenon DEF fp_image_device_change_state, taskVars
<1>3. Followed(x)
  BY <1>1, SessionFollows, Zenon DEF fp_image_device_change_state
<1>4. calls' = Push(Call("handle"), u)
  BY <1>1, Calling, CallsAre, Zenon DEF fp_image_device_change_state
<1>5. calls' # <<>> /\ Head(calls') = Call("handle") /\ Tail(calls') = u
  BY <1>4, TopIsNext, CallsAre, Zenon
<1>6. ImageTyped'
  BY <1>2, ZenonT(30) DEF Control, ImageTyped, taskVars
<1>7. Flags'
  BY <1>2, Zenon DEF Control, Flags, Live
<1>8. Staged'
  <2>1. SUFFICES ASSUME LastStage PROVE ~scanning /\ Ending'
    BY <1>2, Zenon DEF Staged, LastStage, Live
  <2>2. Ending /\ ~scanning
    BY <2>1, Zenon DEF Control, Staged
  <2>3. Head(calls)[1] = "change_state" /\ Tail(calls) = u
    BY <1>1, FramesAre, Zenon
  <2>4. Deactivate("done")[1] = "deactivate" /\ MaybeComplete("none")[1] = "maybe_complete"
    BY FramesAre, Zenon
  <2>5. u \in {Push(Call("gxfp_deactivate"), <<>>), Push(MaybeComplete("none"), <<>>)}
    BY <2>2, <2>3, <2>4, CallsAre, Zenon DEF Ending
  <2> QED
    BY <1>5, <2>2, <2>5, Zenon DEF Ending
<1> QED
  BY <1>2, <1>3, <1>4, <1>5, <1>6, <1>7, <1>8, CallsAre, Zenon

LEMMA ChangeStateStep == ASSUME Control, fp_image_device_change_state PROVE Control'
<1>1. AtChangeState
  BY Zenon DEF fp_image_device_change_state, Control, Stacked
<1> DEFINE Done == /\ calls' # <<>> /\ Head(calls')[1] = "handle" /\ AtHandle'
                   /\ ImageTyped' /\ Flags' /\ Staged'
<1>2. ASSUME NEW t \in Tails, calls = Push(ChangeState("CAPTURE"), t), ev = {},
             FingerOK("finger_on", t)
      PROVE  Done
  <2>1. t \in Stack /\ "CAPTURE" \in ImageStates
    BY TailsAre, Zenon DEF ImageStates
  <2>2. /\ istate' = "CAPTURE" /\ UNCHANGED <<active, present, scanning, action, returning, timer>>
        /\ calls' = Push(Call("handle"), t) /\ calls' # <<>> /\ Head(calls')[1] = "handle"
        /\ Followed("CAPTURE")
        /\ ImageTyped' /\ Flags' /\ Staged'
    BY <1>2, <2>1, ChangingState, Zenon
  <2>3. Handled(t)'
    <3>1. CASE mode \in {"CLOSED", "FAILED"}
      BY <1>2, <2>2, <3>1, TailsAre, Zenon
      DEF Followed, FingerOK, Handled, Resumable, Agreeing, Errable, InStep, AfterError, Undone, Live,
          Waits, WaitingUp, Capturing
    <3>2. CASE mode \notin {"CLOSED", "FAILED"}
      BY <1>2, <2>2, <3>2, TailsAre, Zenon
      DEF Followed, FingerOK, Handled, Errable, InStep, AfterError, Undone, Live
    <3> QED
      BY <3>1, <3>2, Zenon
  <2> QED
    BY <2>2, <2>3, Zenon DEF AtHandle
<1>3. ASSUME NEW t \in Tails, NEW d \in {Deactivate("done"), Call("enroll_maybe")},
             calls = Push(ChangeState("IDLE"), Push(d, t)), ev = {}, FingerOK("finger_off", t),
             d = Call("enroll_maybe") => ~Plain
      PROVE  Done
  <2>1. Push(d, t) \in Stack /\ "IDLE" \in ImageStates
    BY TailsAre, PushIs, FramesAre, CallsAre, Zenon DEF ImageStates
  <2>2. /\ istate' = "IDLE" /\ UNCHANGED <<active, present, scanning, action, returning, timer>>
        /\ calls' = Push(Call("handle"), Push(d, t)) /\ calls' # <<>> /\ Head(calls')[1] = "handle"
        /\ Followed("IDLE")
        /\ ImageTyped' /\ Flags' /\ Staged'
    BY <1>3, <2>1, ChangingState, Zenon
  <2>3. ev' = {} /\ (mode = "FAILED" => mode' = "FAILED")
    BY <2>2, Zenon DEF Followed
  <2>4. CASE d = Deactivate("done")
    <3>1. DeactivateOK(t)'
      BY <1>3, <2>2, <2>3, TailsAre, Zenon
      DEF FingerOK, DeactivateOK, Resumable, Agreeing, Errable, InStep, AfterError, Undone, Live,
          Waits, WaitingUp, Capturing
    <3> QED
      BY <2>2, <2>4, <3>1, Zenon DEF AtHandle
  <2>5. CASE d = Call("enroll_maybe")
    <3>1. EnrollOK(t)'
      BY <1>3, <2>2, <2>3, <2>5, TailsAre, Zenon DEF FingerOK, EnrollOK, AfterError, Undone, Live
    <3> QED
      BY <2>2, <2>5, <3>1, Zenon DEF AtHandle
  <2> QED
    BY <2>4, <2>5, Zenon
<1>4. ASSUME NEW t \in Tails, NEW x \in {"AWAIT_FINGER_ON", "AWAIT_FINGER_OFF"},
             calls = Push(ChangeState(x), t), AwaitOK(t)
      PROVE  Done
  <2>1. t \in Stack /\ x \in ImageStates /\ ev = {}
    BY <1>4, TailsAre, Zenon DEF ImageStates, AwaitOK
  <2>2. /\ istate' = x /\ UNCHANGED <<active, present, scanning, action, returning, timer>>
        /\ calls' = Push(Call("handle"), t) /\ calls' # <<>> /\ Head(calls')[1] = "handle"
        /\ Followed(x)
        /\ ImageTyped' /\ Flags' /\ Staged'
    BY <1>4, <2>1, ChangingState, Zenon
  <2>3. Handled(t)'
    <3>1. CASE mode \in {"CLOSED", "FAILED"}
      BY <1>4, <2>2, <3>1, TailsAre, Zenon
      DEF Followed, AwaitOK, Handled, Resumable, Agreeing, Errable, InStep, AfterError, Undone, Live,
          Polled, Waits, WaitingUp, Capturing, Quiet
    <3>2. CASE mode \notin {"CLOSED", "FAILED"}
      BY <1>4, <2>2, <3>2, TailsAre, Zenon
      DEF Followed, AwaitOK, Handled, Errable, InStep, AfterError, Undone, Live
    <3> QED
      BY <3>1, <3>2, Zenon
  <2> QED
    BY <2>2, <2>3, Zenon DEF AtHandle
<1>5. ASSUME NEW t \in Tails, AwaitOK(t),
             calls = Push(ChangeState("IDLE"), Push(ChangeState("AWAIT_FINGER_ON"), t))
      PROVE  Done
  <2> DEFINE u == Push(ChangeState("AWAIT_FINGER_ON"), t)
  <2>1. u \in Stack /\ "IDLE" \in ImageStates /\ ev = {}
    BY <1>5, TailsAre, PushIs, FramesAre, Zenon DEF ImageStates, AwaitOK
  <2>2. /\ istate' = "IDLE" /\ UNCHANGED <<active, present, scanning, action, returning, timer>>
        /\ calls' = Push(Call("handle"), u) /\ calls' # <<>> /\ Head(calls')[1] = "handle"
        /\ Followed("IDLE")
        /\ ImageTyped' /\ Flags' /\ Staged'
    BY <1>5, <2>1, ChangingState, Zenon
  <2>3. AwaitOK(t)'
    BY <1>5, <2>2, Zenon DEF AwaitOK, Followed, Undone, Live, AfterError
  <2> QED
    BY <2>2, <2>3, Zenon DEF AtHandle
<1>6. ASSUME NEW t \in Tails, GxfpActivateOK(t),
             calls = Push(ChangeState("ACTIVATING"), Push(Call("gxfp_activate"), t))
      PROVE  Done
  <2> DEFINE u == Push(Call("gxfp_activate"), t)
  <2>1. u \in Stack /\ "ACTIVATING" \in ImageStates /\ ev = {} /\ ~scanning
    BY <1>6, TailsAre, PushIs, CallsAre, Zenon DEF ImageStates, GxfpActivateOK
  <2>2. /\ istate' = "ACTIVATING" /\ UNCHANGED <<active, present, scanning, action, returning, timer>>
        /\ calls' = Push(Call("handle"), u) /\ calls' # <<>> /\ Head(calls')[1] = "handle"
        /\ Followed("ACTIVATING")
        /\ ImageTyped' /\ Flags' /\ Staged'
    BY <1>6, <2>1, ChangingState, Zenon
  <2>3. GxfpActivateOK(t)'
    BY <1>6, <2>2, Zenon DEF GxfpActivateOK, Followed, Undone, Live
  <2> QED
    BY <2>2, <2>3, Zenon DEF AtHandle
<1>7. ASSUME NEW t \in Tails, Live, active, ev = {},
             calls = Push(ChangeState("DEACTIVATING"), Push(Call("gxfp_deactivate"), t))
      PROVE  Done
  <2> DEFINE u == Push(Call("gxfp_deactivate"), t)
  <2>1. u \in Stack /\ "DEACTIVATING" \in ImageStates
    BY TailsAre, PushIs, CallsAre, Zenon DEF ImageStates
  <2>2. /\ istate' = "DEACTIVATING" /\ UNCHANGED <<active, present, scanning, action, returning, timer>>
        /\ calls' = Push(Call("handle"), u) /\ calls' # <<>> /\ Head(calls')[1] = "handle"
        /\ Followed("DEACTIVATING")
        /\ ImageTyped' /\ Flags' /\ Staged'
    BY <1>7, <2>1, ChangingState, Zenon
  <2>3. GxfpDeactivateOK'
    BY <1>7, <2>2, Zenon DEF GxfpDeactivateOK, Deactivating, Followed, Live
  <2> QED
    BY <2>2, <2>3, Zenon DEF AtHandle
<1>8. ASSUME NEW t \in Tails, CompleteOK,
             calls = Push(ChangeState("INACTIVE"), Push(MaybeComplete("none"), t))
      PROVE  Done
  <2> DEFINE u == Push(MaybeComplete("none"), t)
  <2>1. u \in Stack /\ "INACTIVE" \in ImageStates /\ ev = {}
    BY <1>8, TailsAre, PushIs, FramesAre, Zenon DEF ImageStates, CompleteOK
  <2>2. /\ istate' = "INACTIVE" /\ UNCHANGED <<active, present, scanning, action, returning, timer>>
        /\ calls' = Push(Call("handle"), u) /\ calls' # <<>> /\ Head(calls')[1] = "handle"
        /\ Followed("INACTIVE")
        /\ ImageTyped' /\ Flags' /\ Staged'
    BY <1>8, <2>1, ChangingState, Zenon
  <2>3. CompleteOK'
    BY <1>8, <2>2, Zenon DEF CompleteOK, Followed, Live, Quiet
  <2> QED
    BY <2>2, <2>3, Zenon DEF AtHandle
<1>9. Done
  <2>1. ASSUME NEW t \in {<<>>, Pumped}, Undone, ev = {}, Plain => active /\ mode = "IDLE"
        PROVE  AwaitOK(t)
    BY <2>1, TailsAre, Zenon DEF AwaitOK, AfterError
  <2>2. PICK t \in Tails :
          \/ calls = Push(ChangeState("CAPTURE"), t) /\ ev = {} /\ FingerOK("finger_on", t)
          \/ /\ calls = Push(ChangeState("IDLE"), Push(Deactivate("done"), t))
             /\ ev = {} /\ FingerOK("finger_off", t)
          \/ /\ calls = Push(ChangeState("IDLE"), Push(Call("enroll_maybe"), t))
             /\ ev = {} /\ FingerOK("finger_off", t) /\ ~Plain
          \/ calls = Push(ChangeState("AWAIT_FINGER_ON"), t) /\ AwaitOK(t)
          \/ /\ calls = Push(ChangeState("IDLE"), Push(ChangeState("AWAIT_FINGER_ON"), t))
             /\ AwaitOK(t)
          \/ /\ calls = Push(ChangeState("AWAIT_FINGER_OFF"), t)
             /\ t \in {<<>>, Pumped} /\ Undone /\ ev = {} /\ (Plain => active /\ mode = "IDLE")
          \/ /\ calls = Push(ChangeState("ACTIVATING"), Push(Call("gxfp_activate"), t))
             /\ GxfpActivateOK(t)
          \/ /\ calls = Push(ChangeState("DEACTIVATING"), Push(Call("gxfp_deactivate"), t))
             /\ Live /\ active /\ ev = {}
          \/ /\ calls = Push(ChangeState("INACTIVE"), Push(MaybeComplete("none"), t))
             /\ CompleteOK
    BY <1>1, Zenon DEF AtChangeState
  <2>3. Deactivate("done") # Call("enroll_maybe")
    BY FramesAre, CallsAre, Zenon
  <2> HIDE DEF Done
  <2>4. CASE calls = Push(ChangeState("CAPTURE"), t) /\ ev = {} /\ FingerOK("finger_on", t)
    BY <1>2, <2>4, Zenon
  <2>5. CASE /\ calls = Push(ChangeState("IDLE"), Push(Deactivate("done"), t))
             /\ ev = {} /\ FingerOK("finger_off", t)
    BY <1>3, <2>3, <2>5, Zenon
  <2>6. CASE /\ calls = Push(ChangeState("IDLE"), Push(Call("enroll_maybe"), t))
             /\ ev = {} /\ FingerOK("finger_off", t) /\ ~Plain
    BY <1>3, <2>6, Zenon
  <2>7. CASE calls = Push(ChangeState("AWAIT_FINGER_ON"), t) /\ AwaitOK(t)
    BY <1>4, <2>7, Zenon
  <2>8. CASE /\ calls = Push(ChangeState("IDLE"), Push(ChangeState("AWAIT_FINGER_ON"), t))
             /\ AwaitOK(t)
    BY <1>5, <2>8, Zenon
  <2>9. CASE /\ calls = Push(ChangeState("AWAIT_FINGER_OFF"), t)
             /\ t \in {<<>>, Pumped} /\ Undone /\ ev = {} /\ (Plain => active /\ mode = "IDLE")
    BY <1>4, <2>1, <2>9, Zenon
  <2>10. CASE /\ calls = Push(ChangeState("ACTIVATING"), Push(Call("gxfp_activate"), t))
              /\ GxfpActivateOK(t)
    BY <1>6, <2>10, Zenon
  <2>11. CASE /\ calls = Push(ChangeState("DEACTIVATING"), Push(Call("gxfp_deactivate"), t))
              /\ Live /\ active /\ ev = {}
    BY <1>7, <2>11, Zenon
  <2>12. CASE /\ calls = Push(ChangeState("INACTIVE"), Push(MaybeComplete("none"), t))
              /\ CompleteOK
    BY <1>8, <2>12, Zenon
  <2> QED
    BY <2>2, <2>4, <2>5, <2>6, <2>7, <2>8, <2>9, <2>10, <2>11, <2>12, Zenon
<1> QED
  BY <1>9, Zenon DEF Control, Stacked, Running, Idle

-----------------------------------------------------------------------------
(* The driver hands on the events that a session call left. *)

LEMMA EventsAre ==
  ASSUME handle_session_events, NEW u \in Stack, Tail(calls) = u
  PROVE  /\ ev = {} => calls' = u
         /\ \A e \in {"request_tick", "err_session", "err_activate", "image_ready", "activate_complete"} :
              ev = {e} => calls' = Push(Call(e), u)
         /\ \A e \in {"err_session", "err_activate"} :
              /\ ev = {"request_tick", e} => calls' = Push(Call(e), u)
              /\ ev = {"cancel_tick", e} => calls' = Push(Call("cancel_tick"), Push(Call(e), u))
              /\ ev = {"request_tick", "cancel_tick", e} =>
                   calls' = Push(Call("cancel_tick"), Push(Call(e), u))
         /\ \A e \in {"deactivate_complete", "close_complete"} :
              ev = {"cancel_tick", e} => calls' = Push(Call("cancel_tick"), Push(Call(e), u))
         /\ \A f \in {"finger_on", "finger_off"}, e \in {"request_tick", "err_session"} :
              ev = {f, e} => calls' = Push(Call(f), Push(Call(e), u))
         /\ ev = {"activate_complete", "request_tick"} =>
              calls' = Push(Call("activate_complete"), Push(Call("request_tick"), u))
<1> USE DEF Push, Upon, handle_session_events
<1>1. CASE ev = {}
  <2>1. Seen(ev) = {}
    BY <1>1, ZenonT(30) DEF Seen, Failed
  <2> QED
    BY <1>1, <2>1, Zenon
<1>2. ASSUME NEW e \in {"request_tick", "err_session", "err_activate", "image_ready", "activate_complete"},
             ev = {e}
      PROVE  calls' = Push(Call(e), u)
  <2>1. Seen(ev) = {e}
    BY <1>2, ZenonT(30) DEF Seen, Failed
  <2> QED
    BY <2>1, ZenonT(30)
<1>3. ASSUME NEW e \in {"err_session", "err_activate"}, ev = {"request_tick", e}
      PROVE  calls' = Push(Call(e), u)
  <2>1. Seen(ev) = {e}
    BY <1>3, ZenonT(30) DEF Seen, Failed
  <2> QED
    BY <2>1, ZenonT(30)
<1>4. ASSUME NEW e \in {"err_session", "err_activate", "deactivate_complete", "close_complete"},
             \/ ev = {"cancel_tick", e}
             \/ e \in {"err_session", "err_activate"} /\ ev = {"request_tick", "cancel_tick", e}
      PROVE  calls' = Push(Call("cancel_tick"), Push(Call(e), u))
  <2>1. Seen(ev) = {"cancel_tick", e}
    BY <1>4, ZenonT(30) DEF Seen, Failed
  <2> QED
    BY <2>1, Zenon
<1>5. ASSUME NEW f \in {"finger_on", "finger_off"}, NEW e \in {"request_tick", "err_session"},
             ev = {f, e}
      PROVE  calls' = Push(Call(f), Push(Call(e), u))
  <2>1. Seen(ev) = {f, e}
    BY <1>5, ZenonT(30) DEF Seen, Failed
  <2> QED
    BY <2>1, ZenonT(30)
<1>6. CASE ev = {"activate_complete", "request_tick"}
  <2>1. Seen(ev) = {"activate_complete", "request_tick"}
    BY <1>6, ZenonT(30) DEF Seen, Failed
  <2> QED
    BY <1>6, <2>1, Zenon
<1> HIDE DEF Push, Upon, handle_session_events
<1>7. \A e \in {"err_session", "err_activate"} :
        /\ ev = {"cancel_tick", e} => calls' = Push(Call("cancel_tick"), Push(Call(e), u))
        /\ ev = {"request_tick", "cancel_tick", e} =>
             calls' = Push(Call("cancel_tick"), Push(Call(e), u))
  BY <1>4, Zenon
<1>8. ev = {"activate_complete", "request_tick"} =>
        calls' = Push(Call("activate_complete"), Push(Call("request_tick"), u))
  BY <1>6, Zenon
<1> QED
  BY <1>1, <1>2, <1>3, <1>4, <1>5, <1>7, <1>8, ZenonT(30)

\* An enrolment that ends while events are handled.
LEMMA HandleEnds ==
  ASSUME Control, LastStage, NEW u \in Stack, calls = Push(Call("handle"), u)
  PROVE  /\ ~scanning
         /\ \/ u = <<>> /\ ev = {"cancel_tick", "deactivate_complete"}
            \/ u = Push(Call("gxfp_deactivate"), <<>>)
            \/ u = Push(MaybeComplete("none"), <<>>)
<1>1. Ending /\ ~scanning
  BY Zenon DEF Control, Staged
<1>2. Head(calls)[1] = "handle" /\ Tail(calls) = u
  BY TopIs, CallsAre, Zenon
<1>3. /\ ChangeState("INACTIVE")[1] = "change_state" /\ Deactivate("done")[1] = "deactivate"
      /\ ChangeState("DEACTIVATING")[1] = "change_state"
      /\ MaybeComplete("none")[1] = "maybe_complete"
  BY FramesAre, Zenon DEF ImageStates
<1> QED
  BY <1>1, <1>2, <1>3, CallsAre, Zenon DEF Ending

LEMMA TailsGoOn ==
  ASSUME NEW t \in Tails
  PROVE  t # Push(Call("gxfp_deactivate"), <<>>) /\ t # Push(MaybeComplete("none"), <<>>)
<1>1. Head(Push(Call("gxfp_deactivate"), <<>>)) = Call("gxfp_deactivate")
  BY PushIs, CallsAre, TailsAre, Zenon
<1>2. Head(Push(MaybeComplete("none"), <<>>)) = MaybeComplete("none")
  BY PushIs, FramesAre, TailsAre, Zenon
<1>3. /\ Push(Call("gxfp_deactivate"), <<>>) # <<>> /\ Push(MaybeComplete("none"), <<>>) # <<>>
  BY PushIs, FramesAre, CallsAre, TailsAre, Zenon
<1>4. /\ Head(Pumped) = Call("after_pump") /\ Head(Errs) = Call("err_session")
      /\ Head(Ticks) = Call("request_tick")
  BY PushIs, CallsAre, TailsAre, Zenon DEF Pumped, Errs, Ticks
<1>5. MaybeComplete("none")[1] = "maybe_complete"
  BY FramesAre, Zenon
<1> QED
  BY <1>1, <1>2, <1>3, <1>4, <1>5, CallsAre, Zenon DEF Tails

LEMMA HandleStep == ASSUME Control, handle_session_events PROVE Control'
<1>1. AtHandle /\ ev' = {}
  BY Zenon DEF handle_session_events, Control, Stacked
<1>2. /\ UNCHANGED <<mode, img_ready, imgVars, taskVars, timer>>
      /\ UNCHANGED <<istate, active, present, scanning, stage, action, returning>>
  BY Zenon DEF handle_session_events, imgVars, taskVars
<1>3. ImageTyped'
  BY <1>2, Zenon DEF Control, ImageTyped, imgVars, taskVars
<1>4. Flags' /\ LastStage' = LastStage
  BY <1>2, Zenon DEF Control, Flags, Live, LastStage
<1>5. /\ Live' = Live /\ Undone' = Undone /\ InStep' = InStep /\ Errable' = Errable
      /\ Deactivating' = Deactivating /\ ImageOK' = ImageOK /\ ActivatedOK' = ActivatedOK
      /\ \A f, t : FingerOK(f, t)' = FingerOK(f, t)
  BY <1>2, Zenon DEF Live, Undone, InStep, Errable, Deactivating, ImageOK, ActivatedOK, FingerOK, AfterError,
              ActivationPending
<1>6. ev = {} => /\ \A t : /\ Resumable(t)' = Resumable(t) /\ Agreeing(t)' = Agreeing(t)
                           /\ DeactivateOK(t)' = DeactivateOK(t) /\ EnrollOK(t)' = EnrollOK(t)
                           /\ AwaitOK(t)' = AwaitOK(t) /\ GxfpActivateOK(t)' = GxfpActivateOK(t)
                 /\ GxfpDeactivateOK' = GxfpDeactivateOK /\ CompleteOK' = CompleteOK
  BY <1>1, <1>2, <1>5, Zenon
  DEF Resumable, Agreeing, DeactivateOK, EnrollOK, AwaitOK, GxfpActivateOK, GxfpDeactivateOK,
      CompleteOK, Polled, AfterError
<1>7. ASSUME NEW t \in Tails, calls = Push(Call("handle"), t), Handled(t) PROVE Stacked' /\ Staged'
  <2>1. t \in Stack /\ calls # <<>> /\ Tail(calls) = t
    BY <1>7, TailsAre, TopIs, CallsAre, Zenon
  <2>2. LastStage => ~scanning /\ t = <<>> /\ ev = {"cancel_tick", "deactivate_complete"}
    BY <1>7, <2>1, HandleEnds, TailsGoOn, Zenon
  <2>3. CASE ev = {} /\ Resumable(t) /\ Agreeing(t)
    <3>1. calls' = t
      BY <2>1, <2>3, EventsAre, Zenon
    <3>2. Resumable(t)' /\ Agreeing(t)'
      BY <1>6, <2>3, Zenon
    <3> QED
      BY <1>4, <2>2, <2>3, <3>1, <3>2, Resume, Zenon DEF Staged
  <2>4. CASE ev = {"request_tick"} /\ t # Errs /\ Undone /\ InStep
    <3>1. calls' = Push(Call("request_tick"), t)
      BY <2>1, <2>4, EventsAre, Zenon
    <3>2. calls' # <<>> /\ Head(calls')[1] = "request_tick"
      BY <2>1, <3>1, TopIsNext, CallsAre, Zenon
    <3>3. TickOK(t)'
      BY <1>1, <1>2, <1>5, <2>4, Zenon DEF TickOK, Undone
    <3>4. AtTick'
      BY <3>1, <3>3, Zenon DEF AtTick
    <3> QED
      BY <1>4, <2>2, <2>4, <3>2, <3>4, Zenon DEF Staged, Stacked, Running, Idle
  <2>5. ASSUME NEW e \in {"err_session", "err_activate"},
               ev \in {{e}, {"request_tick", e}, {"cancel_tick", e}, {"request_tick", "cancel_tick", e}},
               t # Errs, Undone, mode = "FAILED", Errable, e = "err_activate" => (Plain => ~active)
        PROVE  Stacked' /\ Staged'
    <3>1. ErrorOK(e, t)'
      BY <1>1, <1>2, <1>5, <2>5, Zenon DEF ErrorOK, Undone, Waits, WaitingUp, Capturing, Quiet
    <3>2. Call(e) \in Frame /\ Call(e)[1] = e
      BY CallsAre, Zenon
    <3>3. ~LastStage
      BY <2>2, <2>5, Zenon
    <3>4. CASE ev \in {{e}, {"request_tick", e}}
      <4>1. calls' = Push(Call(e), t)
        BY <2>1, <3>4, EventsAre, Zenon
      <4>2. calls' # <<>> /\ Head(calls')[1] = e
        BY <2>1, <3>2, <4>1, TopIsNext, Zenon
      <4>3. AtError(e)'
        BY <3>1, <4>1, Zenon DEF AtError
      <4> QED
        BY <1>4, <3>3, <4>2, <4>3, Zenon DEF Staged, Stacked, Running, Idle
    <3>5. CASE ev \in {{"cancel_tick", e}, {"request_tick", "cancel_tick", e}}
      <4>1. calls' = Push(Call("cancel_tick"), Push(Call(e), t))
        BY <2>1, <3>5, EventsAre, Zenon
      <4>2. calls' # <<>> /\ Head(calls')[1] = "cancel_tick"
        BY <2>1, <3>2, <4>1, TopIsNext, PushIs, CallsAre, ZenonT(30)
      <4>3. AtCancelTick'
        BY <3>1, <4>1 DEF AtCancelTick
      <4> QED
        BY <1>4, <3>3, <4>2, <4>3, Zenon DEF Staged, Stacked, Running, Idle
    <3> QED
      BY <2>5, <3>4, <3>5, Zenon
  <2>6. CASE ev = {"cancel_tick", "deactivate_complete"} /\ Deactivating /\ mode \in Quiet
    <3> DEFINE u == Push(Call("deactivate_complete"), t)
    <3>1. calls' = Push(Call("cancel_tick"), u) /\ u \in Stack
      BY <2>1, <2>6, EventsAre, PushIs, CallsAre, Zenon
    <3>2. /\ calls' # <<>> /\ Head(calls') = Call("cancel_tick") /\ Tail(calls') = u
          /\ Head(calls')[1] = "cancel_tick"
      BY <3>1, TopIsNext, CallsAre, Zenon
    <3>3. DeactivateCompleteOK'
      BY <1>1, <1>2, <1>5, <2>6, Zenon DEF DeactivateCompleteOK
    <3>4. AtCancelTick'
      BY <3>1, <3>3, Zenon DEF AtCancelTick
    <3>5. Staged'
      BY <1>2, <1>4, <2>2, <3>2, Zenon DEF Staged, Ending
    <3> QED
      BY <3>2, <3>4, <3>5, Zenon DEF Stacked, Running, Idle
  <2>7. CASE /\ ev = {"cancel_tick", "close_complete"}
             /\ t = <<>> /\ Undone /\ mode = "CLOSED" /\ ~active /\ action = "CLOSE"
    <3> DEFINE u == Push(Call("close_complete"), t)
    <3>1. calls' = Push(Call("cancel_tick"), u) /\ u \in Stack
      BY <2>1, <2>7, EventsAre, PushIs, CallsAre, Zenon
    <3>2. calls' # <<>> /\ Head(calls')[1] = "cancel_tick"
      BY <3>1, TopIsNext, CallsAre, Zenon
    <3>3. CloseOK(t)'
      BY <1>1, <1>2, <1>5, <2>7, Zenon DEF CloseOK
    <3>4. AtCancelTick'
      BY <3>1, <3>3, Zenon DEF AtCancelTick
    <3>5. ~LastStage
      BY <2>7, Zenon DEF LastStage
    <3> QED
      BY <1>4, <3>2, <3>4, <3>5, Zenon DEF Staged, Stacked, Running, Idle
  <2>8. ASSUME NEW f \in {"finger_on", "finger_off"}, t = <<>>,
               \/ ev = {f, "request_tick"} /\ FingerOK(f, Ticks)
               \/ ev = {f, "err_session"} /\ FingerOK(f, Errs)
        PROVE  Stacked' /\ Staged'
    <3>1. PICK u \in {Ticks, Errs} : calls' = Push(Call(f), u) /\ FingerOK(f, u)
      BY <2>1, <2>8, EventsAre, Zenon DEF Ticks, Errs
    <3>2. u \in Tails /\ u \in Stack
      BY TailsAre, Zenon
    <3>3. calls' # <<>> /\ Head(calls')[1] = f
      BY <3>1, <3>2, TopIsNext, CallsAre, Zenon
    <3>4. AtFinger(f)'
      BY <1>1, <1>5, <3>1, <3>2, Zenon DEF AtFinger
    <3>5. ~LastStage
      BY <2>2, <2>8, Zenon
    <3> QED
      BY <1>4, <3>3, <3>4, <3>5, Zenon DEF Staged, Stacked, Running, Idle
  <2>9. CASE ev = {"image_ready"} /\ t \in {<<>>, Pumped} /\ ImageOK
    <3>1. calls' = Push(Call("image_ready"), t)
      BY <2>1, <2>9, EventsAre, Zenon
    <3>2. calls' # <<>> /\ Head(calls')[1] = "image_ready"
      BY <2>1, <3>1, TopIsNext, CallsAre, Zenon
    <3>3. AtImageReady'
      BY <1>1, <1>5, <2>9, <3>1, Zenon DEF AtImageReady
    <3> QED
      BY <1>4, <2>2, <2>9, <3>2, <3>3, Zenon DEF Staged, Stacked, Running, Idle
  <2>10. CASE /\ t \in {<<>>, Pumped} /\ ActivatedOK
              /\ \/ ev = {"activate_complete"}
                 \/ ev = {"activate_complete", "request_tick"} /\ t = <<>>
    <3>1. PICK u \in Tails : calls' = Push(Call("activate_complete"), u) /\ u # Errs
      BY <2>1, <2>10, EventsAre, TailsAre, Zenon DEF Ticks
    <3>2. calls' # <<>> /\ Head(calls')[1] = "activate_complete"
      BY <3>1, TopIsNext, CallsAre, TailsAre, Zenon
    <3>3. AtActivateComplete'
      BY <1>1, <1>5, <2>10, <3>1, Zenon DEF AtActivateComplete
    <3>4. ~LastStage
      BY <2>2, <2>10, Zenon
    <3> QED
      BY <1>4, <3>2, <3>3, <3>4, Zenon DEF Staged, Stacked, Running, Idle
  <2> QED
    BY <1>7, <2>3, <2>4, <2>5, <2>6, <2>7, <2>8, <2>9, <2>10, Zenon DEF Handled
<1>8. ASSUME NEW t \in Tails, NEW c \in Frame, ev = {}, calls = Push(Call("handle"), Push(c, t))
      PROVE  /\ calls' = Push(c, t) /\ calls' # <<>> /\ Head(calls') = c /\ Tail(calls') = t
             /\ LastStage => /\ ~scanning /\ t = <<>>
                             /\ c \in {Call("gxfp_deactivate"), MaybeComplete("none")}
  <2>1. /\ Push(c, t) \in Stack /\ Tail(calls) = Push(c, t) /\ Push(c, t) # <<>>
        /\ Head(Push(c, t)) = c /\ Tail(Push(c, t)) = t
    BY <1>8, TailsAre, PushIs, TopIs, CallsAre, Zenon
  <2>2. calls' = Push(c, t)
    BY <1>8, <2>1, EventsAre, Zenon
  <2>3. /\ Head(Push(Call("gxfp_deactivate"), <<>>)) = Call("gxfp_deactivate")
        /\ Tail(Push(Call("gxfp_deactivate"), <<>>)) = <<>>
        /\ Head(Push(MaybeComplete("none"), <<>>)) = MaybeComplete("none")
        /\ Tail(Push(MaybeComplete("none"), <<>>)) = <<>>
    BY PushIs, CallsAre, FramesAre, TailsAre, Zenon
  <2> QED
    BY <1>8, <2>1, <2>2, <2>3, HandleEnds, Zenon
<1>9. ASSUME NEW t \in Tails, calls = Push(Call("handle"), Push(Call("gxfp_deactivate"), t)),
             GxfpDeactivateOK
      PROVE  Stacked' /\ Staged'
  <2>1. ev = {} /\ AtGxfpDeactivate'
    BY <1>6, <1>8, <1>9, CallsAre, Zenon DEF GxfpDeactivateOK, AtGxfpDeactivate
  <2>2. /\ calls' # <<>> /\ Head(calls') = Call("gxfp_deactivate") /\ Tail(calls') = t
        /\ Head(calls')[1] = "gxfp_deactivate" /\ (LastStage => ~scanning /\ t = <<>>)
    BY <1>8, <1>9, <2>1, CallsAre, Zenon
  <2> QED
    BY <1>2, <1>4, <2>1, <2>2, Zenon DEF Staged, Ending, Stacked, Running, Idle
<1>10. ASSUME NEW t \in Tails, calls = Push(Call("handle"), Push(MaybeComplete("none"), t)),
              CompleteOK, istate = "INACTIVE"
       PROVE  Stacked' /\ Staged'
  <2>1. ev = {} /\ AtMaybeComplete'
    BY <1>2, <1>6, <1>8, <1>10, FramesAre, Zenon DEF CompleteOK, AtMaybeComplete
  <2>2. /\ calls' # <<>> /\ Head(calls') = MaybeComplete("none") /\ Tail(calls') = t
        /\ Head(calls')[1] = "maybe_complete" /\ (LastStage => ~scanning /\ t = <<>>)
    BY <1>8, <1>10, <2>1, FramesAre, Zenon
  <2> QED
    BY <1>2, <1>4, <2>1, <2>2, Zenon DEF Staged, Ending, Stacked, Running, Idle
<1>11. ASSUME NEW t \in Tails, NEW c \in {Deactivate("done"), Call("enroll_maybe"),
                                         ChangeState("AWAIT_FINGER_ON"), Call("gxfp_activate")},
              calls = Push(Call("handle"), Push(c, t)),
              c = Deactivate("done") => DeactivateOK(t),
              c = Call("enroll_maybe") => EnrollOK(t),
              c = ChangeState("AWAIT_FINGER_ON") => AwaitOK(t),
              c = Call("gxfp_activate") => GxfpActivateOK(t) /\ istate = "ACTIVATING"
       PROVE  Stacked' /\ Staged'
  <2>1. ChangeState("AWAIT_FINGER_ON") \in Frame /\ ChangeState("AWAIT_FINGER_ON")[1] = "change_state"
    BY FramesAre, Zenon DEF ImageStates
  <2>2. /\ Deactivate("done") \in Frame /\ Deactivate("done")[1] = "deactivate"
        /\ MaybeComplete("none")[1] = "maybe_complete"
    BY FramesAre, Zenon
  <2>3. ev = {}
    BY <1>11, Zenon DEF DeactivateOK, Resumable, EnrollOK, AwaitOK, GxfpActivateOK
  <2>4. c \in Frame /\ c # MaybeComplete("none") /\ c # Call("gxfp_deactivate")
    BY <2>1, <2>2, CallsAre, ZenonT(30)
  <2>5. calls' = Push(c, t) /\ calls' # <<>> /\ Head(calls') = c /\ ~LastStage
    BY <1>8, <1>11, <2>3, <2>4, Zenon
  <2>6. CASE c = Deactivate("done")
    <3>1. AtDeactivate'
      BY <1>6, <1>11, <2>3, <2>5, <2>6, Zenon DEF AtDeactivate
    <3> QED
      BY <1>4, <2>2, <2>5, <2>6, <3>1, Zenon DEF Staged, Stacked, Running, Idle
  <2>7. CASE c = Call("enroll_maybe")
    <3>1. AtEnroll'
      BY <1>6, <1>11, <2>3, <2>5, <2>7, Zenon DEF AtEnroll
    <3> QED
      BY <1>4, <2>5, <2>7, <3>1, CallsAre, Zenon DEF Staged, Stacked, Running, Idle
  <2>8. CASE c = ChangeState("AWAIT_FINGER_ON")
    <3>1. AtChangeState'
      BY <1>6, <1>11, <2>3, <2>5, <2>8, Zenon DEF AtChangeState
    <3> QED
      BY <1>4, <2>1, <2>5, <2>8, <3>1, Zenon DEF Staged, Stacked, Running, Idle
  <2>9. CASE c = Call("gxfp_activate")
    <3>1. AtGxfpActivate'
      BY <1>2, <1>6, <1>11, <2>3, <2>5, <2>9, Zenon DEF AtGxfpActivate
    <3> QED
      BY <1>4, <2>5, <2>9, <3>1, CallsAre, Zenon DEF Staged, Stacked, Running, Idle
  <2> QED
    BY <2>6, <2>7, <2>8, <2>9, Zenon
<1>12. Stacked' /\ Staged'
  <2>1. /\ Deactivate("done")[1] = "deactivate" /\ ChangeState("AWAIT_FINGER_ON")[1] = "change_state"
        /\ Call("enroll_maybe")[1] = "enroll_maybe" /\ Call("gxfp_activate")[1] = "gxfp_activate"
    BY FramesAre, CallsAre, Zenon DEF ImageStates
  <2>2. PICK t \in Tails :
          \/ calls = Push(Call("handle"), t) /\ Handled(t)
          \/ /\ calls = Push(Call("handle"), Push(Call("gxfp_deactivate"), t))
             /\ GxfpDeactivateOK
          \/ /\ calls = Push(Call("handle"), Push(MaybeComplete("none"), t))
             /\ CompleteOK /\ istate = "INACTIVE"
          \/ \E c \in {Deactivate("done"), Call("enroll_maybe"),
                       ChangeState("AWAIT_FINGER_ON"), Call("gxfp_activate")} :
               /\ calls = Push(Call("handle"), Push(c, t))
               /\ c = Deactivate("done") => DeactivateOK(t)
               /\ c = Call("enroll_maybe") => EnrollOK(t)
               /\ c = ChangeState("AWAIT_FINGER_ON") => AwaitOK(t)
               /\ c = Call("gxfp_activate") => GxfpActivateOK(t) /\ istate = "ACTIVATING"
    BY <1>1, <2>1, Zenon DEF AtHandle
  <2> QED
    BY <1>7, <1>9, <1>10, <1>11, <2>2, Zenon
<1> QED
  BY <1>3, <1>4, <1>12, Zenon DEF Control

-----------------------------------------------------------------------------
(* The session runs. *)

\* While the session is busy and no enrolment is ever started, its mode tells
\* what the image device is doing.
LEMMA Mirror ==
  ASSUME ImageTyped, InStep, Live, mode \notin Quiet, Plain
  PROVE  \/ mode \in Activating /\ ActivationPending
         \/ mode = "WAIT_FINGER_ON" /\ active /\ istate = "AWAIT_FINGER_ON"
         \/ mode = "CAPTURING" /\ active /\ istate = "CAPTURE"
         \/ mode = "WAIT_FINGER_OFF" /\ active /\ istate = "AWAIT_FINGER_OFF"
  BY Zenon DEF ImageTyped, ImageStates, InStep, ActivationPending

\* A session call changes nothing above the session.
LEMMA SessionOnly ==
  ASSUME Control, UNCHANGED <<imgVars, taskVars, timer>>,
         calls # <<>>, Head(calls)[1] \in {"pump", "poll_tls", "pump_rest", "on_fd"}
  PROVE  /\ UNCHANGED <<istate, active, action, returning, timer>>
         /\ Live' = Live /\ Undone' = Undone
         /\ mode' = mode => InStep' = InStep
         /\ ImageTyped' /\ Flags' /\ Staged'
<1>1. UNCHANGED <<istate, active, present, scanning, stage, action, returning, timer>>
  BY Zenon DEF imgVars, taskVars
<1>2. ImageTyped'
  BY <1>1, ZenonT(30) DEF Control, ImageTyped, imgVars, taskVars
<1>3. ~LastStage
  BY NotLastStage, Zenon DEF Control
<1>4. Flags' /\ Staged' /\ Live' = Live /\ Undone' = Undone
  BY <1>1, <1>3, Zenon DEF Control, Flags, Staged, LastStage, Undone, Live
<1> QED
  BY <1>1, <1>2, <1>4, Zenon DEF InStep, Live

\* The session fails: there is something that the error ends.
LEMMA FailsErrably ==
  ASSUME ImageTyped, InStep, Live, mode \notin Quiet, mode' = "FAILED",
         UNCHANGED <<istate, active, action, returning>>
  PROVE  /\ Errable'
         /\ mode \in Activating => (Plain => ~active)'
<1>1. CASE ~Plain
  BY <1>1, Zenon DEF Errable
<1>2. CASE Plain
  BY <1>2, Mirror, Zenon DEF Errable, ActivationPending, Live, Quiet, Activating
<1> QED
  BY <1>1, <1>2, Zenon

\* ... and a finger that was reported before finds it waiting.
LEMMA FingerMeets ==
  ASSUME Control, InStep, Undone,
         UNCHANGED <<istate, active, action, returning>>,
         NEW t \in {Ticks, Errs}, t = Errs => mode' = "FAILED", t = Ticks => mode' = mode
  PROVE  /\ mode = "WAIT_FINGER_ON" => FingerOK("finger_on", t)'
         /\ mode = "WAIT_FINGER_OFF" => FingerOK("finger_off", t)'
<1>1. Undone' /\ AfterError(t)'
  BY Zenon DEF Undone, Live, AfterError
<1>2. CASE ~Plain
  BY <1>1, <1>2, Zenon DEF FingerOK
<1>3. CASE Plain
  BY <1>1, <1>3, Mirror, Zenon DEF Control, FingerOK, Undone, Activating, Quiet
<1> QED
  BY <1>2, <1>3, Zenon

\* Back to the driver.
LEMMA HandleNext ==
  ASSUME NEW t \in Tails, calls' = Push(Call("handle"), t), Handled(t)', ImageTyped', Flags', Staged'
  PROVE  Control'
<1>1. calls' # <<>> /\ Head(calls')[1] = "handle"
  BY TopIsNext, TailsAre, CallsAre, Zenon
<1>2. AtHandle'
  BY Zenon DEF AtHandle
<1> QED
  BY <1>1, <1>2, Zenon DEF Control, Stacked, Running, Idle

\* On with the pump.
LEMMA PumpNext ==
  ASSUME NEW t \in {<<>>, Pumped}, NEW p \in {"pump", "poll_tls", "pump_rest"},
         calls' = Push(Call(p), Push(Call("handle"), t)),
         Undone', (PumpEvents \/ FailedEvents)', (t = Pumped => ev = {})',
         (p # "pump" => mode \notin Quiet)',
         ImageTyped', Flags', Staged'
  PROVE  Control'
<1>1. Call(p) \in Frame /\ Call(p)[1] = p
  BY CallsAre, Zenon
<1>2. calls' # <<>> /\ Head(calls')[1] = p
  BY <1>1, TopIsNext, TailsAre, CallsAre, PushIs, Zenon
<1>3. AtPump(p)'
  BY Zenon DEF AtPump
<1> QED
  BY <1>2, <1>3, Zenon DEF Control, Stacked, Running, Idle

LEMMA PumpStep == ASSUME Control, SessionCall, gxfp_session_pump(IsCancelled) PROVE Control'
<1>1. PICK t \in {<<>>, Pumped} :
        /\ calls = Push(Call("pump"), Push(Call("handle"), t))
        /\ Undone
        /\ PumpEvents \/ FailedEvents
        /\ t = Pumped => ev = {}
  BY Zenon DEF gxfp_session_pump, Control, Stacked, AtPump
<1> DEFINE u == Push(Call("handle"), t)
<1>2. /\ t \in Tails /\ t # Errs /\ t # Ticks /\ u \in Stack
      /\ calls # <<>> /\ Head(calls)[1] = "pump" /\ Tail(calls) = u
  <2>1. t \in Tails /\ t # Errs /\ t # Ticks /\ t \in Stack
    BY TailsAre, Zenon
  <2>2. u \in Stack
    BY <2>1, PushIs, CallsAre, Zenon
  <2> QED
    BY <1>1, <2>1, <2>2, TopIs, CallsAre, Zenon
<1>3. UNCHANGED <<imgVars, taskVars, timer>>
  BY Zenon DEF SessionCall
<1>4. /\ UNCHANGED <<istate, active, action, returning, timer>>
      /\ Live' = Live /\ Undone' /\ (mode' = mode => InStep' = InStep)
      /\ ImageTyped' /\ Flags' /\ Staged'
  BY <1>1, <1>2, <1>3, SessionOnly, Zenon
<1>5. CASE IsCancelled /\ mode \in Cancellable
  <2>1. /\ mode' = "FAILED" /\ calls' = u
        /\ ev' = ev \cup {"cancel_tick", IF mode = "CAPTURING" THEN "err_session" ELSE "err_activate"}
    BY <1>2, <1>5, Calling, Zenon DEF gxfp_session_pump, Enter
  <2>2. /\ mode \notin Quiet /\ InStep
        /\ ev = {} \/ (ev = {"request_tick"} /\ mode = "ACTIVATING_DARK_CAPTURE")
    <3>1. mode \notin Quiet /\ mode \notin {"WAIT_FINGER_ON", "WAIT_FINGER_OFF", "FAILED"}
      BY <1>5, Zenon DEF Cancellable, Quiet
    <3>2. PumpEvents
      BY <1>1, <3>1, Zenon DEF FailedEvents
    <3> QED
      BY <3>1, <3>2, Zenon DEF PumpEvents
  <2>3. Errable' /\ (mode \in Activating => (Plain => ~active)')
    BY <1>1, <1>4, <2>1, <2>2, FailsErrably, Zenon DEF Control, Undone
  <2>4. CASE mode = "CAPTURING"
    <3>1. ev' = {"cancel_tick", "err_session"}
      BY <2>1, <2>2, <2>4, Zenon
    <3>2. Handled(t)'
      BY <1>2, <1>4, <2>1, <2>3, <3>1, Zenon DEF Handled
    <3> QED
      BY <1>2, <1>4, <2>1, <3>2, HandleNext, Zenon
  <2>5. CASE mode # "CAPTURING"
    <3>1. mode \in Activating
      BY <1>5, <2>5, Zenon DEF Cancellable, Activating
    <3>2. ev' \in {{"cancel_tick", "err_activate"}, {"request_tick", "cancel_tick", "err_activate"}}
      BY <2>1, <2>2, <2>5, Zenon
    <3>3. Handled(t)'
      BY <1>2, <1>4, <2>1, <2>3, <3>1, <3>2, Zenon DEF Handled
    <3> QED
      BY <1>2, <1>4, <2>1, <3>3, HandleNext
  <2> QED
    BY <2>4, <2>5
<1>6. CASE ~(IsCancelled /\ mode \in Cancellable)
  <2>1. /\ UNCHANGED <<mode, ev>>
        /\ Then(IF mode \in Quiet THEN <<>> ELSE <<Call("poll_tls")>>)
    BY <1>6, Zenon DEF gxfp_session_pump, sessVars, Call
  <2>2. PumpEvents' = PumpEvents /\ (mode' = mode => Errable' = Errable)
    <3>1. mode' = mode => Errable' = Errable
      BY <1>4 DEF Errable, ActivationPending
    <3>2. mode' = mode /\ ev' = ev /\ InStep' = InStep
      BY <1>4, <2>1
    <3>3. PumpEvents' = PumpEvents
      BY <3>2, Zenon DEF PumpEvents
    <3> QED
      BY <3>1, <3>3, Zenon
  <2>3. CASE mode \notin Quiet
    <3>1. calls' = Push(Call("poll_tls"), u)
      BY <1>2, <2>1, <2>3, Calling, CallsAre, Zenon
    <3>2. PumpEvents
      BY <1>1, <2>3, Zenon DEF FailedEvents, Quiet
    <3> QED
      BY <1>1, <1>4, <2>1, <2>2, <2>3, <3>1, <3>2, PumpNext, Zenon
  <2>4. CASE mode \in Quiet
    <3>1. calls' = u
      BY <1>2, <2>1, <2>4, Calling, Zenon
    <3>2. CASE PumpEvents
      <4>1. ev = {} /\ InStep
        BY <2>4, <3>2, Zenon DEF PumpEvents, Quiet
      <4>2. (Resumable(t) /\ Agreeing(t))'
        BY <1>1, <1>2, <1>4, <2>1, <2>4, <4>1, Zenon
        DEF Resumable, Agreeing, Polled, Undone, Waits, WaitingUp, Capturing, Quiet
      <4>3. Handled(t)'
        BY <2>1, <4>1, <4>2, Zenon DEF Handled
      <4> QED
        BY <1>2, <1>4, <3>1, <4>3, HandleNext, Zenon
    <3>3. CASE FailedEvents
      <4>1. t = <<>>
        BY <1>1, <3>3, Zenon DEF FailedEvents
      <4>2. \A f, r : FingerOK(f, r)' = FingerOK(f, r)
        BY <1>1, <1>4, <2>1, Zenon DEF FingerOK, AfterError
      <4>3. Handled(t)'
        <5>1. /\ Undone' /\ t # Errs /\ mode' = "FAILED" /\ ev' = ev /\ Errable' = Errable
              /\ UNCHANGED active
          BY <1>2, <1>4, <2>1, <2>2, <3>3 DEF FailedEvents
        <5>2. CASE ev \in {{"err_session"}, {"request_tick", "err_session"}} /\ Errable
          BY <5>1, <5>2 DEF Handled
        <5>3. CASE ev = {"err_activate"} /\ Errable /\ (Plain => ~active)
          BY <5>1, <5>3 DEF Handled
        <5>4. CASE \/ ev = {"finger_on", "err_session"} /\ FingerOK("finger_on", Errs)
                   \/ ev = {"finger_off", "err_session"} /\ FingerOK("finger_off", Errs)
          BY <4>1, <4>2, <5>1, <5>4, Zenon DEF Handled
        <5> QED
          BY <3>3, <5>2, <5>3, <5>4, Zenon DEF FailedEvents
      <4> QED
        BY <1>2, <1>4, <3>1, <4>3, HandleNext
    <3> QED
      BY <1>1, <3>2, <3>3, Zenon
  <2> QED
    BY <2>3, <2>4, Zenon
<1> QED
  BY <1>5, <1>6, Zenon

\* A busy session fails with the events it has raised before.
LEMMA BusyFails ==
  ASSUME Control, PumpEvents, Undone, mode \notin Quiet,
         mode' = "FAILED", ev' = ev \cup {"err_session"},
         UNCHANGED <<istate, active, action, returning>>
  PROVE  FailedEvents'
<1>1. InStep
  BY Zenon DEF PumpEvents
<1>2. Errable'
  BY <1>1, FailsErrably, Zenon DEF Control, Undone
<1>3. /\ mode = "WAIT_FINGER_ON" => FingerOK("finger_on", Errs)'
      /\ mode = "WAIT_FINGER_OFF" => FingerOK("finger_off", Errs)'
  BY <1>1, FingerMeets, TailsAre, Zenon
<1>4. \/ ev' \in {{"err_session"}, {"request_tick", "err_session"}}
      \/ ev' = {"finger_on", "err_session"} /\ mode = "WAIT_FINGER_ON"
      \/ ev' = {"finger_off", "err_session"} /\ mode = "WAIT_FINGER_OFF"
  BY Zenon DEF PumpEvents
<1> QED
  BY <1>2, <1>3, <1>4, Zenon DEF FailedEvents

LEMMA FailureHandled ==
  ASSUME FailedEvents', Undone', NEW t \in {<<>>, Pumped}, t = Pumped => ev = {},
         ev' = ev \cup {"err_session"}
  PROVE  Handled(t)'
<1>1. t # Errs
  BY TailsAre, Zenon
<1>2. CASE t = <<>>
  BY <1>1, <1>2, Zenon DEF FailedEvents, Handled
<1>3. CASE t = Pumped
  <2>1. ev' = {"err_session"}
    BY <1>3, Zenon
  <2> QED
    BY <1>1, <2>1 DEF FailedEvents, Handled
<1> QED
  BY <1>2, <1>3, Zenon

LEMMA PollStep == ASSUME Control, SessionCall, session_poll_tls PROVE Control'
<1>1. PICK t \in {<<>>, Pumped} :
        /\ calls = Push(Call("poll_tls"), Push(Call("handle"), t))
        /\ Undone
        /\ PumpEvents \/ FailedEvents
        /\ t = Pumped => ev = {}
        /\ mode \notin Quiet
  BY Zenon DEF session_poll_tls, Control, Stacked, AtPump
<1> DEFINE u == Push(Call("handle"), t)
<1>2. PumpEvents /\ InStep
  BY <1>1, Zenon DEF PumpEvents, FailedEvents, Quiet
<1>3. /\ t \in Tails /\ t \in Stack /\ u \in Stack
      /\ calls # <<>> /\ Head(calls)[1] = "poll_tls" /\ Tail(calls) = u
  <2>1. t \in Tails /\ t \in Stack
    BY TailsAre, Zenon
  <2>2. u \in Stack
    BY <2>1, PushIs, CallsAre, Zenon
  <2> QED
    BY <1>1, <2>1, <2>2, TopIs, CallsAre, Zenon
<1>4. UNCHANGED <<imgVars, taskVars, timer>>
  BY Zenon DEF SessionCall
<1>5. /\ UNCHANGED <<istate, active, action, returning, timer>>
      /\ Live' = Live /\ Undone' /\ (mode' = mode => InStep' = InStep)
      /\ ImageTyped' /\ Flags' /\ Staged'
  BY <1>1, <1>3, <1>4, SessionOnly, Zenon
<1>6. CASE session_set_error("GENERIC") /\ Then(<<>>)
  <2>1. mode' = "FAILED" /\ ev' = ev \cup {"err_session"} /\ calls' = u
    BY <1>3, <1>6, Calling, Zenon DEF session_set_error, Error
  <2>2. FailedEvents'
    BY <1>1, <1>2, <1>5, <2>1, BusyFails, Zenon
  <2>3. Handled(t)'
    BY <1>1, <1>5, <2>1, <2>2, FailureHandled, Zenon
  <2> QED
    BY <1>3, <1>5, <2>1, <2>3, HandleNext
<1>7. CASE UNCHANGED <<calls, sessVars>>
  BY <1>4, <1>7, SameControl, Zenon
<1>8. CASE UNCHANGED sessVars /\ Then(<<<<"pump_rest", "">>>>)
  <2>1. calls' = Push(Call("pump_rest"), u)
    BY <1>3, <1>8, Calling, CallsAre, Zenon DEF Call
  <2>2. UNCHANGED <<mode, ev>> /\ PumpEvents'
    BY <1>2, <1>5, <1>8, Zenon DEF PumpEvents, sessVars
  <2> QED
    BY <1>1, <1>5, <2>1, <2>2, PumpNext, Zenon
<1> QED
  BY <1>6, <1>7, <1>8, Zenon DEF session_poll_tls

\* What the rest of a pump does to the mode and the events.
LEMMA PumpEnds ==
  ASSUME PumpRest, mode \notin Quiet
  PROVE  /\ Then(<<>>)
         /\ \/ mode' = "FAILED" /\ ev' = ev \cup {"err_session"}
            \/ mode = "ACTIVATING_TLS" /\ mode' \in Activating /\ ev' = ev \cup {"request_tick"}
            \/ mode \in Waits /\ mode' = mode /\ ev' = ev \cup {"request_tick"}
            \/ mode = "IDLE" /\ UNCHANGED <<mode, ev>>
            \/ /\ mode = "ACTIVATING_DARK_CAPTURE"
               /\ \/ mode' = "IDLE" /\ ev' = ev \cup {"activate_complete"}
                  \/ mode' = "FAILED" /\ ev' = ev \cup {"err_activate"}
            \/ /\ mode = "CAPTURING"
               /\ mode' = "IDLE" /\ ev' = ev \cup {"image_ready"} /\ img_ready'
<1>1. CASE session_maybe_finish_activation
  BY <1>1, Zenon DEF PumpRest, session_maybe_finish_activation, Enter, session_set_error, Error, Activating
<1>2. CASE gxfp_fdt_flow_poll
  BY <1>2, Zenon DEF PumpRest, gxfp_fdt_flow_poll, Enter, session_set_error, Error, Waits
<1>3. CASE session_finalize_capture
  BY <1>3, Zenon DEF PumpRest, session_finalize_capture, session_set_error, Error, Capturing
<1>4. CASE AwaitImage
  BY <1>4, Zenon DEF PumpRest, AwaitImage, Enter, Waits
<1>5. CASE AwaitFinger
  BY <1>5, Zenon DEF PumpRest, AwaitFinger, Enter, Waits
<1> QED
  BY <1>1, <1>2, <1>3, <1>4, <1>5, Zenon DEF PumpRest

LEMMA PumpRestStep == ASSUME Control, SessionCall, PumpRest PROVE Control'
<1>1. PICK t \in {<<>>, Pumped} :
        /\ calls = Push(Call("pump_rest"), Push(Call("handle"), t))
        /\ Undone
        /\ PumpEvents \/ FailedEvents
        /\ t = Pumped => ev = {}
        /\ mode \notin Quiet
  BY Zenon DEF PumpRest, Control, Stacked, AtPump
<1> DEFINE u == Push(Call("handle"), t)
<1>2. PumpEvents /\ InStep
  BY <1>1, Zenon DEF PumpEvents, FailedEvents, Quiet
<1>3. /\ t \in Tails /\ t \in Stack /\ u \in Stack /\ t # Errs
      /\ calls # <<>> /\ Head(calls)[1] = "pump_rest" /\ Tail(calls) = u
  <2>1. t \in Tails /\ t \in Stack /\ t # Errs
    BY TailsAre, Zenon
  <2>2. u \in Stack
    BY <2>1, PushIs, CallsAre, Zenon
  <2> QED
    BY <1>1, <2>1, <2>2, TopIs, CallsAre, Zenon
<1>4. UNCHANGED <<imgVars, taskVars, timer>>
  BY Zenon DEF SessionCall
<1>5. /\ UNCHANGED <<istate, active, action, returning, timer>>
      /\ Live' = Live /\ Undone' /\ (mode' = mode => InStep' = InStep)
      /\ ImageTyped' /\ Flags' /\ Staged'
  BY <1>1, <1>3, <1>4, SessionOnly, Zenon
<1>6. calls' = u
  BY <1>1, <1>3, PumpEnds, Calling
<1>7. SUFFICES Handled(t)'
  BY <1>3, <1>5, <1>6, HandleNext, Zenon
<1>8. CASE mode' = "FAILED" /\ ev' = ev \cup {"err_session"}
  BY <1>1, <1>2, <1>5, <1>8, BusyFails, FailureHandled, Zenon
<1>9. CASE /\ ev' = ev \cup {"request_tick"} /\ mode \in Waits
           /\ mode' = mode \/ (mode = "ACTIVATING_TLS" /\ mode' \in Activating)
  <2>1. InStep'
    <3>1. CASE mode' = mode
      BY <1>2, <1>5, <3>1, Zenon
    <3>2. CASE mode = "ACTIVATING_TLS" /\ mode' \in Activating /\ Plain
      <4>1. ActivationPending
        BY <1>1, <1>2, <3>2, Mirror, Zenon DEF Control, Undone
      <4> QED
        BY <1>1, <1>5, <3>2, <4>1, Zenon DEF InStep, CaptureActions, ActivationPending, Undone
    <3>3. CASE ~Plain
      BY <3>3, Zenon DEF InStep
    <3> QED
      BY <1>9, <3>1, <3>2, <3>3, Zenon
  <2>2. CASE ev \in {{}, {"request_tick"}}
    <3>1. ev' = {"request_tick"}
      BY <1>9, <2>2, Zenon
    <3> QED
      BY <1>3, <1>5, <2>1, <3>1, Zenon DEF Handled
  <2>3. CASE ev = {"finger_on"} /\ mode = "WAIT_FINGER_ON"
    <3>1. t = <<>> /\ mode' = mode /\ ev' = {"finger_on", "request_tick"}
      BY <1>1, <1>9, <2>3, Zenon
    <3>2. FingerOK("finger_on", Ticks)'
      BY <1>1, <1>2, <1>5, <2>3, <3>1, FingerMeets, TailsAre, Zenon
    <3> QED
      BY <3>1, <3>2, Zenon DEF Handled
  <2>4. CASE ev = {"finger_off"} /\ mode = "WAIT_FINGER_OFF"
    <3>1. t = <<>> /\ mode' = mode /\ ev' = {"finger_off", "request_tick"}
      BY <1>1, <1>9, <2>4, Zenon
    <3>2. FingerOK("finger_off", Ticks)'
      BY <1>1, <1>2, <1>5, <2>4, <3>1, FingerMeets, TailsAre, Zenon
    <3> QED
      BY <3>1, <3>2, Zenon DEF Handled
  <2> QED
    BY <1>2, <2>2, <2>3, <2>4, Zenon DEF PumpEvents
<1>10. CASE mode = "IDLE" /\ UNCHANGED <<mode, ev>>
  <2>1. ev = {} /\ InStep'
    BY <1>2, <1>5, <1>10, Zenon DEF PumpEvents
  <2>2. (Resumable(t) /\ Agreeing(t))'
    BY <1>1, <1>3, <1>5, <1>10, <2>1, Zenon
    DEF Resumable, Agreeing, Polled, Undone, Waits, WaitingUp, Capturing
  <2> QED
    BY <1>10, <2>1, <2>2, Zenon DEF Handled
<1>11. CASE mode = "ACTIVATING_DARK_CAPTURE"
  <2>1. ev \in {{}, {"request_tick"}}
    BY <1>2, <1>11, Zenon DEF PumpEvents
  <2>2. CASE mode' = "IDLE" /\ ev' = ev \cup {"activate_complete"}
    <3>1. ev' = {"activate_complete"} \/ (ev' = {"activate_complete", "request_tick"} /\ t = <<>>)
      BY <1>1, <2>1, <2>2, Zenon
    <3>2. Plain => ActivationPending
      BY <1>1, <1>2, <1>11, Mirror, Zenon DEF Control, Undone
    <3>3. ActivatedOK'
      BY <1>5, <2>2, <3>2, Zenon DEF ActivatedOK, ActivationPending
    <3> QED
      BY <3>1, <3>3, Zenon DEF Handled
  <2>3. CASE mode' = "FAILED" /\ ev' = ev \cup {"err_activate"}
    <3>1. Errable' /\ (Plain => ~active)'
      BY <1>1, <1>2, <1>5, <1>11, <2>3, FailsErrably, Zenon DEF Control, Undone, Activating
    <3>2. ev' \in {{"err_activate"}, {"request_tick", "err_activate"}}
      BY <2>1, <2>3, Zenon
    <3> QED
      BY <1>3, <1>5, <2>3, <3>1, <3>2, Zenon DEF Handled
  <2> QED
    BY <1>1, <1>8, <1>9, <1>11, <2>2, <2>3, PumpEnds, Zenon
<1>12. CASE mode = "CAPTURING" /\ mode' = "IDLE" /\ ev' = ev \cup {"image_ready"} /\ img_ready'
  <2>1. ev' = {"image_ready"}
    BY <1>2, <1>12, Zenon DEF PumpEvents
  <2>2. Plain => active /\ istate = "CAPTURE"
    BY <1>1, <1>2, <1>12, Mirror, Zenon DEF Control, Undone, Activating
  <2>3. ImageOK'
    BY <1>5, <1>12, <2>2, Zenon DEF ImageOK
  <2> QED
    BY <2>1, <2>3, Zenon DEF Handled
<1> QED
  BY <1>1, <1>8, <1>9, <1>10, <1>11, <1>12, PumpEnds, Zenon DEF Waits

\* On with the reading.
LEMMA ReadNext ==
  ASSUME calls' = Push(Call("on_fd"), Push(Call("handle"), <<>>)), PumpEvents', Undone',
         ImageTyped', Flags', Staged'
  PROVE  Control'
<1>1. Push(Call("handle"), <<>>) \in Stack
  BY PushIs, TailsAre, CallsAre, Zenon
<1>2. calls' # <<>> /\ Head(calls')[1] = "on_fd"
  BY <1>1, TopIsNext, CallsAre, Zenon
<1>3. AtOnFd'
  BY Zenon DEF AtOnFd, Undone
<1> QED
  BY <1>2, <1>3, Zenon DEF Control, Stacked, Running, Idle

LEMMA OnFdStep == ASSUME Control, SessionCall, OnFd PROVE Control'
<1> DEFINE u == Push(Call("handle"), <<>>)
<1>1. /\ calls = Push(Call("on_fd"), u)
      /\ istate # "DEACTIVATING" /\ (Live \/ mode \in Quiet) /\ PumpEvents
  BY Zenon DEF OnFd, gxfp_session_on_fd, ReadFinger, ReadUpForDark, ReadTls, ReadFails, Fed, Reading,
         Control, Stacked, AtOnFd
<1>2. InStep
  BY <1>1, Zenon DEF PumpEvents
<1>3. /\ <<>> \in Tails /\ u \in Stack
      /\ calls # <<>> /\ Head(calls)[1] = "on_fd" /\ Tail(calls) = u
  <2>1. u \in Stack
    BY PushIs, CallsAre, TailsAre, Zenon
  <2> QED
    BY <1>1, <2>1, TopIs, CallsAre, TailsAre, Zenon
<1>4. UNCHANGED <<imgVars, taskVars, timer>>
  BY Zenon DEF SessionCall
<1>5. /\ UNCHANGED <<istate, active, action, returning, timer>>
      /\ Live' = Live /\ Undone' = Undone /\ (mode' = mode => InStep' = InStep)
      /\ ImageTyped' /\ Flags' /\ Staged'
  BY <1>3, <1>4, SessionOnly, Zenon
<1>6. mode \notin Quiet => Undone /\ Undone'
  BY <1>1, <1>5, Zenon DEF Undone
<1>7. Then(<<<<"pump", "">>>>) => calls' = Push(Call("pump"), u)
  BY <1>3, Calling, CallsAre, Zenon DEF Call
<1>8. <<>> # Pumped
  BY TailsAre, Zenon
<1>9. CASE gxfp_session_on_fd
  <2>1. UNCHANGED <<mode, ev>> /\ PumpEvents'
    <3>1. UNCHANGED <<mode, ev>>
      BY <1>9, Zenon DEF gxfp_session_on_fd, sessVars
    <3>2. InStep'
      BY <1>2, <1>5, <3>1, Zenon
    <3> QED
      BY <1>1, <3>1, <3>2, Zenon DEF PumpEvents
  <2>2. CASE mode \in Quiet
    <3>1. calls' = u
      BY <1>3, <1>9, <2>2, Calling, Zenon DEF gxfp_session_on_fd
    <3>2. ev = {}
      BY <1>1, <2>2, Zenon DEF PumpEvents, Quiet
    <3>3. (Resumable(<<>>) /\ Agreeing(<<>>))'
      BY <1>1, <1>2, <1>5, <2>1, <2>2, <3>2, TailsAre, Zenon
      DEF Resumable, Agreeing, Polled, Waits, WaitingUp, Capturing, Quiet
    <3>4. Handled(<<>>)'
      BY <2>1, <3>2, <3>3, Zenon DEF Handled
    <3> QED
      BY <1>3, <1>5, <3>1, <3>4, HandleNext, Zenon
  <2>3. CASE mode \notin Quiet
    <3>1. calls' = Push(Call("pump"), u)
      BY <1>7, <1>9, <2>3, Zenon DEF gxfp_session_on_fd
    <3> QED
      BY <1>5, <1>6, <1>8, <2>1, <2>3, <3>1, PumpNext, Zenon
  <2> QED
    BY <2>2, <2>3, Zenon
<1>10. CASE ReadFinger
  <2>1. /\ mode \notin Quiet /\ UNCHANGED <<calls, mode>>
        /\ ev' = ev \cup FingerEvents(Head(rxq))
    BY <1>10 DEF ReadFinger, Fed, Reading, Enter
  <2>2. /\ FingerEvents(Head(rxq)) \in {{}, {"finger_on"}, {"finger_off"}}
        /\ FingerEvents(Head(rxq)) = {"finger_on"} => mode = "WAIT_FINGER_ON"
        /\ FingerEvents(Head(rxq)) = {"finger_off"} => mode = "WAIT_FINGER_OFF"
    BY Zenon DEF FingerEvents
  <2>3. PumpEvents'
    <3>1. CASE FingerEvents(Head(rxq)) = {}
      BY <1>1, <1>5, <2>1, <3>1 DEF PumpEvents
    <3>2. CASE FingerEvents(Head(rxq)) = {"finger_on"}
      <4>1. ev' = {"finger_on"} /\ mode' = "WAIT_FINGER_ON"
        BY <1>1, <2>1, <2>2, <3>2, Zenon DEF PumpEvents
      <4> QED
        BY <1>2, <1>5, <2>1, <4>1, Zenon DEF PumpEvents
    <3>3. CASE FingerEvents(Head(rxq)) = {"finger_off"}
      <4>1. ev' = {"finger_off"} /\ mode' = "WAIT_FINGER_OFF"
        BY <1>1, <2>1, <2>2, <3>3, Zenon DEF PumpEvents
      <4> QED
        BY <1>2, <1>5, <2>1, <4>1, Zenon DEF PumpEvents
    <3> QED
      BY <2>2, <3>1, <3>2, <3>3, Zenon
  <2> QED
    BY <1>1, <1>5, <1>6, <2>1, <2>3, ReadNext, Zenon
<1>11. CASE ReadUpForDark
  <2>1. mode = "ACTIVATING_WAIT_UP" /\ mode \notin Quiet
    BY <1>11, Zenon DEF ReadUpForDark, Reading, StartsDark
  <2>2. ev = {} /\ Undone /\ Undone' /\ Live
    BY <1>1, <1>6, <2>1, Zenon DEF PumpEvents, Undone
  <2>3. CASE MayRequest
    <3>1. mode' = "ACTIVATING_DARK_CAPTURE" /\ ev' = {"request_tick"} /\ calls' = calls
      BY <1>11, <2>2, <2>3, Zenon DEF ReadUpForDark, Enter
    <3>2. InStep'
      <4>1. CASE Plain
        <5>1. ActivationPending
          BY <1>2, <2>1, <2>2, <4>1, Mirror, Zenon DEF Control
        <5> QED
          BY <1>5, <2>2, <3>1, <5>1, Zenon DEF InStep, CaptureActions, ActivationPending, Activating
      <4> QED
        BY <4>1, Zenon DEF InStep
    <3>3. PumpEvents'
      BY <3>1, <3>2, Zenon DEF PumpEvents
    <3> QED
      BY <1>1, <1>5, <2>2, <3>1, <3>3, ReadNext, Zenon
  <2>4. CASE ~MayRequest
    <3>1. mode' = "FAILED" /\ ev' = {"err_activate"} /\ calls' = Push(Call("pump"), u)
      BY <1>7, <1>11, <2>2, <2>4, Zenon DEF ReadUpForDark, session_set_error, Error
    <3>2. Errable' /\ (Plain => ~active)'
      BY <1>2, <1>5, <2>1, <2>2, <3>1, FailsErrably, Zenon DEF Control, Activating
    <3>3. FailedEvents'
      BY <3>1, <3>2, Zenon DEF FailedEvents
    <3> QED
      BY <1>5, <1>8, <2>2, <3>1, <3>3, PumpNext, Zenon
  <2> QED
    BY <2>3, <2>4, Zenon
<1>12. CASE ReadTls
  <2>1. UNCHANGED <<calls, sessVars>>
    BY <1>12, Zenon DEF ReadTls
  <2> QED
    BY <1>4, <2>1, SameControl, Zenon
<1>13. CASE ReadFails
  <2>1. /\ mode \notin Quiet /\ mode' = "FAILED" /\ ev' = ev \cup {"err_session"}
        /\ calls' = Push(Call("pump"), u)
    BY <1>7, <1>13, Zenon DEF ReadFails, Reading, session_set_error, Error
  <2>2. FailedEvents'
    BY <1>1, <1>5, <1>6, <2>1, BusyFails, Zenon
  <2> QED
    BY <1>5, <1>6, <1>8, <2>1, <2>2, PumpNext, Zenon
<1> QED
  BY <1>9, <1>10, <1>11, <1>12, <1>13, Zenon DEF OnFd

-----------------------------------------------------------------------------
(* The invariant, and what follows from it. *)

LEMMA InitControl == ASSUME Init PROVE Control
<1>1. /\ calls = <<>> /\ ev = {} /\ mode = "CLOSED" /\ istate = "INACTIVE" /\ active = FALSE
      /\ scanning = FALSE /\ present = FALSE /\ action = "NONE" /\ returning = "none"
  BY Zenon DEF Init, SessionInit
<1>2. ImageTyped
  <2>1. stage \in 0..EnrollStages
    BY ActionsAssumption DEF Init
  <2> QED
    BY <2>1, Zenon DEF Init, ImageTyped, ImageStates
<1>3. Flags /\ Staged
  BY <1>1 DEF Flags, Staged, LastStage, Live
<1>4. AtIdle
  BY <1>1, TailsAre
  DEF AtIdle, Resumable, Polled, InStep, Quiet, Waits, WaitingUp, Capturing
<1>5. Stacked
  BY <1>1, <1>4, Zenon DEF Stacked, Running, Idle
<1> QED
  BY <1>2, <1>3, <1>5, Zenon DEF Control

LEMMA NextKeepsControl == ASSUME Control, [Next]_vars PROVE Control'
<1>1. CASE SessionCall
  BY <1>1, PumpStep, PollStep, PumpRestStep, OnFdStep, Zenon DEF SessionCall
<1>2. CASE Program /\ ~SessionCall
  BY <1>2, HandleStep, ChangeStateStep, DeactivateStep, GxfpDeactivateStep, GxfpActivateStep,
     MaybeCompleteStep, EnrollStep, FingerStep, ImageStep, ActivationErrorStep, SessionErrorStep,
     ActivateCompleteStep, DeactivateCompleteStep, CloseCompleteStep, TickStep, AfterPumpStep, Zenon
  DEF Program
<1>3. CASE MainLoop
  BY <1>3, CancelInIdleStep, CancelStep, PumpTimeoutStep, ScanStep, Zenon DEF MainLoop
<1>4. CASE User
  BY <1>4, OpenStep, CloseStep, StartStep, CancelStep, Zenon DEF User
<1>5. CASE Sensor \/ Clock \/ Aborted \/ UNCHANGED vars
  BY <1>5, OutsideStep, Zenon
<1> QED
  BY <1>1, <1>2, <1>3, <1>4, <1>5, Zenon DEF Next

\* Whatever function of the driver, of the session or of the image device runs,
\* the calls still to be made under it, the flags of the image device, the mode
\* of the session and its pending events fit together.
THEOREM ControlInvariant == Spec => []Control
<1>1. Init => Control
  BY InitControl
<1>2. Control /\ [Next]_vars => Control'
  BY NextKeepsControl
<1> QED
  BY <1>1, <1>2, PTL DEF Spec

\* Every variable of the sensor, the session and the image device has its type;
\* the enrolment stage never passes nr_enroll_stages, although a scan that ends
\* after the last stage would count one more.
THEOREM TypesHold == Spec => []TypeOK
<1>1. LowInv /\ Control => TypeOK
  <2> SUFFICES ASSUME LowInv, Control PROVE TypeOK
    BY Zenon
  <2>1. /\ finger \in BOOLEAN /\ armed \in {"none", "down", "up"}
        /\ link \in {"none", "hello", "up"} /\ shot \in {"none", "IMG", "OLDIMG"}
        /\ rxq \in Seq(Records) /\ Len(rxq) <= MaxQueue
    BY DEF LowInv, SensorTyped
  <2>2. /\ fmode \in {"IDLE", "WAIT_DOWN", "WAIT_UP"} /\ fstate \in {"UNKNOWN", "UP", "DOWN"}
        /\ retries \in 0..MaxRetries /\ overdue \in BOOLEAN
    BY Zenon DEF LowInv, FdtTyped
  <2>3. /\ svc \in {"NULL", "CONNECTING", "CONNECTED", "CAPTURING", "DONE", "ERROR"}
        /\ pending \in BOOLEAN /\ late \in BOOLEAN
        /\ inbox \in Seq({"HS", "IMG", "OLDIMG"}) /\ img \in {"none", "IMG", "OLDIMG"}
    BY DEF LowInv, TlsTyped, TlsRecords
  <2>4. mode \in Modes /\ dark \in BOOLEAN /\ img_ready \in BOOLEAN /\ ev \subseteq Events
    BY Zenon DEF LowInv, SessionTyped
  <2>5. {active, present, scanning, timer, cancelled, idle_cancel, is_open} \subseteq BOOLEAN
    BY Zenon DEF Control, ImageTyped
  <2>6. /\ istate \in ImageStates /\ stage \in 0..EnrollStages
        /\ action_error \in {"none", "retry", "error"} /\ returning \in {"none", "ok", "error"}
        /\ action \in Actions \cup {"NONE", "OPEN", "CLOSE"}
    BY Zenon DEF Control, ImageTyped
  <2> QED
    BY <2>1, <2>2, <2>3, <2>4, <2>5, <2>6, Zenon DEF TypeOK
<1> QED
  BY <1>1, LowInvariant, ControlInvariant, PTL

\* The driver never waits without a timer: whenever the main loop is idle and
\* the session waits for TLS, a finger or an image, a pump is scheduled, whatever
\* was cancelled, failed or deactivated on the way there.
THEOREM WaitingHasTimerHolds == Spec => []WaitingHasTimer
<1>1. Control => WaitingHasTimer
  BY DEF Control, Stacked, AtIdle, Resumable, Polled, Waits, WaitingHasTimer
<1> QED
  BY <1>1, ControlInvariant, PTL

\* No action is completed while its result is still to be returned: of the
\* errors, the scan results and the deactivations that can complete an action,
\* only one does.
THEOREM NotCompletedTwiceHolds == Spec => []NotCompletedTwice
<1>1. ASSUME Control PROVE NotCompletedTwice
  <2>1. CASE Running("maybe_complete")
    <3>1. AtMaybeComplete
      BY <1>1, <2>1, Zenon DEF Control, Stacked
    <3> QED
      BY <3>1, Zenon DEF AtMaybeComplete, CompleteOK, Undone, Live, NotCompletedTwice
  <2>2. CASE Running("err_activate") /\ ActivationPending
    <3>1. AtError("err_activate")
      BY <1>1, <2>2, Zenon DEF Control, Stacked
    <3> QED
      BY <2>2, <3>1, Zenon DEF AtError, ErrorOK, Live, ActivationPending, NotCompletedTwice
  <2> QED
    BY <2>1, <2>2, Zenon DEF NotCompletedTwice
<1> QED
  BY <1>1, ControlInvariant, PTL

\* When the result of an action is ready to be returned the device is inactive
\* and no scan runs, so the next action starts from an idle device.
THEOREM ReturnsQuietHolds == Spec => []ReturnsQuiet
<1>1. Control => ReturnsQuiet
  BY DEF Control, Flags, Live, ReturnsQuiet
<1> QED
  BY <1>1, ControlInvariant, PTL

\* As long as no enrolment is started, no assertion of the image-device layer
\* fails: no action starts with a finger on the sensor, and none completes or
\* reports a finger outside a capture action.
THEOREM NoAbortHolds == ASSUME "ENROLL" \notin Actions PROVE Spec => []NoAbort
<1>1. Control => NoAbort
  BY Zenon DEF Control, Stacked, Plain, NoAbort
<1> QED
  BY <1>1, ControlInvariant, PTL

\* As long as no enrolment is started, the image device and the session are in
\* step between two callbacks: each waits for the same event.
THEOREM StatesAgreeHolds == ASSUME "ENROLL" \notin Actions PROVE Spec => []StatesAgree
<1>1. ASSUME Control, Idle PROVE StatesAgree
  <2>1. InStep /\ Plain /\ istate \in ImageStates
    BY <1>1, Zenon DEF Control, Stacked, AtIdle, Plain, ImageTyped
  <2>2. action \in CaptureActions \cup {"NONE", "OPEN", "CLOSE"}
    BY <1>1, ActionsAssumption DEF Control, ImageTyped, CaptureActions
  <2>3. CASE istate = "AWAIT_FINGER_ON"
    BY <2>1, <2>3 DEF InStep, StatesAgree
  <2>4. CASE istate = "CAPTURE"
    BY <2>1, <2>4 DEF InStep, StatesAgree
  <2>5. CASE istate = "AWAIT_FINGER_OFF"
    BY <2>1, <2>5 DEF InStep, StatesAgree
  <2>6. CASE istate = "INACTIVE"
    BY <2>1, <2>6 DEF InStep, StatesAgree
  <2>7. CASE istate = "ACTIVATING" /\ action # "NONE" /\ returning = "none"
    <3>1. mode \in Activating
      BY <2>1, <2>2, <2>7, Zenon DEF InStep, Live
    <3> QED
      BY <2>7, <3>1, Zenon DEF StatesAgree, Activating
  <2>8. CASE istate = "ACTIVATING" /\ ~(action # "NONE" /\ returning = "none")
    <3>1. mode \in Quiet
      BY <2>1, <2>8 DEF InStep, Live, CaptureActions
    <3> QED
      BY <2>8, <3>1, Zenon DEF StatesAgree
  <2> QED
    BY <2>1, <2>3, <2>4, <2>5, <2>6, <2>7, <2>8, Zenon DEF InStep, ImageStates
<1>2. Control => StatesAgree
  BY <1>1 DEF StatesAgree
<1> QED
  BY <1>2, ControlInvariant, PTL
=============================================================================
