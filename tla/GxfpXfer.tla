------------------------------ MODULE GxfpXfer ------------------------------
(***************************************************************************)
(* Requests of user-space programs to the sensor (cmd/goodix_xfer.c): a    *)
(* program flushes the receive queue, then sends one command after the     *)
(* other and waits for a frame with the expected command byte, again for   *)
(* every attempt that timed out.  Commands and answers may be lost or      *)
(* late, and frames nobody asked for arrive in between.                    *)
(*                                                                         *)
(* The sensor is external.  It executes commands in order and answers each *)
(* with an acknowledgement and, where the code waits for one, a reply      *)
(* after it.  Frames the wait skips (another type, a body that does not    *)
(* parse, a report nobody waits for) are all the finger report.            *)
(***************************************************************************)
EXTENDS Naturals, Sequences

CONSTANTS
  Args,        \* what a command may carry
  NoArg,       \* the contents of a command nobody looks at
  MaxQueue,    \* bound: records in the kernel's queue
  MaxWire,     \* bound: commands on their way
  MaxFaults,   \* bound: losses and errors
  MaxTries     \* bound: attempts of a request that the code makes up to 8 times

ASSUME XferAssumption ==
  /\ NoArg \in Args
  /\ {MaxQueue, MaxWire, MaxFaults, MaxTries} \subseteq Nat \ {0}

VARIABLES
  wire,        \* commands the sensor has not executed yet
  rxq,         \* the kernel's queue of records
  todo,        \* the requests of the running program that remain
  attempts,    \* sent for the first of them
  phase,       \* "idle", "send" or "wait"
  rc,          \* what the program has returned
  stale,       \* history: since the flush, an answer may be somebody else's
  faults

xferVars == <<wire, rxq, todo, attempts, phase, rc, stale, faults>>

CommandBytes ==
  {"REG_READ", "READ_OTP", "PRESET_PSK_READ", "PRODUCTION_WRITE_MCU",
   "TRIGGER_MCU_STATE", "NOTIFY_POWER_STATE", "D01", "SEND_NOP", "TLS_UNLOCK",
   "SET_SLEEP_MODE", "RESET_DEVICE", "UPLOAD_CONFIG_MCU"}

Replies == {"REG_READ", "READ_OTP", "PRESET_PSK_READ", "PRODUCTION_WRITE_MCU",
            "QUERY_MCU_STATE"}

\* A command on its way is known by the answer it will get.  own: sent for, or
\* answering, the request that is waited for.
Commands == [reply : Replies \cup {"ACK"}, arg : Args, own : BOOLEAN]
Frames == [cmd : Replies \cup {"ACK", "FDT_STATUS"}, status : {0, 1}, own : BOOLEAN]

\* otherwise: what a failure of the request means to the program.
Requests == [cmd : CommandBytes, arg : Args, expect : Replies \cup {"ACK"},
             tries : 1..MaxTries, otherwise : {"continue", "finish", "fail"}]

XferTypeOK ==
  /\ wire \in Seq(Commands) /\ Len(wire) <= MaxWire
  /\ rxq \in Seq(Frames) /\ Len(rxq) <= MaxQueue
  /\ todo \in Seq(Requests)
  /\ attempts \in 0..MaxTries
  /\ phase \in {"idle", "send", "wait"}
  /\ phase # "idle" => todo # <<>>
  /\ rc \in {"none", "ok", "fail"}
  /\ stale \in BOOLEAN
  /\ faults \in 0..MaxFaults

XferInit ==
  /\ wire = <<>> /\ rxq = <<>> /\ todo = <<>>
  /\ attempts = 0 /\ phase = "idle" /\ rc = "none"
  /\ stale = FALSE /\ faults = 0

---------------------------------------------------------------------------
\* The programs, as the requests they make.

AtMost(tries) == IF tries < MaxTries THEN tries ELSE MaxTries

\* gxfp_goodix_request_selected for a frame `expect', a failure of which is the
\* program's.
Request(cmd, arg, expect, tries) ==
  [cmd |-> cmd, arg |-> arg, expect |-> expect,
   tries |-> AtMost(tries), otherwise |-> "fail"]

\* Any acknowledgement will do.
gxfp_cmd_send_expect_ack(cmd, tries) == Request(cmd, NoArg, "ACK", tries)

gxfp_cmd_notify_power_state == gxfp_cmd_send_expect_ack("NOTIFY_POWER_STATE", 1)
gxfp_cmd_d01 == gxfp_cmd_send_expect_ack("D01", 1)
gxfp_cmd_send_nop == gxfp_cmd_send_expect_ack("SEND_NOP", 1)
gxfp_cmd_tls_unlock == gxfp_cmd_send_expect_ack("TLS_UNLOCK", 1)
gxfp_cmd_set_sleep_mode == gxfp_cmd_send_expect_ack("SET_SLEEP_MODE", 1)
gxfp_cmd_reset_device == gxfp_cmd_send_expect_ack("RESET_DEVICE", 6)
gxfp_cmd_upload_config_mcu == Request("UPLOAD_CONFIG_MCU", NoArg, "ACK", 2)
gxfp_cmd_read_reg == Request("REG_READ", NoArg, "REG_READ", 3)
gxfp_cmd_read_otp == Request("READ_OTP", NoArg, "READ_OTP", 8)
gxfp_cmd_preset_psk_read == Request("PRESET_PSK_READ", NoArg, "PRESET_PSK_READ", 4)
gxfp_cmd_production_write_mcu(blob) ==
  Request("PRODUCTION_WRITE_MCU", blob, "PRODUCTION_WRITE_MCU", 4)
gxfp_mcu_state_query == Request("TRIGGER_MCU_STATE", NoArg, "QUERY_MCU_STATE", 1)

Ignored(requests) == [i \in DOMAIN requests |-> [requests[i] EXCEPT !.otherwise = "continue"]]

\* Only the reset decides.
gxfp_device_recovery(unstick_tls, reset_flag) ==
  Ignored(<<gxfp_cmd_notify_power_state>>
          \o (IF unstick_tls THEN <<gxfp_cmd_d01, gxfp_cmd_send_nop, gxfp_cmd_tls_unlock>>
                             ELSE <<>>)
          \o <<gxfp_cmd_set_sleep_mode>>)
  \o (IF reset_flag THEN <<gxfp_cmd_reset_device>> ELSE <<>>)

session_apply_milanl_cfg == <<gxfp_cmd_read_otp, gxfp_cmd_upload_config_mcu>>

\* An unknown chip, or none, is opened without configuration.
gxfp_session_open ==
  <<[gxfp_cmd_read_reg EXCEPT !.otherwise = "finish"]>> \o session_apply_milanl_cfg

Programs ==
  {gxfp_device_recovery(u, r) : u, r \in BOOLEAN}
    \cup {gxfp_session_open, <<gxfp_cmd_preset_psk_read>>, <<gxfp_mcu_state_query>>}

---------------------------------------------------------------------------
\* The exchange.

StartUnflushed(requests) ==
  /\ phase = "idle"
  /\ todo' = requests /\ attempts' = 0 /\ phase' = "send" /\ rc' = "none"
  /\ stale' = (wire # <<>>)
  /\ UNCHANGED <<rxq, wire, faults>>

\* Every program begins with gxfp_dev_flush_rxq.
Start(requests) ==
  /\ phase = "idle"
  /\ todo' = requests /\ attempts' = 0 /\ phase' = "send" /\ rc' = "none"
  /\ rxq' = <<>>
  /\ stale' = (wire # <<>>)
  /\ UNCHANGED <<wire, faults>>

\* What was sent for the last request belongs to no later one.
Disown(s) == [i \in DOMAIN s |-> [s[i] EXCEPT !.own = FALSE]]

\* gxfp_device_recovery flushes before it returns.
Recovering == Head(todo).cmd \in {"SET_SLEEP_MODE", "RESET_DEVICE"}

Finish(result, queue) ==
  /\ rc' = result /\ phase' = "idle" /\ todo' = <<>> /\ attempts' = 0
  /\ wire' = Disown(wire)
  /\ rxq' = IF Recovering THEN <<>> ELSE Disown(queue)

\* The request has returned; the program goes on or returns.
Returned(ok, queue) ==
  IF ok \/ Head(todo).otherwise = "continue"
    THEN IF Len(todo) = 1
           THEN Finish("ok", queue)
           ELSE /\ todo' = Tail(todo) /\ attempts' = 0 /\ phase' = "send"
                /\ wire' = Disown(wire) /\ rxq' = Disown(queue)
                /\ UNCHANGED rc
    ELSE Finish(IF Head(todo).otherwise = "finish" THEN "ok" ELSE "fail", queue)

\* The command is on its way, or lost because the sensor takes none.
gxfp_dev_send_packet(request) ==
  wire' = IF Len(wire) = MaxWire THEN wire
          ELSE Append(wire, [reply |-> request.expect, arg |-> request.arg, own |-> TRUE])

gxfp_goodix_send_async ==
  /\ phase = "send"
  /\ \/ /\ gxfp_dev_send_packet(Head(todo))
        /\ attempts' = attempts + 1 /\ phase' = "wait"
        /\ UNCHANGED <<rxq, todo, rc, stale, faults>>
     \/ /\ faults < MaxFaults /\ faults' = faults + 1
        /\ attempts' = attempts + 1 /\ phase' = "wait"
        /\ UNCHANGED <<wire, rxq, todo, rc, stale>>
     \/ /\ faults < MaxFaults /\ faults' = faults + 1
        /\ Returned(FALSE, rxq)
        /\ UNCHANGED stale

\* The frame gxfp_goodix_wait_selected accepts.
Selected(f) == f.cmd = Head(todo).expect

\* One record read by gxfp_goodix_wait_selected.  A status other than 0 stands for
\* what the caller does not go on with: another chip, an OTP it cannot parse, a
\* refused read or write.
gxfp_goodix_wait_selected ==
  /\ phase = "wait" /\ rxq # <<>>
  /\ IF Selected(Head(rxq))
       THEN Returned(Head(rxq).status = 0, Tail(rxq))
       ELSE rxq' = Tail(rxq) /\ UNCHANGED <<wire, todo, attempts, phase, rc>>
  /\ UNCHANGED <<stale, faults>>

TimeoutWhenQuiet ==
  /\ phase = "wait" /\ rxq = <<>>
  /\ stale' = TRUE
  /\ IF attempts < Head(todo).tries
       THEN phase' = "send" /\ UNCHANGED <<wire, rxq, todo, attempts, rc>>
       ELSE Returned(FALSE, rxq)
  /\ UNCHANGED faults

\* The deadline passes, whatever is queued: gxfp_goodix_request_selected tries
\* again.
DeadlinePasses ==
  /\ phase = "wait"
  /\ stale' = TRUE
  /\ IF attempts < Head(todo).tries
       THEN phase' = "send" /\ UNCHANGED <<wire, rxq, todo, attempts, rc>>
       ELSE Returned(FALSE, rxq)
  /\ UNCHANGED faults

\* poll() or read() fails: no further attempt.
ReadFails ==
  /\ phase = "wait"
  /\ faults < MaxFaults /\ faults' = faults + 1
  /\ Returned(FALSE, rxq)
  /\ stale' = TRUE

\* The process is killed and its file closed.
Killed ==
  /\ phase # "idle"
  /\ faults < MaxFaults /\ faults' = faults + 1
  /\ rc' = "fail" /\ phase' = "idle" /\ todo' = <<>> /\ attempts' = 0
  /\ wire' = Disown(wire) /\ rxq' = Disown(rxq)
  /\ UNCHANGED stale

---------------------------------------------------------------------------
\* The other side (external) and the kernel's queue.

QueuedUnbounded(q, s) == q \o s

\* Answers that do not fit are dropped.
Queued(q, s) ==
  LET all == q \o s IN IF Len(all) <= MaxQueue THEN all ELSE SubSeq(all, 1, MaxQueue)

\* The sensor executes the next command and answers, or the answer is lost.
Execute(status) ==
  /\ wire # <<>> /\ wire' = Tail(wire)
  /\ LET c == Head(wire)
         ack == [cmd |-> "ACK", status |-> 0, own |-> c.own]
         reply == [cmd |-> c.reply, status |-> status, own |-> c.own]
     IN \/ /\ rxq' = Queued(rxq, IF c.reply = "ACK" THEN <<ack>> ELSE <<ack, reply>>)
           /\ UNCHANGED faults
        \/ /\ faults < MaxFaults /\ faults' = faults + 1
           /\ UNCHANGED rxq
  /\ UNCHANGED <<todo, attempts, phase, rc, stale>>

\* A finger report nobody waits for.
SensorEvent ==
  /\ Len(rxq) < MaxQueue
  /\ \A i \in DOMAIN rxq : rxq[i].cmd # "FDT_STATUS"   \* bound: one at a time
  /\ rxq' = Append(rxq, [cmd |-> "FDT_STATUS", status |-> 0, own |-> FALSE])
  /\ UNCHANGED <<wire, todo, attempts, phase, rc, stale, faults>>

\* A session sends a command without waiting for its acknowledgement
\* (gxfp_cmd_get_image).
SendUnawaited ==
  /\ phase = "idle"
  /\ Len(wire) < MaxWire
  /\ wire' = Append(wire, [reply |-> "ACK", arg |-> NoArg, own |-> FALSE])
  /\ UNCHANGED <<rxq, todo, attempts, phase, rc, stale, faults>>

---------------------------------------------------------------------------
\* What must hold.

\* As long as no attempt was given up and nothing was on its way at the flush,
\* an answer that would be accepted answers the request that waits for it, though
\* only the command byte is compared: the flush and the order of the answers
\* are enough.
AnswerIsOwn ==
  phase = "wait" /\ ~stale
    => \A i \in DOMAIN rxq : rxq[i].cmd = Head(todo).expect => rxq[i].own

\* A program returns, although frames it does not wait for keep coming: the
\* deadline is not moved by them, and the attempts are counted.
ProgramReturns == phase # "idle" ~> phase = "idle"
=============================================================================
