------------------------ MODULE GxfpProvision_proofs ------------------------
(***************************************************************************)
(* Proofs that a run of provision-psk.sh that reports success has          *)
(* installed the key the sensor holds, and that keys that agree stay so    *)
(* without --replace, for any keys, any number of attempts, of lost        *)
(* commands and answers and of interrupted runs, and any queue.            *)
(***************************************************************************)
EXTENDS GxfpProvision, TLAPS

Write == "PRODUCTION_WRITE_MCU"

\* Requests none of which writes a key.
Harmless(s) == s \in Seq(Requests) /\ \A i \in 1..Len(s) : s[i].expect # Write

\* The writes among commands on their way are writes of the key k.
OnlyWrites(s, k) == \A i \in 1..Len(s) : s[i].reply = Write => s[i].arg = k

\* An answer in the queue that says a key was written is there only after k was.
Confirmed(q, held, k) ==
  \A i \in 1..Len(q) : q[i].cmd = Write /\ q[i].status = 0 => held = k

\* Once a write of k is reached, in the sensor or on the way, k is all there is.
FromThenOn(s, held, k) ==
  /\ held = k => OnlyWrites(s, k)
  /\ \A i, j \in 1..Len(s) :
       i < j /\ s[i].reply = Write /\ s[j].reply = Write /\ s[i].arg = k => s[j].arg = k

Typed ==
  /\ wire \in Seq(Commands)
  /\ rxq \in Seq(Frames)
  /\ todo \in Seq(Requests)
  /\ phase \in {"idle", "send", "wait"}
  /\ phase = "idle" <=> todo = <<>>

\* From the upload of a key to the report: with no other write on its way, the
\* sensor is written only that key, and an answer proves that it was.
KeyFollowed ==
  /\ step \in {"off", "upload", "uploading", "install", "copy"}
  /\ step = "off" => Harmless(todo)
  /\ step \in {"upload", "install", "copy"} => phase = "idle"
  /\ step = "uploading" =>
       /\ phase # "idle" => todo = <<gxfp_cmd_production_write_mcu(work)>>
       /\ ~rival => /\ OnlyWrites(wire, work)
                    /\ Confirmed(rxq, mcu, work)
                    /\ phase = "idle" /\ rc = "ok" => mcu = work
  /\ step \in {"install", "copy"} /\ ~rival => OnlyWrites(wire, work) /\ mcu = work
  /\ step # "off" => ~reported
  /\ reported /\ ~rival => OnlyWrites(wire, psk) /\ psk = mcu

\* A key that is uploaded is one a command can carry.
WorkTyped == step # "off" => work \in Keys

\* Without --replace a key on disk is the last one ever sent to the sensor.
LastKey ==
  /\ step # "off" => FromThenOn(wire, mcu, work)
  /\ step # "off" /\ ~replaced => psk \notin Keys
  /\ step = "off" /\ ~replaced /\ psk \in Keys => FromThenOn(wire, mcu, psk)
  /\ mcu \in Args \cup {Factory} /\ psk \in Keys \cup {NoKey, Torn}

IInv == Typed /\ WorkTyped /\ KeyFollowed

---------------------------------------------------------------------------
\* Sequences.

\* What a lost owner leaves of commands and frames.
LEMMA DisownSame ==
  /\ \A s \in Seq(Commands) :
       /\ Disown(s) \in Seq(Commands) /\ Len(Disown(s)) = Len(s)
       /\ \A i \in 1..Len(s) : Disown(s)[i].reply = s[i].reply /\ Disown(s)[i].arg = s[i].arg
  /\ \A s \in Seq(Frames) :
       /\ Disown(s) \in Seq(Frames) /\ Len(Disown(s)) = Len(s)
       /\ \A i \in 1..Len(s) : Disown(s)[i].cmd = s[i].cmd /\ Disown(s)[i].status = s[i].status
<1>1. ASSUME NEW s \in Seq(Commands)
      PROVE  /\ Disown(s) \in Seq(Commands) /\ Len(Disown(s)) = Len(s)
             /\ \A i \in 1..Len(s) : Disown(s)[i].reply = s[i].reply /\ Disown(s)[i].arg = s[i].arg
  <2>1. \A c \in Commands : /\ [c EXCEPT !.own = FALSE] \in Commands
                            /\ [c EXCEPT !.own = FALSE].reply = c.reply
                            /\ [c EXCEPT !.own = FALSE].arg = c.arg
    BY Zenon DEF Commands
  <2>2. \A i \in 1..Len(s) : s[i] \in Commands
    OBVIOUS
  <2>3. Disown(s) = [i \in 1..Len(s) |-> [s[i] EXCEPT !.own = FALSE]]
    BY DEF Disown
  <2>4. \A i \in 1..Len(s) : /\ Disown(s)[i] \in Commands
                             /\ Disown(s)[i].reply = s[i].reply /\ Disown(s)[i].arg = s[i].arg
    BY <2>1, <2>2, <2>3, Zenon
  <2>5. Disown(s) \in [1..Len(s) -> Commands]
    BY <2>3, <2>4, Zenon
  <2>6. Disown(s) \in Seq(Commands) /\ Len(Disown(s)) = Len(s)
    BY <2>5
  <2> QED
    BY <2>4, <2>6
<1>2. ASSUME NEW s \in Seq(Frames)
      PROVE  /\ Disown(s) \in Seq(Frames) /\ Len(Disown(s)) = Len(s)
             /\ \A i \in 1..Len(s) : Disown(s)[i].cmd = s[i].cmd /\ Disown(s)[i].status = s[i].status
  <2>1. \A c \in Frames : /\ [c EXCEPT !.own = FALSE] \in Frames
                          /\ [c EXCEPT !.own = FALSE].cmd = c.cmd
                          /\ [c EXCEPT !.own = FALSE].status = c.status
    BY Zenon DEF Frames
  <2>2. \A i \in 1..Len(s) : s[i] \in Frames
    OBVIOUS
  <2>3. Disown(s) = [i \in 1..Len(s) |-> [s[i] EXCEPT !.own = FALSE]]
    BY DEF Disown
  <2>4. \A i \in 1..Len(s) : /\ Disown(s)[i] \in Frames
                             /\ Disown(s)[i].cmd = s[i].cmd /\ Disown(s)[i].status = s[i].status
    BY <2>1, <2>2, <2>3, Zenon
  <2>5. Disown(s) \in [1..Len(s) -> Frames]
    BY <2>3, <2>4, Zenon
  <2>6. Disown(s) \in Seq(Frames) /\ Len(Disown(s)) = Len(s)
    BY <2>5
  <2> QED
    BY <2>4, <2>6
<1> QED
  BY <1>1, <1>2

\* A lost owner changes no key on its way.
LEMMA DisownFromThenOn ==
  ASSUME NEW s \in Seq(Commands), NEW held, NEW k, FromThenOn(s, held, k)
  PROVE  FromThenOn(Disown(s), held, k)
<1> DEFINE t == Disown(s)
<1>1. Len(t) = Len(s) /\ \A i \in 1..Len(s) : t[i].reply = s[i].reply /\ t[i].arg = s[i].arg
  BY DisownSame
<1> HIDE DEF t
<1>2. FromThenOn(t, held, k)
  BY <1>1, Zenon DEF FromThenOn, OnlyWrites
<1> QED
  BY <1>2 DEF t

\* A queue keeps the order of what it takes, and its bound.
LEMMA QueuedPlaces ==
  ASSUME NEW q \in Seq(Frames), NEW s \in Seq(Frames)
  PROVE  /\ Queued(q, s) \in Seq(Frames)
         /\ Len(Queued(q, s)) <= MaxQueue /\ Len(Queued(q, s)) <= Len(q) + Len(s)
         /\ \A i \in 1..Len(Queued(q, s)) :
              \/ i \in 1..Len(q) /\ Queued(q, s)[i] = q[i]
              \/ i - Len(q) \in 1..Len(s) /\ Queued(q, s)[i] = s[i - Len(q)]
<1>1. q \o s \in Seq(Frames) /\ Len(q \o s) = Len(q) + Len(s)
  OBVIOUS
<1>2. \A i \in 1..Len(q \o s) :
        \/ i \in 1..Len(q) /\ (q \o s)[i] = q[i]
        \/ i - Len(q) \in 1..Len(s) /\ (q \o s)[i] = s[i - Len(q)]
  OBVIOUS
<1>3. CASE Len(q \o s) <= MaxQueue
  BY <1>1, <1>2, <1>3 DEF Queued
<1>4. CASE ~(Len(q \o s) <= MaxQueue)
  <2>1. MaxQueue \in 0..Len(q \o s)
    BY <1>1, <1>4, XferAssumption
  <2>2. /\ Queued(q, s) \in Seq(Frames) /\ Len(Queued(q, s)) = MaxQueue
        /\ \A i \in 1..MaxQueue : Queued(q, s)[i] = (q \o s)[i]
    BY <1>1, <1>4, <2>1 DEF Queued
  <2> QED
    BY <1>1, <1>2, <2>1, <2>2
<1> QED
  BY <1>3, <1>4

\* A queue that takes what fits holds old frames and new ones.
LEMMA QueuedFrames ==
  ASSUME NEW q \in Seq(Frames), NEW s \in Seq(Frames)
  PROVE  /\ Queued(q, s) \in Seq(Frames)
         /\ \A i \in 1..Len(Queued(q, s)) :
              \/ i \in 1..Len(q) /\ Queued(q, s)[i] = q[i]
              \/ \E j \in 1..Len(s) : Queued(q, s)[i] = s[j]
BY QueuedPlaces

\* Harmless programs are made of harmless parts.
LEMMA HarmlessParts ==
  /\ \A s, t : Harmless(s) /\ Harmless(t) => Harmless(s \o t)
  /\ \A s, t : Harmless(s) /\ Harmless(t) /\ (s # <<>> \/ t # <<>>) => s \o t # <<>>
  /\ \A s : Harmless(s) => Harmless(Ignored(s)) /\ (s # <<>> => Ignored(s) # <<>>)
  /\ \A s : Harmless(s) /\ s # <<>> => Harmless(Tail(s))
  /\ \A r \in Requests : r.expect # Write => Harmless(<<r>>)
  /\ \A r, s, t : Harmless(<<r>>) /\ Harmless(<<s>>) /\ Harmless(<<t>>) => Harmless(<<r, s, t>>)
  /\ Harmless(<<>>)
<1>1. ASSUME NEW s, NEW t, Harmless(s), Harmless(t)
      PROVE  Harmless(s \o t) /\ (s # <<>> \/ t # <<>> => s \o t # <<>>)
  BY <1>1 DEF Harmless
<1>2. ASSUME NEW s, Harmless(s)
      PROVE  Harmless(Ignored(s)) /\ (s # <<>> => Ignored(s) # <<>>)
  <2>1. \A r \in Requests : /\ [r EXCEPT !.otherwise = "continue"] \in Requests
                            /\ [r EXCEPT !.otherwise = "continue"].expect = r.expect
    BY DEF Requests
  <2>2. s \in Seq(Requests) /\ \A i \in 1..Len(s) : s[i] \in Requests
    BY <1>2 DEF Harmless
  <2>3. Ignored(s) = [i \in 1..Len(s) |-> [s[i] EXCEPT !.otherwise = "continue"]]
    BY <2>2 DEF Ignored
  <2> QED
    BY <1>2, <2>1, <2>2, <2>3 DEF Harmless
<1>3. ASSUME NEW s, Harmless(s), s # <<>>
      PROVE  Harmless(Tail(s))
  BY <1>3 DEF Harmless
<1>4. ASSUME NEW r \in Requests, r.expect # Write
      PROVE  Harmless(<<r>>)
  BY <1>4 DEF Harmless
<1>5. ASSUME NEW r, NEW s, NEW t, Harmless(<<r>>), Harmless(<<s>>), Harmless(<<t>>)
      PROVE  Harmless(<<r, s, t>>)
  <2>1. \A x : Harmless(<<x>>) => x \in Requests /\ x.expect # Write
    BY DEF Harmless
  <2>2. <<r, s, t>> \in Seq(Requests) /\ Len(<<r, s, t>>) = 3
    BY <1>5, <2>1
  <2>3. \A i \in 1..3 : <<r, s, t>>[i] \in {r, s, t}
    OBVIOUS
  <2> QED
    BY <1>5, <2>1, <2>2, <2>3, Zenon DEF Harmless
<1>6. Harmless(<<>>)
  BY DEF Harmless
<1> QED
  BY <1>1, <1>2, <1>3, <1>4, <1>5, <1>6

\* The requests of the code are requests, and only one of them writes a key.
LEMMA RequestsTyped ==
  /\ \A k \in Keys : gxfp_cmd_production_write_mcu(k) \in Requests
  /\ \A p \in Programs : Harmless(p) /\ p # <<>>
<1>1. \A n \in Nat \ {0} : AtMost(n) \in 1..MaxTries
  BY XferAssumption DEF AtMost
<1>2. \A cmd \in CommandBytes, arg \in Args, expect \in Replies \cup {"ACK"}, n \in Nat \ {0} :
        Request(cmd, arg, expect, n) \in Requests /\ Request(cmd, arg, expect, n).expect = expect
  BY <1>1 DEF Request, Requests
<1>3. ASSUME NEW cmd \in CommandBytes, NEW expect \in Replies \cup {"ACK"}, NEW n \in Nat \ {0},
             expect # Write
      PROVE  Harmless(<<Request(cmd, NoArg, expect, n)>>)
  BY <1>2, <1>3, HarmlessParts, XferAssumption
<1>4. \A k \in Keys : gxfp_cmd_production_write_mcu(k) \in Requests
  BY <1>2, KeysAssumption DEF gxfp_cmd_production_write_mcu, CommandBytes, Replies
<1>5. /\ Harmless(<<gxfp_cmd_notify_power_state>>) /\ Harmless(<<gxfp_cmd_d01>>)
      /\ Harmless(<<gxfp_cmd_send_nop>>) /\ Harmless(<<gxfp_cmd_tls_unlock>>)
      /\ Harmless(<<gxfp_cmd_set_sleep_mode>>) /\ Harmless(<<gxfp_cmd_reset_device>>)
  BY <1>3 DEF gxfp_cmd_notify_power_state, gxfp_cmd_d01, gxfp_cmd_send_nop, gxfp_cmd_tls_unlock,
              gxfp_cmd_set_sleep_mode, gxfp_cmd_reset_device, gxfp_cmd_send_expect_ack,
              CommandBytes, Write
<1>6. /\ {"UPLOAD_CONFIG_MCU", "READ_OTP", "PRESET_PSK_READ", "TRIGGER_MCU_STATE"} \subseteq CommandBytes
      /\ {"ACK", "READ_OTP", "PRESET_PSK_READ", "QUERY_MCU_STATE"}
           \subseteq (Replies \cup {"ACK"}) \ {Write}
  BY DEF CommandBytes, Replies, Write
<1>7. Harmless(<<gxfp_cmd_upload_config_mcu>>) /\ Harmless(<<gxfp_cmd_read_otp>>)
  BY <1>3, <1>6 DEF gxfp_cmd_upload_config_mcu, gxfp_cmd_read_otp
<1>8. Harmless(<<gxfp_cmd_preset_psk_read>>) /\ Harmless(<<gxfp_mcu_state_query>>)
  BY <1>3, <1>6 DEF gxfp_cmd_preset_psk_read, gxfp_mcu_state_query
<1>9. ASSUME NEW u \in BOOLEAN, NEW r \in BOOLEAN
      PROVE  Harmless(gxfp_device_recovery(u, r)) /\ gxfp_device_recovery(u, r) # <<>>
  <2> DEFINE unstick == IF u THEN <<gxfp_cmd_d01, gxfp_cmd_send_nop, gxfp_cmd_tls_unlock>> ELSE <<>>
             reset == IF r THEN <<gxfp_cmd_reset_device>> ELSE <<>>
  <2>1. Harmless(<<gxfp_cmd_d01, gxfp_cmd_send_nop, gxfp_cmd_tls_unlock>>)
    BY <1>5, HarmlessParts
  <2>2. Harmless(unstick) /\ Harmless(reset)
    BY <1>5, <2>1, HarmlessParts
  <2>3. gxfp_device_recovery(u, r) =
          Ignored((<<gxfp_cmd_notify_power_state>> \o unstick) \o <<gxfp_cmd_set_sleep_mode>>) \o reset
    BY DEF gxfp_device_recovery
  <2> HIDE DEF unstick, reset
  <2> QED
    BY <1>5, <2>2, <2>3, HarmlessParts, Zenon
<1>10. Harmless(gxfp_session_open) /\ gxfp_session_open # <<>>
  <2>1. Harmless(<<[gxfp_cmd_read_reg EXCEPT !.otherwise = "finish"]>>)
    <3>1. gxfp_cmd_read_reg \in Requests /\ gxfp_cmd_read_reg.expect = "REG_READ"
      BY <1>2, XferAssumption DEF gxfp_cmd_read_reg, CommandBytes, Replies
    <3>2. /\ [gxfp_cmd_read_reg EXCEPT !.otherwise = "finish"] \in Requests
          /\ [gxfp_cmd_read_reg EXCEPT !.otherwise = "finish"].expect = "REG_READ"
      BY <3>1 DEF Requests
    <3> QED
      BY <3>2, HarmlessParts, Zenon DEF Write
  <2>2. session_apply_milanl_cfg = <<gxfp_cmd_read_otp>> \o <<gxfp_cmd_upload_config_mcu>>
    BY DEF session_apply_milanl_cfg
  <2> QED
    BY <1>7, <2>1, <2>2, HarmlessParts DEF gxfp_session_open
<1> QED
  BY <1>4, <1>8, <1>9, <1>10 DEF Programs

---------------------------------------------------------------------------
\* The exchange.

\* The return of a request.
LEMMA ReturnedEffect ==
  ASSUME Typed, phase # "idle", NEW ok \in BOOLEAN, NEW queue \in Seq(Frames), Returned(ok, queue)
  PROVE  /\ wire' = Disown(wire)
         /\ rxq' \in {<<>>, Disown(queue)}
         /\ \/ /\ todo' = <<>> /\ phase' = "idle"
               /\ rc' = "ok" => ok \/ Head(todo).otherwise # "fail"
            \/ todo' = Tail(todo) /\ Len(todo) # 1 /\ phase' = "send"
<1>1. ASSUME NEW result, Finish(result, queue)
      PROVE  /\ wire' = Disown(wire) /\ rxq' \in {<<>>, Disown(queue)}
             /\ todo' = <<>> /\ phase' = "idle" /\ rc' = result
  BY <1>1 DEF Finish
<1>2. CASE ok \/ Head(todo).otherwise = "continue"
  BY <1>1, <1>2 DEF Returned
<1>3. CASE ~(ok \/ Head(todo).otherwise = "continue")
  BY <1>1, <1>3 DEF Returned
<1> QED
  BY <1>2, <1>3

\* A step of a program sends what it was asked to, takes frames off the queue,
\* and ends well only with an answer.
HostEffect ==
  /\ Typed'
  /\ \A k : /\ OnlyWrites(wire, k)
            /\ Head(todo).expect = Write => Head(todo).arg = k
            => OnlyWrites(wire', k)
  /\ \A k : /\ FromThenOn(wire, mcu, k)
            /\ Head(todo).expect = Write => Head(todo).arg = k
            => FromThenOn(wire', mcu, k)
  /\ \A k : Confirmed(rxq, mcu, k) => Confirmed(rxq', mcu, k)
  /\ todo' = todo \/ todo' = <<>> \/ (todo' = Tail(todo) /\ Len(todo) # 1)
  /\ phase' = "idle" /\ rc' = "ok" =>
       \/ Head(todo).otherwise # "fail"
       \/ rxq # <<>> /\ Head(rxq).cmd = Head(todo).expect /\ Head(rxq).status = 0

\* The return of a request is such a step.
LEMMA ReturnedHost ==
  ASSUME Typed, phase # "idle", NEW ok \in BOOLEAN, NEW queue \in {rxq, Tail(rxq)},
         queue = rxq \/ rxq # <<>>, Returned(ok, queue),
         ok => rxq # <<>> /\ Head(rxq).cmd = Head(todo).expect /\ Head(rxq).status = 0
  PROVE  HostEffect
<1>1. queue \in Seq(Frames)
  <2>1. rxq \in Seq(Frames)
    BY DEF Typed
  <2>2. rxq # <<>> => Tail(rxq) \in Seq(Frames)
    BY <2>1
  <2> QED
    BY <2>1, <2>2
<1>2. /\ wire' = Disown(wire)
      /\ rxq' \in {<<>>, Disown(queue)}
      /\ \/ /\ todo' = <<>> /\ phase' = "idle"
            /\ rc' = "ok" => ok \/ Head(todo).otherwise # "fail"
         \/ todo' = Tail(todo) /\ Len(todo) # 1 /\ phase' = "send"
  BY <1>1, ReturnedEffect
<1>3. wire' \in Seq(Commands) /\ rxq' \in Seq(Frames)
  <2>1. wire \in Seq(Commands) /\ <<>> \in Seq(Frames)
    BY DEF Typed
  <2> QED
    BY <1>1, <1>2, <2>1, DisownSame, Zenon
<1>4. todo' \in Seq(Requests) /\ (todo' = <<>> <=> phase' = "idle") /\ phase' \in {"idle", "send"}
  <2>1. todo \in Seq(Requests) /\ todo # <<>>
    BY DEF Typed
  <2>2. Tail(todo) \in Seq(Requests) /\ Len(Tail(todo)) = Len(todo) - 1 /\ Len(todo) \in Nat
    BY <2>1
  <2>3. Len(todo) # 1 => Tail(todo) # <<>>
    BY <2>2, SMTT(30)
  <2>4. <<>> \in Seq(Requests)
    OBVIOUS
  <2> QED
    BY <1>2, <2>2, <2>3, <2>4, Zenon
<1>5. \A k : OnlyWrites(wire, k) => OnlyWrites(wire', k)
  BY <1>2, DisownSame, Zenon DEF OnlyWrites, Typed
<1>6. \A k : FromThenOn(wire, mcu, k) => FromThenOn(wire', mcu, k)
  BY <1>2, DisownFromThenOn DEF Typed
<1>7. ASSUME NEW k, Confirmed(rxq, mcu, k)
      PROVE  Confirmed(rxq', mcu, k)
  <2>1. Confirmed(queue, mcu, k)
    <3>1. CASE queue = rxq
      BY <1>7, <3>1
    <3>2. CASE queue = Tail(rxq) /\ rxq # <<>>
      BY <1>7, <3>2 DEF Confirmed, Typed
    <3> QED
      BY <3>1, <3>2
  <2>2. Confirmed(Disown(queue), mcu, k)
    BY <1>1, <2>1, DisownSame DEF Confirmed
  <2>3. Confirmed(<<>>, mcu, k)
    BY DEF Confirmed
  <2> QED
    BY <1>2, <2>2, <2>3
<1> QED
  BY <1>2, <1>3, <1>4, <1>5, <1>6, <1>7, Zenon DEF HostEffect, Typed

\* So is every step of a program.
LEMMA HostStepEffect ==
  ASSUME Typed, HostStep
  PROVE  phase # "idle" /\ HostEffect
<1>1. CASE gxfp_goodix_send_async
  <2>1. CASE gxfp_dev_send_packet(Head(todo)) /\ phase' = "wait" /\ UNCHANGED <<rxq, todo, rc>>
    <3> DEFINE c == [reply |-> Head(todo).expect, arg |-> Head(todo).arg, own |-> TRUE]
    <3>1. todo # <<>> /\ todo \in Seq(Requests)
      BY <1>1 DEF gxfp_goodix_send_async, Typed
    <3>2. Head(todo) \in Requests
      BY <3>1
    <3>3. c \in Commands /\ c.reply = Head(todo).expect /\ c.arg = Head(todo).arg
      BY <3>2 DEF Requests, Commands
    <3> HIDE DEF c
    <3>4. wire' = wire \/ wire' = Append(wire, c)
      BY <2>1 DEF gxfp_dev_send_packet, c
    <3>5. wire \in Seq(Commands) /\ wire' \in Seq(Commands)
      <4>1. wire \in Seq(Commands)
        BY DEF Typed
      <4> QED
        BY <3>3, <3>4, <4>1
    <3>6. ASSUME NEW k, OnlyWrites(wire, k), Head(todo).expect = Write => Head(todo).arg = k
          PROVE  OnlyWrites(wire', k)
      <4>1. CASE wire' = wire
        BY <3>6, <4>1
      <4>2. CASE wire' = Append(wire, c)
        BY <3>3, <3>5, <3>6, <4>2 DEF OnlyWrites
      <4> QED
        BY <3>4, <4>1, <4>2
    <3>7. ASSUME NEW k, FromThenOn(wire, mcu, k), Head(todo).expect = Write => Head(todo).arg = k
          PROVE  FromThenOn(wire', mcu, k)
      <4>1. CASE wire' = wire
        BY <3>7, <4>1, Zenon
      <4>2. CASE wire' = Append(wire, c)
        BY <3>3, <3>5, <3>6, <3>7, <4>2 DEF FromThenOn
      <4> QED
        BY <3>4, <4>1, <4>2
    <3> QED
      BY <1>1, <2>1, <3>1, <3>5, <3>6, <3>7 DEF HostEffect, Typed, gxfp_goodix_send_async
  <2>2. CASE phase' = "wait" /\ UNCHANGED <<wire, rxq, todo, rc>>
    BY <1>1, <2>2 DEF HostEffect, Typed, gxfp_goodix_send_async
  <2>3. CASE Returned(FALSE, rxq)
    BY <1>1, <2>3, ReturnedHost, Zenon DEF gxfp_goodix_send_async
  <2> QED
    BY <1>1, <2>1, <2>2, <2>3, Zenon DEF gxfp_goodix_send_async
<1>2. CASE gxfp_goodix_wait_selected
  <2>1. CASE Selected(Head(rxq))
    <3>1. Returned(Head(rxq).status = 0, Tail(rxq)) /\ rxq # <<>> /\ phase = "wait"
      BY <1>2, <2>1 DEF gxfp_goodix_wait_selected
    <3>2. (Head(rxq).status = 0) \in BOOLEAN
      OBVIOUS
    <3> QED
      BY <2>1, <3>1, <3>2, ReturnedHost, Zenon DEF Selected
  <2>2. CASE ~Selected(Head(rxq))
    <3>1. rxq # <<>> /\ rxq' = Tail(rxq) /\ UNCHANGED <<wire, todo, phase, rc>> /\ phase = "wait"
      BY <1>2, <2>2 DEF gxfp_goodix_wait_selected
    <3>2. \A k : Confirmed(rxq, mcu, k) => Confirmed(rxq', mcu, k)
      BY <3>1 DEF Confirmed, Typed
    <3>3. rxq' \in Seq(Frames)
      BY <3>1 DEF Typed
    <3> QED
      BY <3>1, <3>2, <3>3 DEF HostEffect, Typed
  <2> QED
    BY <2>1, <2>2
<1>3. CASE DeadlinePasses
  <2>1. CASE Returned(FALSE, rxq)
    BY <1>3, <2>1, ReturnedHost, Zenon DEF DeadlinePasses
  <2>2. CASE phase' = "send" /\ UNCHANGED <<wire, rxq, todo, attempts, rc>>
    BY <1>3, <2>2 DEF HostEffect, Typed, DeadlinePasses
  <2> QED
    BY <1>3, <2>1, <2>2, Zenon DEF DeadlinePasses
<1>4. CASE ReadFails
  BY <1>4, ReturnedHost, Zenon DEF ReadFails
<1>5. CASE Killed
  <2>1. wire' \in Seq(Commands) /\ rxq' \in Seq(Frames)
    BY <1>5, DisownSame DEF Killed, Typed
  <2>2. \A k : OnlyWrites(wire, k) => OnlyWrites(wire', k)
    <3>1. wire' = Disown(wire) /\ wire \in Seq(Commands)
      BY <1>5 DEF Killed, Typed
    <3> QED
      BY <3>1, DisownSame DEF OnlyWrites
  <2>3. \A k : Confirmed(rxq, mcu, k) => Confirmed(rxq', mcu, k)
    <3>1. rxq' = Disown(rxq) /\ rxq \in Seq(Frames)
      BY <1>5 DEF Killed, Typed
    <3> QED
      BY <3>1, DisownSame DEF Confirmed
  <2>4. \A k : FromThenOn(wire, mcu, k) => FromThenOn(wire', mcu, k)
    BY <1>5, DisownFromThenOn DEF Killed, Typed
  <2> QED
    BY <1>5, <2>1, <2>2, <2>3, <2>4 DEF HostEffect, Typed, Killed
<1> QED
  BY <1>1, <1>2, <1>3, <1>4, <1>5 DEF HostStep

---------------------------------------------------------------------------
\* The script.

\* A step of a program follows the key.
LEMMA HostKeeps ==
  ASSUME IInv, HostStep
  PROVE  IInv'
<1>1. phase # "idle" /\ HostEffect /\ UNCHANGED <<psk, mcu, work, step, rival, reported>>
  BY HostStepEffect DEF IInv, HostStep, provVars
<1>2. Typed' /\ WorkTyped'
  BY <1>1 DEF HostEffect, IInv, WorkTyped
<1>3. CASE step = "off"
  <2>1. Harmless(todo) /\ todo # <<>>
    BY <1>1, <1>3 DEF IInv, KeyFollowed, Typed
  <2>2. Harmless(todo')
    BY <1>1, <2>1, HarmlessParts, Zenon DEF HostEffect
  <2>3. Head(todo).expect # Write
    BY <2>1 DEF Harmless
  <2>4. \A k : OnlyWrites(wire, k) => OnlyWrites(wire', k)
    BY <1>1, <2>3 DEF HostEffect
  <2> QED
    BY <1>1, <1>2, <1>3, <2>2, <2>4 DEF IInv, KeyFollowed
<1>4. CASE step = "uploading"
  <2>1. todo = <<gxfp_cmd_production_write_mcu(work)>>
    BY <1>1, <1>4 DEF IInv, KeyFollowed
  <2>2. /\ Head(todo) = gxfp_cmd_production_write_mcu(work) /\ Len(todo) = 1
    BY <2>1
  <2>3. /\ Head(todo).expect = Write /\ Head(todo).arg = work /\ Head(todo).otherwise = "fail"
    BY <2>2 DEF gxfp_cmd_production_write_mcu, Request, Write
  <2>4. todo' = todo \/ todo' = <<>>
    BY <1>1, <2>2 DEF HostEffect
  <2>5. phase' # "idle" => todo' = <<gxfp_cmd_production_write_mcu(work)>>
    BY <1>2, <2>1, <2>4 DEF Typed
  <2>6. ASSUME ~rival
        PROVE  /\ OnlyWrites(wire', work) /\ Confirmed(rxq', mcu, work)
               /\ phase' = "idle" /\ rc' = "ok" => mcu = work
    <3>1. OnlyWrites(wire, work) /\ Confirmed(rxq, mcu, work)
      BY <1>4, <2>6 DEF IInv, KeyFollowed
    <3>2. rxq # <<>> /\ Head(rxq).cmd = Write /\ Head(rxq).status = 0 => mcu = work
      BY <3>1 DEF Confirmed, IInv, Typed
    <3> QED
      BY <1>1, <2>3, <3>1, <3>2 DEF HostEffect
  <2> QED
    BY <1>1, <1>2, <1>4, <2>5, <2>6 DEF IInv, KeyFollowed
<1> QED
  BY <1>1, <1>3, <1>4 DEF IInv, KeyFollowed

\* The sensor holds the key of the last write it accepted, and says so only then.
LEMMA SensorKeeps ==
  ASSUME IInv, SensorExecutes
  PROVE  IInv'
<1>1. PICK status \in {0, 1} :
        /\ Execute(status)
        /\ mcu' = IF Head(wire).reply = Write /\ status = 0 THEN Head(wire).arg ELSE mcu
        /\ UNCHANGED <<psk, work, step, replaced, rival, reported>>
  BY DEF SensorExecutes, Write
<1> DEFINE c == Head(wire)
           ack == [cmd |-> "ACK", status |-> 0, own |-> c.own]
           reply == [cmd |-> c.reply, status |-> status, own |-> c.own]
           s == IF c.reply = "ACK" THEN <<ack>> ELSE <<ack, reply>>
<1>2. wire \in Seq(Commands) /\ wire # <<>> /\ rxq \in Seq(Frames)
  BY <1>1 DEF IInv, Typed, Execute
<1>3. c \in Commands /\ wire' = Tail(wire) /\ wire' \in Seq(Commands)
  BY <1>1, <1>2 DEF Execute
<1>4. /\ ack \in Frames /\ reply \in Frames /\ ack.cmd = "ACK"
      /\ reply.cmd = c.reply /\ reply.status = status
  BY <1>3, Zenon DEF Commands, Frames
<1>5. rxq' = rxq \/ rxq' = Queued(rxq, s)
  BY <1>1, Zenon DEF Execute
<1>6. UNCHANGED <<todo, phase, rc>>
  BY <1>1, Zenon DEF Execute
<1>7. s \in Seq(Frames) /\ \A j \in 1..Len(s) : s[j] \in {ack, reply}
  <2> HIDE DEF ack, reply, c
  <2>1. CASE s = <<ack>>
    BY <1>4, <2>1
  <2>2. CASE s = <<ack, reply>>
    BY <1>4, <2>2
  <2> QED
    BY <2>1, <2>2
<1> HIDE DEF c, ack, reply, s
<1>8. rxq' \in Seq(Frames)
  BY <1>2, <1>5, <1>7, QueuedFrames, Zenon
<1>9. \A k : OnlyWrites(wire, k) => OnlyWrites(wire', k) /\ (mcu' = mcu \/ mcu' = k)
  <2>1. \A i \in 1..Len(wire') : i + 1 \in 1..Len(wire) /\ wire'[i] = wire[i + 1]
    BY <1>2, <1>3
  <2>2. c = wire[1] /\ 1 \in 1..Len(wire)
    BY <1>2 DEF c
  <2> QED
    BY <1>1, <2>1, <2>2 DEF OnlyWrites, c
<1>10. ASSUME NEW k, OnlyWrites(wire, k), Confirmed(rxq, mcu, k)
       PROVE  Confirmed(rxq', mcu', k)
  <2>1. mcu = k => mcu' = k
    BY <1>9, <1>10, Zenon
  <2>2. c = wire[1] /\ 1 \in 1..Len(wire)
    BY <1>2 DEF c
  <2>3. \A f \in {ack, reply} : f.cmd = Write /\ f.status = 0 => mcu' = k
    BY <1>1, <1>4, <1>10, <2>2 DEF OnlyWrites, Write, c
  <2>4. CASE rxq' = rxq
    BY <1>10, <2>1, <2>4, Zenon DEF Confirmed
  <2>5. CASE rxq' = Queued(rxq, s)
    <3> SUFFICES ASSUME NEW i \in 1..Len(rxq'), rxq'[i].cmd = Write, rxq'[i].status = 0
                 PROVE  mcu' = k
      BY Zenon DEF Confirmed
    <3>1. CASE i \in 1..Len(rxq) /\ rxq'[i] = rxq[i]
      BY <1>10, <2>1, <3>1 DEF Confirmed
    <3>2. CASE \E j \in 1..Len(s) : rxq'[i] = s[j]
      BY <1>7, <2>3, <3>2
    <3> QED
      BY <1>2, <1>7, <2>5, <3>1, <3>2, QueuedFrames
  <2> QED
    BY <1>5, <2>4, <2>5
<1>11. Typed' /\ WorkTyped'
  BY <1>1, <1>3, <1>6, <1>8, Zenon DEF IInv, Typed, WorkTyped
<1>12. KeyFollowed'
  BY <1>1, <1>6, <1>9, <1>10 DEF IInv, KeyFollowed
<1> QED
  BY <1>11, <1>12 DEF IInv

\* Every step follows the key.
LEMMA KeyStep ==
  ASSUME IInv, [Next]_vars
  PROVE  IInv'
<1>1. ASSUME NEW replace \in BOOLEAN, provision(replace)
      PROVE  IInv'
  BY <1>1, Zenon DEF provision, xferVars, IInv, Typed, WorkTyped, KeyFollowed
<1>2. CASE Upload
  <2> DEFINE w == gxfp_cmd_production_write_mcu(work)
  <2>1. w \in Requests
    BY <1>2, RequestsTyped DEF Upload, IInv, WorkTyped
  <2> HIDE DEF w
  <2>2. /\ todo' = <<w>> /\ phase' = "send" /\ rxq' = <<>> /\ wire' = wire /\ rival' = (Writes # {})
        /\ step' = "uploading" /\ step = "upload" /\ UNCHANGED <<psk, mcu, work, reported>>
    BY <1>2 DEF Upload, Start, w
  <2>3. Typed' /\ WorkTyped'
    BY <2>1, <2>2 DEF IInv, Typed, WorkTyped
  <2>4. ~rival' => OnlyWrites(wire', work')
    <3>1. DOMAIN wire = 1..Len(wire)
      BY DEF IInv, Typed
    <3>2. Writes = {} => OnlyWrites(wire, work)
      BY <3>1 DEF Writes, OnlyWrites, Write
    <3> QED
      BY <2>2, <3>2, Zenon
  <2>5. Confirmed(rxq', mcu', work')
    BY <2>2 DEF Confirmed
  <2> QED
    BY <2>2, <2>3, <2>4, <2>5 DEF IInv, KeyFollowed, w
<1>3. CASE Uploaded
  <2>1. Harmless(todo)
    BY <1>3, HarmlessParts DEF Uploaded, IInv, Typed
  <2> QED
    BY <1>3, <2>1 DEF Uploaded, GoesOn, xferVars, IInv, Typed, WorkTyped, KeyFollowed
<1>4. CASE InstallBegins
  BY <1>4 DEF InstallBegins, xferVars, IInv, Typed, WorkTyped, KeyFollowed
<1>5. CASE InstallEnds
  <2>1. Harmless(todo)
    BY <1>5, HarmlessParts DEF InstallEnds, IInv, Typed, KeyFollowed
  <2> QED
    BY <1>5, <2>1 DEF InstallEnds, xferVars, IInv, Typed, WorkTyped, KeyFollowed
<1>6. CASE Interrupted
  <2>1. Harmless(todo)
    BY <1>6, HarmlessParts, Zenon DEF Interrupted, IInv, Typed, KeyFollowed
  <2> QED
    BY <1>6, <2>1, Zenon DEF Interrupted, IInv, Typed, WorkTyped, KeyFollowed
<1>7. CASE Run
  <2>1. PICK p \in Programs : Start(p)
    BY <1>7 DEF Run
  <2>2. Harmless(p) /\ p # <<>> /\ p \in Seq(Requests)
    BY <2>1, RequestsTyped DEF Harmless
  <2>3. todo' = p /\ phase' = "send" /\ rxq' = <<>> /\ wire' = wire /\ step = "off"
        /\ UNCHANGED provVars
    BY <1>7, <2>1 DEF Run, Start
  <2> QED
    BY <2>2, <2>3 DEF provVars, IInv, Typed, WorkTyped, KeyFollowed
<1>8. CASE HostStep
  BY <1>8, HostKeeps
<1>9. CASE SensorExecutes
  BY <1>9, SensorKeeps, Zenon
<1>10. CASE Others /\ SensorEvent
  <2> DEFINE f == [cmd |-> "FDT_STATUS", status |-> 0, own |-> FALSE]
  <2>1. f \in Frames /\ f.cmd # Write
    BY ZenonT(30) DEF Frames, Write
  <2> HIDE DEF f
  <2>2. rxq' = Append(rxq, f) /\ UNCHANGED <<wire, todo, phase, rc, provVars>>
    BY <1>10 DEF Others, SensorEvent, f
  <2>3. rxq \in Seq(Frames)
    BY Zenon DEF IInv, Typed
  <2>4. rxq' \in Seq(Frames) /\ \A k : Confirmed(rxq, mcu, k) => Confirmed(rxq', mcu, k)
    BY <2>1, <2>2, <2>3 DEF Confirmed
  <2> QED
    BY <2>2, <2>4 DEF provVars, IInv, Typed, WorkTyped, KeyFollowed
<1>11. CASE Others /\ SendUnawaited
  <2> DEFINE c == [reply |-> "ACK", arg |-> NoArg, own |-> FALSE]
  <2>1. c \in Commands /\ c.reply # Write
    BY XferAssumption, Zenon DEF Commands, Write
  <2> HIDE DEF c
  <2>2. wire' = Append(wire, c) /\ UNCHANGED <<rxq, todo, phase, rc, provVars>>
    BY <1>11 DEF Others, SendUnawaited, c
  <2>3. wire \in Seq(Commands)
    BY DEF IInv, Typed
  <2>4. wire' \in Seq(Commands) /\ \A k : OnlyWrites(wire, k) => OnlyWrites(wire', k)
    BY <2>1, <2>2, <2>3 DEF OnlyWrites
  <2> QED
    BY <2>2, <2>4, Zenon DEF provVars, IInv, Typed, WorkTyped, KeyFollowed
<1>12. CASE UNCHANGED vars
  BY <1>12 DEF vars, xferVars, provVars, IInv, Typed, WorkTyped, KeyFollowed
<1> QED
  BY <1>1, <1>2, <1>3, <1>4, <1>5, <1>6, <1>7, <1>8, <1>9, <1>10, <1>11, <1>12, Zenon DEF Next, Others

\* A run of provision-psk.sh that reports success, with no write of an earlier
\* run still on its way at its upload, leaves the key of the sensor on disk,
\* whatever was lost, retried, refused or interrupted before.
THEOREM InstalledMatchesHolds == Spec => []InstalledMatches
<1>1. Init => IInv
  BY HarmlessParts DEF Init, XferInit, IInv, Typed, WorkTyped, KeyFollowed
<1>2. IInv /\ [Next]_vars => IInv'
  BY KeyStep
<1>3. IInv => InstalledMatches
  BY Zenon DEF IInv, KeyFollowed, InstalledMatches
<1> QED
  BY <1>1, <1>2, <1>3, PTL DEF Spec

---------------------------------------------------------------------------
\* Keys that agree.

\* Every step keeps the last key last.
LEMMA LastKeyStep ==
  ASSUME IInv, LastKey, [Next]_vars
  PROVE  LastKey'
<1>1. ASSUME NEW replace \in BOOLEAN, provision(replace)
      PROVE  LastKey'
  <2>1. /\ work' \in Keys \ ({psk, mcu} \cup {wire[i].arg : i \in Writes})
        /\ psk = NoKey \/ replaced'
        /\ step' = "upload" /\ UNCHANGED <<wire, psk, mcu>>
    BY <1>1 DEF provision, MayReplace, xferVars
  <2>2. DOMAIN wire = 1..Len(wire)
    BY DEF IInv, Typed
  <2>3. \A i \in 1..Len(wire) : wire[i].reply = Write => wire[i].arg # work'
    BY <2>1, <2>2, Zenon DEF Writes, Write
  <2>4. FromThenOn(wire, mcu, work')
    BY <2>1, <2>3 DEF FromThenOn
  <2>5. psk = NoKey => psk \notin Keys
    BY KeysAssumption, Zenon
  <2> QED
    BY <2>1, <2>4, <2>5, Zenon DEF LastKey
<1>2. CASE Upload
  BY <1>2, Zenon DEF Upload, Start, LastKey
<1>3. CASE Uploaded \/ Interrupted
  BY <1>3, Zenon DEF Uploaded, Interrupted, xferVars, LastKey
<1>4. CASE InstallBegins
  <2>1. psk' \notin Keys
    BY <1>4, KeysAssumption, Zenon DEF InstallBegins
  <2> QED
    BY <1>4, <2>1 DEF InstallBegins, xferVars, LastKey
<1>5. CASE InstallEnds
  BY <1>5, Zenon DEF InstallEnds, xferVars, LastKey, IInv, WorkTyped
<1>6. CASE Run
  BY <1>6 DEF Run, Start, provVars, LastKey
<1>7. CASE HostStep
  <2>1. phase # "idle" /\ HostEffect /\ UNCHANGED provVars
    BY <1>7, HostStepEffect, Zenon DEF IInv, HostStep
  <2>2. CASE step = "off"
    <3>1. Harmless(todo) /\ todo # <<>>
      BY <2>1, <2>2 DEF IInv, KeyFollowed, Typed
    <3>2. Head(todo).expect # Write
      BY <3>1, SMTT(30) DEF Harmless
    <3> QED
      BY <2>1, <2>2, <3>2 DEF HostEffect, provVars, LastKey
  <2>3. CASE step = "uploading"
    <3>1. todo = <<gxfp_cmd_production_write_mcu(work)>>
      BY <2>1, <2>3, Zenon DEF IInv, KeyFollowed
    <3>2. Head(todo).arg = work
      BY <3>1 DEF gxfp_cmd_production_write_mcu, Request
    <3> QED
      BY <2>1, <2>3, <3>2, Zenon DEF HostEffect, provVars, LastKey
  <2> QED
    BY <2>1, <2>2, <2>3 DEF IInv, KeyFollowed
<1>8. CASE SensorExecutes
  <2>1. PICK status \in {0, 1} :
          /\ Execute(status)
          /\ mcu' = IF Head(wire).reply = Write /\ status = 0 THEN Head(wire).arg ELSE mcu
          /\ UNCHANGED <<psk, work, step, replaced, rival, reported>>
    BY <1>8, Zenon DEF SensorExecutes, Write
  <2>2. wire \in Seq(Commands) /\ wire # <<>> /\ wire' = Tail(wire)
    BY <2>1 DEF IInv, Typed, Execute
  <2>3. \A i \in 1..Len(wire') : i + 1 \in 1..Len(wire) /\ 1 < i + 1 /\ wire'[i] = wire[i + 1]
    BY <2>2
  <2>4. Head(wire) = wire[1] /\ 1 \in 1..Len(wire)
    BY <2>2
  <2>5. ASSUME NEW k, FromThenOn(wire, mcu, k)
        PROVE  FromThenOn(wire', mcu', k)
    <3>1. mcu' = k => OnlyWrites(wire', k)
      <4>1. CASE mcu' = mcu
        BY <2>3, <2>5, <4>1, Zenon DEF FromThenOn, OnlyWrites
      <4>2. CASE mcu' = wire[1].arg /\ wire[1].reply = Write
        BY <2>3, <2>4, <2>5, <4>2, Zenon DEF FromThenOn, OnlyWrites
      <4> QED
        BY <2>1, <2>4, <4>1, <4>2
    <3>2. \A i, j \in 1..Len(wire') : i < j => i + 1 < j + 1
      BY <2>2
    <3> QED
      BY <2>3, <2>5, <3>1, <3>2, ZenonT(30) DEF FromThenOn
  <2>6. mcu' \in Args \cup {Factory}
    <3>1. wire[1] \in Commands
      BY <2>2, <2>4
    <3>2. wire[1].arg \in Args
      BY <3>1, Zenon DEF Commands
    <3> QED
      BY <2>1, <2>4, <3>2 DEF LastKey
  <2> QED
    BY <2>1, <2>5, <2>6, Zenon DEF LastKey
<1>9. CASE Others /\ SensorEvent
  BY <1>9, Zenon DEF Others, SensorEvent, provVars, LastKey
<1>10. CASE Others /\ SendUnawaited
  <2> DEFINE c == [reply |-> "ACK", arg |-> NoArg, own |-> FALSE]
  <2>1. c.reply # Write
    BY Zenon DEF Write
  <2> HIDE DEF c
  <2>2. wire' = Append(wire, c) /\ UNCHANGED provVars
    BY <1>10, Zenon DEF Others, SendUnawaited, c
  <2>3. wire \in Seq(Commands) /\ c \in Commands
    BY XferAssumption, Zenon DEF IInv, Typed, Commands, c
  <2>4. \A k : FromThenOn(wire, mcu, k) => FromThenOn(wire', mcu, k)
    BY <2>1, <2>2, <2>3 DEF FromThenOn, OnlyWrites
  <2> QED
    BY <2>2, <2>4 DEF provVars, LastKey
<1>11. CASE UNCHANGED vars
  BY <1>11, Zenon DEF vars, xferVars, provVars, LastKey
<1> QED
  BY <1>1, <1>2, <1>3, <1>4, <1>5, <1>6, <1>7, <1>8, <1>9, <1>10, <1>11, Zenon DEF Next, Others

\* A key on disk that is the sensor's is neither replaced nor overtaken.
LEMMA PairStep ==
  ASSUME IInv, LastKey, [Next]_vars, ~replaced, psk = mcu
  PROVE  psk' = psk /\ mcu' = mcu
<1>1. psk \in Keys
  BY KeysAssumption, Zenon DEF LastKey
<1>2. step = "off" /\ OnlyWrites(wire, psk)
  BY <1>1, Zenon DEF LastKey, FromThenOn
<1>3. CASE SensorExecutes
  <2>1. PICK status \in {0, 1} :
          /\ Execute(status)
          /\ mcu' = IF Head(wire).reply = Write /\ status = 0 THEN Head(wire).arg ELSE mcu
          /\ UNCHANGED psk
    BY <1>3, Zenon DEF SensorExecutes, Write
  <2>2. wire \in Seq(Commands) /\ wire # <<>>
    BY <2>1 DEF IInv, Typed, Execute
  <2>3. Head(wire) = wire[1] /\ 1 \in 1..Len(wire)
    BY <2>2, SMTT(30)
  <2> QED
    BY <1>2, <2>1, <2>3, Zenon DEF OnlyWrites
<1>4. CASE [\/ \E replace \in BOOLEAN : provision(replace)
            \/ Run \/ HostStep \/ Others]_vars
  BY <1>4 DEF provision, Run, HostStep, Others, provVars, vars
<1> QED
  BY <1>2, <1>3, <1>4, Zenon DEF Next, Upload, Uploaded, InstallBegins, InstallEnds, Interrupted

\* Without --replace, no step touches keys that agree: a key file excludes
\* another upload, and the writes still on their way carry the same key.
THEOREM PairKeptHolds == Spec => PairKept
<1>1. Init => IInv
  BY HarmlessParts DEF Init, XferInit, IInv, Typed, WorkTyped, KeyFollowed
<1>2. IInv /\ [Next]_vars => IInv'
  BY KeyStep
<1>3. Init => LastKey
  BY KeysAssumption DEF Init, LastKey
<1>4. IInv /\ LastKey /\ [Next]_vars => LastKey'
  BY LastKeyStep
<1>5. IInv /\ LastKey /\ [Next]_vars
        => [~replaced /\ psk = mcu => psk' = psk /\ mcu' = mcu]_vars
  BY PairStep
<1> QED
  BY <1>1, <1>2, <1>3, <1>4, <1>5, PTL DEF Spec, PairKept

---------------------------------------------------------------------------
\* Types and own answers.

\* The attempts of a request are counted up to its limit, and the wire and the
\* queue are bounded.
Counted ==
  /\ Len(wire) <= MaxWire /\ Len(rxq) <= MaxQueue
  /\ attempts \in Nat
  /\ phase = "idle" => attempts = 0
  /\ phase = "send" => attempts < Head(todo).tries
  /\ phase = "wait" => attempts <= Head(todo).tries
  /\ rc \in {"none", "ok", "fail"} /\ stale \in BOOLEAN /\ faults \in 0..MaxFaults

KeyWrites(s) == \A i \in 1..Len(s) : s[i].reply = Write => s[i].arg \in Keys

\* Only generated keys are ever written.
KeysTyped ==
  /\ KeyWrites(wire)
  /\ mcu \in Keys \cup {Factory} /\ psk \in Keys \cup {NoKey, Torn}
  /\ work \in Keys \cup {NoKey} /\ (step = "off" <=> work = NoKey)
  /\ replaced \in BOOLEAN /\ rival \in BOOLEAN /\ reported \in BOOLEAN

OnlyReports(q) == \A i \in 1..Len(q) : q[i].cmd = "FDT_STATUS"

\* What a waiting program finds in its queue: finger reports and its own answer,
\* of which the frame waited for is the last.
OwnAnswer(q, expect) ==
  /\ \A i \in 1..Len(q) : q[i].cmd = "FDT_STATUS" \/ q[i].own
  /\ \A i, j \in 1..Len(q) : i < j /\ q[i].cmd = expect => q[j].cmd = "FDT_STATUS"

\* Until an attempt is given up, a program that sends finds no trace of earlier
\* requests, and one that waits has its own command on the way or its answer,
\* never both.
Fresh ==
  /\ phase = "send" /\ ~stale => wire = <<>> /\ OnlyReports(rxq)
  /\ phase = "wait" /\ ~stale =>
       /\ OwnAnswer(rxq, Head(todo).expect)
       /\ wire # <<>> => /\ Len(wire) = 1 /\ wire[1].own /\ wire[1].reply = Head(todo).expect
                         /\ OnlyReports(rxq)

TypeInv == IInv /\ Counted /\ KeysTyped

\* The request at the head of a running program.
LEMMA HeadTyped ==
  ASSUME NEW t \in Seq(Requests), t # <<>>
  PROVE  /\ Head(t) \in Requests /\ Head(t).tries \in 1..MaxTries
         /\ Head(t).expect \in Replies \cup {"ACK"} /\ Head(t).expect # "FDT_STATUS"
<1>1. Head(t) \in Requests
  OBVIOUS
<1> QED
  BY <1>1 DEF Requests, Replies

\* The command a request sends.
Sent == [reply |-> Head(todo).expect, arg |-> Head(todo).arg, own |-> TRUE]

\* A program only appends to the wire, and only takes from the queue.
LEMMA HostMoves ==
  ASSUME Typed, HostStep
  PROVE  /\ \/ wire' \in {wire, Disown(wire)}
            \/ Len(wire) # MaxWire /\ wire' = Append(wire, Sent)
         /\ \/ rxq' \in {<<>>, rxq, Disown(rxq)}
            \/ rxq # <<>> /\ rxq' \in {Tail(rxq), Disown(Tail(rxq))}
<1>1. ASSUME NEW ok \in BOOLEAN, NEW queue \in Seq(Frames), phase # "idle", Returned(ok, queue)
      PROVE  wire' = Disown(wire) /\ rxq' \in {<<>>, Disown(queue)}
  BY <1>1, ReturnedEffect
<1>2. rxq \in Seq(Frames) /\ (rxq # <<>> => Tail(rxq) \in Seq(Frames))
  BY DEF Typed
<1>3. CASE gxfp_goodix_send_async
  <2>1. CASE gxfp_dev_send_packet(Head(todo)) /\ UNCHANGED rxq
    BY <2>1 DEF gxfp_dev_send_packet, Sent
  <2>2. CASE UNCHANGED <<wire, rxq>>
    BY <2>2
  <2>3. CASE Returned(FALSE, rxq) /\ phase # "idle"
    BY <1>1, <1>2, <2>3, Zenon
  <2> QED
    BY <1>3, <2>1, <2>2, <2>3, Zenon DEF gxfp_goodix_send_async
<1>4. CASE gxfp_goodix_wait_selected
  <2>1. CASE Selected(Head(rxq))
    <3>1. Returned(Head(rxq).status = 0, Tail(rxq)) /\ rxq # <<>> /\ phase = "wait"
      BY <1>4, <2>1 DEF gxfp_goodix_wait_selected
    <3>2. (Head(rxq).status = 0) \in BOOLEAN
      OBVIOUS
    <3> QED
      BY <1>1, <1>2, <3>1, <3>2, Zenon
  <2>2. CASE ~Selected(Head(rxq))
    BY <1>4, <2>2 DEF gxfp_goodix_wait_selected
  <2> QED
    BY <2>1, <2>2
<1>5. CASE DeadlinePasses
  BY <1>1, <1>2, <1>5, Zenon DEF DeadlinePasses
<1>6. CASE ReadFails
  BY <1>1, <1>2, <1>6, Zenon DEF ReadFails
<1>7. CASE Killed
  BY <1>7 DEF Killed
<1> QED
  BY <1>3, <1>4, <1>5, <1>6, <1>7 DEF HostStep

\* The next request starts with no attempt made.
LEMMA ReturnedCounts ==
  ASSUME Typed, phase # "idle", NEW ok, NEW queue, Returned(ok, queue)
  PROVE  /\ attempts' = 0 /\ rc' \in {rc, "ok", "fail"}
         /\ \/ todo' = <<>> /\ phase' = "idle"
            \/ todo' = Tail(todo) /\ phase' = "send" /\ Len(todo) # 1
<1>1. ASSUME NEW result, Finish(result, queue)
      PROVE  attempts' = 0 /\ rc' = result /\ phase' = "idle" /\ todo' = <<>>
  BY <1>1 DEF Finish
<1> QED
  BY <1>1 DEF Returned

\* A step of a program counts its attempts.
LEMMA HostCounts ==
  ASSUME Typed, Counted, HostStep
  PROVE  Counted'
<1>1. Typed' /\ phase # "idle"
  BY HostStepEffect DEF HostEffect
<1>2. Head(todo).tries \in 1..MaxTries
  BY <1>1, HeadTyped DEF Typed
<1>3. Len(wire') <= MaxWire
  <2>1. wire \in Seq(Commands) /\ Len(wire) <= MaxWire /\ MaxWire \in Nat
    BY XferAssumption DEF Typed, Counted
  <2>2. Len(Disown(wire)) = Len(wire)
    BY <2>1, DisownSame
  <2>3. CASE wire' \in {wire, Disown(wire)}
    BY <2>1, <2>2, <2>3
  <2>4. CASE Len(wire) # MaxWire /\ wire' = Append(wire, Sent)
    <3>1. Len(wire') = Len(wire) + 1
      BY <2>1, <2>4
    <3> QED
      BY <2>1, <2>4, <3>1
  <2> QED
    BY <2>3, <2>4, HostMoves
<1>4. Len(rxq') <= MaxQueue
  <2>1. rxq \in Seq(Frames) /\ Len(rxq) <= MaxQueue /\ MaxQueue \in Nat
    BY XferAssumption DEF Typed, Counted
  <2>2. rxq # <<>> => Tail(rxq) \in Seq(Frames) /\ Len(Tail(rxq)) = Len(rxq) - 1
    BY <2>1
  <2>3. /\ Len(Disown(rxq)) = Len(rxq)
        /\ rxq # <<>> => Len(Disown(Tail(rxq))) = Len(Tail(rxq))
    BY <2>1, <2>2, DisownSame, Zenon
  <2> QED
    BY <2>1, <2>2, <2>3, HostMoves
<1>5. phase' = "send" => Head(todo').tries \in 1..MaxTries
  BY <1>1, HeadTyped DEF Typed
<1> DEFINE Tally == /\ attempts' \in Nat
                    /\ phase' = "idle" => attempts' = 0
                    /\ phase' = "send" => attempts' < Head(todo').tries
                    /\ phase' = "wait" => attempts' <= Head(todo').tries
                    /\ rc' \in {"none", "ok", "fail"}
<1>6. ASSUME NEW ok, NEW queue, Returned(ok, queue)
      PROVE  Tally
  <2>1. attempts' = 0 /\ rc' \in {rc, "ok", "fail"} /\ phase' \in {"idle", "send"}
    BY <1>1, <1>6, ReturnedCounts
  <2> QED
    BY <1>5, <2>1 DEF Counted
<1>7. Tally
  <2>1. CASE attempts' = attempts + 1 /\ phase = "send" /\ phase' = "wait" /\ UNCHANGED <<todo, rc>>
    BY <1>2, <2>1 DEF Counted
  <2>2. CASE UNCHANGED <<todo, attempts, phase, rc>>
    BY <1>2, <2>2 DEF Counted
  <2>3. CASE attempts < Head(todo).tries /\ phase' = "send" /\ UNCHANGED <<todo, attempts, rc>>
    BY <1>2, <2>3 DEF Counted
  <2>4. CASE Killed
    BY <2>4 DEF Killed
  <2> HIDE DEF Tally
  <2>5. CASE gxfp_goodix_send_async
    BY <1>6, <2>1, <2>5, Zenon DEF gxfp_goodix_send_async
  <2>6. CASE gxfp_goodix_wait_selected
    BY <1>6, <2>2, <2>6 DEF gxfp_goodix_wait_selected
  <2>7. CASE DeadlinePasses
    BY <1>6, <2>3, <2>7, Zenon DEF DeadlinePasses
  <2>8. CASE ReadFails
    BY <1>6, <2>8, Zenon DEF ReadFails
  <2> QED
    BY <2>4, <2>5, <2>6, <2>7, <2>8 DEF HostStep
<1>8. stale' \in BOOLEAN /\ faults' \in 0..MaxFaults
  <2>1. MaxFaults \in Nat /\ stale \in BOOLEAN /\ faults \in 0..MaxFaults
    BY XferAssumption DEF Counted
  <2>2. faults' = faults \/ (faults < MaxFaults /\ faults' = faults + 1)
    BY Zenon DEF HostStep, gxfp_goodix_send_async, gxfp_goodix_wait_selected, DeadlinePasses,
           ReadFails, Killed
  <2>3. stale' \in {stale, TRUE}
    BY Zenon DEF HostStep, gxfp_goodix_send_async, gxfp_goodix_wait_selected, DeadlinePasses,
           ReadFails, Killed
  <2>4. faults' \in 0..MaxFaults
    BY <2>1, <2>2
  <2>5. stale' \in BOOLEAN
    BY <2>1, <2>3, Zenon
  <2> QED
    BY <2>4, <2>5
<1> QED
  BY <1>3, <1>4, <1>7, <1>8 DEF Counted

\* A program writes only the key it was given.
LEMMA HostKeyWrites ==
  ASSUME IInv, KeysTyped, HostStep
  PROVE  KeysTyped'
<1>1. phase # "idle" /\ Typed /\ UNCHANGED provVars
  BY HostStepEffect DEF IInv, HostStep
<1>2. Head(todo).expect = Write => Head(todo).arg \in Keys
  <2>1. CASE step = "off"
    <3>1. Harmless(todo) /\ todo # <<>>
      BY <1>1, <2>1 DEF IInv, KeyFollowed, Typed
    <3> QED
      BY <3>1 DEF Harmless
  <2>2. CASE step = "uploading"
    <3>1. todo = <<gxfp_cmd_production_write_mcu(work)>> /\ work \in Keys
      BY <1>1, <2>2, Zenon DEF IInv, KeyFollowed, WorkTyped
    <3> QED
      BY <3>1 DEF gxfp_cmd_production_write_mcu, Request
  <2> QED
    BY <1>1, <2>1, <2>2 DEF IInv, KeyFollowed
<1>3. KeyWrites(wire')
  <2>1. wire \in Seq(Commands) /\ KeyWrites(wire)
    BY <1>1, Zenon DEF Typed, KeysTyped
  <2>2. KeyWrites(Disown(wire))
    BY <2>1, DisownSame DEF KeyWrites
  <2>3. ASSUME wire' = Append(wire, Sent)
        PROVE  KeyWrites(wire')
    <3>1. Sent.reply = Head(todo).expect /\ Sent.arg = Head(todo).arg
      BY Zenon DEF Sent
    <3>2. \A i \in 1..Len(wire') : wire'[i] = Sent \/ (i \in 1..Len(wire) /\ wire'[i] = wire[i])
      BY <2>1, <2>3, SMTT(30)
    <3> QED
      BY <1>2, <2>1, <3>1, <3>2, Zenon DEF KeyWrites
  <2> QED
    BY <1>1, <2>1, <2>2, <2>3, HostMoves, Zenon
<1> QED
  BY <1>1, <1>3 DEF KeysTyped, provVars

\* The sensor takes a command off the wire, and bounds what it queues.
LEMMA SensorTypes ==
  ASSUME IInv, Counted, KeysTyped, SensorExecutes
  PROVE  Counted' /\ KeysTyped'
<1>1. PICK status \in {0, 1} :
        /\ Execute(status)
        /\ mcu' = IF Head(wire).reply = Write /\ status = 0 THEN Head(wire).arg ELSE mcu
        /\ UNCHANGED <<psk, work, step, replaced, rival, reported>>
  BY Zenon DEF SensorExecutes, Write
<1>2. wire \in Seq(Commands) /\ wire # <<>> /\ rxq \in Seq(Frames) /\ wire' = Tail(wire)
  BY <1>1 DEF IInv, Typed, Execute
<1>3. /\ Len(wire') = Len(wire) - 1 /\ Head(wire) = wire[1] /\ 1 \in 1..Len(wire)
      /\ \A i \in 1..Len(wire') : i + 1 \in 1..Len(wire) /\ wire'[i] = wire[i + 1]
  BY <1>2
<1>4. Len(rxq') <= MaxQueue
  <2> DEFINE c == Head(wire)
             ack == [cmd |-> "ACK", status |-> 0, own |-> c.own]
             reply == [cmd |-> c.reply, status |-> status, own |-> c.own]
             s == IF c.reply = "ACK" THEN <<ack>> ELSE <<ack, reply>>
  <2>1. c \in Commands
    BY <1>2
  <2>2. ack \in Frames /\ reply \in Frames
    BY <2>1, Zenon DEF Commands, Frames
  <2>3. rxq' = rxq \/ rxq' = Queued(rxq, s)
    BY <1>1 DEF Execute
  <2> HIDE DEF c, ack, reply
  <2>4. s \in Seq(Frames)
    BY <2>2
  <2> HIDE DEF s
  <2> QED
    BY <1>2, <2>3, <2>4, QueuedPlaces DEF Counted
<1>5. faults' \in 0..MaxFaults
  <2>1. faults' = faults \/ (faults < MaxFaults /\ faults' = faults + 1)
    BY <1>1, Zenon DEF Execute
  <2> QED
    BY <2>1, XferAssumption, SMTT(30) DEF Counted
<1>6. UNCHANGED <<todo, attempts, phase, rc, stale>>
  BY <1>1, Zenon DEF Execute
<1>7. Len(wire') <= MaxWire
  <2>1. Len(wire) \in Nat /\ Len(wire) <= MaxWire /\ MaxWire \in Nat
    BY <1>2, XferAssumption, SMTT(30) DEF Counted
  <2> QED
    BY <1>3, <2>1
<1>8. KeyWrites(wire') /\ mcu' \in Keys \cup {Factory}
  BY <1>1, <1>3, Zenon DEF KeysTyped, KeyWrites
<1> QED
  BY <1>1, <1>4, <1>5, <1>6, <1>7, <1>8 DEF Counted, KeysTyped

\* Every step keeps the types.
LEMMA TypesStep ==
  ASSUME TypeInv, [Next]_vars
  PROVE  Counted' /\ KeysTyped'
<1> USE DEF TypeInv
<1>1. ASSUME NEW p \in Seq(Requests), p # <<>>, Start(p)
      PROVE  Counted'
  <2>1. Head(p).tries \in 1..MaxTries
    BY <1>1, HeadTyped
  <2>2. /\ todo' = p /\ attempts' = 0 /\ phase' = "send" /\ rc' = "none" /\ rxq' = <<>>
        /\ stale' \in BOOLEAN /\ UNCHANGED <<wire, faults>>
    BY <1>1, Zenon DEF Start
  <2> QED
    BY <2>1, <2>2, XferAssumption DEF Counted
<1>2. ASSUME UNCHANGED xferVars
      PROVE  Counted'
  BY <1>2, Zenon DEF xferVars, Counted
<1>3. ASSUME NEW replace \in BOOLEAN, provision(replace)
      PROVE  Counted' /\ KeysTyped'
  <2>1. work' \in Keys /\ work' # NoKey
    BY <1>3, KeysAssumption, Zenon DEF provision
  <2>2. KeysTyped'
    BY <1>3, <2>1, Zenon DEF provision, xferVars, KeysTyped
  <2> QED
    BY <1>2, <1>3, <2>2, Zenon DEF provision
<1>4. CASE Upload
  <2> DEFINE w == gxfp_cmd_production_write_mcu(work)
  <2>1. w \in Requests
    BY <1>4, RequestsTyped DEF Upload, IInv, WorkTyped
  <2> HIDE DEF w
  <2>2. Start(<<w>>) /\ <<w>> \in Seq(Requests) /\ <<w>> # <<>>
    BY <1>4, <2>1 DEF Upload, w
  <2>3. KeysTyped'
    BY <1>4, Zenon DEF Upload, Start, KeysTyped
  <2> QED
    BY <1>1, <2>2, <2>3, Zenon
<1>5. CASE Uploaded \/ InstallBegins \/ InstallEnds
  <2>1. NoKey \notin Keys
    BY KeysAssumption, Zenon
  <2>2. KeysTyped'
    BY <1>5, <2>1, Zenon DEF Uploaded, InstallBegins, InstallEnds, xferVars, KeysTyped
  <2> QED
    BY <1>2, <1>5, <2>2 DEF Uploaded, InstallBegins, InstallEnds
<1>6. CASE Interrupted
  <2>1. faults' \in 0..MaxFaults
    BY <1>6, XferAssumption DEF Interrupted, Counted
  <2> QED
    BY <1>6, <2>1, Zenon DEF Interrupted, Counted, KeysTyped
<1>7. CASE Run
  <2>1. PICK p \in Programs : Start(p)
    BY <1>7 DEF Run
  <2>2. p \in Seq(Requests) /\ p # <<>>
    BY RequestsTyped DEF Harmless
  <2>3. KeysTyped'
    BY <1>7, <2>1 DEF Run, Start, provVars, KeysTyped
  <2> QED
    BY <1>1, <2>1, <2>2, <2>3
<1>8. CASE HostStep
  BY <1>8, HostCounts, HostKeyWrites DEF IInv
<1>9. CASE SensorExecutes
  BY <1>9, SensorTypes, Zenon
<1>10. CASE Others /\ SensorEvent
  <2>1. rxq \in Seq(Frames) /\ MaxQueue \in Nat
    BY XferAssumption, Zenon DEF IInv, Typed
  <2>2. Len(rxq') <= MaxQueue /\ UNCHANGED <<wire, todo, attempts, phase, rc, stale, faults, provVars>>
    BY <1>10, <2>1, SMTT(30) DEF Others, SensorEvent
  <2> QED
    BY <2>2 DEF provVars, Counted, KeysTyped
<1>11. CASE Others /\ SendUnawaited
  <2> DEFINE c == [reply |-> "ACK", arg |-> NoArg, own |-> FALSE]
  <2>1. c.reply # Write
    BY Zenon DEF Write
  <2> HIDE DEF c
  <2>2. /\ wire' = Append(wire, c) /\ Len(wire) < MaxWire
        /\ UNCHANGED <<rxq, todo, attempts, phase, rc, stale, faults, provVars>>
    BY <1>11, Zenon DEF Others, SendUnawaited, c
  <2>3. wire \in Seq(Commands) /\ MaxWire \in Nat
    BY XferAssumption, Zenon DEF IInv, Typed
  <2>4. /\ Len(wire') = Len(wire) + 1
        /\ \A i \in 1..Len(wire') : wire'[i] = c \/ (i \in 1..Len(wire) /\ wire'[i] = wire[i])
    BY <2>2, <2>3, SMTT(30)
  <2>5. KeyWrites(wire') /\ Len(wire') <= MaxWire
    BY <2>1, <2>2, <2>3, <2>4, SMTT(30) DEF KeysTyped, KeyWrites
  <2> QED
    BY <2>2, <2>5 DEF provVars, Counted, KeysTyped
<1>12. CASE UNCHANGED vars
  BY <1>12 DEF vars, xferVars, provVars, Counted, KeysTyped
<1> QED
  BY <1>3, <1>4, <1>5, <1>6, <1>7, <1>8, <1>9, <1>10, <1>11, <1>12, Zenon DEF Next, Others

\* The initial state.
LEMMA InitTypes ==
  ASSUME Init
  PROVE  TypeInv
<1>1. IInv
  BY HarmlessParts DEF Init, XferInit, IInv, Typed, WorkTyped, KeyFollowed
<1>2. Counted
  <2>1. MaxWire \in Nat /\ MaxQueue \in Nat /\ MaxFaults \in Nat
    BY XferAssumption
  <2>2. stale \in BOOLEAN /\ rc \in {"none", "ok", "fail"}
    BY Zenon DEF Init, XferInit
  <2>3. Len(wire) <= MaxWire /\ Len(rxq) <= MaxQueue /\ faults \in 0..MaxFaults
    BY <2>1 DEF Init, XferInit
  <2>4. phase = "idle" /\ attempts = 0
    BY Zenon DEF Init, XferInit
  <2> QED
    BY <2>2, <2>3, <2>4, Zenon DEF Counted
<1>3. KeysTyped
  <2>1. replaced \in BOOLEAN /\ rival \in BOOLEAN /\ reported \in BOOLEAN
    BY Zenon DEF Init
  <2>2. KeyWrites(wire)
    BY DEF Init, XferInit, KeyWrites
  <2>3. mcu = Factory /\ psk = NoKey /\ work = NoKey /\ step = "off"
    BY DEF Init
  <2> QED
    BY <2>1, <2>2, <2>3 DEF KeysTyped
<1> QED
  BY <1>1, <1>2, <1>3, Zenon DEF TypeInv

\* Every variable has its type: no request is attempted more often than
\* gxfp_goodix_request_selected allows, the queue and the wire stay within their
\* bounds, and the sensor and the disk only ever hold keys that were generated.
THEOREM ProvisionTypes == Spec => []TypeOK
<1>1. Init => TypeInv
  BY InitTypes
<1>2. TypeInv /\ [Next]_vars => TypeInv'
  BY KeyStep, TypesStep, Zenon DEF TypeInv
<1>3. TypeInv => TypeOK
  <2> SUFFICES ASSUME TypeInv PROVE TypeOK
    BY Zenon
  <2>1. attempts \in 0..MaxTries
    <3>1. phase # "idle" => Head(todo).tries \in 1..MaxTries
      BY HeadTyped DEF TypeInv, IInv, Typed
    <3> QED
      BY <3>1, XferAssumption DEF TypeInv, IInv, Typed, Counted
  <2>2. XferTypeOK
    BY <2>1 DEF TypeInv, IInv, Typed, Counted, XferTypeOK
  <2> QED
    BY <2>2 DEF TypeInv, IInv, KeyFollowed, KeysTyped, TypeOK
<1> QED
  BY <1>1, <1>2, <1>3, PTL DEF Spec

\* A step of a program leaves the traces of one request only.
LEMMA HostFresh ==
  ASSUME Typed, Counted, Fresh, HostStep
  PROVE  Fresh'
<1>1. phase # "idle" /\ wire \in Seq(Commands) /\ rxq \in Seq(Frames) /\ todo \in Seq(Requests)
  BY HostStepEffect, Zenon DEF Typed
<1>2. Head(todo).expect # "FDT_STATUS"
  BY <1>1, HeadTyped, Zenon DEF Typed
<1>3. ASSUME NEW q \in Seq(Frames), OnlyReports(q)
      PROVE  OnlyReports(Disown(q))
  BY <1>3, DisownSame, Zenon DEF OnlyReports
<1>4. Disown(<<>>) = <<>>
  <2>1. <<>> \in Seq(Frames) /\ Len(<<>>) = 0
    OBVIOUS
  <2>2. Disown(<<>>) \in Seq(Frames) /\ Len(Disown(<<>>)) = 0
    BY <2>1, DisownSame, Zenon
  <2> QED
    BY <2>2
<1>5. ASSUME NEW ok \in BOOLEAN, NEW queue \in Seq(Frames), Returned(ok, queue),
             wire = <<>>, OnlyReports(queue)
      PROVE  Fresh'
  <2>1. wire' = Disown(wire) /\ rxq' \in {<<>>, Disown(queue)} /\ phase' \in {"idle", "send"}
    BY <1>1, <1>5, ReturnedEffect
  <2>2. OnlyReports(<<>>)
    BY DEF OnlyReports
  <2>3. wire' = <<>> /\ OnlyReports(rxq')
    BY <1>3, <1>4, <1>5, <2>1, <2>2
  <2> QED
    BY <2>1, <2>3 DEF Fresh
<1>6. CASE stale'
  BY <1>6 DEF Fresh
<1>7. CASE gxfp_goodix_send_async /\ ~stale
  <2>1. phase = "send" /\ wire = <<>> /\ OnlyReports(rxq)
    BY <1>7 DEF Fresh, gxfp_goodix_send_async
  <2>2. OwnAnswer(rxq, Head(todo).expect)
    BY <2>1 DEF OnlyReports, OwnAnswer
  <2>3. CASE gxfp_dev_send_packet(Head(todo)) /\ phase' = "wait" /\ UNCHANGED <<rxq, todo>>
    <3>1. Sent.own /\ Sent.reply = Head(todo).expect
      BY DEF Sent
    <3>2. wire' = wire \/ wire' = Append(wire, Sent)
      BY <2>3 DEF gxfp_dev_send_packet, Sent
    <3>3. wire' = <<>> \/ (Len(wire') = 1 /\ wire'[1] = Sent)
      BY <2>1, <3>2
    <3> QED
      BY <2>1, <2>2, <2>3, <3>1, <3>3 DEF Fresh
  <2>4. CASE phase' = "wait" /\ UNCHANGED <<wire, rxq, todo>>
    BY <2>1, <2>2, <2>4 DEF Fresh
  <2>5. CASE Returned(FALSE, rxq)
    BY <1>1, <1>5, <2>1, <2>5, Zenon
  <2> QED
    BY <1>7, <2>3, <2>4, <2>5, Zenon DEF gxfp_goodix_send_async
<1>8. CASE gxfp_goodix_wait_selected /\ ~stale
  <2>1. phase = "wait" /\ rxq # <<>>
    BY <1>8 DEF gxfp_goodix_wait_selected
  <2>2. /\ OwnAnswer(rxq, Head(todo).expect)
        /\ wire # <<>> => /\ Len(wire) = 1 /\ wire[1].own /\ wire[1].reply = Head(todo).expect
                          /\ OnlyReports(rxq)
    BY <1>8, <2>1 DEF Fresh
  <2>3. /\ Tail(rxq) \in Seq(Frames) /\ Head(rxq) = rxq[1] /\ 1 \in 1..Len(rxq)
        /\ \A i \in 1..Len(Tail(rxq)) :
             i + 1 \in 1..Len(rxq) /\ 1 < i + 1 /\ Tail(rxq)[i] = rxq[i + 1]
    BY <1>1, <2>1
  <2>4. CASE Selected(Head(rxq))
    <3>1. rxq[1].cmd = Head(todo).expect
      BY <2>3, <2>4 DEF Selected
    <3>2. wire = <<>>
      BY <1>2, <2>2, <2>3, <3>1 DEF OnlyReports
    <3>3. OnlyReports(Tail(rxq))
      BY <2>2, <2>3, <3>1 DEF OnlyReports, OwnAnswer
    <3>4. Returned(Head(rxq).status = 0, Tail(rxq)) /\ (Head(rxq).status = 0) \in BOOLEAN
      BY <1>8, <2>4, Zenon DEF gxfp_goodix_wait_selected
    <3> QED
      BY <1>5, <2>3, <3>2, <3>3, <3>4, Zenon
  <2>5. CASE ~Selected(Head(rxq))
    <3>1. rxq' = Tail(rxq) /\ UNCHANGED <<wire, todo, phase>>
      BY <1>8, <2>5, Zenon DEF gxfp_goodix_wait_selected
    <3>2. \A i, j \in 1..Len(Tail(rxq)) : i < j => i + 1 < j + 1
      BY <2>3, SMTT(30)
    <3>3. OwnAnswer(Tail(rxq), Head(todo).expect)
      BY <2>2, <2>3, <3>2 DEF OwnAnswer
    <3>4. OnlyReports(rxq) => OnlyReports(Tail(rxq))
      BY <2>3, Zenon DEF OnlyReports
    <3> QED
      BY <2>1, <2>2, <3>1, <3>3, <3>4, Zenon DEF Fresh
  <2> QED
    BY <2>4, <2>5
<1>9. CASE Killed
  BY <1>9, Zenon DEF Killed, Fresh
<1>10. /\ DeadlinePasses \/ ReadFails => stale'
       /\ gxfp_goodix_send_async \/ gxfp_goodix_wait_selected => stale' = stale
  BY Zenon DEF DeadlinePasses, ReadFails, gxfp_goodix_send_async, gxfp_goodix_wait_selected
<1> QED
  BY <1>6, <1>7, <1>8, <1>9, <1>10 DEF HostStep

\* The sensor answers the one command on its way: an acknowledgement, and after it
\* the reply.
LEMMA SensorFresh ==
  ASSUME Typed, Counted, Fresh, SensorExecutes
  PROVE  Fresh'
<1>1. PICK status \in {0, 1} : Execute(status)
  BY Zenon DEF SensorExecutes
<1> DEFINE c == Head(wire)
           ack == [cmd |-> "ACK", status |-> 0, own |-> c.own]
           reply == [cmd |-> c.reply, status |-> status, own |-> c.own]
           s == IF c.reply = "ACK" THEN <<ack>> ELSE <<ack, reply>>
<1>2. /\ wire \in Seq(Commands) /\ wire # <<>> /\ rxq \in Seq(Frames)
      /\ wire' = Tail(wire) /\ UNCHANGED <<todo, phase, stale>>
  BY <1>1 DEF Typed, Execute
<1>3. c \in Commands /\ c = wire[1]
  BY <1>2, SMTT(30)
<1>4. /\ ack \in Frames /\ reply \in Frames /\ ack.cmd = "ACK" /\ reply.cmd = c.reply
      /\ ack.own = c.own /\ reply.own = c.own
  BY <1>3, Zenon DEF Commands, Frames
<1>5. rxq' = rxq \/ rxq' = Queued(rxq, s)
  BY <1>1, Zenon DEF Execute
<1> HIDE DEF c, ack, reply
<1>6. CASE phase = "wait" /\ ~stale
  <2> DEFINE expect == Head(todo).expect
  <2>1. Len(wire) = 1 /\ c.own /\ c.reply = expect /\ OnlyReports(rxq)
    BY <1>2, <1>3, <1>6, Zenon DEF Fresh
  <2>2. wire' = <<>>
    BY <1>2, <2>1, SMTT(30)
  <2>3. expect # "FDT_STATUS"
    BY <1>6, HeadTyped, Zenon DEF Typed
  <2>4. /\ s \in Seq(Frames) /\ \A j \in 1..Len(s) : s[j].own
        /\ \A i, j \in 1..Len(s) : i < j => s[i].cmd # expect
    <3>1. CASE c.reply = "ACK"
      <4>1. s = <<ack>>
        BY <3>1, Zenon
      <4>2. s \in Seq(Frames) /\ Len(s) = 1 /\ s[1] = ack
        BY <1>4, <4>1
      <4>3. ack.own
        BY <1>4, <2>1, Zenon
      <4>4. \A j \in 1..Len(s) : j = 1
        BY <4>2
      <4>5. \A i, j \in 1..Len(s) : ~(i < j)
        BY <4>4
      <4>6. \A j \in 1..Len(s) : s[j].own
        BY <4>2, <4>3, <4>4, Zenon
      <4> QED
        BY <4>2, <4>5, <4>6, Zenon
    <3>2. CASE c.reply # "ACK"
      <4>1. s = <<ack, reply>>
        BY <3>2, Zenon
      <4>2. s \in Seq(Frames) /\ Len(s) = 2 /\ s[1] = ack /\ s[2] = reply
        BY <1>4, <4>1
      <4>3. ack.own /\ reply.own /\ ack.cmd # expect
        BY <1>4, <2>1, <3>2, Zenon
      <4>4. \A j \in 1..Len(s) : j = 1 \/ j = 2
        BY <4>2
      <4>5. \A j \in 1..Len(s) : s[j].own
        BY <4>2, <4>3, <4>4, Zenon
      <4>6. \A i, j \in 1..Len(s) : i < j => i = 1
        BY <4>4
      <4> QED
        BY <4>2, <4>3, <4>5, <4>6, Zenon
    <3> QED
      BY <3>1, <3>2
  <2> HIDE DEF expect, s
  <2>5. OwnAnswer(rxq', expect)
    <3>1. CASE rxq' = rxq
      BY <2>1, <3>1, Zenon DEF OwnAnswer, OnlyReports
    <3>2. CASE rxq' = Queued(rxq, s)
      <4>1. /\ Len(rxq) \in Nat /\ Len(s) \in Nat
            /\ \A i \in 1..Len(rxq') :
                 \/ i \in 1..Len(rxq) /\ rxq'[i] = rxq[i]
                 \/ i - Len(rxq) \in 1..Len(s) /\ rxq'[i] = s[i - Len(rxq)]
        BY <1>2, <2>4, <3>2, QueuedPlaces, SMTT(30)
      <4>2. \A i \in 1..Len(rxq') : rxq'[i].cmd = "FDT_STATUS" \/ rxq'[i].own
        BY <2>1, <2>4, <4>1, Zenon DEF OnlyReports
      <4>3. ASSUME NEW i \in 1..Len(rxq'), NEW j \in 1..Len(rxq'), i < j, rxq'[i].cmd = expect
            PROVE  rxq'[j].cmd = "FDT_STATUS"
        <5>1. i - Len(rxq) \in 1..Len(s) /\ rxq'[i] = s[i - Len(rxq)]
          BY <2>1, <2>3, <4>1, <4>3, Zenon DEF OnlyReports
        <5>2. j \notin 1..Len(rxq)
          BY <4>1, <4>3, <5>1
        <5>3. j - Len(rxq) \in 1..Len(s) /\ i - Len(rxq) < j - Len(rxq)
          BY <4>1, <4>3, <5>1, <5>2
        <5> QED
          BY <2>4, <4>3, <5>1, <5>3, Zenon
      <4> QED
        BY <4>2, <4>3, Zenon DEF OwnAnswer
    <3> QED
      BY <1>5, <3>1, <3>2, Zenon
  <2> QED
    BY <1>2, <1>6, <2>2, <2>5, Zenon DEF Fresh, expect
<1> QED
  BY <1>2, <1>6, Zenon DEF Fresh

\* Every step keeps the answers of different requests apart.
LEMMA FreshStep ==
  ASSUME TypeInv, Fresh, [Next]_vars
  PROVE  Fresh'
<1> USE DEF TypeInv
<1>1. ASSUME NEW p, Start(p)
      PROVE  Fresh'
  <2>1. phase' = "send" /\ (~stale' => wire' = <<>>) /\ rxq' = <<>>
    BY <1>1, Zenon DEF Start
  <2> QED
    BY <2>1 DEF Fresh, OnlyReports
<1>2. CASE UNCHANGED <<wire, rxq, todo, phase, stale>>
  BY <1>2 DEF Fresh
<1>3. ASSUME NEW replace \in BOOLEAN, provision(replace)
      PROVE  Fresh'
  BY <1>2, <1>3 DEF provision, xferVars
<1>4. CASE Upload \/ Run
  BY <1>1, <1>4 DEF Upload, Run
<1>5. CASE Uploaded \/ InstallBegins \/ InstallEnds \/ Interrupted
  BY <1>2, <1>5 DEF Uploaded, InstallBegins, InstallEnds, Interrupted, xferVars
<1>6. CASE HostStep
  BY <1>6, HostFresh DEF IInv
<1>7. CASE SensorExecutes
  BY <1>7, SensorFresh, Zenon DEF IInv
<1>8. CASE Others /\ SensorEvent
  <2> DEFINE f == [cmd |-> "FDT_STATUS", status |-> 0, own |-> FALSE]
  <2>1. f \in Frames /\ f.cmd = "FDT_STATUS"
    BY Zenon DEF Frames
  <2> HIDE DEF f
  <2>2. rxq' = Append(rxq, f) /\ UNCHANGED <<wire, todo, phase, stale>>
    BY <1>8 DEF SensorEvent, f
  <2>3. rxq \in Seq(Frames)
    BY Zenon DEF IInv, Typed
  <2>4. /\ Len(rxq') = Len(rxq) + 1 /\ Len(rxq) \in Nat /\ rxq'[Len(rxq) + 1] = f
        /\ \A i \in 1..Len(rxq) : rxq'[i] = rxq[i]
    BY <2>1, <2>2, <2>3
  <2>5. OnlyReports(rxq) => OnlyReports(rxq')
    BY <2>1, <2>4, SMTT(30) DEF OnlyReports
  <2>6. ASSUME NEW e, OwnAnswer(rxq, e)
        PROVE  OwnAnswer(rxq', e)
    <3>1. \A i \in 1..Len(rxq') : rxq'[i].cmd = "FDT_STATUS" \/ rxq'[i].own
      BY <2>1, <2>4, <2>6, SMTT(30) DEF OwnAnswer
    <3>2. \A i, j \in 1..Len(rxq') : i < j /\ rxq'[i].cmd = e => rxq'[j].cmd = "FDT_STATUS"
      BY <2>1, <2>4, <2>6, SMTT(30) DEF OwnAnswer
    <3> QED
      BY <3>1, <3>2, Zenon DEF OwnAnswer
  <2> QED
    BY <2>2, <2>5, <2>6, Zenon DEF Fresh
<1>9. CASE Others /\ SendUnawaited
  BY <1>9, Zenon DEF SendUnawaited, Fresh
<1>10. CASE UNCHANGED vars
  BY <1>2, <1>10 DEF vars, xferVars
<1> QED
  BY <1>3, <1>4, <1>5, <1>6, <1>7, <1>8, <1>9, <1>10, Zenon DEF Next, Others

\* Until an attempt is given up, and with nothing on its way at the flush, a
\* frame that gxfp_goodix_wait_selected would accept answers the request that
\* waits for it, for programs of any length and queues of any size: the leftovers
\* of an answered request are finger reports only.
THEOREM AnswersAreOwn == Spec => []AnswerIsOwn
<1>1. Init => TypeInv /\ Fresh
  <2>1. Init => phase = "idle"
    BY Zenon DEF Init, XferInit
  <2> QED
    BY <2>1, InitTypes, Zenon DEF Fresh
<1>2. TypeInv /\ Fresh /\ [Next]_vars => TypeInv' /\ Fresh'
  BY KeyStep, TypesStep, FreshStep, Zenon DEF TypeInv
<1>3. TypeInv /\ Fresh => AnswerIsOwn
  <2> SUFFICES ASSUME TypeInv, Fresh, phase = "wait", ~stale, NEW i \in DOMAIN rxq,
                      rxq[i].cmd = Head(todo).expect
               PROVE  rxq[i].own
    BY Zenon DEF AnswerIsOwn
  <2>1. i \in 1..Len(rxq) /\ todo \in Seq(Requests) /\ todo # <<>>
    BY DEF TypeInv, IInv, Typed
  <2>2. Head(todo).expect # "FDT_STATUS"
    BY <2>1, HeadTyped
  <2> QED
    BY <2>1, <2>2, Zenon DEF Fresh, OwnAnswer
<1> QED
  BY <1>1, <1>2, <1>3, PTL DEF Spec
=============================================================================
