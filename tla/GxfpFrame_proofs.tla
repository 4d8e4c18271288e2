--------------------------- MODULE GxfpFrame_proofs ---------------------------
(***************************************************************************)
(* What the framing functions promise one another, for every payload.      *)
(***************************************************************************)
EXTENDS GxfpFrame, SequenceTheorems, TLAPS

\* A length that fits 16 bits is recovered from its two bytes.
LEMMA TwoBytes ==
    ASSUME NEW n \in Nat, n < 65536
    PROVE  /\ LowByte(n) \in Byte
           /\ HighByte(n) \in Byte
           /\ Number(LowByte(n), HighByte(n)) = n
  <1>1. n \div 256 \in Nat /\ n \div 256 < 256
    OBVIOUS
  <1>2. n = 256 * (n \div 256) + (n % 256) /\ n % 256 \in Nat /\ n % 256 < 256
    OBVIOUS
  <1>3. (n \div 256) % 256 = n \div 256
    BY <1>1
  <1> QED
    BY <1>1, <1>2, <1>3 DEF LowByte, HighByte, Number, Byte

\* The bytes of a frame: the header first, then the payload.
LEMMA FrameBytes ==
    ASSUME NEW S, NEW flags \in S, NEW low \in S, NEW high \in S,
           NEW ck \in S, NEW payload \in Seq(S),
           NEW f, f = <<flags, low, high, ck>> \o payload
    PROVE  /\ f \in Seq(S)
           /\ Len(f) = 4 + Len(payload)
           /\ f[1] = flags
           /\ f[2] = low
           /\ f[3] = high
           /\ f[4] = ck
           /\ \A i \in 1..Len(payload) : f[4 + i] = payload[i]
  <1>1. /\ <<flags, low, high, ck>> \in Seq(S)
        /\ Len(<<flags, low, high, ck>>) = 4
    OBVIOUS
  <1>2. f \in Seq(S) /\ Len(f) = 4 + Len(payload)
    BY <1>1, ConcatProperties
  <1>3. \A i \in 1..Len(payload) : f[4 + i] = payload[i]
    BY <1>1
  <1>4. f[1] = flags /\ f[2] = low /\ f[3] = high /\ f[4] = ck
    BY <1>1
  <1> QED
    BY <1>2, <1>3, <1>4

\* Cutting a sequence where another was put into it gives that other back.
LEMMA CutOut ==
    ASSUME NEW S, NEW f \in Seq(S), NEW payload \in Seq(S), NEW k \in Nat,
           NEW from, from = k + 1, NEW to, to = k + Len(payload),
           k + Len(payload) <= Len(f),
           \A i \in 1..Len(payload) : f[k + i] = payload[i]
    PROVE  SubSeq(f, from, to) = payload
  <1> DEFINE s == SubSeq(f, k + 1, k + Len(payload))
  <1>1. Len(payload) \in Nat /\ Len(f) \in Nat
    OBVIOUS
  <1>2. s \in Seq(S) /\ Len(s) = Len(payload)
    BY <1>1
  <1>3. \A i \in 1..Len(payload) : s[i] = payload[i]
    BY <1>1
  <1> QED
    BY <1>2, <1>3, SeqEqual

\* gxfp_parse_mp_frame reads back what gxfp_mp_build_frame wrote, for every
\* payload it accepts but the longest: the builder accepts a length of
\* GXFP_GOODIX_MP_LEN_MAX (it refuses with >), the parser refuses it (with
\* >=).
THEOREM FrameIsParsed ==
    ASSUME NEW S, NEW mp_type \in MpTypes, NEW payload \in Seq(S),
           NEW out_cap \in Nat,
           gxfp_mp_build_frame(mp_type, payload, out_cap) # <<>>
    PROVE  gxfp_parse_mp_frame(gxfp_mp_build_frame(mp_type, payload, out_cap))
             = IF Len(payload) < GXFP_GOODIX_MP_LEN_MAX
               THEN {[flags |-> 16 * mp_type, payload |-> payload]}
               ELSE {}
  <1> DEFINE n == Len(payload)
             flags == 16 * mp_type
             low == LowByte(n)
             high == HighByte(n)
             ck == (flags + low + high) % 256
             T == S \cup Byte
             f == <<flags, low, high, ck>> \o payload
  <1>1. n \in Nat /\ n < 65536
    BY DEF gxfp_mp_build_frame, GXFP_GOODIX_MP_LEN_MAX
  <1>2. /\ flags \in Byte /\ (16 * mp_type) % 256 = flags
        /\ flags \div 16 \in MpTypes
    BY DEF MpTypes, Byte
  <1>3. gxfp_mp_build_frame(mp_type, payload, out_cap) = f
    BY <1>2 DEF gxfp_mp_build_frame, MpHeader
  <1> HIDE DEF flags
  <1>4. low \in Byte /\ high \in Byte /\ Number(low, high) = n
    BY <1>1, TwoBytes
  <1> HIDE DEF low, high
  <1>5. ck = (flags + low + high) % 256 /\ ck \in Byte
    BY <1>2, <1>4 DEF Byte
  <1> HIDE DEF ck
  <1>6. /\ flags \in T /\ low \in T /\ high \in T /\ ck \in T
        /\ payload \in Seq(T)
    BY <1>2, <1>4, <1>5
  <1> HIDE DEF T
  <1>7. /\ f \in Seq(T)
        /\ Len(f) = 4 + n
        /\ f[1] = flags
        /\ f[2] = low
        /\ f[3] = high
        /\ f[4] = ck
        /\ \A i \in 1..n : f[4 + i] = payload[i]
    BY <1>6, FrameBytes, SMTT(30)
  <1> HIDE DEF f
  <1>8. 5 = 4 + 1 /\ 4 + n <= Len(f) /\ ~ (Len(f) < 4)
    BY <1>1, <1>7
  <1>9. SubSeq(f, 5, 4 + n) = payload
    BY <1>6, <1>7, <1>8, CutOut
  <1>10. gxfp_check_mp_head(f)
           = IF n < GXFP_GOODIX_MP_LEN_MAX THEN {n} ELSE {}
    BY <1>2, <1>4, <1>5, <1>7, ZenonT(30) DEF gxfp_check_mp_head
  <1>11. {k \in gxfp_check_mp_head(f) : 4 + k <= Len(f)}
           = gxfp_check_mp_head(f)
    BY <1>8, <1>10
  <1>12. gxfp_parse_mp_frame(f)
           = {[flags |-> f[1], payload |-> SubSeq(f, 5, 4 + len)] :
                  len \in gxfp_check_mp_head(f)}
    BY <1>8, <1>11 DEF gxfp_parse_mp_frame
  <1>13. CASE n < GXFP_GOODIX_MP_LEN_MAX
    <2>1. gxfp_check_mp_head(f) = {n}
      BY <1>10, <1>13
    <2>2. gxfp_parse_mp_frame(f)
            = {[flags |-> f[1], payload |-> SubSeq(f, 5, 4 + n)]}
      BY <1>12, <2>1
    <2>3. gxfp_parse_mp_frame(f) = {[flags |-> flags, payload |-> payload]}
      BY <2>2, <1>7, <1>9, Zenon
    <2> QED
      BY <1>3, <1>13, <2>3 DEF flags
  <1>14. CASE ~ (n < GXFP_GOODIX_MP_LEN_MAX)
    BY <1>3, <1>10, <1>12, <1>14
  <1> QED
    BY <1>13, <1>14

\* The bytes of a body: command, declared length, payload, checksum.
LEMMA BodyBytes ==
    ASSUME NEW S, NEW cmd \in S, NEW low \in S, NEW high \in S,
           NEW ck \in S, NEW payload \in Seq(S),
           NEW b, b = <<cmd, low, high>> \o payload \o <<ck>>
    PROVE  /\ b \in Seq(S)
           /\ Len(b) = 4 + Len(payload)
           /\ b[1] = cmd
           /\ b[2] = low
           /\ b[3] = high
           /\ b[4 + Len(payload)] = ck
           /\ \A i \in 1..Len(payload) : b[3 + i] = payload[i]
  <1> DEFINE a == <<cmd, low, high>> \o payload
  <1>1. Len(payload) \in Nat
    OBVIOUS
  <1>2. <<cmd, low, high>> \in Seq(S) /\ Len(<<cmd, low, high>>) = 3
    OBVIOUS
  <1>3. a \in Seq(S) /\ Len(a) = 3 + Len(payload)
    BY <1>2, ConcatProperties
  <1>4. a[1] = cmd /\ a[2] = low /\ a[3] = high
    BY <1>1, <1>2
  <1>5. \A i \in 1..Len(payload) : a[3 + i] = payload[i]
    BY <1>1, <1>2
  <1> HIDE DEF a
  <1>6. <<ck>> \in Seq(S) /\ Len(<<ck>>) = 1 /\ <<ck>>[1] = ck
    OBVIOUS
  <1>7. a \o <<ck>> \in Seq(S) /\ Len(a \o <<ck>>) = 4 + Len(payload)
    BY <1>1, <1>3, <1>6, ConcatProperties
  <1>8. \A i \in 1..Len(a) : (a \o <<ck>>)[i] = a[i]
    BY <1>3, <1>6
  <1>9. (a \o <<ck>>)[4 + Len(payload)] = ck
    BY <1>1, <1>3, <1>6
  <1>10. \A i \in 1..Len(payload) : (a \o <<ck>>)[3 + i] = payload[i]
    BY <1>1, <1>3, <1>5, <1>8
  <1>11. /\ (a \o <<ck>>)[1] = cmd
         /\ (a \o <<ck>>)[2] = low
         /\ (a \o <<ck>>)[3] = high
    BY <1>1, <1>3, <1>4, <1>8
  <1> QED
    BY <1>7, <1>9, <1>10, <1>11 DEF a

\* gxfp_parse_goodix_body reads back the command and the payload that
\* gxfp_goodix_build_frame wrote, and finds its checksum right.
THEOREM BodyIsParsed ==
    ASSUME NEW cmd \in Byte, NEW payload \in Seq(Byte), NEW out_cap \in Nat,
           gxfp_goodix_build_frame(cmd, payload, out_cap) # <<>>
    PROVE  gxfp_parse_goodix_body(gxfp_goodix_build_frame(cmd, payload, out_cap))
             = {[cmd |-> cmd, payload |-> payload, proto_checksum_ok |-> TRUE]}
  <1> DEFINE decl_len == 1 + Len(payload)
             low == LowByte(decl_len)
             high == HighByte(decl_len)
             ck == gxfp_goodix_proto_checksum(cmd, decl_len, payload)
             S == Byte \cup {ck}
             b == <<cmd, low, high>> \o payload \o <<ck>>
  <1>1. /\ Len(payload) \in Nat
        /\ decl_len \in Nat /\ decl_len >= 1 /\ decl_len < 65536
        /\ decl_len % 65536 = decl_len
    BY DEF gxfp_goodix_build_frame, GXFP_GOODIX_PAYLOAD_U16_MAX
  <1> HIDE DEF decl_len
  <1>2. gxfp_goodix_build_frame(cmd, payload, out_cap) = b
    BY <1>1, SMTT(30) DEF gxfp_goodix_build_frame, decl_len
  <1>3. low \in Byte /\ high \in Byte /\ Number(low, high) = decl_len
    BY <1>1, TwoBytes
  <1> HIDE DEF low, high, ck
  <1>4. /\ cmd \in S /\ low \in S /\ high \in S /\ ck \in S
        /\ payload \in Seq(S)
    BY <1>3
  <1> HIDE DEF S
  <1>5. /\ b \in Seq(S)
        /\ Len(b) = 4 + Len(payload)
        /\ b[1] = cmd
        /\ b[2] = low
        /\ b[3] = high
        /\ b[4 + Len(payload)] = ck
        /\ \A i \in 1..Len(payload) : b[3 + i] = payload[i]
    BY <1>4, BodyBytes
  <1> HIDE DEF b
  <1>6. /\ 4 = 3 + 1 /\ 2 + decl_len = 3 + Len(payload)
        /\ 3 + decl_len = 4 + Len(payload)
        /\ 3 + Len(payload) <= Len(b)
    BY <1>1, <1>5 DEF decl_len
  <1>7. SubSeq(b, 4, 2 + decl_len) = payload
    BY <1>4, <1>5, <1>6, CutOut
  <1>8. ~ (Len(b) < 4)
    BY <1>1, <1>5
  <1>9. {n \in {Number(b[2], b[3])} : n >= 1 /\ 3 + n <= Len(b)} = {decl_len}
    BY <1>1, <1>3, <1>5, <1>6
  <1>10. gxfp_parse_goodix_body(b)
           = {[cmd |-> b[1],
               payload |-> SubSeq(b, 4, 2 + decl_len),
               proto_checksum_ok |->
                   gxfp_goodix_proto_checksum(b[1], decl_len,
                                              SubSeq(b, 4, 2 + decl_len))
                       = b[3 + decl_len]]}
    BY <1>8, <1>9, Zenon DEF gxfp_parse_goodix_body
  <1>11. (gxfp_goodix_proto_checksum(b[1], decl_len,
                                     SubSeq(b, 4, 2 + decl_len))
             = b[3 + decl_len]) = TRUE
    BY <1>5, <1>6, <1>7, Zenon DEF ck
  <1> QED
    BY <1>2, <1>5, <1>7, <1>10, <1>11, Zenon

\* How long a body is.
LEMMA BodyLength ==
    ASSUME NEW cmd \in Byte, NEW payload \in Seq(Byte), NEW out_cap \in Nat,
           NEW body, body = gxfp_goodix_build_frame(cmd, payload, out_cap),
           body # <<>>
    PROVE  /\ \E S : body \in Seq(S)
           /\ Len(body) = 4 + Len(payload)
           /\ 4 + Len(payload) <= out_cap
  <1> DEFINE decl_len == (1 + Len(payload)) % 65536
             low == LowByte(decl_len)
             high == HighByte(decl_len)
             ck == gxfp_goodix_proto_checksum(cmd, decl_len, payload)
             S == Byte \cup {low, high, ck}
  <1>1. body = <<cmd, low, high>> \o payload \o <<ck>>
    BY DEF gxfp_goodix_build_frame
  <1>2. 4 + Len(payload) <= out_cap
    BY DEF gxfp_goodix_build_frame
  <1> HIDE DEF low, high, ck
  <1>3. /\ cmd \in S /\ low \in S /\ high \in S /\ ck \in S
        /\ payload \in Seq(S)
    OBVIOUS
  <1> HIDE DEF S
  <1>4. body \in Seq(S) /\ Len(body) = 4 + Len(payload)
    BY <1>1, <1>3, BodyBytes
  <1> QED
    BY <1>2, <1>4

\* What gxfp_xfer sends for a request is, to the parsers, a frame of type A
\* around a body with the command and the payload of the request and a right
\* checksum.
THEOREM RequestIsParsed ==
    ASSUME NEW cmd \in Byte, NEW payload \in Seq(Byte),
           Request(cmd, payload) # <<>>
    PROVE  \E body :
             /\ gxfp_parse_mp_frame(Request(cmd, payload))
                  = {[flags |-> 160, payload |-> body]}
             /\ gxfp_parse_goodix_body(body)
                  = {[cmd |-> cmd, payload |-> payload,
                      proto_checksum_ok |-> TRUE]}
  <1> DEFINE body == gxfp_goodix_build_frame(cmd, payload, GXFP_TX_BUFFER_SIZE)
             frame == gxfp_mp_build_frame(10, body, GXFP_TX_BUFFER_SIZE)
  <1>1. GXFP_TX_BUFFER_SIZE \in Nat /\ 10 \in MpTypes /\ 16 * 10 = 160
    BY DEF GXFP_TX_BUFFER_SIZE, MpTypes
  <1>2. body # <<>> /\ Request(cmd, payload) = frame
    BY DEF Request
  <1>3. gxfp_parse_goodix_body(body)
          = {[cmd |-> cmd, payload |-> payload, proto_checksum_ok |-> TRUE]}
    BY <1>1, <1>2, BodyIsParsed
  <1> HIDE DEF body
  <1>4. /\ \E S : body \in Seq(S)
        /\ Len(body) = 4 + Len(payload)
        /\ 4 + Len(payload) <= GXFP_TX_BUFFER_SIZE
    BY <1>1, <1>2, BodyLength DEF body
  <1>5. PICK S : body \in Seq(S)
    BY <1>4
  <1>6. Len(body) < GXFP_GOODIX_MP_LEN_MAX
    BY <1>4 DEF GXFP_TX_BUFFER_SIZE, GXFP_GOODIX_MP_LEN_MAX
  <1>7. gxfp_parse_mp_frame(frame)
          = IF Len(body) < GXFP_GOODIX_MP_LEN_MAX
            THEN {[flags |-> 16 * 10, payload |-> body]} ELSE {}
    BY <1>1, <1>2, <1>5, FrameIsParsed
  <1> QED
    BY <1>1, <1>2, <1>3, <1>6, <1>7

\* A frame is transferred when it and its padding fit behind the wrapper:
\* when it has at most 504 bytes.
LEMMA TransferLimit ==
    ASSUME NEW S, NEW frame \in Seq(S), NEW seq16 \in Nat, Len(frame) > 0
    PROVE  gxfp_espi_write(frame, seq16) # <<>> <=> Len(frame) <= 504
  <1> DEFINE n == Len(frame)
             pad == [i \in 1..Pad(n) |-> 0]
             wrapper == MpHeader(240, n) \o <<LowByte(seq16), HighByte(seq16), 0, 0>>
  <1>1. n \in Nat /\ n # 0
    OBVIOUS
  <1> HIDE DEF n
  <1>2. PICK q \in Nat, r \in Nat : n = 8 * q + r /\ r < 8 /\ n % 8 = r
    BY <1>1
  <1>3. Pad(n) = IF r = 0 THEN 0 ELSE 8 - r
    BY <1>2 DEF Pad, GXFP_ESPI_ALIGN
  <1>4. Pad(n) \in Nat /\ (8 + n + Pad(n) > 512 <=> n > 504)
    BY <1>2, <1>3
  <1>5. wrapper \o frame \o pad # <<>>
    <2> DEFINE a == MpHeader(240, n)
               b == <<LowByte(seq16), HighByte(seq16), 0, 0>>
               U == S \cup {a[1], a[2], a[3], a[4], b[1], b[2], 0}
    <2>1. a \in Seq(U) /\ b \in Seq(U) /\ frame \in Seq(U) /\ pad \in Seq(U)
      <3>1. a \in Seq(U)
        BY DEF MpHeader
      <3>2. pad \in Seq(U)
        BY <1>4
      <3> QED
        BY <3>1, <3>2
    <2> HIDE DEF a, b, U, pad
    <2>2. a \o b \in Seq(U) /\ (a \o b) \o frame \in Seq(U)
      BY <2>1
    <2>3. Len((a \o b) \o frame \o pad) = Len(a) + Len(b) + Len(frame) + Len(pad)
      BY <2>1, <2>2
    <2>4. Len((a \o b) \o frame \o pad) > 0
      BY <2>1, <2>3, <1>1 DEF n
    <2> QED
      BY <2>4 DEF a, b
  <1>6. gxfp_espi_write(frame, seq16)
          = IF n = 0 \/ 8 + n + Pad(n) > 512 THEN <<>>
            ELSE wrapper \o frame \o pad
    BY DEF gxfp_espi_write, GXFP_TX_BUFFER_SIZE, n
  <1> HIDE DEF wrapper, pad
  <1> QED
    BY <1>1, <1>4, <1>5, <1>6 DEF n

\* write(2) sends a payload exactly when it has at most 500 bytes.  The
\* driver's own limit, GXFP_IOCTL_TX_PAYLOAD_MAX, is 508: the payloads in
\* between pass gxfp_uapi_write's check and are refused by gxfp_espi_write,
\* which counts its wrapper and the padding.
THEOREM WriteLimit ==
    ASSUME NEW mp_flags \in Byte, NEW payload \in Seq(Byte),
           NEW seq16 \in Nat
    PROVE  gxfp_uapi_write(mp_flags, payload, seq16) # <<>>
             <=> Len(payload) <= 500
  <1> DEFINE n == Len(payload)
             low == LowByte(n)
             high == HighByte(n)
             ck == (mp_flags + low + high) % 256
             S == Byte \cup {low, high, ck}
             frame == <<mp_flags, low, high, ck>> \o payload
  <1>1. n \in Nat
    OBVIOUS
  <1>2. gxfp_uapi_write(mp_flags, payload, seq16)
          = IF n > 508 THEN <<>> ELSE gxfp_espi_write(frame, seq16)
    BY DEF gxfp_uapi_write, GXFP_IOCTL_TX_PAYLOAD_MAX, MpHeader
  <1> HIDE DEF low, high, ck
  <1>3. /\ mp_flags \in S /\ low \in S /\ high \in S /\ ck \in S
        /\ payload \in Seq(S)
    OBVIOUS
  <1> HIDE DEF S
  <1>4. frame \in Seq(S) /\ Len(frame) = 4 + n
    BY <1>3, FrameBytes
  <1> HIDE DEF frame
  <1>5. gxfp_espi_write(frame, seq16) # <<>> <=> Len(frame) <= 504
    BY <1>1, <1>4, TransferLimit
  <1> QED
    BY <1>1, <1>2, <1>4, <1>5

\* A request of gxfp_xfer reaches the mailbox exactly when its payload has at
\* most 496 bytes.  The two builders, which only have the size of the buffer
\* to go by, accept up to 504.
THEOREM RequestLimit ==
    ASSUME NEW cmd \in Byte, NEW payload \in Seq(Byte), NEW seq16 \in Nat
    PROVE  gxfp_espi_write(Request(cmd, payload), seq16) # <<>>
             <=> Len(payload) <= 496
  <1> DEFINE n == Len(payload)
             body == gxfp_goodix_build_frame(cmd, payload, GXFP_TX_BUFFER_SIZE)
             flags == (16 * 10) % 256
             low == LowByte(Len(body))
             high == HighByte(Len(body))
             ck == (flags + low + high) % 256
             frame == <<flags, low, high, ck>> \o body
  <1>1. n \in Nat /\ GXFP_TX_BUFFER_SIZE = 512 /\ GXFP_TX_BUFFER_SIZE \in Nat
    BY DEF GXFP_TX_BUFFER_SIZE
  <1>2. CASE n > 504
    <2>1. Request(cmd, payload) = <<>>
      <3>1. CASE body = <<>>
        BY <3>1 DEF Request
      <3>2. CASE body # <<>>
        <4> HIDE DEF body
        <4>1. Len(body) = 4 + n
          BY <1>1, <3>2, BodyLength DEF body
        <4>2. 4 + Len(body) > GXFP_TX_BUFFER_SIZE
          BY <1>1, <1>2, <4>1
        <4> QED
          BY <4>2 DEF Request, gxfp_mp_build_frame, body
      <3> QED
        BY <3>1, <3>2
    <2>2. gxfp_espi_write(<<>>, seq16) = <<>>
      BY DEF gxfp_espi_write
    <2> QED
      BY <1>1, <1>2, <2>1, <2>2
  <1>3. CASE n <= 504
    <2>1. body # <<>>
      <3> DEFINE d == (1 + Len(payload)) % 65536
                 l == LowByte(d)
                 h == HighByte(d)
                 k == gxfp_goodix_proto_checksum(cmd, d, payload)
                 S == Byte \cup {l, h, k}
                 b == <<cmd, l, h>> \o payload \o <<k>>
      <3>1. body = b
        BY <1>1, <1>3 DEF gxfp_goodix_build_frame, GXFP_GOODIX_PAYLOAD_U16_MAX
      <3> HIDE DEF body, l, h, k
      <3>2. /\ cmd \in S /\ l \in S /\ h \in S /\ k \in S
            /\ payload \in Seq(S)
        OBVIOUS
      <3> HIDE DEF S
      <3>3. b \in Seq(S) /\ Len(b) = 4 + Len(payload)
        BY <3>2, BodyBytes
      <3> HIDE DEF b
      <3> QED
        BY <1>1, <3>1, <3>3
    <2> HIDE DEF body
    <2>2. PICK S : body \in Seq(S)
      BY <1>1, <2>1, BodyLength DEF body
    <2>3. Len(body) = 4 + n
      BY <1>1, <2>1, BodyLength DEF body
    <2>4. Request(cmd, payload) = frame
      BY <1>1, <1>3, <2>1, <2>3
      DEF Request, gxfp_mp_build_frame, MpHeader, MpTypes, body,
          GXFP_GOODIX_MP_LEN_MAX
    <2> DEFINE T == S \cup {flags, low, high, ck}
    <2> HIDE DEF flags, low, high, ck
    <2>5. /\ flags \in T /\ low \in T /\ high \in T /\ ck \in T
          /\ body \in Seq(T)
      BY <2>2
    <2> HIDE DEF T
    <2>6. frame \in Seq(T) /\ Len(frame) = 4 + Len(body)
      BY <2>5, FrameBytes
    <2> HIDE DEF frame
    <2>7. gxfp_espi_write(frame, seq16) # <<>> <=> Len(frame) <= 504
      BY <1>1, <2>3, <2>6, TransferLimit
    <2> QED
      BY <1>1, <2>3, <2>4, <2>6, <2>7
  <1> QED
    BY <1>1, <1>2, <1>3
=============================================================================
