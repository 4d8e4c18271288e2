------------------------------ MODULE GxfpFrame ------------------------------
(***************************************************************************)
(* The framing of what the driver sends and reads, as functions on bytes. *)
(* A request is a Goodix body (command, declared length, payload,          *)
(* checksum) inside an MP frame (flags, length, header checksum, body)     *)
(* inside a mailbox transfer (eSPI wrapper, frame, padding).               *)
(*                                                                         *)
(* A build function returns the bytes it wrote, or <<>> where the code     *)
(* returns an error.  A parse function returns the set of what it parsed:  *)
(* empty where the code returns false, otherwise one element.              *)
(***************************************************************************)
EXTENDS Integers, Sequences

Byte == {b \in Nat : b < 256}

GXFP_GOODIX_MP_LEN_MAX == 27648        \* 0x6c00
GXFP_GOODIX_PAYLOAD_U16_MAX == 65280   \* 0xff00
GXFP_IOCTL_TX_PAYLOAD_MAX == 508
GXFP_TX_BUFFER_SIZE == 512
GXFP_ESPI_ALIGN == 8
MpTypes == {10, 11, 12}                \* GXFP_MP_TYPE_A, _B, _C

\* A 16 bit number in two bytes, the low one first.
LowByte(n) == n % 256
HighByte(n) == (n \div 256) % 256
Number(low, high) == low + 256 * high

------------------------------------------------------------------------------
\* MP frames

\* The header every sender writes: flags, length, and the sum of the three
\* bytes before it.
MpHeader(flags, len) ==
    <<flags, LowByte(len), HighByte(len),
      (flags + LowByte(len) + HighByte(len)) % 256>>

gxfp_mp_build_frame(mp_type, payload, out_cap) ==
    IF \/ out_cap < 4
       \/ Len(payload) > GXFP_GOODIX_MP_LEN_MAX
       \/ mp_type \notin MpTypes
       \/ 4 + Len(payload) > out_cap
    THEN <<>>
    ELSE MpHeader((16 * mp_type) % 256, Len(payload)) \o payload

\* The set of the length the header declares.
gxfp_check_mp_head(buf) ==
    {len \in {Number(buf[2], buf[3])} :
        /\ buf[1] \div 16 \in MpTypes
        /\ len < GXFP_GOODIX_MP_LEN_MAX
        /\ buf[4] = (buf[1] + buf[2] + buf[3]) % 256}

gxfp_parse_mp_frame(buf) ==
    IF Len(buf) < 4
    THEN {}
    ELSE {[flags |-> buf[1], payload |-> SubSeq(buf, 5, 4 + len)] :
             len \in {n \in gxfp_check_mp_head(buf) : 4 + n <= Len(buf)}}

------------------------------------------------------------------------------
\* Goodix bodies

gxfp_goodix_proto_checksum(cmd, decl_len, payload) ==
    LET sum[i \in 0..Len(payload)] ==
            IF i = 0 THEN cmd + LowByte(decl_len) + HighByte(decl_len)
                     ELSE sum[i - 1] + payload[i]
    IN  (170 - sum[Len(payload)]) % 256

gxfp_goodix_build_frame(cmd, payload, out_cap) ==
    LET decl_len == (1 + Len(payload)) % 65536
    IN  IF \/ out_cap < 4
           \/ Len(payload) > GXFP_GOODIX_PAYLOAD_U16_MAX
           \/ 4 + Len(payload) > out_cap
        THEN <<>>
        ELSE <<cmd, LowByte(decl_len), HighByte(decl_len)>> \o payload
             \o <<gxfp_goodix_proto_checksum(cmd, decl_len, payload)>>

\* The payload a body declares, if the body is long enough to hold it.
gxfp_parse_goodix_body(buf) ==
    IF Len(buf) < 4
    THEN {}
    ELSE {[cmd |-> buf[1],
           payload |-> SubSeq(buf, 4, 2 + decl_len),
           proto_checksum_ok |->
               gxfp_goodix_proto_checksum(buf[1], decl_len,
                                          SubSeq(buf, 4, 2 + decl_len))
                   = buf[3 + decl_len]] :
             decl_len \in {n \in {Number(buf[2], buf[3])} :
                              n >= 1 /\ 3 + n <= Len(buf)}}

------------------------------------------------------------------------------
\* The way to the mailbox

\* The bytes added to a frame of n bytes so that it fills whole words.
Pad(n) == (GXFP_ESPI_ALIGN - (n % GXFP_ESPI_ALIGN)) % GXFP_ESPI_ALIGN

\* The transfer of a frame with sequence number seq16.
gxfp_espi_write(mp_frame, seq16) ==
    LET n == Len(mp_frame)
    IN  IF n = 0 \/ 8 + n + Pad(n) > GXFP_TX_BUFFER_SIZE
        THEN <<>>
        ELSE MpHeader(240, n)
             \o <<LowByte(seq16), HighByte(seq16), 0, 0>>
             \o mp_frame \o [i \in 1..Pad(n) |-> 0]

\* write(2) of a header with mp_flags and of the payload behind it.
gxfp_uapi_write(mp_flags, payload, seq16) ==
    IF Len(payload) > GXFP_IOCTL_TX_PAYLOAD_MAX
    THEN <<>>
    ELSE gxfp_espi_write(MpHeader(mp_flags, Len(payload)) \o payload, seq16)

\* The frame gxfp_xfer builds for a request, in two buffers of the size of
\* the mailbox.
Request(cmd, payload) ==
    LET body == gxfp_goodix_build_frame(cmd, payload, GXFP_TX_BUFFER_SIZE)
    IN  IF body = <<>>
        THEN <<>>
        ELSE gxfp_mp_build_frame(10, body, GXFP_TX_BUFFER_SIZE)
==============================================================================
