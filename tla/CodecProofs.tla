------------------------------ MODULE CodecProofs ------------------------------
(* The writers and the readers of Codec, for every set of documented calls,     *)
(* every content of the device's tables, every part of a PDU that arrives and   *)
(* every byte that follows it.  Then CRC16, for every message: it computes the  *)
(* remainder by which Modbus defines it, and tells every change of one byte.    *)
EXTENDS Codec, WireLemmas

\* A reply is not the exception whose code means success.
NotExceptionZero(p) == Len(p) >= 2 /\ (p[1] < 128 \/ p[2] # modbus_exception_code.success)

Inv ==
  /\ call \in Calls /\ side \in {"request", "reply", "short"}
  /\ pdu \in Seq(Byte) /\ wire \in Seq(Byte) /\ Arrived(wire, pdu)
  /\ side # "short" => pdu = Written(call, side)
  /\ side # "request" => NotExceptionZero(pdu)

\* What honesty of a reply asks besides: spans as long as the bits that are read into them, and
\* no value of a register that the reader of its response refuses.
Readable == \A c \in Calls : SpanIsSnug(c) /\ EchoIsAccepted(c)

\* The function codes of the documented calls.
LEMMA CallFacts ==
  ASSUME NEW c \in Calls
  PROVE  /\ c \in Call /\ Documented(c) /\ c.slave \in Byte /\ c.size \in Nat
         /\ c.fc \in {1, 2, 3, 4, 5, 6, 15, 16, 23} /\ c.fc \in Byte
<1>1. c \in Call /\ Documented(c)
  BY CallsDocumented
<1>2. c.slave \in Byte /\ c.size \in Nat /\ c.fc \in {l.fc : l \in pdu_req}
  BY ONLY <1>1 DEF Call
<1>3. c.fc \in {1, 2, 3, 4, 5, 6, 15, 16, 23}
  BY ONLY <1>2 DEF pdu_req, function_code, read_coils_pdu_req, read_discrete_inputs_pdu_req,
      read_holding_pdu_req, read_input_pdu_req, write_single_coil_pdu_req,
      write_single_register_pdu_req, write_multiple_coils_pdu_req,
      write_multiple_registers_pdu_req, read_write_multiple_registers_pdu_req
<1> QED
  BY ONLY <1>1, <1>2, <1>3 DEF Byte

\* The longest request of a documented call: 0x0F, 0x10 and 0x17 at their limits.
LEMMA RequestSize ==
  ASSUME NEW c \in Calls
  PROVE  LET n == Len(WriteReq(RequestOf(c))) IN n \in Nat /\ 5 <= n /\ n <= 252
<1> DEFINE r == RequestOf(c)
<1>1. /\ c \in Call /\ Documented(c) /\ c.fc \in {1, 2, 3, 4, 5, 6, 15, 16, 23}
      /\ c.values \in Seq(U16)
  BY CallFacts DEF Call
<1>2. PICK l \in pdu_req : /\ l.fc = c.fc
                           /\ r = Request(l, r.words, r.byte_count, r.values)
                           /\ WellFormed(l, r.words, r.byte_count, r.values)
  BY ONLY <1>1, RequestOfWellFormed
<1> DEFINE w == r.words
           n == r.byte_count
           v == r.values
           s == WriteReq(Request(l, w, n, v))
           k == Len(c.values)
<1>3. k \in Nat
  BY ONLY <1>1
<1>4. /\ l.fc = 23 => l.words = 4 /\ l.unit # 0
      /\ l.fc \in {15, 16} => l.words = 2 /\ l.unit # 0
      /\ l.fc \notin {15, 16, 23} => l.words = 2 /\ l.unit = 0
  BY DEF pdu_req, function_code, read_coils_pdu_req, read_discrete_inputs_pdu_req,
      read_holding_pdu_req, read_input_pdu_req, write_single_coil_pdu_req,
      write_single_register_pdu_req, write_multiple_coils_pdu_req,
      write_multiple_registers_pdu_req, read_write_multiple_registers_pdu_req
<1>5. c.fc = 15 => n \in Nat /\ n <= 246
  <2> SUFFICES ASSUME c.fc = 15 PROVE n \in Nat /\ n <= 246
    OBVIOUS
  <2>1. 1 <= k /\ k <= 1968
    BY <1>1 DEF Documented, function_code
  <2>2. n = u8((u16(k) - 1) \div 8 + 1)
    BY DEF RequestOf, write_multiple_coils, Request, function_code
  <2> HIDE DEF n, k
  <2>3. u16(k) = k
    BY ONLY <1>3, <2>1, Casts
  <2> DEFINE g == (k - 1) \div 8 + 1
  <2>4. g \in Nat /\ g <= 246
    BY ONLY <1>3, <2>1
  <2>5. n = u8(g)
    BY ONLY <2>2, <2>3
  <2> HIDE DEF g
  <2> QED
    BY ONLY <2>4, <2>5, Casts
<1>6. c.fc = 16 => n \in Nat /\ n <= 246
  <2> SUFFICES ASSUME c.fc = 16 PROVE n \in Nat /\ n <= 246
    OBVIOUS
  <2>1. 1 <= k /\ k <= 123
    BY <1>1 DEF Documented, function_code
  <2>2. n = u8(u16(k) * 2)
    BY DEF RequestOf, write_multiple_registers, Request, function_code
  <2> HIDE DEF n, k
  <2>3. u16(k) = k
    BY ONLY <1>3, <2>1, Casts
  <2>4. u8(k * 2) = k * 2
    BY ONLY <1>3, <2>1, Casts
  <2> QED
    BY ONLY <1>3, <2>1, <2>2, <2>3, <2>4
<1>7. c.fc = 23 => n \in Nat /\ n <= 242
  <2> SUFFICES ASSUME c.fc = 23 PROVE n \in Nat /\ n <= 242
    OBVIOUS
  <2>1. 1 <= k /\ k <= 121
    BY <1>1 DEF Documented, function_code
  <2>2. n = u8(u16(k) * 2)
    BY DEF RequestOf, read_write_multiple_registers, Request, function_code
  <2> HIDE DEF n, k
  <2>3. u16(k) = k
    BY ONLY <1>3, <2>1, Casts
  <2>4. u8(k * 2) = k * 2
    BY ONLY <1>3, <2>1, Casts
  <2> QED
    BY ONLY <1>3, <2>1, <2>2, <2>3, <2>4
<1> HIDE DEF r, w, n, v
<1>8. WellFormed(l, w, n, v) /\ r = Request(l, w, n, v)
  BY ONLY <1>2 DEF w, n, v
<1>9. Len(s) = 1 + 2 * l.words + (IF l.unit = 0 THEN 0 ELSE 1 + n)
  BY ONLY <1>8, WriteReqParts
<1>10. s = WriteReq(r)
  BY ONLY <1>8
<1> HIDE DEF s
<1>11. Len(s) \in Nat /\ 5 <= Len(s) /\ Len(s) <= 252
  <2>1. CASE c.fc = 23
    BY ONLY <1>2, <1>4, <1>7, <1>9, <2>1
  <2>2. CASE c.fc \in {15, 16}
    BY ONLY <1>2, <1>4, <1>5, <1>6, <1>9, <2>2
  <2>3. CASE c.fc \notin {15, 16, 23}
    BY ONLY <1>2, <1>4, <1>9, <2>3
  <2> QED
    BY ONLY <2>1, <2>2, <2>3
<1> QED
  BY ONLY <1>10, <1>11 DEF r

\* Whatever bytes arrive: a plain read or a write that reports success has filled the caller's
\* span, unless the bytes are an exception whose code is that of success.
LEMMA SuccessFillsSpan ==
  ASSUME NEW c \in Calls, c.fc # 23, NEW s \in Seq(Byte),
         ~ (Len(s) >= 2 /\ s[1] >= 128 /\ s[2] = modbus_exception_code.success),
         NEW r, r = ReadResp(c.fc, c.size, s), Return(c, r).ec = modbus_exception_code.success
  PROVE  Len(r.values) = c.size
<1> DEFINE OK == modbus_exception_code.success
           TooMany == modbus_exception_code.too_many_bytes_received
           Invalid == modbus_exception_code.invalid_response
<1>1. /\ c \in Call /\ Documented(c) /\ c.size \in Nat
      /\ c.fc \in {1, 2, 3, 4, 5, 6, 15, 16}
  BY CallFacts
<1>2. OK # TooMany /\ OK # Invalid
  BY DEF modbus_exception_code
<1> HIDE DEF OK, TooMany, Invalid
<1>3. r.ec = OK /\ (SizeChecked(c.fc) => r.byte_count = c.size)
  <2>1. Return(c, r).ec = IF r.ec = OK /\ SizeChecked(c.fc) /\ r.byte_count # c.size THEN Invalid ELSE r.ec
    BY ONLY Zenon DEF Return, OK, Invalid
  <2> QED
    BY <1>2, <2>1 DEF OK
<1>4. Len(s) \in Nat /\ (s # <<>> => Len(s) >= 1 /\ s[1] \in Nat) /\ (Len(s) >= 2 => s[2] \in Nat)
  BY DEF Byte
<1>5. s # <<>>
  <2>1. s = <<>> => r = Reading(TooMany, u8(c.size), <<>>, 0)
    BY Zenon DEF ReadResp, TooMany
  <2> QED
    BY ONLY <1>2, <1>3, <2>1 DEF Reading
<1>6. ~ (s[1] >= 128)
  <2> SUFFICES ASSUME s[1] >= 128 PROVE FALSE
    OBVIOUS
  <2>1. CASE Len(s) < 2
    <3>1. r = Reading(TooMany, u8(c.size), <<>>, 1)
      BY ONLY <1>5, <2>1, s[1] >= 128, r = ReadResp(c.fc, c.size, s), Zenon DEF ReadResp, TooMany
    <3> QED
      BY ONLY <1>2, <1>3, <3>1 DEF Reading
  <2>2. CASE ~ (Len(s) < 2)
    <3>1. r = Reading(s[2], u8(c.size), <<>>, 2)
      BY ONLY <1>5, <2>2, s[1] >= 128, r = ReadResp(c.fc, c.size, s), Zenon DEF ReadResp
    <3>2. r.ec = s[2]
      BY ONLY <3>1 DEF Reading
    <3>3. Len(s) >= 2
      BY ONLY <1>4, <2>2
    <3> QED
      BY <1>3, <3>2, <3>3 DEF OK
  <2> QED
    BY ONLY <2>1, <2>2
<1>7. s[1] = c.fc
  <2>1. s[1] # c.fc => r = Reading(Invalid, u8(c.size), <<>>, 1)
    BY ONLY <1>5, <1>6, r = ReadResp(c.fc, c.size, s), Zenon DEF ReadResp, Invalid
  <2> QED
    BY ONLY <1>2, <1>3, <2>1 DEF Reading
<1>8. r = IF RespClass(c.fc).kind = "values" THEN ReadValues(c.size, s)
          ELSE ReadEcho(RespClass(c.fc).kind, s)
  BY ONLY <1>5, <1>6, <1>7, r = ReadResp(c.fc, c.size, s), Zenon DEF ReadResp
<1>9. CASE c.fc \in {1, 2, 3, 4}
  <2>1. RespClass(c.fc).kind = "values"
    BY ONLY <1>9, RespKinds
  <2>2. r = ReadValues(c.size, s)
    BY ONLY <1>8, <2>1
  <2>3. SizeChecked(c.fc)
    BY ONLY <1>9 DEF SizeChecked, function_code
  <2>4. ~ (Len(s) < 2)
    <3>1. Len(s) < 2 => r = Reading(TooMany, u8(c.size), <<>>, 1)
      BY ONLY <2>2, Zenon DEF ReadValues, TooMany
    <3> QED
      BY ONLY <1>2, <1>3, <3>1 DEF Reading
  <2>5. ~ (s[2] > c.size)
    <3>1. s[2] > c.size => r = Reading(TooMany, s[2], <<>>, 2)
      BY ONLY <2>2, <2>4, Zenon DEF ReadValues, TooMany
    <3> QED
      BY ONLY <1>2, <1>3, <3>1 DEF Reading
  <2>6. ~ (Len(s) < 2 + s[2])
    <3>1. Len(s) < 2 + s[2] => r = Reading(TooMany, s[2], Drop(s, 2), Len(s))
      BY ONLY <2>2, <2>4, <2>5, Zenon DEF ReadValues, TooMany
    <3> QED
      BY ONLY <1>2, <1>3, <3>1 DEF Reading
  <2>7. r = Reading(OK, s[2], SubSeq(s, 3, 2 + s[2]), 2 + s[2])
    BY ONLY <2>2, <2>4, <2>5, <2>6, Zenon DEF ReadValues, OK
  <2>8. r.byte_count = s[2] /\ r.values = SubSeq(s, 3, 2 + s[2])
    BY ONLY <2>7 DEF Reading
  <2>9. Len(SubSeq(s, 3, 2 + s[2])) = s[2]
    <3>1. s[2] \in Nat
      BY ONLY <1>4, <2>4
    <3>2. PICK n \in Nat : n = s[2]
      BY ONLY <3>1
    <3>3. Len(SubSeq(s, 3, 2 + n)) = n
      BY ONLY <1>4, <2>6, <3>2, s \in Seq(Byte)
    <3> QED
      BY ONLY <3>2, <3>3
  <2> QED
    BY ONLY <1>3, <2>3, <2>8, <2>9
<1>10. CASE c.fc \in {5, 6, 15, 16}
  <2>1. c.size = 0
    BY ONLY <1>1, <1>10, WritesStoreNothing
  <2>2. RespClass(c.fc).kind # "values"
    BY ONLY <1>10, RespKinds
  <2>3. r = ReadEcho(RespClass(c.fc).kind, s)
    BY ONLY <1>8, <2>2
  <2>4. ReadEcho(RespClass(c.fc).kind, s).values = <<>>
    BY ONLY DEF ReadEcho, Reading
  <2>5. Len(<<>>) = 0
    OBVIOUS
  <2> QED
    BY ONLY <2>1, <2>3, <2>4, <2>5
<1> QED
  BY ONLY <1>1, <1>9, <1>10

\* What the device writes in reply to a documented call.
LEMMA ReplyFacts ==
  ASSUME NEW c \in Calls, NEW p, p = Serve(InitMem, RequestOf(c)).pdu
  PROVE  p \in Seq(Byte) /\ NotExceptionZero(p)
<1> DEFINE rep == Serve(InitMem, RequestOf(c))
           Bad == modbus_exception_code.illegal_data_address
<1>1. /\ c \in Call /\ Documented(c) /\ c.fc \in Byte /\ InitMem \in Memory
      /\ Bad \in Byte /\ Bad # modbus_exception_code.success
  BY CallFacts, InitMemTyped DEF Byte, modbus_exception_code
<1>2. /\ Valid(InitMem, c) /\ c.fc \in {1, 2, 3, 4, 23} => IsListReply(InitMem, c, rep)
      /\ Valid(InitMem, c) /\ c.fc \in {5, 6, 15, 16} => IsEchoReply(InitMem, c, rep)
      /\ ~ Valid(InitMem, c) => rep.mem = InitMem /\ rep.pdu = WriteException(c.fc, Bad)
      /\ c.fc \in {1, 2, 3, 4, 5, 6, 15, 16, 23}
  BY ONLY <1>1, ServeMeaning
<1>3. IsReply(rep, ReplySize(c))
  BY ONLY <1>1, ServeType
<1>4. rep.pdu \in Seq(Byte) /\ Len(rep.pdu) >= 2
  BY ONLY <1>3 DEF IsReply
<1> HIDE DEF rep
<1>5. CASE Valid(InitMem, c) /\ c.fc \in {1, 2, 3, 4, 23}
  <2>1. PICK v \in Seq(Byte) : rep.pdu = WriteValues(c.fc, v)
    BY ONLY <1>2, <1>5 DEF IsListReply
  <2>2. rep.pdu[1] = c.fc
    BY ONLY <2>1 DEF WriteValues
  <2> QED
    BY <1>4, <1>5, <2>2 DEF NotExceptionZero, rep
<1>6. CASE Valid(InitMem, c) /\ c.fc \in {5, 6, 15, 16}
  <2>1. PICK a, b \in U16 : rep.pdu = WriteEcho(c.fc, a, b)
    BY ONLY <1>2, <1>6 DEF IsEchoReply
  <2>2. rep.pdu[1] = c.fc
    <3>1. WordBytes(<<a, b>>) \in Seq(Byte) /\ <<c.fc>> \in Seq(Byte) /\ 1 \in 1 .. Len(<<c.fc>>)
      <4>1. <<a, b>> \in Seq(U16)
        OBVIOUS
      <4>2. WordBytes(<<a, b>>) \in Seq(Byte)
        BY ONLY <4>1, WordBytesType
      <4> QED
        BY ONLY <1>1, <4>2
    <3>2. (<<c.fc>> \o WordBytes(<<a, b>>))[1] = <<c.fc>>[1]
      BY ONLY <3>1, ConcatAt
    <3> QED
      BY ONLY <2>1, <3>2 DEF WriteEcho
  <2> QED
    BY <1>4, <1>6, <2>2 DEF NotExceptionZero, rep
<1>7. CASE ~ Valid(InitMem, c)
  <2>1. rep.pdu = WriteException(c.fc, Bad)
    BY ONLY <1>2, <1>7
  <2>2. u8(Bad) = Bad
    BY ONLY <1>1, Casts DEF Byte
  <2>3. rep.pdu[2] = Bad
    BY ONLY <2>1, <2>2 DEF WriteException
  <2> QED
    BY <1>1, <1>4, <2>3 DEF NotExceptionZero, rep
<1> QED
  BY ONLY <1>2, <1>5, <1>6, <1>7

--------------------------------------------------------------------------------
\* All of a PDU arrived.
LEMMA WholeArrived == ASSUME NEW p \in Seq(Byte) PROVE Arrived(p, p)
  BY DEF Arrived

\* A PDU as it is written.
LEMMA InitInv == Init => Inv
<1> SUFFICES ASSUME Init PROVE Inv
  OBVIOUS
<1>1. /\ call \in Calls /\ side \in {"request", "reply"} /\ pdu = Written(call, side) /\ wire = pdu
  BY DEF Init
<1>2. CASE side = "request"
  <2>1. pdu = WriteReq(RequestOf(call))
    BY ONLY <1>1, <1>2 DEF Written
  <2>2. call \in Call /\ Documented(call)
    BY <1>1, CallFacts
  <2>3. pdu \in Seq(Byte)
    BY ONLY <2>1, <2>2, DocumentedBytes
  <2>4. Arrived(pdu, pdu)
    BY ONLY <2>3, WholeArrived
  <2> QED
    BY ONLY <1>1, <1>2, <2>3, <2>4 DEF Inv
<1>3. CASE side = "reply"
  <2>1. pdu = Serve(InitMem, RequestOf(call)).pdu
    BY ONLY <1>1, <1>3 DEF Written
  <2>2. pdu \in Seq(Byte) /\ NotExceptionZero(pdu)
    BY ONLY <1>1, <2>1, ReplyFacts
  <2>3. Arrived(pdu, pdu)
    BY ONLY <2>2, WholeArrived
  <2> QED
    BY ONLY <1>1, <1>3, <2>2, <2>3 DEF Inv
<1> QED
  BY ONLY <1>1, <1>2, <1>3

\* A list that the device cut short is a list.
LEMMA ShortenInv == ASSUME Inv, Shorten PROVE Inv'
<1>1. PICK n \in Missing :
        /\ pdu' = WriteValues(call.fc, SubSeq(pdu, 3, Len(pdu) - n))
        /\ side' = "short" /\ wire' = pdu' /\ call' = call /\ RespClass(call.fc).kind = "values"
  BY DEF Shorten
<1>2. n \in Nat /\ call \in Calls /\ pdu \in Seq(Byte)
  BY MissingTyped DEF Inv
<1>3. call.fc \in Byte /\ call.fc \in {1, 2, 3, 4, 5, 6, 15, 16, 23}
  BY ONLY <1>2, CallFacts
<1> DEFINE v == SubSeq(pdu, 3, Len(pdu) - n)
<1>4. v \in Seq(Byte)
  BY ONLY <1>2
<1> HIDE DEF v
<1>5. WriteValues(call.fc, v) \in Seq(Byte) /\ Len(WriteValues(call.fc, v)) = 2 + Len(v)
  BY ONLY <1>3, <1>4, WriteValuesType
<1>6. WriteValues(call.fc, v)[1] = call.fc
  BY ONLY <1>3, <1>4 DEF WriteValues
<1>7. Len(pdu') >= 2 /\ pdu'[1] < 128 /\ pdu' \in Seq(Byte)
  <2>1. Len(v) \in Nat
    BY ONLY <1>4
  <2>2. pdu' = WriteValues(call.fc, v)
    BY ONLY <1>1 DEF v
  <2> QED
    BY ONLY <1>3, <1>5, <1>6, <2>1, <2>2
<1>8. Arrived(wire, pdu)' /\ NotExceptionZero(pdu)'
  <2>1. NotExceptionZero(pdu)'
    BY ONLY <1>7 DEF NotExceptionZero
  <2>2. Arrived(pdu', pdu')
    BY ONLY <1>7, WholeArrived
  <2> QED
    BY ONLY <1>1, <2>1, <2>2
<1> QED
  BY ONLY <1>1, <1>2, <1>7, <1>8 DEF Inv

\* What is lost is lost at the end, and what is added is added behind the PDU.
LEMMA WireInv == ASSUME Inv, Lose \/ Pad PROVE Inv'
<1>1. /\ call \in Calls /\ side \in {"request", "reply", "short"}
      /\ pdu \in Seq(Byte) /\ wire \in Seq(Byte) /\ Len(wire) \in Nat /\ Len(pdu) \in Nat
      /\ \A k \in 1 .. Len(pdu) : k <= Len(wire) => wire[k] = pdu[k]
  BY DEF Inv, Arrived
<1>2. UNCHANGED <<call, side, pdu>>
  BY DEF Lose, Pad
<1>3. wire' \in Seq(Byte) /\ \A k \in 1 .. Len(pdu) : k <= Len(wire') => wire'[k] = pdu[k]
  <2>1. CASE Lose
    <3>1. wire # <<>> /\ wire' = SubSeq(wire, 1, Len(wire) - 1)
      BY <2>1 DEF Lose, Take
    <3>2. /\ wire' \in Seq(Byte) /\ Len(wire') = Len(wire) - 1
          /\ \A k \in 1 .. Len(wire) - 1 : wire'[k] = wire[k]
      <4>1. PICK n \in Nat : n = Len(wire) - 1 /\ n <= Len(wire)
        BY ONLY <1>1, <3>1
      <4>2. wire' = SubSeq(wire, 1, n)
        BY ONLY <3>1, <4>1
      <4>3. wire' \in Seq(Byte) /\ Len(wire') = n /\ \A k \in 1 .. n : wire'[k] = wire[k]
        BY ONLY <1>1, <4>1, <4>2
      <4> QED
        BY ONLY <4>1, <4>3
    <3> QED
      BY ONLY <1>1, <3>2
  <2>2. CASE Pad
    <3>1. PICK b \in Junk : wire' = Append(wire, b)
      BY <2>2 DEF Pad
    <3>2. b \in Byte /\ Len(wire) = Len(pdu)
      BY <2>2, JunkTyped DEF Pad
    <3>3. /\ wire' \in Seq(Byte) /\ \A k \in 1 .. Len(wire) : wire'[k] = wire[k]
      BY ONLY <1>1, <3>1, <3>2
    <3> QED
      BY ONLY <1>1, <3>2, <3>3
  <2> QED
    BY <2>1, <2>2
<1>4. Arrived(wire, pdu)'
  BY ONLY <1>2, <1>3 DEF Arrived
<1>5. (side # "short" => pdu = Written(call, side)) /\ (side # "request" => NotExceptionZero(pdu))
  BY DEF Inv
<1>6. /\ Written(call, side)' = Written(call, side)
      /\ NotExceptionZero(pdu)' = NotExceptionZero(pdu)
  BY ONLY <1>2 DEF Written, NotExceptionZero
<1> QED
  BY ONLY <1>1, <1>2, <1>3, <1>4, <1>5, <1>6 DEF Inv

\* Each action keeps the invariant.
LEMMA NextInv == Inv /\ [Next]_vars => Inv'
<1> SUFFICES ASSUME Inv, [Next]_vars PROVE Inv'
  OBVIOUS
<1>1. CASE Lose \/ Pad
  BY <1>1, WireInv
<1>2. CASE Shorten
  BY <1>2, ShortenInv
<1>3. CASE UNCHANGED vars
  BY <1>3 DEF vars, Inv, Arrived, Written, NotExceptionZero
<1> QED
  BY <1>1, <1>2, <1>3 DEF Next

--------------------------------------------------------------------------------
\* For every documented call and whatever part of its request arrives, with whatever bytes behind
\* it: the server's reader gives back the very request if all of it arrived, and otherwise an
\* error, with its variant as it was.
THEOREM RequestReadBackTheorem == Spec => []RequestReadBack
<1>1. Inv => RequestReadBack
  <2> SUFFICES ASSUME Inv, side = "request"
               PROVE  LET r == ReadReq(wire)
                      IN  IF Complete THEN r.ec = modbus_exception_code.success /\ r.req = RequestOf(call)
                          ELSE r.ec # modbus_exception_code.success /\ r.kept
    BY DEF RequestReadBack
  <2>1. /\ call \in Call /\ Documented(call) /\ pdu = WriteReq(RequestOf(call)) /\ Arrived(wire, pdu)
        /\ pdu \in Seq(Byte) /\ wire \in Seq(Byte)
    BY CallFacts DEF Inv, Written
  <2> DEFINE q == RequestOf(call)
  <2>2. PICK l \in pdu_req : /\ l.fc = call.fc
                             /\ q = Request(l, q.words, q.byte_count, q.values)
                             /\ WellFormed(l, q.words, q.byte_count, q.values)
    BY ONLY <2>1, RequestOfWellFormed
  <2> DEFINE w == q.words
             n == q.byte_count
             v == q.values
  <2> HIDE DEF q, w, n, v
  <2>3. WellFormed(l, w, n, v) /\ q = Request(l, w, n, v)
    BY ONLY <2>2 DEF w, n, v
  <2>4. pdu = WriteReq(Request(l, w, n, v))
    BY ONLY <2>1, <2>3 DEF q
  <2>5. /\ Len(wire) >= Len(pdu) =>
             ReadReq(wire) = [ec |-> modbus_exception_code.success, kept |-> FALSE,
                              req |-> Request(l, w, n, v)]
        /\ Len(wire) < Len(pdu) =>
             ReadReq(wire).ec # modbus_exception_code.success /\ ReadReq(wire).kept
    BY ONLY <2>1, <2>3, <2>4, RequestArrives
  <2>6. CASE Complete
    <3>1. ReadReq(wire) = [ec |-> modbus_exception_code.success, kept |-> FALSE, req |-> q]
      BY ONLY <2>3, <2>5, <2>6 DEF Complete
    <3> QED
      BY ONLY <2>6, <3>1 DEF q
  <2>7. CASE ~ Complete
    <3>1. Len(wire) < Len(pdu)
      BY ONLY <2>1, <2>7 DEF Complete
    <3> QED
      BY ONLY <2>5, <2>7, <3>1
  <2> QED
    BY ONLY <2>6, <2>7
<1> QED
  BY <1>1, InitInv, NextInv, PTL DEF Spec

\* The request of every documented call passes the check of the server's stream, and the length
\* field leads the server to its last byte.
THEOREM RequestFitsTheorem == Spec => []RequestFits
<1>1. Inv => RequestFits
  <2> SUFFICES ASSUME Inv, side = "request"
               PROVE  LET h == Header(Frame(1, call.slave, pdu))
                      IN  is_valid_length(h.length) /\ h.length - 1 = Len(pdu)
    BY DEF RequestFits
  <2>1. call \in Calls /\ pdu = WriteReq(RequestOf(call)) /\ pdu \in Seq(Byte)
    BY DEF Inv, Written
  <2>2. call.slave \in Byte
    BY <2>1, CallFacts
  <2>3. Len(pdu) \in Nat /\ 5 <= Len(pdu) /\ Len(pdu) <= 252
    BY ONLY <2>1, RequestSize
  <2> DEFINE h == Header(Frame(1, call.slave, pdu))
  <2>4. h = [transaction_id |-> 1, protocol |-> m_protocol, length |-> Len(pdu) + 1,
             unit_id |-> call.slave]
    <3>1. 1 \in U16 /\ Len(pdu) < 65535
      BY ONLY <2>3 DEF U16
    <3> QED
      BY ONLY <2>1, <2>2, <3>1, FrameParts
  <2>5. h.length = Len(pdu) + 1
    BY ONLY <2>4
  <2> HIDE DEF h
  <2>6. is_valid_length(h.length) /\ h.length - 1 = Len(pdu)
    BY ONLY <2>3, <2>5 DEF is_valid_length, header_size, max_adu_size
  <2> QED
    BY ONLY <2>6 DEF h
<1> QED
  BY <1>1, InitInv, NextInv, PTL DEF Spec

\* A call whose reply arrived whole, with whatever bytes behind it, returns what the device did,
\* in the layout of its overload; a call whose reply was cut never reports success.
THEOREM ReplyReadBackTheorem ==
  ASSUME Readable
  PROVE  Spec => []ReplyReadBack
<1>1. Inv => ReplyReadBack
  <2> DEFINE rd == ReadResp(call.fc, call.size, wire)
             r == Return(call, rd)
             OK == modbus_exception_code.success
             p == Serve(InitMem, RequestOf(call)).pdu
  <2> SUFFICES ASSUME Inv, side = "reply"
               PROVE  IF ~ Complete THEN r.ec # OK
                      ELSE IF Valid(InitMem, call)
                      THEN r = [ec |-> OK, out |-> Content(Effect(InitMem, call), call)]
                      ELSE r = [ec |-> modbus_exception_code.illegal_data_address, out |-> <<>>]
    BY DEF ReplyReadBack
  <2>1. /\ call \in Call /\ Documented(call) /\ SpanIsSnug(call) /\ EchoIsAccepted(call)
        /\ Arrived(wire, pdu) /\ pdu = p /\ pdu \in Seq(Byte) /\ wire \in Seq(Byte)
    BY CallFacts DEF Inv, Written, Readable
  <2>2. /\ Len(wire) >= Len(p) /\ EchoIsAccepted(call) => Return(call, rd) = Outcome(InitMem, call)
        /\ Len(wire) < Len(p) => rd.ec # OK
    <3>1. Arrived(wire, p)
      BY ONLY <2>1
    <3> QED
      BY ONLY <2>1, <3>1, InitMemTyped, ReplyIsReadBack
  <2> HIDE DEF p, rd
  <2>3. CASE Complete
    <3>1. r = Outcome(InitMem, call)
      BY ONLY <2>1, <2>2, <2>3 DEF Complete
    <3> HIDE DEF r
    <3> QED
      BY ONLY <2>3, <3>1, Zenon DEF Outcome
  <2>4. CASE ~ Complete
    <3>1. Len(wire) < Len(p)
      BY ONLY <2>1, <2>4 DEF Complete
    <3>2. r.ec = rd.ec
      BY ONLY <2>2, <3>1, ErrorIsKept
    <3> QED
      BY ONLY <2>2, <2>4, <3>1, <3>2
  <2> QED
    BY ONLY <2>3, <2>4
<1> QED
  BY <1>1, InitInv, NextInv, PTL DEF Spec

\* A plain read that reports success has filled the caller's span, also where the device answers
\* with a shorter list than was asked for or the reply is cut.
THEOREM SpanFilledTheorem == Spec => []SpanFilled
<1>1. Inv => SpanFilled
  <2> DEFINE r == ReadResp(call.fc, call.size, wire)
  <2> SUFFICES ASSUME Inv, side # "request", call.fc # function_code.read_write_multiple_registers,
                      Return(call, r).ec = modbus_exception_code.success
               PROVE  Len(r.values) = call.size
    BY DEF SpanFilled
  <2>1. call \in Calls /\ call.fc # 23 /\ wire \in Seq(Byte) /\ Arrived(wire, pdu) /\ NotExceptionZero(pdu)
    BY DEF Inv, function_code
  <2>2. ~ (Len(wire) >= 2 /\ wire[1] >= 128 /\ wire[2] = modbus_exception_code.success)
    <3> SUFFICES ASSUME Len(wire) >= 2, wire[1] >= 128, wire[2] = modbus_exception_code.success
                 PROVE  FALSE
      OBVIOUS
    <3>1. wire[1] = pdu[1] /\ wire[2] = pdu[2] /\ pdu[1] \in Int
      <4>1. pdu \in Seq(Byte) /\ Len(pdu) >= 2
        BY <2>1 DEF Inv, NotExceptionZero
      <4>2. 1 \in 1 .. Len(pdu) /\ 2 \in 1 .. Len(pdu) /\ 1 <= Len(wire) /\ 2 <= Len(wire)
        BY <2>1, <4>1
      <4>3. pdu[1] \in Int
        BY ONLY <4>1, <4>2 DEF Byte
      <4> QED
        BY ONLY <2>1, <4>2, <4>3 DEF Arrived
    <3> QED
      BY <2>1, <3>1 DEF NotExceptionZero
  <2> QED
    BY <2>1, <2>2, SuccessFillsSpan
<1> QED
  BY <1>1, InitInv, NextInv, PTL DEF Spec

--------------------------------------------------------------------------------
(* The checksum.  A byte that is shifted out of the register changes it by what *)
(* falls out, bit by bit; that is what the 256 entries of each table hold, and  *)
(* the rest is an induction on the bytes of the message.                        *)

Bit == {0, 1}

\* The operator ^ on two bits.
Flip(a, b) == IF a = b THEN 0 ELSE 1

\* The byte x has these bits, the lowest first.
IsOctet(x, b0, b1, b2, b3, b4, b5, b6, b7) ==
  /\ b0 \in Bit /\ b1 \in Bit /\ b2 \in Bit /\ b3 \in Bit
  /\ b4 \in Bit /\ b5 \in Bit /\ b6 \in Bit /\ b7 \in Bit
  /\ x = b0 + 2 * b1 + 4 * b2 + 8 * b3 + 16 * b4 + 32 * b5 + 64 * b6 + 128 * b7

\* The two bytes of the register r have these bits.
IsWord(r, a0, a1, a2, a3, a4, a5, a6, a7, b0, b1, b2, b3, b4, b5, b6, b7) ==
  \E lo, hi \in Byte : /\ IsOctet(lo, a0, a1, a2, a3, a4, a5, a6, a7)
                       /\ IsOctet(hi, b0, b1, b2, b3, b4, b5, b6, b7)
                       /\ r = 256 * hi + lo

\* The bits of a byte are what Xor compares.
Places(x, b0, b1, b2, b3, b4, b5, b6, b7) ==
  /\ (x \div 1) % 2 = b0 /\ (x \div 2) % 2 = b1 /\ (x \div 4) % 2 = b2 /\ (x \div 8) % 2 = b3
  /\ (x \div 16) % 2 = b4 /\ (x \div 32) % 2 = b5 /\ (x \div 64) % 2 = b6 /\ (x \div 128) % 2 = b7

\* The bits that fall out of the register one after the other while the byte with the bits x0 .. x7
\* is shifted through it.
Falls(x0, x1, x2, x3, x4, x5, x6, x7, c0, c1, c2, c3, c4, c5, c6, c7) ==
  /\ c0 = x0 /\ c1 = Flip(x1, c0) /\ c2 = Flip(x2, c1) /\ c3 = Flip(x3, c2)
  /\ c4 = Flip(x4, c3) /\ c5 = Flip(x5, c4) /\ c6 = Flip(x6, c5) /\ c7 = Flip(x7, c6)

\* The entries of auchCRCHi go into the low byte of the register, uchCRCLo.
LEMMA HiTable ==
  ASSUME NEW x, NEW x0, NEW x1, NEW x2, NEW x3, NEW x4, NEW x5, NEW x6, NEW x7,
         NEW c0, NEW c1, NEW c2, NEW c3, NEW c4, NEW c5, NEW c6, NEW c7,
         IsOctet(x, x0, x1, x2, x3, x4, x5, x6, x7),
         Falls(x0, x1, x2, x3, x4, x5, x6, x7, c0, c1, c2, c3, c4, c5, c6, c7)
  PROVE  IsOctet(auchCRCHi[x + 1], c7, 0, 0, 0, 0, 0, c0, c1)
  BY SMTT(60) DEF Bit, Flip, IsOctet, Falls, auchCRCHi

\* The entries of auchCRCLo become its high byte, uchCRCHi.
LEMMA LoTable ==
  ASSUME NEW x, NEW x0, NEW x1, NEW x2, NEW x3, NEW x4, NEW x5, NEW x6, NEW x7,
         NEW c0, NEW c1, NEW c2, NEW c3, NEW c4, NEW c5, NEW c6, NEW c7,
         IsOctet(x, x0, x1, x2, x3, x4, x5, x6, x7),
         Falls(x0, x1, x2, x3, x4, x5, x6, x7, c0, c1, c2, c3, c4, c5, c6, c7)
  PROVE  IsOctet(auchCRCLo[x + 1], Flip(c0, c2), Flip(c1, c3), Flip(c2, c4), Flip(c3, c5),
                 Flip(c4, c6), Flip(c5, c7), c6, c7)
  BY SMTT(60) DEF Bit, Flip, IsOctet, Falls, auchCRCLo

\* A byte shows its bits at the places where Xor looks.
LEMMA OctetPlaces ==
  ASSUME NEW x, NEW b0, NEW b1, NEW b2, NEW b3, NEW b4, NEW b5, NEW b6, NEW b7,
         IsOctet(x, b0, b1, b2, b3, b4, b5, b6, b7)
  PROVE  x \in Byte /\ Places(x, b0, b1, b2, b3, b4, b5, b6, b7)
  BY DEF IsOctet, Places, Bit, Byte

\* Every byte has bits.
LEMMA BitsOf ==
  ASSUME NEW x \in Byte
  PROVE  \E b0, b1, b2, b3, b4, b5, b6, b7 : IsOctet(x, b0, b1, b2, b3, b4, b5, b6, b7)
<1> DEFINE half(k) == k \div 2
<1>1. \A k \in Nat : half(k) \in Nat /\ k % 2 \in Bit /\ k = (k % 2) + 2 * half(k)
  BY DEF Bit
<1> HIDE DEF half
<1>2. PICK n1 \in Nat, b0 \in Bit : x = b0 + 2 * n1
  BY <1>1 DEF Byte
<1>3. PICK n2 \in Nat, b1 \in Bit : n1 = b1 + 2 * n2
  BY ONLY <1>1
<1>4. PICK n3 \in Nat, b2 \in Bit : n2 = b2 + 2 * n3
  BY ONLY <1>1
<1>5. PICK n4 \in Nat, b3 \in Bit : n3 = b3 + 2 * n4
  BY ONLY <1>1
<1>6. PICK n5 \in Nat, b4 \in Bit : n4 = b4 + 2 * n5
  BY ONLY <1>1
<1>7. PICK n6 \in Nat, b5 \in Bit : n5 = b5 + 2 * n6
  BY ONLY <1>1
<1>8. PICK n7 \in Nat, b6 \in Bit : n6 = b6 + 2 * n7
  BY ONLY <1>1
<1>9. PICK n8 \in Nat, b7 \in Bit : n7 = b7 + 2 * n8
  BY ONLY <1>1
<1>10. PICK y : IsOctet(y, b0, b1, b2, b3, b4, b5, b6, b7)
  BY DEF IsOctet
<1>11. y \in Byte
  BY ONLY <1>10, OctetPlaces
<1>12. x = y + 256 * n8
  BY ONLY <1>2, <1>3, <1>4, <1>5, <1>6, <1>7, <1>8, <1>9, <1>10 DEF IsOctet, Bit
<1>13. x = y
  BY ONLY <1>11, <1>12, x \in Byte, n8 \in Nat DEF Byte
<1> QED
  BY ONLY <1>10, <1>13

\* The operator ^ works bit by bit.
LEMMA XorBits ==
  ASSUME NEW x, NEW x0, NEW x1, NEW x2, NEW x3, NEW x4, NEW x5, NEW x6, NEW x7,
         NEW y, NEW y0, NEW y1, NEW y2, NEW y3, NEW y4, NEW y5, NEW y6, NEW y7,
         IsOctet(x, x0, x1, x2, x3, x4, x5, x6, x7),
         IsOctet(y, y0, y1, y2, y3, y4, y5, y6, y7)
  PROVE  IsOctet(Xor(x, y), Flip(x0, y0), Flip(x1, y1), Flip(x2, y2), Flip(x3, y3),
                 Flip(x4, y4), Flip(x5, y5), Flip(x6, y6), Flip(x7, y7))
<1> DEFINE Place(w) == IF (x \div w) % 2 = (y \div w) % 2 THEN 0 ELSE w
<1>1. Places(x, x0, x1, x2, x3, x4, x5, x6, x7) /\ Places(y, y0, y1, y2, y3, y4, y5, y6, y7)
  BY OctetPlaces
<1>2. PICK f0 \in Bit, f1 \in Bit, f2 \in Bit, f3 \in Bit,
           f4 \in Bit, f5 \in Bit, f6 \in Bit, f7 \in Bit :
        /\ f0 = Flip(x0, y0) /\ f1 = Flip(x1, y1) /\ f2 = Flip(x2, y2) /\ f3 = Flip(x3, y3)
        /\ f4 = Flip(x4, y4) /\ f5 = Flip(x5, y5) /\ f6 = Flip(x6, y6) /\ f7 = Flip(x7, y7)
  BY ONLY DEF Flip, Bit
<1>3. /\ Place(1) = f0 /\ Place(2) = 2 * f1 /\ Place(4) = 4 * f2 /\ Place(8) = 8 * f3
      /\ Place(16) = 16 * f4 /\ Place(32) = 32 * f5 /\ Place(64) = 64 * f6 /\ Place(128) = 128 * f7
  BY ONLY <1>1, <1>2 DEF Flip, Places
<1>4. Xor(x, y) = Place(1) + Place(2) + Place(4) + Place(8) + Place(16) + Place(32) + Place(64) + Place(128)
  BY ONLY DEF Xor
<1> HIDE DEF Place
<1>5. IsOctet(Xor(x, y), f0, f1, f2, f3, f4, f5, f6, f7)
  BY ONLY <1>3, <1>4 DEF IsOctet
<1> QED
  BY ONLY <1>2, <1>5, Zenon

\* One shift of the register: the bit that falls out comes in at the top, and turns the bits 0 and 13.
LEMMA ShiftBits ==
  ASSUME NEW a0, NEW a1, NEW a2, NEW a3, NEW a4, NEW a5, NEW a6, NEW a7,
         NEW b0, NEW b1, NEW b2, NEW b3, NEW b4, NEW b5, NEW b6, NEW b7, NEW r,
         IsWord(r, a0, a1, a2, a3, a4, a5, a6, a7, b0, b1, b2, b3, b4, b5, b6, b7)
  PROVE  IsWord(ShiftOut(r), Flip(a1, a0), a2, a3, a4, a5, a6, a7, b0,
                b1, b2, b3, b4, b5, Flip(b6, a0), b7, a0)
<1>1. PICK l, h \in Byte : /\ IsOctet(l, a0, a1, a2, a3, a4, a5, a6, a7)
                           /\ IsOctet(h, b0, b1, b2, b3, b4, b5, b6, b7)
                           /\ r = 256 * h + l
  BY DEF IsWord
<1>2. PICK z, o, m, k : /\ z = 0 /\ o = 1 /\ m = 160 /\ k = 1
                        /\ IsOctet(m, z, z, z, z, z, o, z, o) /\ IsOctet(k, o, z, z, z, z, z, z, z)
  BY DEF IsOctet, Bit
<1>3. PICK lo, hi : /\ IsOctet(lo, a1, a2, a3, a4, a5, a6, a7, b0)
                    /\ IsOctet(hi, b1, b2, b3, b4, b5, b6, b7, z)
  BY ONLY <1>1, <1>2 DEF IsOctet
<1>4. lo \in Byte /\ hi \in Byte
  BY ONLY <1>3, OctetPlaces
<1>5. r = a0 + 2 * (256 * hi + lo) /\ a0 \in Bit
  BY ONLY <1>1, <1>2, <1>3 DEF IsOctet, Bit
<1>6. PICK s \in Nat : s = 256 * hi + lo
  BY ONLY <1>4 DEF Byte
<1>7. r % 2 = a0 /\ r \div 2 = s
  BY ONLY <1>5, <1>6, s \in Nat DEF Bit
<1>8. s \div 256 = hi /\ s % 256 = lo
  BY ONLY <1>4, <1>6 DEF Byte
<1>9. ShiftOut(r) = IF a0 = 0 THEN s ELSE 256 * Xor(hi, 160) + Xor(lo, 1)
  <2>1. PICK u, v : u = r \div 2 /\ v = r % 2
    OBVIOUS
  <2>2. ShiftOut(r) = IF v = 0 THEN u ELSE 256 * Xor(u \div 256, 160) + Xor(u % 256, 1)
    BY ONLY <2>1 DEF ShiftOut
  <2>3. u = s /\ v = a0
    BY ONLY <1>7, <2>1, Zenon
  <2> QED
    BY ONLY <1>8, <2>2, <2>3, Zenon
<1>10. \A x \in Bit : Flip(x, z) = x
  BY ONLY <1>2 DEF Flip, Bit
<1>11. /\ a1 \in Bit /\ a2 \in Bit /\ a3 \in Bit /\ a4 \in Bit /\ a5 \in Bit /\ a6 \in Bit /\ a7 \in Bit
       /\ b0 \in Bit /\ b1 \in Bit /\ b2 \in Bit /\ b3 \in Bit /\ b4 \in Bit /\ b5 \in Bit /\ b6 \in Bit /\ b7 \in Bit
  BY ONLY <1>1 DEF IsOctet
<1>12. CASE a0 = 0
  <2>1. Flip(a1, a0) = a1 /\ Flip(b6, a0) = b6 /\ a0 = z
    BY ONLY <1>2, <1>10, <1>11, <1>12
  <2>2. ShiftOut(r) = 256 * hi + lo
    BY ONLY <1>6, <1>9, <1>12
  <2> QED
    BY ONLY <1>3, <1>4, <2>1, <2>2 DEF IsWord
<1>13. CASE a0 = 1
  <2>1. a0 = o /\ Flip(z, o) = o
    BY ONLY <1>2, <1>13 DEF Flip
  <2>2. IsOctet(Xor(hi, m), Flip(b1, z), Flip(b2, z), Flip(b3, z), Flip(b4, z),
                            Flip(b5, z), Flip(b6, o), Flip(b7, z), Flip(z, o))
    BY ONLY <1>2, <1>3, XorBits
  <2>3. IsOctet(Xor(hi, m), b1, b2, b3, b4, b5, Flip(b6, o), b7, o)
    BY ONLY <1>10, <1>11, <2>1, <2>2
  <2>4. IsOctet(Xor(lo, k), Flip(a1, o), Flip(a2, z), Flip(a3, z), Flip(a4, z),
                            Flip(a5, z), Flip(a6, z), Flip(a7, z), Flip(b0, z))
    BY ONLY <1>2, <1>3, XorBits
  <2>5. IsOctet(Xor(lo, k), Flip(a1, o), a2, a3, a4, a5, a6, a7, b0)
    BY ONLY <1>10, <1>11, <2>4
  <2>6. ShiftOut(r) = 256 * Xor(hi, m) + Xor(lo, k)
    BY ONLY <1>2, <1>9, <1>13
  <2>7. Xor(hi, m) \in Byte /\ Xor(lo, k) \in Byte
    BY ONLY XorType
  <2> QED
    BY ONLY <2>1, <2>3, <2>5, <2>6, <2>7 DEF IsWord
<1> QED
  BY ONLY <1>5, <1>12, <1>13 DEF Bit

\* Eight shifts bring the high byte down and fill its place with what fell out.
LEMMA EightBits ==
  ASSUME NEW x \in Byte, NEW x0, NEW x1, NEW x2, NEW x3, NEW x4, NEW x5, NEW x6, NEW x7,
         NEW h \in Byte, NEW h0, NEW h1, NEW h2, NEW h3, NEW h4, NEW h5, NEW h6, NEW h7,
         NEW c0, NEW c1, NEW c2, NEW c3, NEW c4, NEW c5, NEW c6, NEW c7,
         IsOctet(x, x0, x1, x2, x3, x4, x5, x6, x7),
         IsOctet(h, h0, h1, h2, h3, h4, h5, h6, h7),
         Falls(x0, x1, x2, x3, x4, x5, x6, x7, c0, c1, c2, c3, c4, c5, c6, c7)
  PROVE  IsWord(Eight(256 * h + x),
                Flip(h0, c7), h1, h2, h3, h4, h5, Flip(h6, c0), Flip(h7, c1),
                Flip(c0, c2), Flip(c1, c3), Flip(c2, c4), Flip(c3, c5), Flip(c4, c6), Flip(c5, c7), c6, c7)
<1>1. PICK d0, d1, d2, d3, d4, d5, e0, e6, e7 :
        /\ d0 = Flip(c0, c2) /\ d1 = Flip(c1, c3) /\ d2 = Flip(c2, c4) /\ d3 = Flip(c3, c5)
        /\ d4 = Flip(c4, c6) /\ d5 = Flip(c5, c7)
        /\ e0 = Flip(h0, c7) /\ e6 = Flip(h6, c0) /\ e7 = Flip(h7, c1)
  OBVIOUS
<1>2. PICK r0, r1, r2, r3, r4, r5, r6, r7 :
        /\ r0 = 256 * h + x /\ r1 = ShiftOut(r0) /\ r2 = ShiftOut(r1) /\ r3 = ShiftOut(r2)
        /\ r4 = ShiftOut(r3) /\ r5 = ShiftOut(r4) /\ r6 = ShiftOut(r5) /\ r7 = ShiftOut(r6)
  OBVIOUS
<1>3. /\ c0 = x0 /\ c1 = Flip(x1, c0) /\ c2 = Flip(x2, c1) /\ c3 = Flip(x3, c2)
      /\ c4 = Flip(x4, c3) /\ c5 = Flip(x5, c4) /\ c6 = Flip(x6, c5) /\ c7 = Flip(x7, c6)
  BY DEF Falls
<1>4. IsWord(r0, c0, x1, x2, x3, x4, x5, x6, x7, h0, h1, h2, h3, h4, h5, h6, h7)
  BY <1>2, <1>3 DEF IsWord
<1>5. IsWord(r1, c1, x2, x3, x4, x5, x6, x7, h0, h1, h2, h3, h4, h5, e6, h7, c0)
  BY ONLY <1>1, <1>2, <1>3, <1>4, ShiftBits
<1>6. IsWord(r2, c2, x3, x4, x5, x6, x7, h0, h1, h2, h3, h4, h5, e6, e7, c0, c1)
  BY ONLY <1>1, <1>2, <1>3, <1>5, ShiftBits
<1>7. IsWord(r3, c3, x4, x5, x6, x7, h0, h1, h2, h3, h4, h5, e6, e7, d0, c1, c2)
  BY ONLY <1>1, <1>2, <1>3, <1>6, ShiftBits
<1>8. IsWord(r4, c4, x5, x6, x7, h0, h1, h2, h3, h4, h5, e6, e7, d0, d1, c2, c3)
  BY ONLY <1>1, <1>2, <1>3, <1>7, ShiftBits
<1>9. IsWord(r5, c5, x6, x7, h0, h1, h2, h3, h4, h5, e6, e7, d0, d1, d2, c3, c4)
  BY ONLY <1>1, <1>2, <1>3, <1>8, ShiftBits
<1>10. IsWord(r6, c6, x7, h0, h1, h2, h3, h4, h5, e6, e7, d0, d1, d2, d3, c4, c5)
  BY ONLY <1>1, <1>2, <1>3, <1>9, ShiftBits
<1>11. IsWord(r7, c7, h0, h1, h2, h3, h4, h5, e6, e7, d0, d1, d2, d3, d4, c5, c6)
  BY ONLY <1>1, <1>2, <1>3, <1>10, ShiftBits
<1>12. IsWord(ShiftOut(r7), e0, h1, h2, h3, h4, h5, e6, e7, d0, d1, d2, d3, d4, d5, c6, c7)
  BY ONLY <1>1, <1>11, ShiftBits
<1>13. ShiftOut(r7) = Eight(256 * h + x)
  BY ONLY <1>2 DEF Eight
<1> QED
  BY ONLY <1>1, <1>12, <1>13

\* The two tables hold what eight shifts make of the register.
LEMMA TablesShift ==
  ASSUME NEW x \in Byte, NEW h \in Byte
  PROVE  Eight(256 * h + x) = 256 * auchCRCLo[x + 1] + Xor(h, auchCRCHi[x + 1])
<1>1. PICK x0, x1, x2, x3, x4, x5, x6, x7 : IsOctet(x, x0, x1, x2, x3, x4, x5, x6, x7)
  BY BitsOf
<1>2. PICK h0, h1, h2, h3, h4, h5, h6, h7 : IsOctet(h, h0, h1, h2, h3, h4, h5, h6, h7)
  BY BitsOf
<1>3. PICK c0, c1, c2, c3, c4, c5, c6, c7 :
        Falls(x0, x1, x2, x3, x4, x5, x6, x7, c0, c1, c2, c3, c4, c5, c6, c7)
  BY DEF Falls
<1>4. IsWord(Eight(256 * h + x),
             Flip(h0, c7), h1, h2, h3, h4, h5, Flip(h6, c0), Flip(h7, c1),
             Flip(c0, c2), Flip(c1, c3), Flip(c2, c4), Flip(c3, c5), Flip(c4, c6), Flip(c5, c7), c6, c7)
  BY ONLY <1>1, <1>2, <1>3, EightBits, x \in Byte, h \in Byte
<1>5. IsOctet(auchCRCLo[x + 1], Flip(c0, c2), Flip(c1, c3), Flip(c2, c4), Flip(c3, c5),
              Flip(c4, c6), Flip(c5, c7), c6, c7)
  BY ONLY <1>1, <1>3, LoTable
<1>6. IsOctet(Xor(h, auchCRCHi[x + 1]), Flip(h0, c7), h1, h2, h3, h4, h5, Flip(h6, c0), Flip(h7, c1))
  <2>1. PICK z : z = 0
    OBVIOUS
  <2>2. IsOctet(auchCRCHi[x + 1], c7, z, z, z, z, z, c0, c1)
    BY ONLY <1>1, <1>3, <2>1, HiTable
  <2>3. IsOctet(Xor(h, auchCRCHi[x + 1]), Flip(h0, c7), Flip(h1, z), Flip(h2, z), Flip(h3, z),
                Flip(h4, z), Flip(h5, z), Flip(h6, c0), Flip(h7, c1))
    BY ONLY <1>2, <2>2, XorBits
  <2>4. /\ Flip(h1, z) = h1 /\ Flip(h2, z) = h2 /\ Flip(h3, z) = h3 /\ Flip(h4, z) = h4 /\ Flip(h5, z) = h5
    BY ONLY <1>2, <2>1 DEF IsOctet, Bit, Flip
  <2> QED
    BY ONLY <2>3, <2>4
<1> DEFINE t == auchCRCLo[x + 1]
           u == Xor(h, auchCRCHi[x + 1])
<1> HIDE DEF t, u
<1>7. PICK lo, hi \in Byte :
        /\ IsOctet(lo, Flip(h0, c7), h1, h2, h3, h4, h5, Flip(h6, c0), Flip(h7, c1))
        /\ IsOctet(hi, Flip(c0, c2), Flip(c1, c3), Flip(c2, c4), Flip(c3, c5), Flip(c4, c6), Flip(c5, c7), c6, c7)
        /\ Eight(256 * h + x) = 256 * hi + lo
  BY ONLY <1>4 DEF IsWord
<1>8. t = hi
  BY ONLY <1>5, <1>7 DEF IsOctet, t
<1>9. u = lo
  BY ONLY <1>6, <1>7 DEF IsOctet, u
<1> QED
  BY ONLY <1>7, <1>8, <1>9 DEF t, u

\* The register of the remainder after a byte of the message.
RemainderTurn(msg) ==
  [p \in U16 \X Nat |-> ByteStep(p[1], msg[p[2]])]

\* The register starts with ones.  The name keeps the number out of sight of the provers.
RemainderStart == 65535

\* The two bytes of CRC16 as one register.
Whole(r) == 256 * r.hi + r.lo

\* A byte of the message leaves a register of sixteen bits.
LEMMA RemainderTurnType == ASSUME NEW msg PROVE RemainderTurn(msg) \in [U16 \X Nat -> U16]
<1>1. ASSUME NEW p \in U16 \X Nat
      PROVE  ByteStep(p[1], msg[p[2]]) \in U16
  <2>1. PICK h \in Byte, x \in Byte : h = p[1] \div 256 /\ x = Xor(p[1] % 256, msg[p[2]])
    <3>1. p[1] \div 256 \in Byte
      BY ONLY p \in U16 \X Nat DEF U16, Byte
    <3> QED
      BY ONLY <3>1, XorType
  <2>2. ByteStep(p[1], msg[p[2]]) = Eight(256 * h + x)
    BY ONLY <2>1 DEF ByteStep
  <2>3. PICK t \in Byte : t = auchCRCLo[x + 1]
    BY ONLY TableEntry, x \in Byte
  <2>4. PICK y \in Byte : y = Xor(h, auchCRCHi[x + 1])
    BY ONLY XorType
  <2>5. Eight(256 * h + x) = 256 * t + y
    BY ONLY <2>3, <2>4, TablesShift, x \in Byte, h \in Byte
  <2>6. 256 * t + y \in U16
    BY ONLY t \in Byte, y \in Byte DEF Byte, U16
  <2> QED
    BY ONLY <2>2, <2>5, <2>6
<1> QED
  BY ONLY <1>1 DEF RemainderTurn

\* A turn of the loop of CRC16 is a turn of the remainder.
LEMMA SameTurn ==
  ASSUME NEW msg, NEW k \in Nat, NEW r \in Register
  PROVE  RemainderTurn(msg)[<<Whole(r), k>>] = Whole(CrcTurn(msg)[<<r, k>>])
<1>1. r.lo \in Byte /\ r.hi \in Byte
  BY DEF Register
<1>2. PICK w \in U16 : w = Whole(r)
  BY ONLY <1>1 DEF Whole, Byte, U16
<1>3. w \div 256 = r.hi /\ w % 256 = r.lo
  BY ONLY <1>1, <1>2 DEF Whole, Byte
<1>4. PICK x \in Byte : x = Xor(r.lo, msg[k])
  BY ONLY XorType
<1>5. RemainderTurn(msg)[<<w, k>>] = Eight(256 * r.hi + x)
  <2>1. PICK p : p = <<w, k>>
    OBVIOUS
  <2>2. p \in U16 \X Nat /\ p[1] = w /\ p[2] = k
    BY ONLY <2>1, w \in U16, k \in Nat
  <2>3. RemainderTurn(msg)[p] = ByteStep(p[1], msg[p[2]])
    BY ONLY <2>2, Zenon DEF RemainderTurn
  <2> QED
    BY ONLY <1>3, <1>4, <2>1, <2>2, <2>3 DEF ByteStep
<1>6. CrcTurn(msg)[<<r, k>>] = CrcStep(r, msg[k])
  <2>1. PICK p : p = <<r, k>>
    OBVIOUS
  <2>2. p \in Register \X Nat /\ p[1] = r /\ p[2] = k
    BY ONLY <2>1, r \in Register, k \in Nat
  <2>3. CrcTurn(msg)[p] = CrcStep(p[1], msg[p[2]])
    BY ONLY <2>2, Zenon DEF CrcTurn
  <2> QED
    BY ONLY <2>1, <2>2, <2>3
<1>7. Whole(CrcStep(r, msg[k])) = 256 * auchCRCLo[x + 1] + Xor(r.hi, auchCRCHi[x + 1])
  BY ONLY <1>4 DEF Whole, CrcStep
<1>8. Eight(256 * r.hi + x) = 256 * auchCRCLo[x + 1] + Xor(r.hi, auchCRCHi[x + 1])
  BY ONLY <1>1, TablesShift, x \in Byte
<1> QED
  BY ONLY <1>2, <1>5, <1>6, <1>7, <1>8

\* Remainder returns what its loop has come to after the last byte.
LEMMA RemainderIs ==
  ASSUME NEW msg, Len(msg) \in Nat, NEW h \in Turns(U16, RemainderTurn(msg), 1, RemainderStart, Len(msg))
  PROVE  Remainder(msg) = h[Len(msg)]
<1> DEFINE R == U16
           F == RemainderTurn(msg)
           D == Nat \X Nat \X R
           After(g) == [t \in D |->
                          LET lo  == t[1]
                              hi  == t[2]
                              mid == (lo + hi) \div 2
                          IN  IF lo > hi THEN t[3]
                              ELSE IF lo = hi THEN ByteStep(t[3], msg[lo])
                              ELSE g[<<mid + 1, hi, g[<<lo, mid, t[3]>>]>>]]
           f == CHOOSE g : g = After(g)
<1>1. F \in [R \X Nat -> R]
  BY ONLY RemainderTurnType
<1>2. ASSUME NEW g PROVE HalvesOf(R, F, g) = After(g)
  <2>1. ASSUME NEW t \in D
        PROVE  F[<<t[3], t[1]>>] = ByteStep(t[3], msg[t[1]])
    <3>1. PICK p : p = <<t[3], t[1]>>
      OBVIOUS
    <3>2. p \in R \X Nat /\ p[1] = t[3] /\ p[2] = t[1]
      BY ONLY <3>1, t \in D
    <3>3. F[p] = ByteStep(p[1], msg[p[2]])
      BY ONLY <3>2, Zenon DEF RemainderTurn
    <3> QED
      BY ONLY <3>1, <3>2, <3>3
  <2> HIDE DEF F, R, D
  <2> QED
    BY ONLY <2>1, Zenon DEF HalvesOf, D
<1>3. Remainder(msg) = f[<<1, Len(msg), RemainderStart>>]
  BY ONLY DEF Remainder, RemainderStart
<1>4. PICK R1, F1 : R1 = R /\ F1 = F
  OBVIOUS
<1> HIDE DEF F, R, After
<1>5. \E g : g = After(g)
  <2>1. PICK g : InHalves(R, F, g)
    BY ONLY <1>1, HalvesExist
  <2>2. g = After(g)
    BY ONLY <1>2, <2>1 DEF InHalves
  <2> QED
    BY ONLY <2>2
<1>6. f = After(f)
  BY ONLY <1>5, Zenon
<1> HIDE DEF f
<1>7. InHalves(R, F, f)
  BY ONLY <1>2, <1>6 DEF InHalves
<1>8. PICK n, s, f1, h1 : n = Len(msg) /\ s = RemainderStart /\ f1 = f /\ h1 = h
  OBVIOUS
<1>9. IsStep(F1, R1) /\ InHalves(R1, F1, f1)
  BY ONLY <1>1, <1>4, <1>7, <1>8, Zenon DEF IsStep
<1>10. n \in Nat /\ s \in R1
  BY ONLY <1>4, <1>8, Len(msg) \in Nat DEF R, U16, RemainderStart
<1>11. h1 \in Turns(R1, F1, 1, s, n)
  BY ONLY <1>4, <1>8, h \in Turns(U16, RemainderTurn(msg), 1, RemainderStart, Len(msg)) DEF R, F
<1>12. EndsWith(f1, s, n, h1)
  BY ONLY <1>9, <1>10, <1>11, HalvesMeaning, Zenon
<1> QED
  BY ONLY <1>3, <1>8, <1>12 DEF EndsWith

\* For every message of any length, the two tables and the loop of crc.h compute the remainder of
\* the polynomial: after every byte the loop holds it in uchCRCHi and uchCRCLo.
THEOREM CrcIsRemainder == ASSUME NEW msg, Len(msg) \in Nat PROVE CRC16(msg) = Remainder(msg)
<1>1. PICK n \in Nat : n = Len(msg)
  OBVIOUS
<1>2. PICK c, r : c = CrcTurn(msg) /\ r = RemainderTurn(msg)
  OBVIOUS
<1>3. PICK g : g \in Turns(Register, c, 1, CrcStart, n)
  BY ONLY <1>1, <1>2, CrcLoopIs
<1>4. PICK h : h \in Turns(U16, r, 1, RemainderStart, n)
  <2>1. r \in [U16 \X Nat -> U16] /\ RemainderStart \in U16 /\ 1 \in Nat
    BY ONLY <1>2, RemainderTurnType DEF U16, RemainderStart
  <2> QED
    BY ONLY <2>1, n \in Nat, TurnsExist
<1>5. /\ g \in [0 .. n -> Register] /\ g[0] = CrcStart /\ \A k \in 1 .. n : g[k] = c[<<g[k - 1], 1 + k - 1>>]
      /\ h[0] = RemainderStart /\ \A k \in 1 .. n : h[k] = r[<<h[k - 1], 1 + k - 1>>]
  BY ONLY <1>3, <1>4 DEF Turns
<1> DEFINE T == {k \in 0 .. n : h[k] # Whole(g[k])}
<1>6. T = {}
  <2> SUFFICES ASSUME T # {} PROVE FALSE
    OBVIOUS
  <2>1. T \subseteq Nat
    OBVIOUS
  <2>2. PICK m \in T : \A k \in T : m <= k
    <3> HIDE DEF T
    <3> QED
      BY ONLY <2>1, T # {}, LeastNumber
  <2>3. m \in 0 .. n /\ h[m] # Whole(g[m])
    BY ONLY m \in T
  <2>4. m # 0
    BY ONLY <1>5, <2>3 DEF Whole, CrcStart, RemainderStart
  <2>5. PICK k \in Nat : k = m - 1
    BY ONLY <2>3, <2>4
  <2>6. m \in 1 .. n /\ k \in 0 .. n /\ 1 + m - 1 = m /\ m \in Nat /\ k < m
    BY ONLY <2>3, <2>4, <2>5
  <2>7. h[k] = Whole(g[k])
    BY ONLY <2>2, <2>6
  <2>8. PICK q \in Register : q = g[k]
    BY ONLY <1>5, <2>6
  <2>9. g[m] = c[<<q, m>>] /\ h[m] = r[<<Whole(q), m>>]
    BY ONLY <1>5, <2>5, <2>6, <2>7, <2>8
  <2>10. r[<<Whole(q), m>>] = Whole(c[<<q, m>>])
    BY ONLY <1>2, <2>6, SameTurn, q \in Register
  <2> QED
    BY ONLY <2>3, <2>9, <2>10
<1>7. h[n] = Whole(g[n])
  <2>1. n \notin T /\ n \in 0 .. n
    BY ONLY <1>6, n \in Nat
  <2> QED
    BY ONLY <2>1
<1>8. CrcLoop(msg) = g[n]
  BY ONLY <1>1, <1>2, <1>3, CrcLoopIs
<1>9. Remainder(msg) = h[n]
  BY ONLY <1>1, <1>2, <1>4, RemainderIs
<1>10. PICK q \in Register : q = g[n]
  <2>1. n \in 0 .. n
    BY ONLY n \in Nat
  <2> QED
    BY ONLY <1>5, <2>1
<1>11. q.lo \in Byte /\ q.hi \in Byte
  BY ONLY q \in Register DEF Register
<1>12. CRC16(msg) = q.hi * 256 + q.lo
  BY ONLY <1>8, <1>10 DEF CRC16
<1>13. Remainder(msg) = 256 * q.hi + q.lo
  BY ONLY <1>7, <1>9, <1>10 DEF Whole
<1> QED
  BY ONLY <1>11, <1>12, <1>13 DEF Byte

\* The frame of every request and of every reply carries that remainder.
THEOREM TableIsRemainderTheorem == Spec => []TableIsRemainder
<1>1. Inv => TableIsRemainder
  <2> SUFFICES ASSUME Inv PROVE CRC16(<<call.slave>> \o pdu) = Remainder(<<call.slave>> \o pdu)
    BY DEF TableIsRemainder
  <2>1. call.slave \in Byte /\ pdu \in Seq(Byte)
    BY CallFacts DEF Inv
  <2>2. PICK m : m = <<call.slave>> \o pdu
    OBVIOUS
  <2>3. Len(m) \in Nat
    BY ONLY <2>1, <2>2
  <2> QED
    BY ONLY <2>2, <2>3, CrcIsRemainder
<1> QED
  BY <1>1, InitInv, NextInv, PTL DEF Spec

--------------------------------------------------------------------------------
(* What the checksum of a frame is worth: no change of a single byte escapes    *)
(* it, since a turn of the loop loses nothing of its register and of its byte.  *)

\* The bits of a byte are unique.
LEMMA SameBits ==
  ASSUME NEW x, NEW a0, NEW a1, NEW a2, NEW a3, NEW a4, NEW a5, NEW a6, NEW a7,
         NEW b0, NEW b1, NEW b2, NEW b3, NEW b4, NEW b5, NEW b6, NEW b7,
         IsOctet(x, a0, a1, a2, a3, a4, a5, a6, a7), IsOctet(x, b0, b1, b2, b3, b4, b5, b6, b7)
  PROVE  /\ a0 = b0 /\ a1 = b1 /\ a2 = b2 /\ a3 = b3 /\ a4 = b4 /\ a5 = b5 /\ a6 = b6 /\ a7 = b7
<1>1. Places(x, a0, a1, a2, a3, a4, a5, a6, a7) /\ Places(x, b0, b1, b2, b3, b4, b5, b6, b7)
  BY OctetPlaces
<1> QED
  BY ONLY <1>1, Zenon DEF Places

\* No two entries of auchCRCLo are the same.
LEMMA LoTableTells ==
  ASSUME NEW x \in Byte, NEW y \in Byte, auchCRCLo[x + 1] = auchCRCLo[y + 1]
  PROVE  x = y
<1>1. PICK x0, x1, x2, x3, x4, x5, x6, x7 : IsOctet(x, x0, x1, x2, x3, x4, x5, x6, x7)
  BY BitsOf
<1>2. PICK y0, y1, y2, y3, y4, y5, y6, y7 : IsOctet(y, y0, y1, y2, y3, y4, y5, y6, y7)
  BY BitsOf
<1>3. PICK c0, c1, c2, c3, c4, c5, c6, c7 :
        Falls(x0, x1, x2, x3, x4, x5, x6, x7, c0, c1, c2, c3, c4, c5, c6, c7)
  BY DEF Falls
<1>4. PICK d0, d1, d2, d3, d4, d5, d6, d7 :
        Falls(y0, y1, y2, y3, y4, y5, y6, y7, d0, d1, d2, d3, d4, d5, d6, d7)
  BY DEF Falls
<1>5. PICK t : t = auchCRCLo[x + 1] /\ t = auchCRCLo[y + 1]
  OBVIOUS
<1>6. /\ IsOctet(t, Flip(c0, c2), Flip(c1, c3), Flip(c2, c4), Flip(c3, c5), Flip(c4, c6), Flip(c5, c7), c6, c7)
      /\ IsOctet(t, Flip(d0, d2), Flip(d1, d3), Flip(d2, d4), Flip(d3, d5), Flip(d4, d6), Flip(d5, d7), d6, d7)
  <2>1. IsOctet(auchCRCLo[x + 1], Flip(c0, c2), Flip(c1, c3), Flip(c2, c4), Flip(c3, c5), Flip(c4, c6),
                Flip(c5, c7), c6, c7)
    BY ONLY <1>1, <1>3, LoTable
  <2>2. IsOctet(auchCRCLo[y + 1], Flip(d0, d2), Flip(d1, d3), Flip(d2, d4), Flip(d3, d5), Flip(d4, d6),
                Flip(d5, d7), d6, d7)
    BY ONLY <1>2, <1>4, LoTable
  <2> QED
    BY ONLY <1>5, <2>1, <2>2, Zenon
<1>7. /\ Flip(c0, c2) = Flip(d0, d2) /\ Flip(c1, c3) = Flip(d1, d3) /\ Flip(c2, c4) = Flip(d2, d4)
      /\ Flip(c3, c5) = Flip(d3, d5) /\ Flip(c4, c6) = Flip(d4, d6) /\ Flip(c5, c7) = Flip(d5, d7)
      /\ c6 = d6 /\ c7 = d7
  BY ONLY <1>6, SameBits
<1>8. /\ c0 \in Bit /\ c1 \in Bit /\ c2 \in Bit /\ c3 \in Bit /\ c4 \in Bit /\ c5 \in Bit /\ c6 \in Bit /\ c7 \in Bit
      /\ d0 \in Bit /\ d1 \in Bit /\ d2 \in Bit /\ d3 \in Bit /\ d4 \in Bit /\ d5 \in Bit /\ d6 \in Bit /\ d7 \in Bit
  BY ONLY <1>1, <1>2, <1>3, <1>4 DEF IsOctet, Falls, Flip, Bit
<1>9. c0 = d0 /\ c1 = d1 /\ c2 = d2 /\ c3 = d3 /\ c4 = d4 /\ c5 = d5
  BY ONLY <1>7, <1>8 DEF Flip, Bit
<1>10. /\ x0 = y0 /\ x1 = y1 /\ x2 = y2 /\ x3 = y3 /\ x4 = y4 /\ x5 = y5 /\ x6 = y6 /\ x7 = y7
  BY ONLY <1>1, <1>2, <1>3, <1>4, <1>7, <1>8, <1>9 DEF IsOctet, Falls, Flip, Bit
<1> QED
  BY ONLY <1>1, <1>2, <1>10 DEF IsOctet

\* ^ with the same byte keeps two bytes apart.
LEMMA XorTells ==
  ASSUME NEW x \in Byte, NEW y \in Byte, NEW z \in Byte,
         Xor(x, y) = Xor(x, z) \/ Xor(y, x) = Xor(z, x)
  PROVE  y = z
<1>1. PICK x0, x1, x2, x3, x4, x5, x6, x7 : IsOctet(x, x0, x1, x2, x3, x4, x5, x6, x7)
  BY BitsOf
<1>2. PICK y0, y1, y2, y3, y4, y5, y6, y7 : IsOctet(y, y0, y1, y2, y3, y4, y5, y6, y7)
  BY BitsOf
<1>3. PICK z0, z1, z2, z3, z4, z5, z6, z7 : IsOctet(z, z0, z1, z2, z3, z4, z5, z6, z7)
  BY BitsOf
<1>4. /\ IsOctet(Xor(x, y), Flip(x0, y0), Flip(x1, y1), Flip(x2, y2), Flip(x3, y3),
                 Flip(x4, y4), Flip(x5, y5), Flip(x6, y6), Flip(x7, y7))
      /\ IsOctet(Xor(x, z), Flip(x0, z0), Flip(x1, z1), Flip(x2, z2), Flip(x3, z3),
                 Flip(x4, z4), Flip(x5, z5), Flip(x6, z6), Flip(x7, z7))
  BY ONLY <1>1, <1>2, <1>3, XorBits
<1>5. \A a, b : Xor(a, b) = Xor(b, a)
  BY ONLY DEF Xor
<1>6. Xor(x, y) = Xor(x, z)
  BY <1>5
<1>7. /\ Flip(x0, y0) = Flip(x0, z0) /\ Flip(x1, y1) = Flip(x1, z1) /\ Flip(x2, y2) = Flip(x2, z2)
      /\ Flip(x3, y3) = Flip(x3, z3) /\ Flip(x4, y4) = Flip(x4, z4) /\ Flip(x5, y5) = Flip(x5, z5)
      /\ Flip(x6, y6) = Flip(x6, z6) /\ Flip(x7, y7) = Flip(x7, z7)
  BY ONLY <1>4, <1>6, SameBits
<1>8. /\ y0 = z0 /\ y1 = z1 /\ y2 = z2 /\ y3 = z3 /\ y4 = z4 /\ y5 = z5 /\ y6 = z6 /\ y7 = z7
  BY ONLY <1>1, <1>2, <1>3, <1>7 DEF IsOctet, Flip, Bit
<1> QED
  BY ONLY <1>2, <1>3, <1>8 DEF IsOctet

\* A turn of the loop keeps two registers apart, and two bytes.
LEMMA TurnTells ==
  ASSUME NEW r \in Register, NEW s \in Register, NEW b \in Byte, NEW d \in Byte,
         CrcStep(r, b) = CrcStep(s, d), r = s \/ b = d
  PROVE  r = s /\ b = d
<1>1. r.lo \in Byte /\ r.hi \in Byte /\ s.lo \in Byte /\ s.hi \in Byte
  BY DEF Register
<1>2. PICK x \in Byte, y \in Byte : x = Xor(r.lo, b) /\ y = Xor(s.lo, d)
  BY ONLY XorType
<1>3. /\ CrcStep(r, b) = [lo |-> Xor(r.hi, auchCRCHi[x + 1]), hi |-> auchCRCLo[x + 1]]
      /\ CrcStep(s, d) = [lo |-> Xor(s.hi, auchCRCHi[y + 1]), hi |-> auchCRCLo[y + 1]]
  BY ONLY <1>2 DEF CrcStep
<1>4. auchCRCLo[x + 1] = auchCRCLo[y + 1] /\ Xor(r.hi, auchCRCHi[x + 1]) = Xor(s.hi, auchCRCHi[y + 1])
  <2>1. PICK u, v, p, q : /\ u = Xor(r.hi, auchCRCHi[x + 1]) /\ v = auchCRCLo[x + 1]
                          /\ p = Xor(s.hi, auchCRCHi[y + 1]) /\ q = auchCRCLo[y + 1]
    OBVIOUS
  <2>2. [lo |-> u, hi |-> v] = [lo |-> p, hi |-> q]
    BY <1>3, <2>1, Zenon
  <2>3. u = p /\ v = q
    BY ONLY <2>2
  <2> QED
    BY ONLY <2>1, <2>3
<1>5. x = y
  BY ONLY <1>4, LoTableTells, x \in Byte, y \in Byte
<1>6. auchCRCHi[x + 1] \in Byte
  <2>1. PICK h0, h1, h2, h3, h4, h5, h6, h7 : IsOctet(x, h0, h1, h2, h3, h4, h5, h6, h7)
    BY BitsOf
  <2>2. PICK c0, c1, c2, c3, c4, c5, c6, c7 :
          Falls(h0, h1, h2, h3, h4, h5, h6, h7, c0, c1, c2, c3, c4, c5, c6, c7)
    BY DEF Falls
  <2>3. PICK z : z = 0
    OBVIOUS
  <2>4. IsOctet(auchCRCHi[x + 1], c7, z, z, z, z, z, c0, c1)
    BY ONLY <2>1, <2>2, <2>3, HiTable
  <2> QED
    BY ONLY <2>4, OctetPlaces
<1>7. r.hi = s.hi
  BY ONLY <1>1, <1>4, <1>5, <1>6, XorTells
<1>8. CASE r = s
  <2>1. Xor(r.lo, b) = Xor(r.lo, d)
    BY ONLY <1>2, <1>5, <1>8
  <2>2. b = d
    BY ONLY <1>1, <2>1, XorTells, b \in Byte, d \in Byte
  <2> QED
    BY ONLY <1>8, <2>2
<1>9. CASE b = d
  <2>1. Xor(r.lo, b) = Xor(s.lo, b)
    BY ONLY <1>2, <1>5, <1>9
  <2>2. r.lo = s.lo
    BY ONLY <1>1, <2>1, XorTells, b \in Byte
  <2>3. r = s
    BY ONLY <1>7, <2>2, r \in Register, s \in Register DEF Register
  <2> QED
    BY ONLY <1>9, <2>3
<1> QED
  BY ONLY <1>8, <1>9, r = s \/ b = d

\* For every message of any length: if one byte of it changes, to whatever value, its checksum does.
\* The loops agree up to that byte, and from then on they differ after every byte.
THEOREM OneByteTells ==
  ASSUME NEW p \in Seq(Byte), NEW q \in Seq(Byte), Len(p) = Len(q), NEW k \in 1 .. Len(p),
         p[k] # q[k], \A j \in 1 .. Len(p) : j # k => p[j] = q[j]
  PROVE  CRC16(p) # CRC16(q)
<1>1. PICK n \in Nat : n = Len(p) /\ n = Len(q) /\ k \in 1 .. n /\ k \in Nat /\ n \in 0 .. n
  OBVIOUS
<1>2. ASSUME NEW j \in 1 .. n PROVE p[j] \in Byte /\ q[j] \in Byte /\ j \in Nat
  <2>1. j \in 1 .. Len(p) /\ j \in 1 .. Len(q) /\ j \in Nat
    BY ONLY <1>1, j \in 1 .. n
  <2> QED
    BY ONLY <2>1, ElementOf, p \in Seq(Byte), q \in Seq(Byte), Zenon
<1>3. PICK c, d : c = CrcTurn(p) /\ d = CrcTurn(q)
  OBVIOUS
<1>4. PICK g : g \in Turns(Register, c, 1, CrcStart, n)
  BY ONLY <1>1, <1>3, CrcLoopIs
<1>5. PICK h : h \in Turns(Register, d, 1, CrcStart, n)
  BY ONLY <1>1, <1>3, CrcLoopIs
<1>6. /\ g \in [0 .. n -> Register] /\ g[0] = CrcStart /\ \A j \in 1 .. n : g[j] = c[<<g[j - 1], 1 + j - 1>>]
      /\ h \in [0 .. n -> Register] /\ h[0] = CrcStart /\ \A j \in 1 .. n : h[j] = d[<<h[j - 1], 1 + j - 1>>]
  BY ONLY <1>4, <1>5 DEF Turns
<1>7. ASSUME NEW j \in 1 .. n, NEW m \in 0 .. n, m = j - 1
      PROVE  /\ g[m] \in Register /\ h[m] \in Register
             /\ g[j] = CrcStep(g[m], p[j]) /\ h[j] = CrcStep(h[m], q[j])
  <2>1. g[m] \in Register /\ h[m] \in Register
    BY ONLY <1>6, m \in 0 .. n
  <2>2. PICK a \in Register, b \in Register : a = g[m] /\ b = h[m]
    BY ONLY <2>1
  <2>3. 1 + j - 1 = j /\ j \in Nat
    BY ONLY j \in 1 .. n
  <2>4. g[j] = c[<<a, j>>] /\ h[j] = d[<<b, j>>]
    BY ONLY <1>6, <2>2, <2>3, j \in 1 .. n, m = j - 1
  <2>5. CrcTurn(p)[<<a, j>>] = CrcStep(a, p[j]) /\ CrcTurn(q)[<<b, j>>] = CrcStep(b, q[j])
    <3>1. PICK u, v : u = <<a, j>> /\ v = <<b, j>>
      OBVIOUS
    <3>2. u \in Register \X Nat /\ u[1] = a /\ u[2] = j /\ v \in Register \X Nat /\ v[1] = b /\ v[2] = j
      BY ONLY <2>3, <3>1, a \in Register, b \in Register
    <3>3. CrcTurn(p)[u] = CrcStep(u[1], p[u[2]]) /\ CrcTurn(q)[v] = CrcStep(v[1], q[v[2]])
      BY ONLY <3>2, Zenon DEF CrcTurn
    <3> QED
      BY ONLY <3>1, <3>2, <3>3
  <2> QED
    BY ONLY <1>3, <2>1, <2>2, <2>4, <2>5, Zenon
<1> DEFINE T == {j \in 0 .. n : (j < k /\ g[j] # h[j]) \/ (k <= j /\ g[j] = h[j])}
<1>8. T = {}
  <2> SUFFICES ASSUME T # {} PROVE FALSE
    OBVIOUS
  <2>1. T \subseteq Nat
    OBVIOUS
  <2>2. PICK j \in T : \A i \in T : j <= i
    <3> HIDE DEF T
    <3> QED
      BY ONLY <2>1, T # {}, LeastNumber
  <2>3. j \in 0 .. n /\ ((j < k /\ g[j] # h[j]) \/ (k <= j /\ g[j] = h[j]))
    BY ONLY j \in T
  <2>4. j # 0
    BY ONLY <1>1, <1>6, <2>3
  <2>5. PICK m \in 0 .. n : m = j - 1
    BY ONLY <2>3, <2>4
  <2>6. j \in 1 .. n /\ m < j
    BY ONLY <2>3, <2>4, <2>5
  <2>7. m \notin T
    BY ONLY <2>2, <2>3, <2>5, <2>6
  <2>8. (m < k => g[m] = h[m]) /\ (k <= m => g[m] # h[m])
    BY ONLY <2>7, m \in 0 .. n
  <2>9. /\ g[m] \in Register /\ h[m] \in Register
        /\ g[j] = CrcStep(g[m], p[j]) /\ h[j] = CrcStep(h[m], q[j])
    BY ONLY <1>7, <2>5, <2>6
  <2>10. CASE j < k
    <3>1. p[j] = q[j] /\ m < k
      BY ONLY <1>1, <2>5, <2>6, <2>10, \A i \in 1 .. Len(p) : i # k => p[i] = q[i]
    <3> QED
      BY ONLY <1>1, <2>3, <2>8, <2>9, <2>10, <3>1
  <2>11. CASE k <= j
    <3>1. CrcStep(g[m], p[j]) = CrcStep(h[m], q[j])
      BY ONLY <1>1, <2>3, <2>9, <2>11
    <3>2. CASE j = k
      <4>1. g[m] = h[m]
        BY ONLY <1>1, <2>5, <2>8, <3>2
      <4>2. p[k] = q[k]
        BY ONLY <1>1, <1>2, <2>9, <3>1, <3>2, <4>1, TurnTells
      <4> QED
        BY ONLY <4>2, p[k] # q[k]
    <3>3. CASE j # k
      <4>1. p[j] = q[j] /\ g[m] # h[m]
        <5>1. k <= m
          BY ONLY <1>1, <2>5, <2>6, <2>11, <3>3, n \in Nat
        <5> QED
          BY ONLY <1>1, <2>6, <2>8, <3>3, <5>1, \A i \in 1 .. Len(p) : i # k => p[i] = q[i]
      <4>2. g[m] = h[m]
        BY ONLY <1>2, <2>6, <2>9, <3>1, <4>1, TurnTells
      <4> QED
        BY ONLY <4>1, <4>2
    <3> QED
      BY ONLY <3>2, <3>3
  <2> QED
    BY ONLY <1>1, <2>3, <2>10, <2>11
<1>9. PICK a \in Register, b \in Register : a = g[n] /\ b = h[n] /\ a # b
  <2>1. n \notin T
    BY ONLY <1>8
  <2>2. g[n] # h[n]
    BY ONLY <1>1, <2>1
  <2> QED
    BY ONLY <1>1, <1>6, <2>2
<1>10. CRC16(p) = a.hi * 256 + a.lo /\ CRC16(q) = b.hi * 256 + b.lo
  <2>1. CrcLoop(p) = g[n] /\ CrcLoop(q) = h[n]
    BY ONLY <1>1, <1>3, <1>4, <1>5, CrcLoopIs
  <2> QED
    BY ONLY <1>9, <2>1 DEF CRC16
<1>11. a.lo \in Byte /\ a.hi \in Byte /\ b.lo \in Byte /\ b.hi \in Byte /\ (a.lo # b.lo \/ a.hi # b.hi)
  BY ONLY <1>9, a \in Register, b \in Register DEF Register
<1> QED
  <2>1. PICK u \in Byte, v \in Byte, w \in Byte, z \in Byte : u = a.lo /\ v = a.hi /\ w = b.lo /\ z = b.hi
    BY ONLY <1>11
  <2>2. v * 256 + u # z * 256 + w
    <3>1. u # w \/ v # z
      BY ONLY <1>11, <2>1
    <3> QED
      BY ONLY <3>1, u \in Byte, v \in Byte, w \in Byte, z \in Byte DEF Byte
  <2> QED
    BY ONLY <1>10, <2>1, <2>2

\* A frame of which one byte changed on the line, in the message or in the checksum, is not a frame:
\* its last two bytes are not the checksum of the others.  (The master looks for the checksum where
\* its reader stopped, which is there as long as the byte that changed did not make it stop elsewhere.)
THEOREM ChangedFrameTells ==
  ASSUME NEW slave \in Byte, NEW p \in Seq(Byte), NEW f \in Seq(Byte),
         Len(f) = Len(RtuFrame(slave, p)), NEW k \in 1 .. Len(f),
         f[k] # RtuFrame(slave, p)[k],
         \A j \in 1 .. Len(f) : j # k => f[j] = RtuFrame(slave, p)[j]
  PROVE  CrcBytes(CRC16(SubSeq(f, 1, Len(f) - 2))) # SubSeq(f, Len(f) - 1, Len(f))
<1>1. PICK m \in Seq(Byte) : m = <<slave>> \o p
  <2>1. <<slave>> \in Seq(Byte)
    BY ONLY slave \in Byte
  <2> QED
    BY ONLY <2>1, ConcatAt, p \in Seq(Byte)
<1>2. PICK c \in Seq(Byte) : c = CrcBytes(CRC16(m)) /\ Len(c) = 2
  BY ONLY CrcType, m \in Seq(Byte)
<1>3. PICK n \in Nat : n = Len(m)
  BY ONLY m \in Seq(Byte)
<1>4. RtuFrame(slave, p) = m \o c
  BY ONLY <1>1, <1>2 DEF RtuFrame
<1>5. Len(f) = n + 2
  <2>1. Len(m \o c) = Len(m) + Len(c)
    BY ONLY ConcatAt, m \in Seq(Byte), c \in Seq(Byte)
  <2> QED
    BY ONLY <1>2, <1>3, <1>4, <2>1, Len(f) = Len(RtuFrame(slave, p))
<1>6. /\ \A j \in 1 .. n : (m \o c)[j] = m[j]
      /\ (m \o c)[n + 1] = c[1] /\ (m \o c)[n + 2] = c[2]
  <2>1. /\ \A j \in 1 .. Len(m) : (m \o c)[j] = m[j]
        /\ \A j \in 1 .. Len(c) : (m \o c)[j + Len(m)] = c[j]
    BY ONLY ConcatAt, m \in Seq(Byte), c \in Seq(Byte)
  <2>2. 1 \in 1 .. Len(c) /\ 2 \in 1 .. Len(c) /\ 1 + Len(m) = n + 1 /\ 2 + Len(m) = n + 2
    BY ONLY <1>2, <1>3, n \in Nat
  <2>3. (m \o c)[n + 1] = c[1] /\ (m \o c)[n + 2] = c[2]
    BY ONLY <2>1, <2>2
  <2> QED
    BY ONLY <1>3, <2>1, <2>3
<1>7. PICK x \in Seq(Byte), y \in Seq(Byte) : x = SubSeq(f, 1, n) /\ y = SubSeq(f, n + 1, n + 2)
  <2>1. SubSeq(f, 1, n) \in Seq(Byte)
    BY ONLY <1>5, f \in Seq(Byte), n \in Nat
  <2>2. SubSeq(f, n + 1, n + 2) \in Seq(Byte)
    BY ONLY <1>5, f \in Seq(Byte), n \in Nat
  <2> QED
    BY ONLY <2>1, <2>2
<1>8. Len(x) = n /\ Len(y) = 2 /\ y[1] = f[n + 1] /\ y[2] = f[n + 2] /\ \A j \in 1 .. n : x[j] = f[j]
  BY ONLY <1>5, <1>7, f \in Seq(Byte), n \in Nat
<1>9. k \in 1 .. n + 2 /\ f[k] # (m \o c)[k] /\ \A j \in 1 .. n + 2 : j # k => f[j] = (m \o c)[j]
  BY ONLY <1>4, <1>5, k \in 1 .. Len(f), f[k] # RtuFrame(slave, p)[k],
          \A j \in 1 .. Len(f) : j # k => f[j] = RtuFrame(slave, p)[j]
<1>10. CrcBytes(CRC16(x)) # y
  <2>1. CASE k \in 1 .. n
    <3>0. \A j \in 1 .. n : j \in 1 .. n + 2
      BY ONLY n \in Nat
    <3>1. x[k] # m[k] /\ \A j \in 1 .. n : j # k => x[j] = m[j]
      <4>1. PICK w : w = m \o c
        OBVIOUS
      <4>2. /\ \A j \in 1 .. n : w[j] = m[j]
            /\ f[k] # w[k] /\ \A j \in 1 .. n + 2 : j # k => f[j] = w[j]
        BY ONLY <1>6, <1>9, <4>1, Zenon
      <4> QED
        BY ONLY <1>8, <2>1, <3>0, <4>2, Zenon
    <3>2. CRC16(x) # CRC16(m)
      <4>1. Len(x) = Len(m) /\ k \in 1 .. Len(x) /\ \A j \in 1 .. Len(x) : j # k => x[j] = m[j]
        BY ONLY <1>3, <1>8, <2>1, <3>1, Zenon
      <4> QED
        BY ONLY <3>1, <4>1, OneByteTells, x \in Seq(Byte), m \in Seq(Byte), Zenon
    <3>3. y[1] = c[1] /\ y[2] = c[2]
      <4>1. n + 1 \in 1 .. n + 2 /\ n + 2 \in 1 .. n + 2 /\ n + 1 # k /\ n + 2 # k
        BY ONLY <2>1, n \in Nat
      <4> QED
        BY ONLY <1>6, <1>8, <1>9, <4>1, Zenon
    <3>4. CRC16(x) \in U16 /\ CRC16(m) \in U16
      BY ONLY <1>3, <1>8, CrcType, n \in Nat
    <3>5. PICK u \in U16, v \in U16 : u = CRC16(x) /\ v = CRC16(m)
      BY ONLY <3>4
    <3>6. u % 256 # v % 256 \/ u \div 256 # v \div 256
      <4>1. u # v
        BY ONLY <3>2, <3>5
      <4> QED
        BY ONLY <4>1, u \in U16, v \in U16 DEF U16
    <3>7. CrcBytes(u)[1] # c[1] \/ CrcBytes(u)[2] # c[2]
      BY ONLY <1>2, <3>5, <3>6 DEF CrcBytes
    <3> QED
      BY ONLY <3>3, <3>5, <3>7
  <2>2. CASE k \notin 1 .. n
    <3>1. \A j \in 1 .. n : x[j] = m[j]
      <4>1. \A j \in 1 .. n : j \in 1 .. n + 2 /\ j # k
        BY ONLY <2>2, n \in Nat
      <4> QED
        BY ONLY <1>6, <1>8, <1>9, <4>1, Zenon
    <3>2. x = m
      BY ONLY <1>3, <1>8, <3>1, SameSeq, x \in Seq(Byte), m \in Seq(Byte), Zenon
    <3>3. k = n + 1 \/ k = n + 2
      BY ONLY <1>9, <2>2, n \in Nat
    <3>4. y[1] # c[1] \/ y[2] # c[2]
      BY ONLY <1>6, <1>8, <1>9, <3>3
    <3> QED
      BY ONLY <1>2, <3>2, <3>4
  <2> QED
    BY ONLY <2>1, <2>2
<1>11. Len(f) - 2 = n /\ Len(f) - 1 = n + 1
  BY ONLY <1>5, n \in Nat
<1> QED
  BY ONLY <1>5, <1>7, <1>10, <1>11
================================================================================
