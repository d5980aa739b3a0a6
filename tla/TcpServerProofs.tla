---------------------------- MODULE TcpServerProofs ----------------------------
(* TypeOK, InOrder and ClosedForCause of TcpServer, for any number of           *)
(* connections and of frames on each of them, and whatever the frames are.      *)
EXTENDS TcpServer, WireLemmas

\* The operation holds the fields of the header of f.
Holds(o, f) ==
  /\ is_valid_length(Header(f).length)
  /\ o = [transaction_id |-> Header(f).transaction_id, length |-> Header(f).length,
          slave |-> Header(f).unit_id]

\* A session that has answered n of the frames fs is to read the next one from its start, or has
\* read its header and is to read its body.
InStep(st, o, s, left, n, fs) ==
  /\ st # "body" => Placed(s, left, n, 0, fs)
  /\ st = "body" => n < Len(fs) /\ Holds(o, fs[n + 1]) /\ Placed(s, left, n, header_size, fs)

Steady == \A c \in Conn :
            /\ Len(out[c]) <= Len(sent[c])
            /\ stage[c] # "closed" =>
                 InStep(stage[c], op[c], in[c], gone[c], Len(out[c]), sent[c])

Inv == TypeOK /\ Steady /\ InOrder /\ ClosedForCause

\* A frame is bytes, also when its length field cannot hold its length.
LEMMA FrameType ==
  ASSUME NEW tid \in U16, NEW unit \in Byte, NEW p \in Seq(Byte)
  PROVE  Frame(tid, unit, p) \in Seq(Byte)
<1> DEFINE w == <<tid, m_protocol, u16(Len(p) + 1)>>
           h == WordBytes(w)
<1>1. Len(p) + 1 \in Nat /\ m_protocol \in U16
  BY DEF m_protocol, U16
<1>2. u16(Len(p) + 1) \in U16
  BY ONLY <1>1, Casts
<1>3. w \in Seq(U16)
  BY ONLY <1>1, <1>2, tid \in U16
<1> HIDE DEF w
<1>4. h \in Seq(Byte) /\ <<unit>> \in Seq(Byte)
  <2>1. h \in Seq(Byte)
    BY ONLY <1>3, WordBytesType
  <2> QED
    BY ONLY <2>1, unit \in Byte
<1> HIDE DEF h
<1>5. h \o <<unit>> \in Seq(Byte)
  BY ONLY <1>4, ConcatAt
<1>6. h \o <<unit>> \o p \in Seq(Byte)
  BY ONLY <1>5, p \in Seq(Byte), ConcatAt
<1> QED
  BY ONLY <1>6 DEF Frame, h, w

\* A request that was read to its end has the words that the handler looks at.
LEMMA RequestWords ==
  ASSUME NEW s \in Seq(Byte), ReadReq(s).ec = modbus_exception_code.success
  PROVE  ReadReq(s).req.words \in Seq(U16) /\ Len(ReadReq(s).req.words) >= 2
<1>0. /\ modbus_exception_code.too_many_bytes_received # modbus_exception_code.success
      /\ modbus_exception_code.illegal_function # modbus_exception_code.success
  BY DEF modbus_exception_code
<1> DEFINE Failed == [ec |-> modbus_exception_code.too_many_bytes_received,
                      kept |-> TRUE, req |-> not_implemented]
           Unknown == [ec |-> modbus_exception_code.illegal_function, kept |-> FALSE,
                       req |-> not_implemented]
           l == ReqClass(s[1])
           fixed == 1 + 2 * l.words
           size == ReqSize(l, s)
           b == SubSeq(s, 2, fixed)
           Done == [ec |-> modbus_exception_code.success, kept |-> FALSE,
                    req |-> Request(l, BytesWords(b), IF l.unit = 0 THEN 0 ELSE s[fixed + 1],
                                    SubSeq(s, fixed + 2, size))]
<1>1. ReadReq(s) = IF s = <<>> THEN Failed
                   ELSE IF \A k \in pdu_req : k.fc # s[1] THEN Unknown
                   ELSE IF Len(s) < size THEN Failed ELSE Done
  BY ONLY Zenon DEF ReadReq
<1>2. Failed.ec # modbus_exception_code.success /\ Unknown.ec # modbus_exception_code.success
  BY ONLY <1>0
<1>3. Done.req.words = BytesWords(b)
  BY ONLY DEF Request
<1>5. /\ l.unit = 0 => size = fixed
      /\ l.unit # 0 => size = fixed + 1 + (IF Len(s) > fixed THEN l.unit * (s[fixed + 1] \div l.unit) ELSE 0)
  BY ONLY Zenon DEF ReqSize
<1> HIDE DEF Failed, Unknown, Done, size
<1>6. s # <<>> /\ ~ (\A k \in pdu_req : k.fc # s[1]) /\ ~ (Len(s) < size) /\ ReadReq(s) = Done
  BY <1>1, <1>2
<1>7. l \in pdu_req
  <2>1. \E k \in pdu_req : k.fc = s[1]
    BY ONLY <1>6
  <2> QED
    BY ONLY <2>1 DEF ReqClass
<1> HIDE DEF l
<1>8. l.words \in {2, 4} /\ l.unit \in {0, 1, 2}
  BY ONLY <1>7, ReqClassFacts
<1>9. fixed \in Nat /\ fixed <= Len(s) /\ fixed - 1 = 2 * l.words
  <2>1. fixed \in Nat /\ fixed - 1 = 2 * l.words
    BY ONLY <1>8
  <2> HIDE DEF fixed
  <2>2. Len(s) \in Nat
    OBVIOUS
  <2>3. CASE l.unit = 0
    BY ONLY <1>5, <1>6, <2>1, <2>2, <2>3
  <2>4. CASE l.unit # 0
    <3>1. CASE Len(s) > fixed
      BY ONLY <2>1, <2>2, <3>1
    <3>2. CASE ~ (Len(s) > fixed)
      BY ONLY <1>5, <1>6, <2>1, <2>2, <2>4, <3>2
    <3> QED
      BY ONLY <2>1, <3>1, <3>2
  <2> QED
    BY ONLY <2>1, <2>3, <2>4
<1>10. b \in Seq(Byte) /\ Len(b) = 2 * l.words
  <2>1. PICK n \in Nat : n = fixed /\ n <= Len(s) /\ n - 1 = 2 * l.words /\ n >= 5
    BY ONLY <1>8, <1>9
  <2>2. SubSeq(s, 2, n) \in Seq(Byte) /\ Len(SubSeq(s, 2, n)) = n - 1
    BY ONLY <2>1, s \in Seq(Byte)
  <2> QED
    BY ONLY <2>1, <2>2
<1> HIDE DEF b
<1>11. BytesWords(b) \in Seq(U16) /\ Len(BytesWords(b)) = Len(b) \div 2
  BY ONLY <1>10, BytesWordsType
<1>12. Len(b) \div 2 >= 2
  BY ONLY <1>8, <1>10
<1> QED
  BY ONLY <1>3, <1>6, <1>11, <1>12

\* The response of the handler to a request that was read is bytes.
LEMMA HandleType ==
  ASSUME NEW slave \in Byte, NEW req, req.words \in Seq(U16), Len(req.words) >= 2
  PROVE  Handle(slave, req) \in Seq(Byte)
<1> DEFINE fc == function_code.read_holding_registers
           E(code) == WriteException(fc, code)
           n == 2 * req.words[2]
           v == [k \in 1 .. n |-> 0]
<1>1. fc \in Byte
  BY DEF function_code, Byte
<1>2. /\ modbus_exception_code.illegal_function \in Nat
      /\ modbus_exception_code.gateway_path_unavailable \in Nat
      /\ modbus_exception_code.illegal_data_address \in Nat
  BY DEF modbus_exception_code
<1>3. /\ E(modbus_exception_code.illegal_function) \in Seq(Byte)
      /\ E(modbus_exception_code.gateway_path_unavailable) \in Seq(Byte)
      /\ E(modbus_exception_code.illegal_data_address) \in Seq(Byte)
  BY ONLY <1>1, <1>2, WriteExceptionType
<1>4. n \in Nat
  <2>1. req.words[2] \in U16
    OBVIOUS
  <2> QED
    BY ONLY <2>1 DEF U16
<1> HIDE DEF n
<1>5. v \in Seq(Byte)
  <2>1. 0 \in Byte
    BY DEF Byte
  <2> QED
    BY ONLY <1>4, <2>1
<1> HIDE DEF v
<1>6. WriteValues(fc, v) \in Seq(Byte)
  BY ONLY <1>1, <1>5, WriteValuesType
<1>7. Handle(slave, req) \in {E(modbus_exception_code.illegal_function),
        E(modbus_exception_code.gateway_path_unavailable), WriteValues(fc, v),
        E(modbus_exception_code.illegal_data_address)}
  BY DEF Handle, v, n
<1> HIDE DEF E, fc
<1> QED
  BY ONLY <1>3, <1>6, <1>7

--------------------------------------------------------------------------------
(* The place of a session in the stream of its client.                          *)

\* What is known of a frame.
LEMMA FrameFacts ==
  ASSUME NEW f \in Frames
  PROVE  /\ f \in Seq(Byte) /\ Len(f) \in Nat /\ Len(f) >= 7
         /\ Header(f).length \in Nat /\ Header(f).length \in U16
         /\ is_valid_length(Header(f).length) => Len(f) = 6 + Header(f).length
<1>1. /\ f \in Seq(Byte) /\ Len(f) >= header_size /\ header_size = 7
      /\ is_valid_length(Header(f).length) => Len(f) = header_size - 1 + Header(f).length
  BY FramesTyped DEF header_size
<1>2. Header(f).length \in U16
  BY ONLY <1>1, HeaderFields
<1> QED
  BY ONLY <1>1, <1>2 DEF U16

\* A new connection.
LEMMA LaidNothing == ASSUME NEW o PROVE InStep("new", o, <<>>, FALSE, 0, <<>>)
  BY StreamEmpty DEF InStep

\* A frame goes behind the others.
LEMMA LaidSent ==
  ASSUME NEW st, NEW o, NEW s \in Seq(Byte), NEW n, NEW fs \in Seq(Frames), NEW f \in Frames,
         InStep(st, o, s, FALSE, n, fs)
  PROVE  InStep(st, o, s \o f, FALSE, n, Append(fs, f))
<1>1. Bytewise(Frames)
  BY FrameFacts DEF Bytewise
<1>2. \A off \in Nat : Placed(s, FALSE, n, off, fs) => Placed(s \o f, FALSE, n, off, Append(fs, f))
  BY ONLY <1>1, StreamSent, s \in Seq(Byte), fs \in Seq(Frames), f \in Frames
<1>3. 0 \in Nat /\ header_size \in Nat
  BY DEF header_size
<1>4. CASE st # "body"
  BY ONLY <1>2, <1>3, <1>4, InStep(st, o, s, FALSE, n, fs) DEF InStep
<1>5. CASE st = "body"
  <2>1. n < Len(fs) /\ Holds(o, fs[n + 1]) /\ Placed(s, FALSE, n, header_size, fs)
    BY <1>5 DEF InStep
  <2>2. n \in Nat
    <3>1. PICK full, at : Laid(full, at, fs) /\ n \in 0 .. Len(fs)
      BY ONLY <2>1 DEF Placed
    <3> QED
      BY ONLY <3>1, LaidAt, fs \in Seq(Frames)
  <2>3. n < Len(Append(fs, f)) /\ Append(fs, f)[n + 1] = fs[n + 1]
    BY ONLY <2>1, <2>2, fs \in Seq(Frames), f \in Frames
  <2> QED
    BY ONLY <1>2, <1>3, <1>5, <2>1, <2>3 DEF InStep
<1> QED
  BY ONLY <1>4, <1>5

\* What the client sent last may be lost when it leaves.
LEMMA LaidLost ==
  ASSUME NEW st, NEW o, NEW s \in Seq(Byte), NEW left, NEW n, NEW fs \in Seq(Frames), NEW i \in Nat,
         i <= Len(s), InStep(st, o, s, left, n, fs)
  PROVE  InStep(st, o, Take(s, i), TRUE, n, fs)
<1>1. \A off \in Nat : Placed(s, left, n, off, fs) => Placed(Take(s, i), TRUE, n, off, fs)
  BY ONLY StreamLost, s \in Seq(Byte), fs \in Seq(Frames), i \in Nat, i <= Len(s)
<1>2. 0 \in Nat /\ header_size \in Nat
  BY DEF header_size
<1> QED
  BY <1>1, <1>2 DEF InStep

\* parse_header meets the header of the next frame of the client.
LEMMA LaidHeader ==
  ASSUME NEW o, NEW s \in Seq(Byte), NEW left, NEW n, NEW fs \in Seq(Frames),
         Len(s) >= header_size, InStep("header", o, s, left, n, fs)
  PROVE  /\ n \in Nat /\ n < Len(fs) /\ fs[n + 1] \in Frames /\ Header(s) = Header(fs[n + 1])
         /\ Drop(s, header_size) \in Seq(Byte)
         /\ \A x : Holds(x, fs[n + 1]) => InStep("body", x, Drop(s, header_size), left, n, fs)
<1> DEFINE f == fs[n + 1]
<1>1. Placed(s, left, n, 0, fs)
  BY DEF InStep
<1>2. Len(s) \in Nat /\ Len(s) > 0 /\ 7 <= Len(s)
  BY DEF header_size
<1>3. n \in Nat /\ n < Len(fs) /\ f \in Frames
  BY ONLY <1>1, <1>2, StreamGoesOn, s \in Seq(Byte), fs \in Seq(Frames)
<1>4. Len(f) \in Nat /\ Len(f) >= 7 /\ Bytewise(Frames)
  BY ONLY <1>3, FrameFacts DEF Bytewise
<1>5. 0 \in Nat /\ 7 \in Nat /\ 0 + 7 <= Len(f) /\ 0 + 7 = 7
  BY ONLY <1>4
<1>6. /\ Drop(s, 7) \in Seq(Byte) /\ Placed(Drop(s, 7), left, n, 0 + 7, fs)
      /\ \A j \in 1 .. 7 : s[j] = f[0 + j]
  <2>1. PICK z \in Nat, k \in Nat : z = 0 /\ k = 7
    OBVIOUS
  <2>2. k <= Len(s) /\ n < Len(fs) /\ z + k <= Len(fs[n + 1]) /\ Placed(s, left, n, z, fs)
    BY ONLY <1>1, <1>2, <1>3, <1>5, <2>1
  <2>3. Reads(s, left, n, z, fs, k)
    BY ONLY <1>4, <2>2, StreamRead, s \in Seq(Byte), fs \in Seq(Frames), z \in Nat, k \in Nat
  <2> QED
    BY ONLY <2>1, <2>3 DEF Reads
<1>7. Header(s) = Header(f)
  BY ONLY <1>6, SameHeader
<1>8. Placed(Drop(s, header_size), left, n, header_size, fs) /\ Drop(s, header_size) \in Seq(Byte)
  BY ONLY <1>5, <1>6 DEF header_size
<1>9. ASSUME NEW x, Holds(x, f) PROVE InStep("body", x, Drop(s, header_size), left, n, fs)
  BY ONLY <1>3, <1>8, <1>9 DEF InStep
<1> QED
  BY ONLY <1>3, <1>7, <1>8, <1>9

\* parse_body meets the PDU of the frame whose header was read, and ends where the frame does.
LEMMA LaidBody ==
  ASSUME NEW o, NEW s \in Seq(Byte), NEW left, NEW n, NEW fs \in Seq(Frames),
         InStep("body", o, s, left, n, fs), Len(s) >= o.length - 1
  PROVE  /\ n \in Nat /\ n < Len(fs) /\ fs[n + 1] \in Frames /\ Holds(o, fs[n + 1])
         /\ Take(s, o.length - 1) = Drop(fs[n + 1], header_size)
         /\ Drop(s, o.length - 1) \in Seq(Byte)
         /\ InStep("header", o, Drop(s, o.length - 1), left, n + 1, fs)
<1> DEFINE f == fs[n + 1]
           i == o.length - 1
<1>1. n < Len(fs) /\ Holds(o, f) /\ Placed(s, left, n, 7, fs)
  BY DEF InStep, header_size
<1>2. n \in Nat /\ f \in Frames
  <2>1. PICK full, at : Laid(full, at, fs) /\ n \in 0 .. Len(fs)
    BY ONLY <1>1 DEF Placed
  <2>2. n \in Nat /\ n + 1 \in 1 .. Len(fs)
    BY ONLY <1>1, <2>1, LaidAt, fs \in Seq(Frames)
  <2> QED
    BY ONLY <2>2, fs \in Seq(Frames)
<1>3. Bytewise(Frames)
  BY FrameFacts DEF Bytewise
<1>4. /\ Len(f) \in Nat /\ Len(f) >= 7 /\ Header(f).length \in Nat
      /\ Len(f) = 6 + Header(f).length /\ o.length = Header(f).length
  <2>1. is_valid_length(Header(f).length) /\ o.length = Header(f).length
    BY ONLY <1>1 DEF Holds
  <2> QED
    BY ONLY <1>2, <2>1, FrameFacts
<1>5. i \in Nat /\ i <= Len(s) /\ 7 + i = Len(f) /\ 7 + i <= Len(f) /\ 7 \in Nat
  <2>1. Len(s) >= o.length - 1 /\ Len(s) \in Nat
    OBVIOUS
  <2> QED
    BY ONLY <1>4, <2>1
<1> HIDE DEF i
<1>6. /\ Drop(s, i) \in Seq(Byte) /\ Placed(Drop(s, i), left, n, 7 + i, fs)
      /\ Take(s, i) = Drop(f, 7)
  <2>1. PICK k \in Nat : k = 7
    OBVIOUS
  <2>2. k + i <= Len(fs[n + 1]) /\ k + i = Len(fs[n + 1]) /\ Placed(s, left, n, k, fs)
    BY ONLY <1>1, <1>5, <2>1
  <2>3. Reads(s, left, n, k, fs, i)
    BY ONLY <1>1, <1>3, <1>5, <2>2, StreamRead, s \in Seq(Byte), fs \in Seq(Frames), k \in Nat
  <2> QED
    BY ONLY <2>1, <2>2, <2>3 DEF Reads
<1>7. Placed(Drop(s, i), left, n + 1, 0, fs)
  BY ONLY <1>1, <1>5, <1>6, StreamDone, fs \in Seq(Frames)
<1>8. InStep("header", o, Drop(s, i), left, n + 1, fs)
  BY ONLY <1>7 DEF InStep
<1> QED
  BY ONLY <1>1, <1>2, <1>6, <1>8 DEF i, header_size

--------------------------------------------------------------------------------
(* One connection: every step of a session or of its client keeps it in order.  *)

\* Inv, for a connection whose variables have these values.
Orderly(st, o, s, left, rs, fs) ==
  /\ st \in {"new", "header", "body", "closed"}
  /\ o \in [transaction_id : U16, length : U16, slave : Byte]
  /\ s \in Seq(Byte) /\ left \in BOOLEAN /\ rs \in Seq(Seq(Byte)) /\ fs \in Seq(Frames)
  /\ Len(rs) <= Len(fs)
  /\ st # "closed" => InStep(st, o, s, left, Len(rs), fs)
  /\ \A k \in 1 .. Len(rs) : rs[k] = Response(fs[k])
  /\ st = "closed" => \/ left
                      \/ Len(rs) < Len(fs) /\ ~ Readable(fs[Len(rs) + 1])

\* The response to a frame that can be read is bytes.
LEMMA ResponseType ==
  ASSUME NEW f \in Frames, ReadReq(Drop(f, header_size)).ec = modbus_exception_code.success
  PROVE  Response(f) \in Seq(Byte)
<1> DEFINE h == Header(f)
           p == Drop(f, header_size)
           req == ReadReq(p).req
<1>1. f \in Seq(Byte) /\ Len(f) >= header_size /\ header_size \in Nat
  BY FramesTyped DEF header_size
<1>2. h.transaction_id \in U16 /\ h.unit_id \in Byte
  BY ONLY <1>1, HeaderFields
<1>3. p \in Seq(Byte)
  BY ONLY <1>1, PartsOfBytes
<1>4. ReadReq(p).ec = modbus_exception_code.success
  OBVIOUS
<1> HIDE DEF p, h
<1>5. req.words \in Seq(U16) /\ Len(req.words) >= 2
  BY ONLY <1>3, <1>4, RequestWords
<1> HIDE DEF req
<1>6. Handle(h.unit_id, req) \in Seq(Byte)
  BY ONLY <1>2, <1>5, HandleType
<1>7. Frame(h.transaction_id, h.unit_id, Handle(h.unit_id, req)) \in Seq(Byte)
  BY ONLY <1>2, <1>6, FrameType
<1> QED
  BY ONLY <1>7, Zenon DEF Response, h, p, req

\* parse_header refuses a length: the frame that is next has no answer to wait for.
LEMMA OrderlyRefused ==
  ASSUME NEW o, NEW s, NEW left, NEW rs, NEW fs, Orderly("header", o, s, left, rs, fs),
         Len(s) >= header_size, ~ is_valid_length(Header(s).length)
  PROVE  Orderly("closed", o, Drop(s, header_size), left, rs, fs)
<1> DEFINE n == Len(rs)
           f == fs[n + 1]
<1>1. /\ o \in [transaction_id : U16, length : U16, slave : Byte]
      /\ s \in Seq(Byte) /\ left \in BOOLEAN /\ rs \in Seq(Seq(Byte)) /\ fs \in Seq(Frames)
      /\ n <= Len(fs) /\ InStep("header", o, s, left, n, fs)
      /\ \A k \in 1 .. n : rs[k] = Response(fs[k])
  BY DEF Orderly
<1> HIDE DEF n
<1>2. n < Len(fs) /\ f \in Frames /\ Header(s) = Header(f) /\ Drop(s, header_size) \in Seq(Byte)
  <2>1. s \in Seq(Byte) /\ fs \in Seq(Frames) /\ InStep("header", o, s, left, n, fs)
    BY ONLY <1>1
  <2>2. n < Len(fs) /\ fs[n + 1] \in Frames
    BY ONLY <2>1, Len(s) >= header_size, LaidHeader
  <2>3. /\ Header(s) = Header(fs[n + 1]) /\ Drop(s, header_size) \in Seq(Byte)
        /\ \A y : Holds(y, fs[n + 1]) => InStep("body", y, Drop(s, header_size), left, n, fs)
    BY ONLY <2>1, Len(s) >= header_size, LaidHeader
  <2> QED
    BY ONLY <2>2, <2>3
<1>3. ~ Readable(f)
  <2> HIDE DEF f
  <2>1. Len(f) \in Nat /\ Header(f).length \in Nat
    BY ONLY <1>2, FrameFacts
  <2>2. ~ is_valid_length(Header(f).length)
    BY <1>2
  <2> QED
    BY ONLY <2>1, <2>2 DEF Readable, is_valid_length, header_size, max_adu_size
<1> QED
  BY ONLY <1>1, <1>2, <1>3 DEF Orderly, n

\* parse_header takes the fields of a header.
LEMMA OrderlyHeader ==
  ASSUME NEW o, NEW s, NEW left, NEW rs, NEW fs, Orderly("header", o, s, left, rs, fs),
         Len(s) >= header_size, is_valid_length(Header(s).length)
  PROVE  Orderly("body", [transaction_id |-> Header(s).transaction_id, length |-> Header(s).length,
                          slave |-> Header(s).unit_id], Drop(s, header_size), left, rs, fs)
<1> DEFINE n == Len(rs)
           f == fs[n + 1]
           x == [transaction_id |-> Header(s).transaction_id, length |-> Header(s).length,
                 slave |-> Header(s).unit_id]
<1>1. /\ s \in Seq(Byte) /\ left \in BOOLEAN /\ rs \in Seq(Seq(Byte)) /\ fs \in Seq(Frames)
      /\ n <= Len(fs) /\ InStep("header", o, s, left, n, fs)
      /\ \A k \in 1 .. n : rs[k] = Response(fs[k])
  BY DEF Orderly
<1> HIDE DEF n
<1>2. /\ Header(s) = Header(f) /\ Drop(s, header_size) \in Seq(Byte)
      /\ \A y : Holds(y, f) => InStep("body", y, Drop(s, header_size), left, n, fs)
  BY ONLY <1>1, Len(s) >= header_size, LaidHeader
<1>3. x \in [transaction_id : U16, length : U16, slave : Byte]
  <2>1. Header(s).length \in U16 /\ Header(s).transaction_id \in U16 /\ Header(s).unit_id \in Byte
    BY ONLY <1>1, Len(s) >= header_size, HeaderFields
  <2> QED
    BY ONLY <2>1
<1>4. Holds(x, f)
  <2> HIDE DEF f
  <2> QED
    BY <1>2 DEF Holds
<1> HIDE DEF x
<1>5. Orderly("body", x, Drop(s, header_size), left, rs, fs)
  BY ONLY <1>1, <1>2, <1>3, <1>4 DEF Orderly, n
<1> QED
  BY ONLY <1>5 DEF x

\* parse_body cannot read the PDU of the next frame.
LEMMA OrderlyUnreadable ==
  ASSUME NEW o, NEW s, NEW left, NEW rs, NEW fs, Orderly("body", o, s, left, rs, fs),
         Len(s) >= o.length - 1,
         ReadReq(Take(s, o.length - 1)).ec # modbus_exception_code.success
  PROVE  Orderly("closed", o, Drop(s, o.length - 1), left, rs, fs)
<1> DEFINE n == Len(rs)
           f == fs[n + 1]
<1>1. /\ o \in [transaction_id : U16, length : U16, slave : Byte]
      /\ s \in Seq(Byte) /\ left \in BOOLEAN /\ rs \in Seq(Seq(Byte)) /\ fs \in Seq(Frames)
      /\ n <= Len(fs) /\ InStep("body", o, s, left, n, fs)
      /\ \A k \in 1 .. n : rs[k] = Response(fs[k])
  BY DEF Orderly
<1> HIDE DEF n
<1>2. /\ n < Len(fs) /\ Take(s, o.length - 1) = Drop(f, header_size)
      /\ Drop(s, o.length - 1) \in Seq(Byte)
  BY ONLY <1>1, Len(s) >= o.length - 1, LaidBody
<1>3. ~ Readable(f)
  <2> HIDE DEF f
  <2> QED
    BY <1>2 DEF Readable
<1> QED
  BY ONLY <1>1, <1>2, <1>3 DEF Orderly, n

\* parse_body reads the PDU of the next frame, and the handler answers it.
LEMMA OrderlyAnswered ==
  ASSUME NEW o, NEW s, NEW left, NEW rs, NEW fs, Orderly("body", o, s, left, rs, fs),
         Len(s) >= o.length - 1,
         ReadReq(Take(s, o.length - 1)).ec = modbus_exception_code.success
  PROVE  Orderly("header", o, Drop(s, o.length - 1), left,
                 Append(rs, Frame(o.transaction_id, o.slave,
                                  Handle(o.slave, ReadReq(Take(s, o.length - 1)).req))), fs)
<1> DEFINE n == Len(rs)
           f == fs[n + 1]
           w == Frame(o.transaction_id, o.slave, Handle(o.slave, ReadReq(Take(s, o.length - 1)).req))
           ws == Append(rs, w)
<1>1. /\ o \in [transaction_id : U16, length : U16, slave : Byte]
      /\ s \in Seq(Byte) /\ left \in BOOLEAN /\ rs \in Seq(Seq(Byte)) /\ fs \in Seq(Frames)
      /\ n <= Len(fs) /\ InStep("body", o, s, left, n, fs)
      /\ \A k \in 1 .. n : rs[k] = Response(fs[k])
  BY DEF Orderly
<1>a. n \in Nat
  BY ONLY <1>1
<1> HIDE DEF n
<1>2. /\ n < Len(fs) /\ f \in Frames /\ Holds(o, f)
      /\ Take(s, o.length - 1) = Drop(f, header_size)
      /\ Drop(s, o.length - 1) \in Seq(Byte)
      /\ InStep("header", o, Drop(s, o.length - 1), left, n + 1, fs)
  BY ONLY <1>1, Len(s) >= o.length - 1, LaidBody
<1>3. o.transaction_id = Header(f).transaction_id /\ o.slave = Header(f).unit_id
  <2> HIDE DEF f
  <2> QED
    BY ONLY <1>2 DEF Holds
<1>4. w = Response(f)
  <2> HIDE DEF f
  <2> QED
    BY ONLY <1>2, <1>3, Zenon DEF Response, w
<1>5. Response(f) \in Seq(Byte)
  <2> HIDE DEF f
  <2>1. ReadReq(Drop(f, header_size)).ec = modbus_exception_code.success
    BY <1>2
  <2> QED
    BY ONLY <1>2, <2>1, ResponseType
<1> HIDE DEF w
<1>6. ws \in Seq(Seq(Byte)) /\ Len(ws) = n + 1 /\ ws[n + 1] = w /\ \A k \in 1 .. n : ws[k] = rs[k]
  <2>1. w \in Seq(Byte)
    BY ONLY <1>4, <1>5
  <2> QED
    BY ONLY <1>1, <2>1 DEF n
<1> HIDE DEF ws
<1>7. ASSUME NEW k \in 1 .. n + 1 PROVE ws[k] = Response(fs[k])
  <2>1. CASE k = n + 1
    BY ONLY <1>4, <1>6, <2>1
  <2>2. CASE k # n + 1
    <3>1. k \in 1 .. n
      BY ONLY <1>a, <2>2, k \in 1 .. n + 1
    <3> QED
      BY ONLY <1>1, <1>6, <3>1
  <2> QED
    BY ONLY <2>1, <2>2
<1>8. n + 1 <= Len(fs)
  <2>1. Len(fs) \in Nat
    BY ONLY <1>1
  <2> QED
    BY ONLY <1>a, <1>2, <2>1
<1>9. Orderly("header", o, Drop(s, o.length - 1), left, ws, fs)
  BY ONLY <1>1, <1>2, <1>6, <1>7, <1>8 DEF Orderly
<1> QED
  BY ONLY <1>9 DEF ws, w

\* The client sends a frame, whatever the session is at.
LEMMA OrderlySent ==
  ASSUME NEW st, NEW o, NEW s, NEW rs, NEW fs, Orderly(st, o, s, FALSE, rs, fs), NEW f \in Frames
  PROVE  Orderly(st, o, s \o f, FALSE, rs, Append(fs, f))
<1> DEFINE n == Len(rs)
           m == Len(fs)
           gs == Append(fs, f)
<1>1. /\ st \in {"new", "header", "body", "closed"}
      /\ o \in [transaction_id : U16, length : U16, slave : Byte]
      /\ s \in Seq(Byte) /\ rs \in Seq(Seq(Byte)) /\ fs \in Seq(Frames)
      /\ n <= m
      /\ st # "closed" => InStep(st, o, s, FALSE, n, fs)
      /\ \A k \in 1 .. n : rs[k] = Response(fs[k])
      /\ st = "closed" => n < m /\ ~ Readable(fs[n + 1])
  BY DEF Orderly
<1>2. n \in Nat /\ m \in Nat
  BY ONLY <1>1
<1>3. gs \in Seq(Frames) /\ Len(gs) = m + 1 /\ \A k \in 1 .. m : gs[k] = fs[k]
  BY ONLY <1>1, f \in Frames
<1>4. s \o f \in Seq(Byte)
  <2>1. f \in Seq(Byte)
    BY ONLY FrameFacts, f \in Frames
  <2> QED
    BY ONLY <1>1, <2>1, ConcatAt
<1>5. st # "closed" => InStep(st, o, s \o f, FALSE, n, gs)
  BY ONLY <1>1, f \in Frames, LaidSent
<1> HIDE DEF n, m, gs
<1>6. ASSUME NEW k \in 1 .. n PROVE rs[k] = Response(gs[k])
  <2>1. k \in 1 .. m
    BY ONLY <1>1, <1>2, k \in 1 .. n
  <2> QED
    BY ONLY <1>1, <1>3, <2>1
<1>7. st = "closed" => n < Len(gs) /\ ~ Readable(gs[n + 1])
  <2> SUFFICES ASSUME st = "closed" PROVE n < Len(gs) /\ ~ Readable(gs[n + 1])
    OBVIOUS
  <2>1. n < m /\ ~ Readable(fs[n + 1])
    BY <1>1
  <2>2. n < m + 1 /\ n + 1 \in 1 .. m
    BY ONLY <1>2, <2>1
  <2>3. gs[n + 1] = fs[n + 1]
    BY ONLY <1>3, <2>2
  <2> QED
    BY ONLY <1>3, <2>1, <2>2, <2>3
<1>8. n <= Len(gs)
  BY ONLY <1>1, <1>2, <1>3
<1>9. Orderly(st, o, s \o f, FALSE, rs, gs)
  BY ONLY <1>1, <1>3, <1>4, <1>5, <1>6, <1>7, <1>8 DEF Orderly, n
<1> QED
  BY ONLY <1>9 DEF gs

\* The client leaves, and the last bytes that it sent are lost.
LEMMA OrderlyLeft ==
  ASSUME NEW st, NEW o, NEW s, NEW left, NEW rs, NEW fs, Orderly(st, o, s, left, rs, fs),
         NEW n \in {0, 1}, n <= Len(s)
  PROVE  Orderly(st, o, Take(s, Len(s) - n), TRUE, rs, fs)
<1> DEFINE i == Len(s) - n
<1>1. /\ st \in {"new", "header", "body", "closed"}
      /\ o \in [transaction_id : U16, length : U16, slave : Byte]
      /\ s \in Seq(Byte) /\ rs \in Seq(Seq(Byte)) /\ fs \in Seq(Frames)
      /\ Len(rs) <= Len(fs)
      /\ st # "closed" => InStep(st, o, s, left, Len(rs), fs)
      /\ \A k \in 1 .. Len(rs) : rs[k] = Response(fs[k])
  BY DEF Orderly
<1>2. i \in Nat /\ i <= Len(s)
  <2>1. Len(s) \in Nat
    BY ONLY <1>1
  <2> QED
    BY ONLY <2>1, n \in {0, 1}, n <= Len(s)
<1> HIDE DEF i
<1>3. Take(s, i) \in Seq(Byte)
  BY ONLY <1>1, <1>2, PartsOfBytes
<1>4. st # "closed" => InStep(st, o, Take(s, i), TRUE, Len(rs), fs)
  BY ONLY <1>1, <1>2, LaidLost
<1>5. Orderly(st, o, Take(s, i), TRUE, rs, fs)
  BY ONLY <1>1, <1>3, <1>4 DEF Orderly
<1> QED
  BY ONLY <1>5 DEF i

\* async_read fails once the client has left.
LEMMA OrderlyFailed ==
  ASSUME NEW st, NEW o, NEW s, NEW rs, NEW fs, Orderly(st, o, s, TRUE, rs, fs)
  PROVE  Orderly("closed", o, <<>>, TRUE, rs, fs)
<1>1. <<>> \in Seq(Byte)
  OBVIOUS
<1> QED
  BY <1>1 DEF Orderly

--------------------------------------------------------------------------------
(* All connections.                                                             *)

\* Inv, connection by connection.
AllOrderly ==
  /\ accepting \in BOOLEAN
  /\ stage = [c \in Conn |-> stage[c]] /\ op = [c \in Conn |-> op[c]]
  /\ in = [c \in Conn |-> in[c]] /\ gone = [c \in Conn |-> gone[c]]
  /\ out = [c \in Conn |-> out[c]] /\ sent = [c \in Conn |-> sent[c]]
  /\ \A c \in Conn : Orderly(stage[c], op[c], in[c], gone[c], out[c], sent[c])

\* Inv says of every connection that it is in order.
LEMMA InvOrderly == Inv => AllOrderly
<1> SUFFICES ASSUME Inv PROVE AllOrderly
  OBVIOUS
<1>1. TypeOK /\ Steady /\ InOrder /\ ClosedForCause
  BY DEF Inv
<1>2. /\ stage = [c \in Conn |-> stage[c]] /\ op = [c \in Conn |-> op[c]]
      /\ in = [c \in Conn |-> in[c]] /\ gone = [c \in Conn |-> gone[c]]
      /\ out = [c \in Conn |-> out[c]] /\ sent = [c \in Conn |-> sent[c]]
      /\ accepting \in BOOLEAN
  BY ONLY <1>1 DEF TypeOK
<1>3. ASSUME NEW c \in Conn PROVE Orderly(stage[c], op[c], in[c], gone[c], out[c], sent[c])
  <2>1. /\ stage[c] \in {"new", "header", "body", "closed"}
        /\ op[c] \in [transaction_id : U16, length : U16, slave : Byte]
        /\ in[c] \in Seq(Byte) /\ gone[c] \in BOOLEAN /\ out[c] \in Seq(Seq(Byte)) /\ sent[c] \in Seq(Frames)
    BY ONLY <1>1, c \in Conn DEF TypeOK
  <2>2. /\ Len(out[c]) <= Len(sent[c])
        /\ stage[c] # "closed" => InStep(stage[c], op[c], in[c], gone[c], Len(out[c]), sent[c])
    BY ONLY <1>1, c \in Conn DEF Steady
  <2>3. \A k \in 1 .. Len(out[c]) : out[c][k] = Response(sent[c][k])
    BY ONLY <1>1, c \in Conn DEF InOrder
  <2>4. stage[c] = "closed" => \/ gone[c]
                               \/ Len(out[c]) < Len(sent[c]) /\ ~ Readable(sent[c][Len(out[c]) + 1])
    BY ONLY <1>1, c \in Conn DEF ClosedForCause
  <2> QED
    BY ONLY <2>1, <2>2, <2>3, <2>4, Zenon DEF Orderly
<1> QED
  BY ONLY <1>2, <1>3 DEF AllOrderly

\* Connections that are in order are what Inv asks for.
LEMMA OrderlyInv == AllOrderly => Inv
<1> SUFFICES ASSUME AllOrderly PROVE Inv
  OBVIOUS
<1>1. /\ accepting \in BOOLEAN
      /\ stage = [c \in Conn |-> stage[c]] /\ op = [c \in Conn |-> op[c]]
      /\ in = [c \in Conn |-> in[c]] /\ gone = [c \in Conn |-> gone[c]]
      /\ out = [c \in Conn |-> out[c]] /\ sent = [c \in Conn |-> sent[c]]
      /\ \A c \in Conn : Orderly(stage[c], op[c], in[c], gone[c], out[c], sent[c])
  BY DEF AllOrderly
<1>2. ASSUME NEW c \in Conn
      PROVE  /\ stage[c] \in {"new", "header", "body", "closed"}
             /\ op[c] \in [transaction_id : U16, length : U16, slave : Byte]
             /\ in[c] \in Seq(Byte) /\ gone[c] \in BOOLEAN /\ out[c] \in Seq(Seq(Byte))
             /\ sent[c] \in Seq(Frames)
             /\ Len(out[c]) <= Len(sent[c])
             /\ stage[c] # "closed" => InStep(stage[c], op[c], in[c], gone[c], Len(out[c]), sent[c])
             /\ \A k \in 1 .. Len(out[c]) : out[c][k] = Response(sent[c][k])
             /\ stage[c] = "closed" => \/ gone[c]
                                       \/ Len(out[c]) < Len(sent[c])
                                          /\ ~ Readable(sent[c][Len(out[c]) + 1])
  BY ONLY <1>1, c \in Conn, Zenon DEF Orderly
<1>3. TypeOK
  <2>1. stage \in [Conn -> {"new", "header", "body", "closed"}]
    BY ONLY <1>1, <1>2
  <2>2. op \in [Conn -> [transaction_id : U16, length : U16, slave : Byte]]
    BY ONLY <1>1, <1>2
  <2>3. in \in [Conn -> Seq(Byte)] /\ gone \in [Conn -> BOOLEAN]
    BY ONLY <1>1, <1>2
  <2>4. out \in [Conn -> Seq(Seq(Byte))] /\ sent \in [Conn -> Seq(Frames)]
    BY ONLY <1>1, <1>2
  <2> QED
    BY ONLY <1>1, <2>1, <2>2, <2>3, <2>4 DEF TypeOK
<1>4. Steady
  BY ONLY <1>2, Zenon DEF Steady
<1>5. InOrder
  BY ONLY <1>2, Zenon DEF InOrder
<1>6. ClosedForCause
  BY ONLY <1>2, Zenon DEF ClosedForCause
<1> QED
  BY ONLY <1>3, <1>4, <1>5, <1>6 DEF Inv

\* Of all connections only c changes, and its variables get these values.
Moves(c, st, o, s, left, rs, fs) ==
  /\ accepting' = accepting
  /\ stage' = [stage EXCEPT ![c] = st] /\ op' = [op EXCEPT ![c] = o]
  /\ in' = [in EXCEPT ![c] = s] /\ gone' = [gone EXCEPT ![c] = left]
  /\ out' = [out EXCEPT ![c] = rs] /\ sent' = [sent EXCEPT ![c] = fs]

\* A step of one session, or of its client, leaves the other connections alone.
LEMMA OneMoves ==
  ASSUME AllOrderly, NEW c \in Conn, NEW st, NEW o, NEW s, NEW left, NEW rs, NEW fs,
         Moves(c, st, o, s, left, rs, fs), Orderly(st, o, s, left, rs, fs)
  PROVE  AllOrderly'
<1>0. /\ accepting' = accepting
      /\ stage' = [stage EXCEPT ![c] = st] /\ op' = [op EXCEPT ![c] = o]
      /\ in' = [in EXCEPT ![c] = s] /\ gone' = [gone EXCEPT ![c] = left]
      /\ out' = [out EXCEPT ![c] = rs] /\ sent' = [sent EXCEPT ![c] = fs]
  BY DEF Moves
<1>1. /\ accepting \in BOOLEAN
      /\ stage = [d \in Conn |-> stage[d]] /\ op = [d \in Conn |-> op[d]]
      /\ in = [d \in Conn |-> in[d]] /\ gone = [d \in Conn |-> gone[d]]
      /\ out = [d \in Conn |-> out[d]] /\ sent = [d \in Conn |-> sent[d]]
      /\ \A d \in Conn : Orderly(stage[d], op[d], in[d], gone[d], out[d], sent[d])
  BY DEF AllOrderly
<1>2. /\ stage' = [d \in Conn |-> stage'[d]] /\ op' = [d \in Conn |-> op'[d]]
      /\ in' = [d \in Conn |-> in'[d]] /\ gone' = [d \in Conn |-> gone'[d]]
      /\ out' = [d \in Conn |-> out'[d]] /\ sent' = [d \in Conn |-> sent'[d]]
  BY <1>0, <1>1
<1>3. ASSUME NEW d \in Conn PROVE Orderly(stage'[d], op'[d], in'[d], gone'[d], out'[d], sent'[d])
  <2>1. CASE d = c
    <3>1. stage'[d] = st /\ op'[d] = o /\ in'[d] = s /\ gone'[d] = left /\ out'[d] = rs /\ sent'[d] = fs
      BY <1>0, <1>1, <2>1
    <3> QED
      BY <3>1, Zenon
  <2>2. CASE d # c
    <3>1. /\ stage'[d] = stage[d] /\ op'[d] = op[d] /\ in'[d] = in[d]
          /\ gone'[d] = gone[d] /\ out'[d] = out[d] /\ sent'[d] = sent[d]
      BY <1>0, <1>1, <2>2
    <3> QED
      BY ONLY <1>1, <3>1, d \in Conn, Zenon
  <2> QED
    BY ONLY <2>1, <2>2
<1> QED
  BY ONLY <1>1, <1>2, <1>3, <1>0 DEF AllOrderly

\* What does not change is a step of any connection that changes nothing.
LEMMA Same == ASSUME AllOrderly, NEW c \in Conn
              PROVE  /\ stage = [stage EXCEPT ![c] = stage[c]] /\ op = [op EXCEPT ![c] = op[c]]
                     /\ in = [in EXCEPT ![c] = in[c]] /\ gone = [gone EXCEPT ![c] = gone[c]]
                     /\ out = [out EXCEPT ![c] = out[c]] /\ sent = [sent EXCEPT ![c] = sent[c]]
                     /\ Orderly(stage[c], op[c], in[c], gone[c], out[c], sent[c])
<1>1. /\ stage = [d \in Conn |-> stage[d]] /\ op = [d \in Conn |-> op[d]]
      /\ in = [d \in Conn |-> in[d]] /\ gone = [d \in Conn |-> gone[d]]
      /\ out = [d \in Conn |-> out[d]] /\ sent = [d \in Conn |-> sent[d]]
      /\ \A d \in Conn : Orderly(stage[d], op[d], in[d], gone[d], out[d], sent[d])
  BY DEF AllOrderly
<1>2. /\ stage = [stage EXCEPT ![c] = stage[c]] /\ op = [op EXCEPT ![c] = op[c]]
      /\ in = [in EXCEPT ![c] = in[c]] /\ gone = [gone EXCEPT ![c] = gone[c]]
      /\ out = [out EXCEPT ![c] = out[c]] /\ sent = [sent EXCEPT ![c] = sent[c]]
  BY <1>1
<1> QED
  BY ONLY <1>1, <1>2, c \in Conn, Zenon

\* Accepting a connection starts its session at the first byte of its client.
LEMMA AcceptKeeps == ASSUME AllOrderly, NEW c \in Conn, Accept(c) PROVE AllOrderly'
<1>1. /\ stage = [stage EXCEPT ![c] = stage[c]] /\ op = [op EXCEPT ![c] = op[c]]
      /\ in = [in EXCEPT ![c] = in[c]] /\ gone = [gone EXCEPT ![c] = gone[c]]
      /\ out = [out EXCEPT ![c] = out[c]] /\ sent = [sent EXCEPT ![c] = sent[c]]
      /\ Orderly(stage[c], op[c], in[c], gone[c], out[c], sent[c])
  BY Same
<1>2. /\ stage[c] = "new" /\ stage' = [stage EXCEPT ![c] = "header"] /\ accepting' = accepting
      /\ op' = op /\ in' = in /\ gone' = gone /\ out' = out /\ sent' = sent
  BY DEF Accept, client
<1>3. Orderly("header", op[c], in[c], gone[c], out[c], sent[c])
  <2>1. ASSUME NEW o, NEW s, NEW left, NEW n, NEW fs, InStep("new", o, s, left, n, fs)
        PROVE  InStep("header", o, s, left, n, fs)
    BY ONLY <2>1 DEF InStep
  <2> QED
    BY ONLY <1>1, <1>2, <2>1 DEF Orderly
<1>4. /\ op' = [op EXCEPT ![c] = op[c]] /\ in' = [in EXCEPT ![c] = in[c]]
      /\ gone' = [gone EXCEPT ![c] = gone[c]] /\ out' = [out EXCEPT ![c] = out[c]]
      /\ sent' = [sent EXCEPT ![c] = sent[c]]
  BY ONLY <1>1, <1>2
<1>5. Moves(c, "header", op[c], in[c], gone[c], out[c], sent[c])
  BY ONLY <1>2, <1>4 DEF Moves
<1> QED
  BY ONLY AllOrderly, c \in Conn, <1>3, <1>5, OneMoves

\* parse_header leaves the session in order, closed or with the fields of the header it read.
LEMMA ParseHeaderKeeps == ASSUME AllOrderly, NEW c \in Conn, ParseHeader(c) PROVE AllOrderly'
<1> DEFINE h == Header(in[c])
           x == [transaction_id |-> h.transaction_id, length |-> h.length, slave |-> h.unit_id]
           s == Drop(in[c], header_size)
<1>1. /\ stage = [stage EXCEPT ![c] = stage[c]] /\ op = [op EXCEPT ![c] = op[c]]
      /\ in = [in EXCEPT ![c] = in[c]] /\ gone = [gone EXCEPT ![c] = gone[c]]
      /\ out = [out EXCEPT ![c] = out[c]] /\ sent = [sent EXCEPT ![c] = sent[c]]
      /\ Orderly(stage[c], op[c], in[c], gone[c], out[c], sent[c])
  BY Same
<1>2. /\ stage[c] = "header" /\ Len(in[c]) >= header_size /\ accepting' = accepting
      /\ in' = [in EXCEPT ![c] = s] /\ out' = out /\ gone' = gone /\ sent' = sent
      /\ \/ ~ is_valid_length(h.length) /\ stage' = [stage EXCEPT ![c] = "closed"] /\ op' = op
         \/ is_valid_length(h.length) /\ stage' = [stage EXCEPT ![c] = "body"]
            /\ op' = [op EXCEPT ![c] = x]
  BY DEF ParseHeader
<1>3. /\ gone' = [gone EXCEPT ![c] = gone[c]] /\ out' = [out EXCEPT ![c] = out[c]]
      /\ sent' = [sent EXCEPT ![c] = sent[c]]
  BY ONLY <1>1, <1>2
<1>4. Orderly("header", op[c], in[c], gone[c], out[c], sent[c])
  BY ONLY <1>1, <1>2
<1>5. CASE ~ is_valid_length(h.length)
  <2>1. Orderly("closed", op[c], s, gone[c], out[c], sent[c])
    BY ONLY <1>2, <1>4, <1>5, OrderlyRefused
  <2>2. stage' = [stage EXCEPT ![c] = "closed"] /\ op' = [op EXCEPT ![c] = op[c]]
    BY ONLY <1>1, <1>2, <1>5
  <2> HIDE DEF s, x, h
  <2>3. Moves(c, "closed", op[c], s, gone[c], out[c], sent[c])
    BY ONLY <1>2, <1>3, <2>2 DEF Moves
  <2> QED
    BY ONLY AllOrderly, c \in Conn, <2>1, <2>3, OneMoves
<1>6. CASE is_valid_length(h.length)
  <2>1. Orderly("body", x, s, gone[c], out[c], sent[c])
    BY ONLY <1>2, <1>4, <1>6, OrderlyHeader
  <2>2. stage' = [stage EXCEPT ![c] = "body"] /\ op' = [op EXCEPT ![c] = x]
    BY ONLY <1>2, <1>6
  <2> HIDE DEF s, x, h
  <2>3. Moves(c, "body", x, s, gone[c], out[c], sent[c])
    BY ONLY <1>2, <1>3, <2>2 DEF Moves
  <2> QED
    BY ONLY AllOrderly, c \in Conn, <2>1, <2>3, OneMoves
<1> QED
  BY ONLY <1>5, <1>6

\* parse_body and the handler leave the session in order: closed, or one response further.
LEMMA ParseBodyKeeps == ASSUME AllOrderly, NEW c \in Conn, ParseBody(c) PROVE AllOrderly'
<1> DEFINE i == op[c].length - 1
           r == ReadReq(Take(in[c], i))
           s == Drop(in[c], i)
           rs == Append(out[c], Frame(op[c].transaction_id, op[c].slave, Handle(op[c].slave, r.req)))
<1>1. /\ stage = [stage EXCEPT ![c] = stage[c]] /\ op = [op EXCEPT ![c] = op[c]]
      /\ in = [in EXCEPT ![c] = in[c]] /\ gone = [gone EXCEPT ![c] = gone[c]]
      /\ out = [out EXCEPT ![c] = out[c]] /\ sent = [sent EXCEPT ![c] = sent[c]]
      /\ Orderly(stage[c], op[c], in[c], gone[c], out[c], sent[c])
  BY Same
<1>2. /\ stage[c] = "body" /\ Len(in[c]) >= op[c].length - 1 /\ accepting' = accepting
      /\ in' = [in EXCEPT ![c] = s] /\ op' = op /\ gone' = gone /\ sent' = sent
      /\ \/ r.ec # modbus_exception_code.success /\ stage' = [stage EXCEPT ![c] = "closed"] /\ out' = out
         \/ r.ec = modbus_exception_code.success /\ stage' = [stage EXCEPT ![c] = "header"]
            /\ out' = [out EXCEPT ![c] = rs]
  BY Zenon DEF ParseBody
<1>3. /\ gone' = [gone EXCEPT ![c] = gone[c]] /\ op' = [op EXCEPT ![c] = op[c]]
      /\ sent' = [sent EXCEPT ![c] = sent[c]]
  BY ONLY <1>1, <1>2
<1>4. Orderly("body", op[c], in[c], gone[c], out[c], sent[c])
  BY ONLY <1>1, <1>2
<1>5. CASE r.ec # modbus_exception_code.success
  <2>1. Orderly("closed", op[c], s, gone[c], out[c], sent[c])
    BY ONLY <1>2, <1>4, <1>5, OrderlyUnreadable
  <2> HIDE DEF s, r, rs
  <2>2. stage' = [stage EXCEPT ![c] = "closed"] /\ out' = [out EXCEPT ![c] = out[c]]
    BY ONLY <1>1, <1>2, <1>5
  <2>3. Moves(c, "closed", op[c], s, gone[c], out[c], sent[c])
    BY ONLY <1>2, <1>3, <2>2 DEF Moves
  <2> QED
    BY ONLY AllOrderly, c \in Conn, <2>1, <2>3, OneMoves
<1>6. CASE r.ec = modbus_exception_code.success
  <2>1. Orderly("header", op[c], s, gone[c], rs, sent[c])
    BY ONLY <1>2, <1>4, <1>6, OrderlyAnswered
  <2> HIDE DEF s, r, rs
  <2>2. stage' = [stage EXCEPT ![c] = "header"] /\ out' = [out EXCEPT ![c] = rs]
    BY ONLY <1>2, <1>6
  <2>3. Moves(c, "header", op[c], s, gone[c], rs, sent[c])
    BY ONLY <1>2, <1>3, <2>2 DEF Moves
  <2> QED
    BY ONLY AllOrderly, c \in Conn, <2>1, <2>3, OneMoves
<1> QED
  BY ONLY <1>5, <1>6

\* A read that fails closes a session whose client has left.
LEMMA ReadFailsKeeps == ASSUME AllOrderly, NEW c \in Conn, ReadFails(c) PROVE AllOrderly'
<1>1. /\ stage = [stage EXCEPT ![c] = stage[c]] /\ op = [op EXCEPT ![c] = op[c]]
      /\ in = [in EXCEPT ![c] = in[c]] /\ gone = [gone EXCEPT ![c] = gone[c]]
      /\ out = [out EXCEPT ![c] = out[c]] /\ sent = [sent EXCEPT ![c] = sent[c]]
      /\ Orderly(stage[c], op[c], in[c], gone[c], out[c], sent[c])
  BY Same
<1>2. /\ gone[c] /\ accepting' = accepting /\ stage' = [stage EXCEPT ![c] = "closed"]
      /\ in' = [in EXCEPT ![c] = <<>>] /\ op' = op /\ gone' = gone /\ out' = out /\ sent' = sent
  BY DEF ReadFails
<1>3. /\ gone' = [gone EXCEPT ![c] = gone[c]] /\ op' = [op EXCEPT ![c] = op[c]]
      /\ out' = [out EXCEPT ![c] = out[c]] /\ sent' = [sent EXCEPT ![c] = sent[c]]
  BY ONLY <1>1, <1>2
<1>4. gone[c] = TRUE
  <2>1. gone[c] \in BOOLEAN
    BY ONLY <1>1 DEF Orderly
  <2> QED
    BY ONLY <1>2, <2>1
<1>5. Orderly(stage[c], op[c], in[c], TRUE, out[c], sent[c])
  BY ONLY <1>1, <1>4
<1>6. Orderly("closed", op[c], <<>>, TRUE, out[c], sent[c])
  BY ONLY <1>5, OrderlyFailed
<1>7. gone' = [gone EXCEPT ![c] = TRUE]
  BY ONLY <1>3, <1>4
<1>8. Moves(c, "closed", op[c], <<>>, TRUE, out[c], sent[c])
  BY ONLY <1>2, <1>3, <1>7 DEF Moves
<1> QED
  BY ONLY AllOrderly, c \in Conn, <1>6, <1>8, OneMoves

\* A frame that the client sends waits behind those it sent before.
LEMMA ClientSendsKeeps == ASSUME AllOrderly, NEW c \in Conn, ClientSends(c) PROVE AllOrderly'
<1>1. /\ stage = [stage EXCEPT ![c] = stage[c]] /\ op = [op EXCEPT ![c] = op[c]]
      /\ in = [in EXCEPT ![c] = in[c]] /\ gone = [gone EXCEPT ![c] = gone[c]]
      /\ out = [out EXCEPT ![c] = out[c]] /\ sent = [sent EXCEPT ![c] = sent[c]]
      /\ Orderly(stage[c], op[c], in[c], gone[c], out[c], sent[c])
  BY Same
<1>2. PICK f \in Frames :
        /\ in' = [in EXCEPT ![c] = in[c] \o f] /\ sent' = [sent EXCEPT ![c] = Append(sent[c], f)]
        /\ ~ gone[c] /\ accepting' = accepting /\ stage' = stage /\ op' = op /\ out' = out /\ gone' = gone
  BY DEF ClientSends, session
<1>3. /\ stage' = [stage EXCEPT ![c] = stage[c]] /\ op' = [op EXCEPT ![c] = op[c]]
      /\ out' = [out EXCEPT ![c] = out[c]] /\ gone' = [gone EXCEPT ![c] = gone[c]]
  BY ONLY <1>1, <1>2
<1>4. gone[c] = FALSE
  <2>1. gone[c] \in BOOLEAN
    BY ONLY <1>1 DEF Orderly
  <2> QED
    BY ONLY <1>2, <2>1
<1>5. Orderly(stage[c], op[c], in[c], FALSE, out[c], sent[c])
  BY ONLY <1>1, <1>4
<1>6. Orderly(stage[c], op[c], in[c] \o f, FALSE, out[c], Append(sent[c], f))
  BY ONLY <1>5, OrderlySent
<1>7. gone' = [gone EXCEPT ![c] = FALSE]
  BY ONLY <1>3, <1>4
<1>8. Moves(c, stage[c], op[c], in[c] \o f, FALSE, out[c], Append(sent[c], f))
  BY ONLY <1>2, <1>3, <1>7 DEF Moves
<1> QED
  BY ONLY AllOrderly, c \in Conn, <1>6, <1>8, OneMoves

\* A client that leaves takes no more than the end of what it sent.
LEMMA ClientClosesKeeps == ASSUME AllOrderly, NEW c \in Conn, ClientCloses(c) PROVE AllOrderly'
<1>1. /\ stage = [stage EXCEPT ![c] = stage[c]] /\ op = [op EXCEPT ![c] = op[c]]
      /\ in = [in EXCEPT ![c] = in[c]] /\ gone = [gone EXCEPT ![c] = gone[c]]
      /\ out = [out EXCEPT ![c] = out[c]] /\ sent = [sent EXCEPT ![c] = sent[c]]
      /\ Orderly(stage[c], op[c], in[c], gone[c], out[c], sent[c])
  BY Same
<1>2. PICK n \in {0, 1} :
        /\ n <= Len(in[c]) /\ in' = [in EXCEPT ![c] = Take(in[c], Len(in[c]) - n)]
        /\ gone' = [gone EXCEPT ![c] = TRUE]
        /\ accepting' = accepting /\ stage' = stage /\ op' = op /\ out' = out /\ sent' = sent
  BY DEF ClientCloses, session
<1>3. /\ stage' = [stage EXCEPT ![c] = stage[c]] /\ op' = [op EXCEPT ![c] = op[c]]
      /\ out' = [out EXCEPT ![c] = out[c]] /\ sent' = [sent EXCEPT ![c] = sent[c]]
  BY ONLY <1>1, <1>2
<1>4. Orderly(stage[c], op[c], Take(in[c], Len(in[c]) - n), TRUE, out[c], sent[c])
  BY ONLY <1>1, <1>2, OrderlyLeft
<1>5. Moves(c, stage[c], op[c], Take(in[c], Len(in[c]) - n), TRUE, out[c], sent[c])
  BY ONLY <1>2, <1>3 DEF Moves
<1> QED
  BY ONLY AllOrderly, c \in Conn, <1>4, <1>5, OneMoves

\* Init: nobody has sent anything, and the sessions have not begun.
LEMMA InitOrderly == Init => AllOrderly
<1> SUFFICES ASSUME Init PROVE AllOrderly
  OBVIOUS
<1>1. <<>> \in Seq(Byte) /\ <<>> \in Seq(Seq(Byte)) /\ <<>> \in Seq(Frames) /\ Len(<<>>) = 0
  OBVIOUS
<1>2. NoRequest \in [transaction_id : U16, length : U16, slave : Byte]
  BY DEF NoRequest, U16, Byte
<1>3. InStep("new", NoRequest, <<>>, FALSE, 0, <<>>)
  BY ONLY LaidNothing
<1>4. Orderly("new", NoRequest, <<>>, FALSE, <<>>, <<>>)
  <2> DEFINE e == <<>>
  <2>1. \A k \in 1 .. Len(e) : e[k] = Response(e[k])
    BY ONLY <1>1
  <2>2. InStep("new", NoRequest, e, FALSE, 0, e)
    BY ONLY <1>3, Zenon
  <2>3. e \in Seq(Byte) /\ e \in Seq(Seq(Byte)) /\ e \in Seq(Frames) /\ Len(e) = 0
    BY ONLY <1>1
  <2> HIDE DEF e
  <2>4. InStep("new", NoRequest, e, FALSE, Len(e), e) /\ Len(e) <= Len(e)
    <3>1. Len(e) = 0 /\ Len(e) <= Len(e)
      BY ONLY <2>3
    <3> QED
      BY ONLY <2>2, <3>1, Zenon
  <2>5. Orderly("new", NoRequest, e, FALSE, e, e)
    <3>1. FALSE \in BOOLEAN /\ "new" \in {"new", "header", "body", "closed"} /\ "new" # "closed"
      OBVIOUS
    <3> QED
      BY ONLY <1>2, <2>1, <2>3, <2>4, <3>1, Zenon DEF Orderly
  <2> QED
    BY ONLY <2>5 DEF e
<1>5. /\ accepting = TRUE /\ stage = [c \in Conn |-> "new"] /\ op = [c \in Conn |-> NoRequest]
      /\ in = [c \in Conn |-> <<>>] /\ gone = [c \in Conn |-> FALSE]
      /\ out = [c \in Conn |-> <<>>] /\ sent = [c \in Conn |-> <<>>]
  BY DEF Init
<1>6. ASSUME NEW c \in Conn PROVE Orderly(stage[c], op[c], in[c], gone[c], out[c], sent[c])
  BY ONLY <1>4, <1>5, c \in Conn
<1>7. /\ stage = [c \in Conn |-> stage[c]] /\ op = [c \in Conn |-> op[c]]
      /\ in = [c \in Conn |-> in[c]] /\ gone = [c \in Conn |-> gone[c]]
      /\ out = [c \in Conn |-> out[c]] /\ sent = [c \in Conn |-> sent[c]]
  BY ONLY <1>5
<1> QED
  BY ONLY <1>5, <1>6, <1>7 DEF AllOrderly

\* Every step of the server and of its clients keeps every connection in order.
LEMMA NextOrderly == AllOrderly /\ [Next]_vars => AllOrderly'
<1> SUFFICES ASSUME AllOrderly, [Next]_vars PROVE AllOrderly'
  OBVIOUS
<1>1. CASE AcceptFails
  BY <1>1 DEF AllOrderly, AcceptFails, session, client
<1>2. ASSUME NEW c \in Conn, Accept(c) PROVE AllOrderly'
  BY ONLY AllOrderly, <1>2, AcceptKeeps
<1>3. ASSUME NEW c \in Conn, ParseHeader(c) PROVE AllOrderly'
  BY ONLY AllOrderly, <1>3, ParseHeaderKeeps
<1>4. ASSUME NEW c \in Conn, ParseBody(c) PROVE AllOrderly'
  BY ONLY AllOrderly, <1>4, ParseBodyKeeps
<1>5. ASSUME NEW c \in Conn, ReadFails(c) PROVE AllOrderly'
  BY ONLY AllOrderly, <1>5, ReadFailsKeeps
<1>6. ASSUME NEW c \in Conn, ClientSends(c) PROVE AllOrderly'
  BY ONLY AllOrderly, <1>6, ClientSendsKeeps
<1>7. ASSUME NEW c \in Conn, ClientCloses(c) PROVE AllOrderly'
  BY ONLY AllOrderly, <1>7, ClientClosesKeeps
<1>8. CASE UNCHANGED vars
  BY <1>8 DEF AllOrderly, vars, session, client
<1> QED
  BY <1>1, <1>2, <1>3, <1>4, <1>5, <1>6, <1>7, <1>8 DEF Next

\* The sessions of the server never lose the place where a frame begins: the invariant.
LEMMA InvHolds == Spec => []Inv
<1>1. Init => AllOrderly
  BY InitOrderly
<1>2. AllOrderly /\ [Next]_vars => AllOrderly'
  BY NextOrderly
<1>3. AllOrderly => Inv
  BY OrderlyInv
<1> QED
  BY <1>1, <1>2, <1>3, PTL DEF Spec

--------------------------------------------------------------------------------
(* The theorems.                                                                *)

\* Every variable keeps its type: what request_read_op carries from one callback to the next is
\* as wide as its fields, and every response is bytes.
THEOREM TypeOKTheorem == Spec => []TypeOK
<1>1. Inv => TypeOK
  BY DEF Inv
<1> QED
  BY <1>1, InvHolds, PTL

\* The k-th response of a session answers the k-th frame of its client, for every number of
\* connections, however the callbacks interleave and however far the requests are pipelined.
THEOREM InOrderTheorem == Spec => []InOrder
<1>1. Inv => InOrder
  BY DEF Inv
<1> QED
  BY <1>1, InvHolds, PTL

\* A session ends only when its client has left, or at a frame that parse_header or parse_body
\* cannot read and that is the one after the last one answered.
THEOREM ClosedForCauseTheorem == Spec => []ClosedForCause
<1>1. Inv => ClosedForCause
  BY DEF Inv
<1> QED
  BY <1>1, InvHolds, PTL

================================================================================
