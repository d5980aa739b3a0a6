---------------------------- MODULE DataServerProofs ----------------------------
(* What clients of the server with registers are told, for every number of      *)
(* registers, of updates and of sessions.                                       *)
EXTENDS DataServer, WireLemmas

\* All registers hold the same value, no later than any update that is still posted; the updates
\* are posted in ascending order.
Updates ==
  /\ s_holding_registers \in [Addresses -> U16]
  /\ \A a \in Addresses : s_holding_registers[a] = s_holding_registers[0]
  /\ i \in 0 .. MaxTicks /\ InTurn(s_holding_registers[0], posted, i)
  /\ ~ HasData => s_holding_registers[0] = 0 /\ i = 0

\* The sessions read bytes, and wait for a body only after a header that has one.
Streams ==
  /\ in \in [Conn -> Seq(Byte)]
  /\ stage \in [Conn -> {"new", "header", "body", "closed"}]
  /\ header \in [Conn -> [transaction_id : U16, protocol : U16, length : U16, unit_id : Byte]]
  /\ \A c \in Conn : stage[c] = "body" => header[c].length >= 2

\* A response that tells nothing, or one value that the registers have reached.
Told(reply) ==
  \A m \in 1 .. Len(Words(reply)) :
    Words(reply)[m] = Words(reply)[1] /\ Words(reply)[m] <= s_holding_registers[0]

Replies ==
  /\ out \in [Conn -> Seq(Seq(Byte))]
  /\ \A c \in Conn : \A k \in 1 .. Len(out[c]) : Told(out[c][k])

Inv == Updates /\ Streams /\ Replies

\* There is a register.
LEMMA FirstRegister == 0 \in Addresses /\ Addresses \subseteq Nat
  BY SizesTyped DEF Addresses

\* A request that was read has the fields of its class.
LEMMA ReadReqFields ==
  ASSUME NEW s \in Seq(Byte), ReadReq(s).ec = modbus_exception_code.success
  PROVE  /\ ReadReq(s).req.fc \in Byte
         /\ ReadReq(s).req.fc = function_code.read_holding_registers
              => ReadReq(s).req.words[1] \in U16 /\ ReadReq(s).req.words[2] \in U16
<1> DEFINE l == ReqClass(s[1])
           fixed == 1 + 2 * l.words
           size == ReqSize(l, s)
           req == Request(l, BytesWords(SubSeq(s, 2, fixed)),
                          IF l.unit = 0 THEN 0 ELSE s[fixed + 1], SubSeq(s, fixed + 2, size))
<1>1. /\ modbus_exception_code.success # modbus_exception_code.too_many_bytes_received
      /\ modbus_exception_code.success # modbus_exception_code.illegal_function
  BY DEF modbus_exception_code
<1>2. /\ s # <<>> /\ (\E x \in pdu_req : x.fc = s[1]) /\ ~ (Len(s) < size)
      /\ ReadReq(s).req = req
  <2> HIDE DEF req, size, fixed, l
  <2>1. ReadReq(s) = IF s = <<>> THEN [ec |-> modbus_exception_code.too_many_bytes_received,
                                        kept |-> TRUE, req |-> not_implemented]
                     ELSE IF \A x \in pdu_req : x.fc # s[1]
                     THEN [ec |-> modbus_exception_code.illegal_function, kept |-> FALSE,
                           req |-> not_implemented]
                     ELSE IF Len(s) < size
                     THEN [ec |-> modbus_exception_code.too_many_bytes_received,
                           kept |-> TRUE, req |-> not_implemented]
                     ELSE [ec |-> modbus_exception_code.success, kept |-> FALSE, req |-> req]
    BY Zenon DEF ReadReq, req, size, fixed, l
  <2> QED
    BY <1>1, <2>1
<1>3. s[1] \in Byte
  BY <1>2
<1>4. l.fc = s[1] /\ l \in pdu_req
  BY <1>2, ReqClassOf, Zenon
<1>5. ReadReq(s).req.fc = s[1] /\ ReadReq(s).req.words = BytesWords(SubSeq(s, 2, fixed))
  BY <1>2, <1>4 DEF Request
<1>6. ASSUME s[1] = function_code.read_holding_registers
      PROVE  ReadReq(s).req.words[1] \in U16 /\ ReadReq(s).req.words[2] \in U16
  <2>1. read_holding_pdu_req \in pdu_req /\ read_holding_pdu_req.fc = s[1]
    BY <1>6 DEF pdu_req, read_holding_pdu_req
  <2>2. l = read_holding_pdu_req
    BY <2>1, ReqClassOf
  <2>3. l.words = 2 /\ l.unit = 0
    BY <2>2 DEF read_holding_pdu_req
  <2>4. fixed = 5 /\ size = 5
    BY <2>3 DEF ReqSize
  <2>5. SubSeq(s, 2, 5) \in Seq(Byte) /\ Len(SubSeq(s, 2, 5)) = 4
    BY <1>2, <2>4
  <2> DEFINE w == BytesWords(SubSeq(s, 2, 5))
  <2>6. w \in Seq(U16) /\ Len(w) = Len(SubSeq(s, 2, 5)) \div 2
    BY ONLY <2>5, BytesWordsType
  <2> HIDE DEF w
  <2>7. w[1] \in U16 /\ w[2] \in U16
    <3>1. Len(w) = 2
      BY ONLY <2>5, <2>6
    <3>2. 1 \in 1 .. Len(w) /\ 2 \in 1 .. Len(w)
      BY ONLY <3>1
    <3>3. w \in Seq(U16)
      BY ONLY <2>6
    <3> QED
      BY ONLY <3>2, <3>3, ElementOf, Zenon
  <2> QED
    BY ONLY <1>5, <2>4, <2>7 DEF w
<1> QED
  BY <1>3, <1>5, <1>6

\* An exception response carries no words.
LEMMA ExceptionTellsNothing ==
  ASSUME NEW tid \in U16, NEW unit \in Byte, NEW fc \in Byte, NEW code \in Nat
  PROVE  LET f == Frame(tid, unit, WriteException(fc, code))
         IN  f \in Seq(Byte) /\ Words(f) = <<>>
<1> DEFINE p == WriteException(fc, code)
           f == Frame(tid, unit, p)
<1>1. p \in Seq(Byte) /\ Len(p) = 2
  BY WriteExceptionType
<1>2. p[1] >= 128
  BY DEF WriteException, Byte
<1> HIDE DEF p
<1>3. p \in Seq(Byte) /\ Len(p) < 65535
  BY <1>1
<1>4. f \in Seq(Byte) /\ Len(f) = header_size + Len(p) /\ Drop(f, header_size) = p
  BY ONLY <1>3, FrameParts, tid \in U16, unit \in Byte
<1> HIDE DEF f
<1>5. f[header_size + 1] = p[1]
  BY <1>1, <1>4 DEF Drop, header_size
<1>6. Words(f) = <<>>
  BY ONLY <1>2, <1>5 DEF Words
<1> QED
  BY <1>4, <1>6 DEF f, p

\* A response with values carries the words that were put into it.
LEMMA ValuesTold ==
  ASSUME NEW tid \in U16, NEW unit \in Byte, NEW w \in Seq(U16), Len(w) <= 125
  PROVE  LET f == Frame(tid, unit, WriteValues(function_code.read_holding_registers, WordBytes(w)))
         IN  f \in Seq(Byte) /\ Words(f) = w
<1> DEFINE b == WordBytes(w)
           p == WriteValues(function_code.read_holding_registers, b)
           f == Frame(tid, unit, p)
<1>1. b \in Seq(Byte) /\ Len(b) = 2 * Len(w)
  BY WordBytesType
<1>2. BytesWords(b) = w
  BY WordsReadBack
<1> HIDE DEF b
<1>3. function_code.read_holding_registers \in Byte /\ function_code.read_holding_registers = 3
  BY DEF function_code, Byte
<1>4. p \in Seq(Byte) /\ Len(p) = 2 + Len(b)
  BY <1>1, <1>3, WriteValuesType
<1>5. p = <<3, u8(Len(b))>> \o b
  BY <1>3 DEF WriteValues
<1> DEFINE h == <<3, u8(Len(b))>>
<1>6. h \in Seq(Byte) /\ Len(h) = 2 /\ h[1] = 3
  BY <1>1, Casts DEF Byte
<1> HIDE DEF h
<1>7. p = h \o b
  BY <1>5 DEF h
<1> HIDE DEF p
<1>8. p[1] = 3 /\ \A k \in 1 .. Len(b) : p[k + 2] = b[k]
  <2>1. /\ \A k \in 1 .. Len(h) : (h \o b)[k] = h[k]
        /\ \A k \in 1 .. Len(b) : (h \o b)[k + Len(h)] = b[k]
    BY ONLY <1>1, <1>6, ConcatAt, Zenon
  <2>2. 1 \in 1 .. Len(h)
    BY ONLY <1>6
  <2> QED
    BY ONLY <1>6, <1>7, <2>1, <2>2
<1>9. p \in Seq(Byte) /\ Len(p) < 65535
  BY <1>1, <1>4
<1>10. f \in Seq(Byte) /\ Len(f) = header_size + Len(p) /\ Drop(f, header_size) = p
  BY ONLY <1>9, FrameParts, tid \in U16, unit \in Byte
<1> HIDE DEF f
<1>11. f[header_size + 1] = p[1] /\ \A k \in 1 .. Len(p) : f[k + header_size] = p[k]
  <2>1. \A k \in 1 .. Len(p) : SubSeq(f, 8, Len(f))[k] = f[k + 7]
    BY <1>4, <1>10 DEF header_size
  <2>2. SubSeq(f, 8, Len(f)) = p
    BY <1>10 DEF Drop, header_size
  <2>3. 1 \in 1 .. Len(p)
    BY <1>1, <1>4
  <2> QED
    BY <2>1, <2>2, <2>3 DEF header_size
<1>12. SubSeq(f, 10, Len(f)) = b
  <2>1. \A k \in 1 .. Len(b) : f[k + 9] = b[k]
    <3> TAKE k \in 1 .. Len(b)
    <3>1. k + 2 \in 1 .. Len(p) /\ (k + 2) + 7 = k + 9
      BY <1>1, <1>4
    <3> QED
      BY <1>8, <1>11, <3>1 DEF header_size
  <2>2. Len(f) = 9 + Len(b)
    BY <1>1, <1>4, <1>10 DEF header_size
  <2> QED
    BY <1>1, <1>10, <2>1, <2>2, EndOf
<1>13. Words(f) = w
  <2>1. ~ (f[header_size + 1] >= 128)
    BY ONLY <1>8, <1>11
  <2>2. Drop(f, header_size + 2) = b
    BY ONLY <1>12 DEF Drop, header_size
  <2> QED
    BY ONLY <1>2, <2>1, <2>2 DEF Words
<1> QED
  BY <1>10, <1>13 DEF f, p, b

--------------------------------------------------------------------------------
\* The answer to a request that was read tells the value of the registers, or nothing.
LEMMA HandlerTold ==
  ASSUME Updates, NEW tid \in U16, NEW unit \in Byte, NEW s \in Seq(Byte),
         ReadReq(s).ec = modbus_exception_code.success
  PROVE  LET f == Frame(tid, unit, reqest_handler(ReadReq(s).req))
         IN  f \in Seq(Byte) /\ Told(f)
<1> DEFINE req == ReadReq(s).req
           p == reqest_handler(req)
           f == Frame(tid, unit, p)
<1> SUFFICES f \in Seq(Byte) /\ Told(f)
  OBVIOUS
<1>1. /\ req.fc \in Byte
      /\ req.fc = function_code.read_holding_registers => req.words[1] \in U16 /\ req.words[2] \in U16
  BY ReadReqFields
<1> HIDE DEF req
<1>2. ASSUME NEW code \in Nat, p = WriteException(req.fc, code)
      PROVE  f \in Seq(Byte) /\ Told(f)
  <2>1. f \in Seq(Byte) /\ Words(f) = <<>>
    BY ONLY <1>1, <1>2, ExceptionTellsNothing, tid \in U16, unit \in Byte
  <2> HIDE DEF f
  <2> QED
    BY ONLY <2>1 DEF Told
<1> DEFINE a == req.words[1]
           n == req.words[2]
           w == [k \in 1 .. n |-> IF HasData THEN s_holding_registers[a + k - 1] ELSE 0]
<1>3. ASSUME req.fc = function_code.read_holding_registers, 1 <= n, n <= 125,
             ~ (HasData /\ a + n > NRegisters)
      PROVE  f \in Seq(Byte) /\ Told(f)
  <2>1. a \in Nat /\ n \in Nat
    BY <1>1, <1>3 DEF U16
  <2>5. p = WriteValues(function_code.read_holding_registers, WordBytes(w))
    BY <1>3 DEF reqest_handler, memcpy_msb
  <2> HIDE DEF p, a, n
  <2>2. \A k \in 1 .. n : w[k] = s_holding_registers[0]
    <3> TAKE k \in 1 .. n
    <3>1. CASE HasData
      <4>1. a + k - 1 \in Addresses
        BY ONLY <1>3, <2>1, <3>1, SizesTyped, k \in 1 .. n DEF Addresses
      <4> QED
        BY <3>1, <4>1 DEF Updates
    <3>2. CASE ~ HasData
      BY <3>2 DEF Updates
    <3> QED
      BY <3>1, <3>2
  <2>3. s_holding_registers[0] \in U16
    BY FirstRegister DEF Updates
  <2>4. w \in Seq(U16) /\ Len(w) = n
    <3>1. \A k \in 1 .. n : (IF HasData THEN s_holding_registers[a + k - 1] ELSE 0) \in U16
      BY ONLY <2>2, <2>3
    <3> QED
      BY ONLY <2>1, <3>1
  <2> HIDE DEF w
  <2>6. w \in Seq(U16) /\ Len(w) <= 125
    BY <1>3, <2>4
  <2>7. f \in Seq(Byte) /\ Words(f) = w
    BY ONLY <2>5, <2>6, ValuesTold, tid \in U16, unit \in Byte
  <2> HIDE DEF f
  <2>8. \A m \in 1 .. Len(w) : w[m] = w[1] /\ w[m] <= s_holding_registers[0]
    <3>1. 1 \in 1 .. n /\ s_holding_registers[0] <= s_holding_registers[0]
      BY <1>3, <2>1, <2>3 DEF U16
    <3> QED
      BY ONLY <2>2, <2>4, <3>1
  <2> QED
    BY ONLY <2>7, <2>8 DEF Told
<1>4. CASE req.fc # function_code.read_holding_registers
  <2>1. p = WriteException(req.fc, modbus_exception_code.illegal_function)
    BY <1>4 DEF reqest_handler
  <2> HIDE DEF p
  <2> QED
    BY ONLY <1>2, <2>1 DEF modbus_exception_code
<1>5. CASE req.fc = function_code.read_holding_registers /\ ~ (1 <= n /\ n <= 125)
  <2>1. p = WriteException(req.fc, modbus_exception_code.illegal_data_value)
    BY <1>5 DEF reqest_handler
  <2> HIDE DEF p
  <2> QED
    BY ONLY <1>2, <2>1 DEF modbus_exception_code
<1>6. CASE req.fc = function_code.read_holding_registers /\ 1 <= n /\ n <= 125
           /\ HasData /\ a + n > NRegisters
  <2>1. p = WriteException(req.fc, modbus_exception_code.illegal_data_address)
    BY <1>6 DEF reqest_handler
  <2> HIDE DEF p
  <2> QED
    BY ONLY <1>2, <2>1 DEF modbus_exception_code
<1> HIDE DEF f, a, n
<1> QED
  BY <1>3, <1>4, <1>5, <1>6

\* A session that writes a response which tells no more than the registers keeps the invariant.
LEMMA ReplyAppended ==
  ASSUME Replies, NEW c \in Conn, NEW f \in Seq(Byte), Told(f),
         out' = [out EXCEPT ![c] = Append(@, f)], s_holding_registers' = s_holding_registers
  PROVE  Replies'
<1>1. out' \in [Conn -> Seq(Seq(Byte))]
  BY DEF Replies
<1>2. \A reply : Told(reply)' <=> Told(reply)
  BY DEF Told, Words
<1>3. ASSUME NEW d \in Conn, NEW k \in 1 .. Len(out'[d])
      PROVE  Told(out'[d][k])
  <2>0. out[d] \in Seq(Seq(Byte)) /\ \A j \in 1 .. Len(out[d]) : Told(out[d][j])
    BY DEF Replies
  <2>1. CASE d # c
    <3>1. out'[d] = out[d]
      BY <2>1 DEF Replies
    <3> QED
      BY <1>3, <2>0, <3>1
  <2>2. CASE d = c
    <3>1. out'[d] = Append(out[d], f)
      BY <2>2 DEF Replies
    <3>2. CASE k = Len(out[d]) + 1
      BY <2>0, <3>1, <3>2
    <3>3. CASE k # Len(out[d]) + 1
      <4>1. k \in 1 .. Len(out[d]) /\ out'[d][k] = out[d][k]
        BY <1>3, <2>0, <3>1, <3>3
      <4> QED
        BY <2>0, <4>1
    <3> QED
      BY <3>2, <3>3
  <2> QED
    BY <2>1, <2>2
<1> QED
  BY <1>1, <1>2, <1>3 DEF Replies

\* Steps that leave the data and the responses alone leave what was told alone.
LEMMA RepliesKept ==
  ASSUME Replies, s_holding_registers' = s_holding_registers, out' = out
  PROVE  Replies'
  BY DEF Replies, Told, Words

\* Steps of the sessions and the clients leave the updates alone.
LEMMA UpdatesKept ==
  ASSUME Updates, UNCHANGED <<data, i>>
  PROVE  Updates'
  BY DEF Updates, data

\* At the start the registers are zero, and nobody has been told anything.
LEMMA InitInv == Init => Inv
<1> SUFFICES ASSUME Init PROVE Inv
  OBVIOUS
<1>1. <<>> \in Seq(Byte) /\ <<>> \in Seq(Nat) /\ <<>> \in Seq(Seq(Byte)) /\ Len(<<>>) = 0
  OBVIOUS
<1>2. Updates
  <2>1. 0 \in U16
    BY DEF U16
  <2> QED
    BY <1>1, <2>1, FirstRegister, SizesTyped DEF Init, Updates, InTurn
<1>3. Streams
  <2> DEFINE z == <<0, 0, 0, 0, 0, 0, 0>>
  <2>1. make_uint16(0, 0) = 0 /\ 0 \in U16 /\ 0 \in Byte
    BY DEF make_uint16, U16, Byte
  <2>2. Header(z) = [transaction_id |-> 0, protocol |-> 0, length |-> 0, unit_id |-> 0]
    BY <2>1 DEF Header
  <2>3. Header(z) \in [transaction_id : U16, protocol : U16, length : U16, unit_id : Byte]
    BY <2>1, <2>2
  <2> HIDE DEF z
  <2>4. header = [c \in Conn |-> Header(z)]
    BY DEF Init, z
  <2> QED
    BY <1>1, <2>3, <2>4 DEF Init, Streams
<1>4. Replies
  BY <1>1 DEF Init, Replies
<1> QED
  BY <1>2, <1>3, <1>4 DEF Inv

\* The second thread posts a later value than all before.
LEMMA TickInv == ASSUME Inv, Tick PROVE Inv'
<1>1. /\ i < MaxTicks /\ i' = i + 1 /\ HasData /\ i \in 0 .. MaxTicks
      /\ posted' = Append(posted, i) /\ s_holding_registers' = s_holding_registers
      /\ InTurn(s_holding_registers[0], posted, i)
  BY DEF Inv, Updates, Tick
<1>2. i' \in 0 .. MaxTicks
  BY ONLY <1>1, SizesTyped
<1>3. InTurn(s_holding_registers[0], posted', i')
  BY ONLY <1>1, TurnPosted
<1>4. Updates'
  BY ONLY <1>1, <1>2, <1>3, Inv DEF Inv, Updates
<1>5. Streams'
  BY DEF Inv, Streams, Tick, session, client
<1>6. Replies'
  BY RepliesKept DEF Inv, Tick, session
<1> QED
  BY <1>4, <1>5, <1>6 DEF Inv

\* The posted handler moves all the registers on together.
LEMMA RunPostedInv == ASSUME Inv, RunPosted PROVE Inv'
<1> DEFINE x == s_holding_registers[0]
           v == Head(posted)
<1>1. /\ i \in 0 .. MaxTicks /\ i' = i /\ posted # <<>> /\ posted' = Tail(posted)
      /\ s_holding_registers' = [a \in Addresses |-> u16(v)]
      /\ InTurn(x, posted, i)
  BY DEF Inv, Updates, RunPosted
<1>2. x \in Nat
  BY FirstRegister DEF Inv, Updates, U16
<1> HIDE DEF x
<1>3. v \in Nat /\ x <= v /\ v < i /\ InTurn(v, posted', i)
  BY ONLY <1>1, TurnRun
<1> HIDE DEF v
<1>4. i \in Nat /\ i <= MaxTicks
  BY ONLY <1>1, SizesTyped
<1>5. u16(v) = v /\ v \in U16
  <2>1. v < 65536
    BY ONLY <1>1, <1>3, <1>4, SizesTyped
  <2> QED
    BY <1>3, <2>1, Casts
<1>6. s_holding_registers' = [a \in Addresses |-> v]
  BY ONLY <1>1, <1>5
<1>7. s_holding_registers'[0] = v
  BY <1>6, FirstRegister
<1>8. Updates'
  <2>1. ~ HasData => FALSE
    <3>1. ~ HasData => i = 0
      BY DEF Inv, Updates
    <3> QED
      BY ONLY <1>3, <3>1
  <2>2. s_holding_registers' \in [Addresses -> U16]
    BY ONLY <1>5, <1>6
  <2>3. \A a \in Addresses : s_holding_registers'[a] = s_holding_registers'[0]
    BY ONLY <1>6, <1>7
  <2> QED
    BY ONLY <1>1, <1>3, <1>7, <2>1, <2>2, <2>3 DEF Updates
<1>9. Streams'
  BY DEF Inv, Streams, RunPosted, session, client
<1>10. Replies'
  <2>1. out' = out /\ out \in [Conn -> Seq(Seq(Byte))]
    BY DEF Inv, Replies, RunPosted, session
  <2>2. ASSUME NEW c \in Conn, NEW k \in 1 .. Len(out[c]), NEW m \in 1 .. Len(Words(out[c][k]))
        PROVE  Words(out[c][k])[m] = Words(out[c][k])[1] /\ Words(out[c][k])[m] <= v
    <3>1. out[c][k] \in Seq(Byte)
      BY <2>1
    <3> DEFINE r == out[c][k]
               w == Words(r)
    <3>2. w[m] = w[1] /\ w[m] <= x
      BY DEF Inv, Replies, Told, x
    <3>3. w \in Seq(U16)
      <4> HIDE DEF r
      <4>1. CASE r[header_size + 1] >= 128
        BY <4>1 DEF Words
      <4>2. CASE ~ (r[header_size + 1] >= 128)
        <5>1. Drop(r, header_size + 2) \in Seq(Byte)
          BY <3>1 DEF Drop, header_size, r
        <5> QED
          BY <4>2, <5>1, BytesWordsType DEF Words
      <4> QED
        BY <4>1, <4>2
    <3>4. w[m] \in Nat
      <4> HIDE DEF r, w
      <4>1. m \in 1 .. Len(w)
        BY <2>2 DEF r, w
      <4> QED
        BY <3>3, <4>1 DEF U16
    <3> HIDE DEF w
    <3>5. w[m] <= v
      BY ONLY <1>2, <1>3, <1>4, <3>2, <3>4
    <3> QED
      BY ONLY <3>2, <3>5 DEF w, r
  <2>3. \A reply : Words(reply)' = Words(reply)
    BY DEF Words
  <2> QED
    BY ONLY <1>7, <2>1, <2>2, <2>3 DEF Replies, Told
<1> QED
  BY <1>8, <1>9, <1>10 DEF Inv

\* A header is answered at once, or its body is waited for.
LEMMA ParseHeaderInv == ASSUME Inv, NEW c \in Conn, ParseHeader(c) PROVE Inv'
<1> DEFINE h == Header(in[c])
<1>1. /\ in \in [Conn -> Seq(Byte)] /\ Len(in[c]) >= header_size
      /\ stage \in [Conn -> {"new", "header", "body", "closed"}]
      /\ header \in [Conn -> [transaction_id : U16, protocol : U16, length : U16, unit_id : Byte]]
      /\ \A d \in Conn : stage[d] = "body" => header[d].length >= 2
      /\ stage[c] = "header"
      /\ in' = [in EXCEPT ![c] = Drop(@, header_size)]
      /\ header' = [header EXCEPT ![c] = h]
  BY DEF Inv, Streams, ParseHeader
<1>2. in[c] \in Seq(Byte) /\ Len(in[c]) \in Nat
  BY <1>1
<1>3. h \in [transaction_id : U16, protocol : U16, length : U16, unit_id : Byte]
  BY <1>1, <1>2, HeaderFields
<1> HIDE DEF h
<1>4. Drop(in[c], header_size) \in Seq(Byte)
  BY <1>1, <1>2, PartsOfBytes DEF header_size
<1>5. header'[c] = h /\ \A d \in Conn : d # c => header'[d] = header[d]
  BY <1>1
<1>6. Updates' /\ s_holding_registers' = s_holding_registers
  BY UpdatesKept DEF Inv, ParseHeader, data
<1>7. CASE Refused(h.length)
  <2>1. /\ out' = [out EXCEPT ![c] = Append(@, Frame(h.transaction_id, h.unit_id,
                               WriteException(0, modbus_exception_code.request_too_big)))]
        /\ stage' = stage
    BY <1>5, <1>7 DEF ParseHeader, write_exception_response, write_response
  <2> DEFINE f == Frame(h.transaction_id, h.unit_id,
                        WriteException(0, modbus_exception_code.request_too_big))
  <2>2. h.transaction_id \in U16 /\ h.unit_id \in Byte /\ 0 \in Byte
        /\ modbus_exception_code.request_too_big \in Nat
    BY <1>3 DEF Byte, modbus_exception_code
  <2>3. f \in Seq(Byte) /\ Words(f) = <<>>
    BY ONLY <2>2, ExceptionTellsNothing
  <2> HIDE DEF f
  <2>4. Told(f)
    BY ONLY <2>3 DEF Told
  <2>5. Replies'
    BY <1>6, <2>1, <2>3, <2>4, ReplyAppended DEF Inv, f
  <2>6. Streams'
    BY ONLY <1>1, <1>3, <1>4, <1>5, <2>1 DEF Streams
  <2> QED
    BY <1>6, <2>5, <2>6 DEF Inv
<1>8. CASE ~ Refused(h.length)
  <2>1. out' = out /\ stage' = [stage EXCEPT ![c] = "body"]
    BY <1>5, <1>8 DEF ParseHeader
  <2>2. h.length >= 2
    BY <1>3, <1>8 DEF Refused, U16
  <2>3. Streams'
    BY ONLY <1>1, <1>3, <1>4, <1>5, <2>1, <2>2 DEF Streams
  <2>4. Replies'
    BY <1>6, <2>1, RepliesKept DEF Inv
  <2> QED
    BY <1>6, <2>3, <2>4 DEF Inv
<1> QED
  BY <1>7, <1>8

\* A body ends the session or is answered by the handler.
LEMMA ParseBodyInv == ASSUME Inv, NEW c \in Conn, ParseBody(c) PROVE Inv'
<1> DEFINE n == header[c].length - 1
           s == Take(in[c], n)
<1>1. /\ in \in [Conn -> Seq(Byte)] /\ Len(in[c]) >= n
      /\ stage \in [Conn -> {"new", "header", "body", "closed"}]
      /\ header \in [Conn -> [transaction_id : U16, protocol : U16, length : U16, unit_id : Byte]]
      /\ \A d \in Conn : stage[d] = "body" => header[d].length >= 2
      /\ stage[c] = "body" /\ header' = header
      /\ in' = [in EXCEPT ![c] = Drop(@, n)]
  BY DEF Inv, Streams, ParseBody
<1>2. in[c] \in Seq(Byte) /\ Len(in[c]) \in Nat /\ n \in Nat
  BY <1>1 DEF U16
<1>3. header[c].transaction_id \in U16 /\ header[c].unit_id \in Byte
  BY <1>1
<1> HIDE DEF n
<1>4. Drop(in[c], n) \in Seq(Byte) /\ s \in Seq(Byte)
  BY <1>1, <1>2, PartsOfBytes
<1>6. Updates' /\ s_holding_registers' = s_holding_registers
  BY UpdatesKept DEF Inv, ParseBody, data
<1>7. CASE ReadReq(s).ec # modbus_exception_code.success
  <2>1. out' = out /\ stage' = [stage EXCEPT ![c] = "closed"]
    BY <1>7 DEF ParseBody, n
  <2> HIDE DEF s
  <2>2. Streams'
    BY ONLY <1>1, <1>4, <2>1 DEF Streams
  <2> QED
    BY <1>6, <2>1, <2>2, RepliesKept DEF Inv
<1>8. CASE ReadReq(s).ec = modbus_exception_code.success
  <2> DEFINE f == Frame(header[c].transaction_id, header[c].unit_id, reqest_handler(ReadReq(s).req))
  <2>1. out' = [out EXCEPT ![c] = Append(@, f)] /\ stage' = [stage EXCEPT ![c] = "header"]
    BY <1>8 DEF ParseBody, write_response, n
  <2> HIDE DEF s
  <2>2. Streams'
    BY ONLY <1>1, <1>4, <2>1 DEF Streams
  <2>3. f \in Seq(Byte) /\ Told(f)
    <3>1. Updates
      BY DEF Inv
    <3> QED
      BY ONLY <1>3, <1>4, <1>8, <3>1, HandlerTold
  <2> HIDE DEF f
  <2>4. Replies'
    BY <1>6, <2>1, <2>3, ReplyAppended DEF Inv
  <2> QED
    BY <1>6, <2>2, <2>4 DEF Inv
<1> QED
  BY <1>7, <1>8

\* Steps that write no response.
LEMMA OtherInv ==
  ASSUME Inv, NEW c \in Conn, Accept(c) \/ ReadFails(c) \/ ClientSends(c) \/ ClientCloses(c)
  PROVE  Inv'
<1>1. UNCHANGED <<data, i, header, out>>
  BY DEF Accept, ReadFails, ClientSends, ClientCloses, session
<1>2. Updates' /\ Replies'
  BY <1>1, UpdatesKept, RepliesKept DEF Inv, data
<1>3. /\ in \in [Conn -> Seq(Byte)] /\ in[c] \in Seq(Byte) /\ Len(in[c]) \in Nat
      /\ <<>> \in Seq(Byte)
  BY DEF Inv, Streams
<1>4. Streams'
  <2>1. CASE Accept(c)
    BY <2>1, <1>1 DEF Inv, Streams, Accept, client
  <2>2. CASE ReadFails(c)
    BY <2>2, <1>1, <1>3 DEF Inv, Streams, ReadFails
  <2>3. CASE ClientSends(c)
    <3>1. PICK f \in Frames : in' = [in EXCEPT ![c] = @ \o f]
      BY <2>3 DEF ClientSends
    <3>2. f \in Seq(Byte)
      BY FramesTyped
    <3>3. in[c] \o f \in Seq(Byte)
      BY ONLY <1>3, <3>2
    <3>4. in' \in [Conn -> Seq(Byte)]
      BY ONLY <1>3, <3>1, <3>3
    <3> QED
      BY <2>3, <3>4 DEF Inv, Streams, ClientSends, session
  <2>4. CASE ClientCloses(c)
    <3>1. PICK n \in {0, 1} : n <= Len(in[c]) /\ in' = [in EXCEPT ![c] = Take(@, Len(@) - n)]
      BY <2>4 DEF ClientCloses
    <3>2. Len(in[c]) - n \in Nat /\ Len(in[c]) - n <= Len(in[c])
      BY <1>3, <3>1
    <3>3. Take(in[c], Len(in[c]) - n) \in Seq(Byte)
      BY ONLY <1>3, <3>2, PartsOfBytes
    <3>4. in' \in [Conn -> Seq(Byte)]
      BY ONLY <1>3, <3>1, <3>3
    <3> QED
      BY <2>4, <3>4 DEF Inv, Streams, ClientCloses, session
  <2> QED
    BY <2>1, <2>2, <2>3, <2>4
<1> QED
  BY <1>2, <1>4 DEF Inv

\* Each action keeps the invariant.
LEMMA NextInv == Inv /\ [Next]_vars => Inv'
<1> SUFFICES ASSUME Inv, [Next]_vars PROVE Inv'
  OBVIOUS
<1>1. CASE AcceptFails \/ Signal \/ Join \/ UNCHANGED vars
  <2>1. UNCHANGED <<data, i, stage, header, out, in>>
    BY <1>1 DEF AcceptFails, Signal, Join, vars, session, client
  <2>2. Updates' /\ Replies'
    BY <2>1, UpdatesKept, RepliesKept DEF Inv, data
  <2>3. Streams'
    BY <2>1 DEF Inv, Streams
  <2> QED
    BY <2>2, <2>3 DEF Inv
<1>2. CASE Tick
  BY <1>2, TickInv
<1>3. CASE RunPosted
  BY <1>3, RunPostedInv
<1>4. CASE \E c \in Conn : ParseHeader(c)
  BY <1>4, ParseHeaderInv
<1>5. CASE \E c \in Conn : ParseBody(c)
  BY <1>5, ParseBodyInv
<1>6. CASE \E c \in Conn : Accept(c) \/ ReadFails(c) \/ ClientSends(c) \/ ClientCloses(c)
  BY <1>6, OtherInv
<1> QED
  BY <1>1, <1>2, <1>3, <1>4, <1>5, <1>6 DEF Next

--------------------------------------------------------------------------------
\* No response mixes the registers of two updates, whatever the number of registers, updates and
\* sessions: the thread that runs the io_context runs each posted handler to its end.
THEOREM NotTornTheorem == Spec => []NotTorn
<1>1. Inv => NotTorn
  BY DEF Inv, Replies, Told, NotTorn
<1> QED
  BY InitInv, NextInv, <1>1, PTL DEF Spec

\* The registers never go back behind a value that some client has been told.
THEOREM NeverBackTheorem == Spec => []NeverBack
<1>1. Inv => NeverBack
  <2> SUFFICES ASSUME Inv, NEW c \in Conn, NEW k \in 1 .. Len(out[c]),
                      NEW m \in 1 .. Len(Words(out[c][k])), NEW a \in Addresses
               PROVE  Words(out[c][k])[m] <= s_holding_registers[a]
    BY DEF NeverBack
  <2>1. s_holding_registers[a] = s_holding_registers[0]
    BY DEF Inv, Updates
  <2>2. Words(out[c][k])[m] <= s_holding_registers[0]
    BY DEF Inv, Replies, Told
  <2> QED
    BY ONLY <2>1, <2>2
<1> QED
  BY InitInv, NextInv, <1>1, PTL DEF Spec

--------------------------------------------------------------------------------
(* What the client makes of the responses.                                      *)

\* The client takes the bytes w for the answer to the frame f.
Meets(f, w) ==
  LET size == IF Expected(f) # modbus_exception_code.success THEN 0
              ELSE 2 * ReadReq(Drop(f, header_size)).req.words[2]
      r    == ReadResp(function_code.read_holding_registers, size, Drop(w, header_size))
  IN  /\ HeaderError(Header(w), Header(f).transaction_id, Header(f).unit_id)
           = modbus_exception_code.success
      /\ r.ec = Expected(f) /\ Len(r.values) = size

\* No client asks for more registers than its own limit of 255 bytes to an ADU leaves room for in
\* the reply: with 124 or 125 of them read_response refuses what the server sends.
ShortReads ==
  \A f \in Frames : Expected(f) = modbus_exception_code.success
                      => ReadReq(Drop(f, header_size)).req.words[2] <= 123

\* A short PDU passes the client's checks of the header, and comes out of the frame as it went in.
LEMMA ShortFrame ==
  ASSUME NEW tid \in U16, NEW unit \in Byte, NEW p \in Seq(Byte), Len(p) >= 1, Len(p) <= 248
  PROVE  /\ Frame(tid, unit, p) \in Seq(Byte) /\ Drop(Frame(tid, unit, p), header_size) = p
         /\ HeaderError(Header(Frame(tid, unit, p)), tid, unit) = modbus_exception_code.success
<1> DEFINE w == Frame(tid, unit, p)
           h == Header(w)
<1>1. Len(p) \in Nat /\ Len(p) < 65535
  OBVIOUS
<1>2. /\ w \in Seq(Byte) /\ Drop(w, header_size) = p
      /\ h = [transaction_id |-> tid, protocol |-> m_protocol, length |-> Len(p) + 1, unit_id |-> unit]
  BY ONLY <1>1, FrameParts, tid \in U16, unit \in Byte, p \in Seq(Byte)
<1> HIDE DEF w, h
<1>3. h.transaction_id = tid /\ h.protocol = m_protocol /\ h.length = Len(p) + 1 /\ h.unit_id = unit
  BY ONLY <1>2
<1>4. ~ (h.length + 6 > 255 \/ h.length <= 1)
  BY ONLY <1>1, <1>3, Len(p) >= 1, Len(p) <= 248
<1>5. HeaderError(h, tid, unit) = modbus_exception_code.success
  BY ONLY <1>3, <1>4 DEF HeaderError
<1> QED
  BY ONLY <1>2, <1>5 DEF w, h

\* A whole PDU has arrived.
LEMMA AllArrived == ASSUME NEW p \in Seq(Byte) PROVE Arrived(p, p)
  BY DEF Arrived

\* An exception response with the code that the frame deserves.
LEMMA MeetsException ==
  ASSUME NEW f, NEW tid \in U16, NEW unit \in Byte, Header(f).transaction_id = tid, Header(f).unit_id = unit,
         NEW fc \in Byte, NEW code \in 1 .. 255, Expected(f) = code
  PROVE  /\ Frame(tid, unit, WriteException(fc, code)) \in Seq(Byte)
         /\ Meets(f, Frame(tid, unit, WriteException(fc, code)))
<1> DEFINE p == WriteException(fc, code)
           w == Frame(tid, unit, p)
<1>1. code \in Byte /\ code \in Nat /\ code # modbus_exception_code.success
  BY DEF Byte, modbus_exception_code
<1>2. p \in Seq(Byte) /\ Len(p) = 2
  BY ONLY <1>1, WriteExceptionType, fc \in Byte
<1>3. Arrived(p, p)
  BY ONLY <1>2, AllArrived
<1>4. ReadResp(function_code.read_holding_registers, 0, p) = Reading(code, u8(0), <<>>, 2)
  <2>0. PICK n \in Nat : n = 0
    OBVIOUS
  <2>1. PICK q : q = p
    OBVIOUS
  <2>2. Arrived(q, WriteException(fc, code)) /\ Len(q) >= 2
    <3>1. Arrived(q, WriteException(fc, code))
      BY ONLY <1>3, <2>1, Zenon
    <3>2. Len(q) = 2
      BY ONLY <1>2, <2>1, Zenon
    <3> QED
      BY ONLY <3>1, <3>2
  <2>3. PICK asked : asked = function_code.read_holding_registers
    OBVIOUS
  <2>4. code \in Byte
    BY ONLY <1>1
  <2>5. ReadResp(asked, n, q) = Reading(code, u8(n), <<>>, 2)
    BY ONLY <2>2, <2>4, ExceptionReadBack, fc \in Byte, n \in Nat
  <2> QED
    BY ONLY <2>0, <2>1, <2>3, <2>5
<1> HIDE DEF p
<1>5. w \in Seq(Byte) /\ Drop(w, header_size) = p
      /\ HeaderError(Header(w), tid, unit) = modbus_exception_code.success
  <2>1. p \in Seq(Byte) /\ Len(p) >= 1 /\ Len(p) <= 248
    BY ONLY <1>2
  <2> QED
    BY ONLY <2>1, ShortFrame, tid \in U16, unit \in Byte
<1> HIDE DEF w
<1>6. Reading(code, u8(0), <<>>, 2).ec = code /\ Len(Reading(code, u8(0), <<>>, 2).values) = 0
  BY DEF Reading
<1>7. Meets(f, w)
  BY ONLY <1>1, <1>4, <1>5, <1>6, Expected(f) = code, Header(f).transaction_id = tid,
          Header(f).unit_id = unit, Zenon DEF Meets
<1> QED
  BY ONLY <1>5, <1>7 DEF w, p

\* A response with as many registers as were asked for.
LEMMA MeetsValues ==
  ASSUME NEW f, NEW tid \in U16, NEW unit \in Byte, Header(f).transaction_id = tid, Header(f).unit_id = unit,
         Expected(f) = modbus_exception_code.success, NEW v \in Seq(U16), Len(v) <= 123,
         ReadReq(Drop(f, header_size)).req.words[2] = Len(v)
  PROVE  Meets(f, Frame(tid, unit, WriteValues(function_code.read_holding_registers, WordBytes(v))))
<1> DEFINE b == WordBytes(v)
           fc == function_code.read_holding_registers
           p == WriteValues(fc, b)
           w == Frame(tid, unit, p)
           size == 2 * Len(v)
<1>1. b \in Seq(Byte) /\ Len(b) = 2 * Len(v) /\ Len(v) \in Nat
  BY WordBytesType
<1> HIDE DEF b
<1>2. fc \in Byte /\ fc \in {1, 2, 3, 4, 23}
  BY DEF function_code, Byte
<1> HIDE DEF fc
<1>3. p \in Seq(Byte) /\ Len(p) = 2 + Len(b)
  BY ONLY <1>1, <1>2, WriteValuesType
<1>4. Arrived(p, p)
  BY ONLY <1>3, AllArrived
<1>5. size \in Nat /\ Len(b) < 256 /\ Len(b) <= size /\ Len(p) >= 2 + Len(b) /\ Len(p) >= 1 /\ Len(p) <= 248
  BY ONLY <1>1, <1>3, Len(v) <= 123
<1>a. Len(b) = size
  BY ONLY <1>1
<1> HIDE DEF size
<1>6. ReadResp(fc, size, p) = Reading(modbus_exception_code.success, Len(b), b, 2 + Len(b))
  <2>1. PICK q : q = p
    OBVIOUS
  <2>2. Arrived(q, WriteValues(fc, b)) /\ Len(q) >= 2 + Len(b)
    BY ONLY <1>4, <1>5, <2>1
  <2>3. Len(q) >= 2 + Len(b) =>
          ReadResp(fc, size, q) = Reading(modbus_exception_code.success, Len(b), b, 2 + Len(b))
    <3>1. b \in Seq(Byte) /\ Len(b) < 256 /\ size \in Nat /\ Len(b) <= size
      BY ONLY <1>1, <1>5
    <3> QED
      BY ONLY <1>2, <2>2, <3>1, ListReadBack
  <2> QED
    BY ONLY <2>1, <2>2, <2>3
<1> HIDE DEF p
<1>7. w \in Seq(Byte) /\ Drop(w, header_size) = p
      /\ HeaderError(Header(w), tid, unit) = modbus_exception_code.success
  BY ONLY <1>3, <1>5, ShortFrame, tid \in U16, unit \in Byte
<1> HIDE DEF w
<1>8. ReadResp(fc, size, p).ec = modbus_exception_code.success /\ Len(ReadResp(fc, size, p).values) = size
  BY ONLY <1>6, <1>a DEF Reading
<1>9. size = IF Expected(f) # modbus_exception_code.success THEN 0
             ELSE 2 * ReadReq(Drop(f, header_size)).req.words[2]
  BY DEF size
<1>10. Meets(f, w)
  BY ONLY <1>7, <1>8, <1>9, Expected(f) = modbus_exception_code.success,
          Header(f).transaction_id = tid, Header(f).unit_id = unit, Zenon DEF Meets, fc
<1> QED
  BY ONLY <1>10 DEF w, p, b, fc

\* A frame is a header that leaves no room for a PDU, or as long as its header says.
LEMMA FrameFacts ==
  ASSUME NEW f \in Frames
  PROVE  /\ f \in Seq(Byte) /\ Len(f) \in Nat /\ Len(f) >= 7
         /\ Header(f).length \in Nat /\ Header(f).transaction_id \in U16 /\ Header(f).unit_id \in Byte
         /\ Header(f) \in [transaction_id : U16, protocol : U16, length : U16, unit_id : Byte]
         /\ Header(f).length < 2 => Len(f) = 7
         /\ Header(f).length >= 2 => Len(f) = 6 + Header(f).length
<1>1. /\ f \in Seq(Byte) /\ Len(f) >= header_size /\ header_size = 7
      /\ Len(f) = IF Header(f).length < 2 THEN header_size ELSE header_size - 1 + Header(f).length
  BY FramesTyped DEF header_size
<1>2. Header(f) \in [transaction_id : U16, protocol : U16, length : U16, unit_id : Byte]
  BY ONLY <1>1, HeaderFields
<1>3. Header(f).length \in Nat /\ Header(f).transaction_id \in U16 /\ Header(f).unit_id \in Byte
  BY ONLY <1>2 DEF U16
<1>4. /\ Header(f).length < 2 => Len(f) = 7
      /\ Header(f).length >= 2 => Len(f) = 6 + Header(f).length
  BY ONLY <1>1, <1>3
<1> QED
  BY ONLY <1>1, <1>2, <1>3, <1>4

\* What reqest_handler answers is what the frame deserves.
LEMMA HandlerMeets ==
  ASSUME Updates, ShortReads, NEW f \in Frames, Header(f).length >= 2,
         ReadReq(Drop(f, header_size)).ec = modbus_exception_code.success
  PROVE  Meets(f, Frame(Header(f).transaction_id, Header(f).unit_id,
                        reqest_handler(ReadReq(Drop(f, header_size)).req)))
<1> DEFINE s == Drop(f, header_size)
           req == ReadReq(s).req
           tid == Header(f).transaction_id
           unit == Header(f).unit_id
           p == reqest_handler(req)
           w == Frame(tid, unit, p)
           a == req.words[1]
           n == req.words[2]
           v == [k \in 1 .. n |-> IF HasData THEN s_holding_registers[a + k - 1] ELSE 0]
           E == modbus_exception_code
           Span == a .. a + n - 1
<1> SUFFICES Meets(f, w)
  OBVIOUS
<1>1. /\ f \in Seq(Byte) /\ Len(f) \in Nat /\ Len(f) # header_size /\ header_size \in Nat
      /\ header_size <= Len(f) /\ tid \in U16 /\ unit \in Byte
  <2>1. /\ f \in Seq(Byte) /\ Len(f) \in Nat /\ Len(f) >= 7 /\ tid \in U16 /\ unit \in Byte
        /\ Header(f).length \in Nat /\ Len(f) = 6 + Header(f).length
    BY FrameFacts
  <2>2. Len(f) # 7
    BY ONLY <2>1, Header(f).length >= 2
  <2> QED
    BY ONLY <2>1, <2>2 DEF header_size
<1>2. s \in Seq(Byte)
  BY ONLY <1>1, PartsOfBytes
<1>3. ReadReq(s).ec = modbus_exception_code.success
  OBVIOUS
<1> HIDE DEF s
<1>4. /\ req.fc \in Byte
      /\ req.fc = function_code.read_holding_registers => a \in U16 /\ n \in U16
  BY ONLY <1>2, <1>3, ReadReqFields
<1>5. Expected(f) = IF req.fc # function_code.read_holding_registers THEN E.illegal_function
                    ELSE IF n \notin 1 .. 125 THEN E.illegal_data_value
                    ELSE IF HasData /\ ~ (Span \subseteq Addresses) THEN E.illegal_data_address
                    ELSE E.success
  BY ONLY <1>1, Zenon DEF Expected, s
<1>6. p = IF req.fc # function_code.read_holding_registers THEN WriteException(req.fc, E.illegal_function)
          ELSE IF ~ (1 <= n /\ n <= 125) THEN WriteException(req.fc, E.illegal_data_value)
          ELSE IF HasData /\ a + n > NRegisters THEN WriteException(req.fc, E.illegal_data_address)
          ELSE WriteValues(req.fc, WordBytes(v))
  BY ONLY Zenon DEF reqest_handler, memcpy_msb
<1>7. /\ E.illegal_function \in 1 .. 255 /\ E.illegal_data_value \in 1 .. 255
      /\ E.illegal_data_address \in 1 .. 255
  BY DEF modbus_exception_code
<1>8. ASSUME NEW code \in 1 .. 255, p = WriteException(req.fc, code), Expected(f) = code
      PROVE  Meets(f, w)
  <2>1. Meets(f, Frame(tid, unit, WriteException(req.fc, code)))
    BY ONLY <1>1, <1>4, <1>8, MeetsException
  <2> QED
    BY ONLY <1>8, <2>1
<1>9. ASSUME req.fc = function_code.read_holding_registers, a \in U16, n \in U16
      PROVE  /\ n \notin 1 .. 125 <=> ~ (1 <= n /\ n <= 125)
             /\ 1 <= n => (Span \subseteq Addresses <=> ~ (a + n > NRegisters))
             /\ n \in Nat /\ a \in Nat
  <2> HIDE DEF a, n
  <2>1. a \in Nat /\ n \in Nat /\ NRegisters \in Nat
    BY ONLY <1>9, SizesTyped DEF U16
  <2>2. n \notin 1 .. 125 <=> ~ (1 <= n /\ n <= 125)
    BY ONLY <2>1
  <2>3. ASSUME 1 <= n, Span \subseteq Addresses PROVE ~ (a + n > NRegisters)
    <3>1. a + n - 1 \in Span
      BY ONLY <2>1, <2>3
    <3>2. a + n - 1 \in Addresses
      BY ONLY <2>3, <3>1
    <3> QED
      BY ONLY <2>1, <3>2 DEF Addresses
  <2>4. ASSUME ~ (a + n > NRegisters) PROVE Span \subseteq Addresses
    BY ONLY <2>1, <2>4 DEF Addresses
  <2> QED
    BY ONLY <2>1, <2>2, <2>3, <2>4
<1> HIDE DEF req, p, a, n, v, E, w, tid, unit, Span
<1>10. CASE req.fc # function_code.read_holding_registers
  <2>1. p = WriteException(req.fc, E.illegal_function) /\ Expected(f) = E.illegal_function
    BY ONLY <1>5, <1>6, <1>10
  <2> QED
    BY ONLY <1>7, <1>8, <2>1
<1>11. CASE req.fc = function_code.read_holding_registers /\ ~ (1 <= n /\ n <= 125)
  <2>0. n \notin 1 .. 125
    BY ONLY <1>4, <1>9, <1>11
  <2>1. p = WriteException(req.fc, E.illegal_data_value)
    BY ONLY <1>6, <1>11
  <2>2. Expected(f) = E.illegal_data_value
    BY ONLY <1>5, <1>11, <2>0, Zenon
  <2> QED
    BY ONLY <1>7, <1>8, <2>1, <2>2
<1>12. CASE req.fc = function_code.read_holding_registers /\ 1 <= n /\ n <= 125
            /\ HasData /\ a + n > NRegisters
  <2>0. ~ (n \notin 1 .. 125) /\ ~ (Span \subseteq Addresses)
    BY ONLY <1>4, <1>9, <1>12
  <2>1. p = WriteException(req.fc, E.illegal_data_address)
    BY ONLY <1>6, <1>12
  <2>2. Expected(f) = E.illegal_data_address
    BY ONLY <1>5, <1>12, <2>0, Zenon
  <2> QED
    BY ONLY <1>7, <1>8, <2>1, <2>2
<1>13. CASE req.fc = function_code.read_holding_registers /\ 1 <= n /\ n <= 125
            /\ ~ (HasData /\ a + n > NRegisters)
  <2>0. ~ (n \notin 1 .. 125) /\ ~ (HasData /\ ~ (Span \subseteq Addresses)) /\ a \in Nat /\ n \in Nat
    BY ONLY <1>4, <1>9, <1>13
  <2>1. p = WriteValues(function_code.read_holding_registers, WordBytes(v))
    BY ONLY <1>6, <1>13
  <2>2. Expected(f) = modbus_exception_code.success
    BY ONLY <1>5, <1>13, <2>0, Zenon DEF E
  <2>3. n <= 123
    BY <2>2 DEF ShortReads, n, req, s
  <2>4. v \in Seq(U16) /\ Len(v) = n
    <3>1. ASSUME NEW k \in 1 .. n
          PROVE  (IF HasData THEN s_holding_registers[a + k - 1] ELSE 0) \in U16
      <4>1. CASE HasData
        <5>1. a + k - 1 \in Addresses
          BY ONLY <1>13, <2>0, <4>1, SizesTyped, k \in 1 .. n DEF Addresses
        <5>2. s_holding_registers[a + k - 1] \in U16
          BY <5>1 DEF Updates
        <5> QED
          BY ONLY <4>1, <5>2
      <4>2. CASE ~ HasData
        BY ONLY <4>2 DEF U16
      <4> QED
        BY ONLY <4>1, <4>2
    <3> QED
      BY ONLY <2>0, <3>1 DEF v
  <2>5. ReadReq(Drop(f, header_size)).req.words[2] = Len(v)
    BY ONLY <2>4 DEF n, req, s
  <2>6. Len(v) <= 123
    BY ONLY <2>3, <2>4
  <2>7. Header(f).transaction_id = tid /\ Header(f).unit_id = unit
    BY ONLY DEF tid, unit
  <2>8. Meets(f, Frame(tid, unit, WriteValues(function_code.read_holding_registers, WordBytes(v))))
    BY ONLY <1>1, <2>2, <2>4, <2>5, <2>6, <2>7, MeetsValues
  <2> QED
    BY ONLY <2>1, <2>8 DEF w
<1> QED
  BY ONLY <1>10, <1>11, <1>12, <1>13

--------------------------------------------------------------------------------
(* One connection: the session never loses the place where a frame begins, and  *)
(* answers each frame with what it deserves.                                    *)

\* A session that has answered n of the frames fs is to read the next one from its start, or
\* holds its header and is to read its body.
InStep(st, h, s, left, n, fs) ==
  /\ st # "body" => Placed(s, left, n, 0, fs)
  /\ st = "body" => /\ n < Len(fs) /\ h = Header(fs[n + 1]) /\ h.length >= 2
                    /\ Placed(s, left, n, header_size, fs)

\* What holds of a connection whose variables have these values.
Orderly(st, h, s, left, rs, fs) ==
  /\ st \in {"new", "header", "body", "closed"}
  /\ h \in [transaction_id : U16, protocol : U16, length : U16, unit_id : Byte]
  /\ s \in Seq(Byte) /\ left \in BOOLEAN /\ rs \in Seq(Seq(Byte)) /\ fs \in Seq(Frames)
  /\ Len(rs) <= Len(fs)
  /\ st # "closed" => InStep(st, h, s, left, Len(rs), fs)
  /\ ShortReads => \A k \in 1 .. Len(rs) : Meets(fs[k], rs[k])

\* The frames are bytes.
LEMMA FramesBytewise == Bytewise(Frames)
  BY FrameFacts DEF Bytewise

\* The header of the next frame is read.
LEMMA HeaderRead ==
  ASSUME NEW s \in Seq(Byte), NEW left, NEW n, NEW fs \in Seq(Frames), Len(s) >= header_size,
         Placed(s, left, n, 0, fs)
  PROVE  /\ n \in Nat /\ n < Len(fs) /\ fs[n + 1] \in Frames /\ Header(s) = Header(fs[n + 1])
         /\ Drop(s, header_size) \in Seq(Byte)
         /\ Placed(Drop(s, header_size), left, n, header_size, fs)
<1> DEFINE f == fs[n + 1]
<1>1. Len(s) \in Nat /\ Len(s) > 0 /\ 7 <= Len(s)
  BY DEF header_size
<1>2. n \in Nat /\ n < Len(fs) /\ f \in Frames
  BY ONLY <1>1, StreamGoesOn, s \in Seq(Byte), fs \in Seq(Frames), Placed(s, left, n, 0, fs)
<1>3. Len(f) \in Nat /\ Len(f) >= 7
  BY ONLY <1>2, FrameFacts
<1>4. PICK z \in Nat, k \in Nat : z = 0 /\ k = 7
  OBVIOUS
<1>5. k <= Len(s) /\ n < Len(fs) /\ z + k <= Len(fs[n + 1]) /\ Placed(s, left, n, z, fs)
  BY ONLY <1>1, <1>2, <1>3, <1>4, Placed(s, left, n, 0, fs)
<1>6. Reads(s, left, n, z, fs, k)
  BY ONLY <1>5, FramesBytewise, StreamRead, s \in Seq(Byte), fs \in Seq(Frames), z \in Nat, k \in Nat
<1>7. /\ Drop(s, 7) \in Seq(Byte) /\ Placed(Drop(s, 7), left, n, 7, fs)
      /\ \A j \in 1 .. 7 : s[j] = f[0 + j]
  BY ONLY <1>4, <1>6 DEF Reads
<1>8. Header(s) = Header(f)
  BY ONLY <1>7, SameHeader
<1> QED
  BY ONLY <1>2, <1>7, <1>8 DEF header_size

\* One more response.
LEMMA OneMoreReply ==
  ASSUME NEW rs \in Seq(Seq(Byte)), NEW fs \in Seq(Frames), NEW w \in Seq(Byte), Len(rs) < Len(fs),
         ShortReads => \A k \in 1 .. Len(rs) : Meets(fs[k], rs[k]),
         ShortReads => Meets(fs[Len(rs) + 1], w)
  PROVE  /\ Append(rs, w) \in Seq(Seq(Byte)) /\ Len(Append(rs, w)) = Len(rs) + 1
         /\ Len(Append(rs, w)) <= Len(fs)
         /\ ShortReads => \A k \in 1 .. Len(Append(rs, w)) : Meets(fs[k], Append(rs, w)[k])
<1> DEFINE n == Len(rs)
           ws == Append(rs, w)
<1>1. ws \in Seq(Seq(Byte)) /\ Len(ws) = n + 1 /\ ws[n + 1] = w /\ \A k \in 1 .. n : ws[k] = rs[k]
  OBVIOUS
<1>2. n \in Nat /\ Len(fs) \in Nat /\ n < Len(fs)
  OBVIOUS
<1>3. ShortReads => Meets(fs[n + 1], w) /\ \A k \in 1 .. n : Meets(fs[k], rs[k])
  OBVIOUS
<1> HIDE DEF n, ws
<1>4. n + 1 <= Len(fs)
  BY ONLY <1>2
<1>5. ASSUME ShortReads, NEW k \in 1 .. Len(ws) PROVE Meets(fs[k], ws[k])
  <2>1. CASE k = n + 1
    BY ONLY <1>1, <1>3, <1>5, <2>1
  <2>2. CASE k # n + 1
    <3>1. k \in 1 .. n
      BY ONLY <1>1, <1>2, <2>2, k \in 1 .. Len(ws)
    <3> QED
      BY ONLY <1>1, <1>3, <1>5, <3>1
  <2> QED
    BY ONLY <2>1, <2>2
<1> QED
  BY ONLY <1>1, <1>4, <1>5 DEF n, ws

\* A length that is refused is answered at once, and the next frame begins behind the header.
LEMMA OrderlyRefused ==
  ASSUME NEW h, NEW s, NEW left, NEW rs, NEW fs, Orderly("header", h, s, left, rs, fs),
         Len(s) >= header_size, Refused(Header(s).length)
  PROVE  Orderly("header", Header(s), Drop(s, header_size), left,
                 Append(rs, Frame(Header(s).transaction_id, Header(s).unit_id,
                                  WriteException(0, modbus_exception_code.request_too_big))), fs)
<1> DEFINE n == Len(rs)
           f == fs[n + 1]
           w == Frame(Header(s).transaction_id, Header(s).unit_id,
                      WriteException(0, modbus_exception_code.request_too_big))
           ws == Append(rs, w)
<1>1. /\ s \in Seq(Byte) /\ left \in BOOLEAN /\ rs \in Seq(Seq(Byte)) /\ fs \in Seq(Frames)
      /\ n <= Len(fs) /\ Placed(s, left, n, 0, fs)
      /\ ShortReads => \A k \in 1 .. n : Meets(fs[k], rs[k])
  BY DEF Orderly, InStep
<1> HIDE DEF n
<1>2. /\ n \in Nat /\ n < Len(fs) /\ f \in Frames /\ Header(s) = Header(f)
      /\ Drop(s, header_size) \in Seq(Byte) /\ Placed(Drop(s, header_size), left, n, header_size, fs)
  BY ONLY <1>1, Len(s) >= header_size, HeaderRead
<1>3. Header(s) \in [transaction_id : U16, protocol : U16, length : U16, unit_id : Byte]
  BY ONLY <1>1, Len(s) >= header_size, HeaderFields
<1> HIDE DEF f
<1>4. Len(f) = header_size
  <2>1. Header(s).length \in Nat
    BY ONLY <1>3 DEF U16
  <2>2. Header(f).length < 2
    BY ONLY <1>2, <2>1, Refused(Header(s).length) DEF Refused
  <2> QED
    BY ONLY <1>2, <2>2, FrameFacts DEF header_size
<1>5. Placed(Drop(s, header_size), left, n + 1, 0, fs)
  BY ONLY <1>1, <1>2, <1>4, StreamDone DEF f
<1>6. w \in Seq(Byte) /\ Meets(f, w)
  <2>1. PICK tid \in U16, unit \in Byte :
          tid = Header(s).transaction_id /\ unit = Header(s).unit_id
    BY ONLY <1>3
  <2>2. PICK fc \in Byte, code \in 1 .. 255 :
          fc = 0 /\ code = modbus_exception_code.request_too_big
    BY DEF modbus_exception_code, Byte
  <2>3. Expected(f) = code
    BY ONLY <1>4, <2>2 DEF Expected
  <2>4. Header(f).transaction_id = tid /\ Header(f).unit_id = unit
    BY ONLY <1>2, <2>1
  <2>5. /\ Frame(tid, unit, WriteException(fc, code)) \in Seq(Byte)
        /\ Meets(f, Frame(tid, unit, WriteException(fc, code)))
    BY ONLY <2>3, <2>4, tid \in U16, unit \in Byte, fc \in Byte, code \in 1 .. 255, MeetsException, ZenonT(60)
  <2>6. w = Frame(tid, unit, WriteException(fc, code))
    BY ONLY <2>1, <2>2
  <2> QED
    BY ONLY <2>5, <2>6, Zenon
<1> HIDE DEF w
<1>7. /\ ws \in Seq(Seq(Byte)) /\ Len(ws) = n + 1 /\ Len(ws) <= Len(fs)
      /\ ShortReads => \A k \in 1 .. Len(ws) : Meets(fs[k], ws[k])
  BY ONLY <1>1, <1>2, <1>6, OneMoreReply DEF n, f
<1> HIDE DEF ws
<1>8. Orderly("header", Header(s), Drop(s, header_size), left, ws, fs)
  BY ONLY <1>1, <1>2, <1>3, <1>5, <1>7 DEF Orderly, InStep
<1> QED
  BY ONLY <1>8 DEF ws, w

\* A length that is not refused: the body is waited for.
LEMMA OrderlyHeader ==
  ASSUME NEW h, NEW s, NEW left, NEW rs, NEW fs, Orderly("header", h, s, left, rs, fs),
         Len(s) >= header_size, ~ Refused(Header(s).length)
  PROVE  Orderly("body", Header(s), Drop(s, header_size), left, rs, fs)
<1> DEFINE n == Len(rs)
<1>1. /\ s \in Seq(Byte) /\ left \in BOOLEAN /\ rs \in Seq(Seq(Byte)) /\ fs \in Seq(Frames)
      /\ n <= Len(fs) /\ Placed(s, left, n, 0, fs)
      /\ ShortReads => \A k \in 1 .. n : Meets(fs[k], rs[k])
  BY DEF Orderly, InStep
<1> HIDE DEF n
<1>2. /\ n < Len(fs) /\ Header(s) = Header(fs[n + 1])
      /\ Drop(s, header_size) \in Seq(Byte) /\ Placed(Drop(s, header_size), left, n, header_size, fs)
  BY ONLY <1>1, Len(s) >= header_size, HeaderRead
<1>3. Header(s) \in [transaction_id : U16, protocol : U16, length : U16, unit_id : Byte]
  BY ONLY <1>1, Len(s) >= header_size, HeaderFields
<1>4. Header(s).length >= 2
  <2>1. Header(s).length \in Nat
    BY ONLY <1>3 DEF U16
  <2> QED
    BY ONLY <2>1, ~ Refused(Header(s).length) DEF Refused
<1>5. InStep("body", Header(s), Drop(s, header_size), left, n, fs)
  BY ONLY <1>2, <1>4 DEF InStep
<1> QED
  BY ONLY <1>1, <1>2, <1>3, <1>5 DEF Orderly, n

\* The body that is read is the PDU of the frame whose header was read.
LEMMA BodyRead ==
  ASSUME NEW h, NEW s \in Seq(Byte), NEW left, NEW n, NEW fs \in Seq(Frames),
         InStep("body", h, s, left, n, fs), Len(s) >= h.length - 1
  PROVE  /\ n \in Nat /\ n < Len(fs) /\ fs[n + 1] \in Frames /\ h = Header(fs[n + 1]) /\ h.length >= 2
         /\ Take(s, h.length - 1) = Drop(fs[n + 1], header_size)
         /\ Drop(s, h.length - 1) \in Seq(Byte)
         /\ Placed(Drop(s, h.length - 1), left, n + 1, 0, fs)
<1> DEFINE f == fs[n + 1]
           m == h.length - 1
<1>1. n < Len(fs) /\ h = Header(f) /\ h.length >= 2 /\ Placed(s, left, n, 7, fs)
  BY DEF InStep, header_size
<1>2. n \in Nat /\ f \in Frames
  <2>1. PICK full, at : Laid(full, at, fs) /\ n \in 0 .. Len(fs)
    BY ONLY <1>1 DEF Placed
  <2>2. n \in Nat /\ n + 1 \in 1 .. Len(fs)
    BY ONLY <1>1, <2>1, LaidAt, fs \in Seq(Frames)
  <2> QED
    BY ONLY <2>2, fs \in Seq(Frames)
<1>3. /\ Len(f) \in Nat /\ h.length \in Nat /\ Len(f) = 6 + h.length
  BY ONLY <1>1, <1>2, FrameFacts
<1>4. m \in Nat /\ m <= Len(s) /\ 7 + m = Len(f)
  <2>1. Len(s) >= h.length - 1 /\ Len(s) \in Nat
    OBVIOUS
  <2> QED
    BY ONLY <1>1, <1>3, <2>1
<1> HIDE DEF m
<1>5. PICK k \in Nat : k = 7
  OBVIOUS
<1>6. k + m <= Len(fs[n + 1]) /\ k + m = Len(fs[n + 1]) /\ Placed(s, left, n, k, fs)
  BY ONLY <1>1, <1>3, <1>4, <1>5
<1>7. Reads(s, left, n, k, fs, m)
  BY ONLY <1>1, <1>4, <1>6, FramesBytewise, StreamRead, s \in Seq(Byte), fs \in Seq(Frames), k \in Nat
<1>8. /\ Drop(s, m) \in Seq(Byte) /\ Placed(Drop(s, m), left, n, k + m, fs)
      /\ Take(s, m) = Drop(f, k)
  BY ONLY <1>6, <1>7 DEF Reads
<1>9. Placed(Drop(s, m), left, n + 1, 0, fs)
  BY ONLY <1>1, <1>6, <1>8, StreamDone, fs \in Seq(Frames)
<1>10. Take(s, m) = Drop(f, header_size)
  BY ONLY <1>5, <1>8 DEF header_size
<1> QED
  BY ONLY <1>1, <1>2, <1>8, <1>9, <1>10 DEF m

\* A body that cannot be read ends the session.
LEMMA OrderlyUnreadable ==
  ASSUME NEW h, NEW s, NEW left, NEW rs, NEW fs, Orderly("body", h, s, left, rs, fs),
         Len(s) >= h.length - 1
  PROVE  Orderly("closed", h, Drop(s, h.length - 1), left, rs, fs)
<1>1. /\ s \in Seq(Byte) /\ fs \in Seq(Frames) /\ InStep("body", h, s, left, Len(rs), fs)
  BY DEF Orderly
<1>2. Drop(s, h.length - 1) \in Seq(Byte)
  BY ONLY <1>1, Len(s) >= h.length - 1, BodyRead
<1> QED
  BY <1>2 DEF Orderly

\* A body that can be read is answered by the handler.
LEMMA OrderlyAnswered ==
  ASSUME Updates, NEW h, NEW s, NEW left, NEW rs, NEW fs, Orderly("body", h, s, left, rs, fs),
         Len(s) >= h.length - 1,
         ReadReq(Take(s, h.length - 1)).ec = modbus_exception_code.success
  PROVE  Orderly("header", h, Drop(s, h.length - 1), left,
                 Append(rs, Frame(h.transaction_id, h.unit_id,
                                  reqest_handler(ReadReq(Take(s, h.length - 1)).req))), fs)
<1> DEFINE n == Len(rs)
           f == fs[n + 1]
           m == h.length - 1
           w == Frame(h.transaction_id, h.unit_id, reqest_handler(ReadReq(Take(s, m)).req))
           ws == Append(rs, w)
<1>1. /\ h \in [transaction_id : U16, protocol : U16, length : U16, unit_id : Byte]
      /\ s \in Seq(Byte) /\ left \in BOOLEAN /\ rs \in Seq(Seq(Byte)) /\ fs \in Seq(Frames)
      /\ n <= Len(fs) /\ InStep("body", h, s, left, n, fs)
      /\ ShortReads => \A k \in 1 .. n : Meets(fs[k], rs[k])
  BY DEF Orderly
<1> HIDE DEF n
<1>2. /\ n \in Nat /\ n < Len(fs) /\ f \in Frames /\ h = Header(f) /\ h.length >= 2
      /\ Take(s, m) = Drop(f, header_size)
      /\ Drop(s, m) \in Seq(Byte) /\ Placed(Drop(s, m), left, n + 1, 0, fs)
  BY ONLY <1>1, Len(s) >= h.length - 1, BodyRead
<1>3. ReadReq(Drop(f, header_size)).ec = modbus_exception_code.success
  BY <1>2
<1> HIDE DEF f, m
<1>4. ShortReads => Meets(f, w)
  <2>1. ShortReads => Meets(f, Frame(Header(f).transaction_id, Header(f).unit_id,
                               reqest_handler(ReadReq(Drop(f, header_size)).req)))
    BY ONLY Updates, <1>2, <1>3, HandlerMeets
  <2> QED
    BY ONLY <1>2, <2>1, Zenon
<1>5. w \in Seq(Byte)
  <2>1. f \in Seq(Byte) /\ header_size <= Len(f) /\ header_size \in Nat
    BY ONLY <1>2, FrameFacts DEF header_size
  <2>2. Drop(f, header_size) \in Seq(Byte)
    BY ONLY <2>1, PartsOfBytes
  <2>3. h.transaction_id \in U16 /\ h.unit_id \in Byte
    BY ONLY <1>1
  <2>4. Frame(h.transaction_id, h.unit_id, reqest_handler(ReadReq(Drop(f, header_size)).req)) \in Seq(Byte)
    BY ONLY Updates, <1>3, <2>2, <2>3, HandlerTold
  <2> QED
    BY ONLY <1>2, <2>4
<1> HIDE DEF w
<1>6. /\ ws \in Seq(Seq(Byte)) /\ Len(ws) = n + 1 /\ Len(ws) <= Len(fs)
      /\ ShortReads => \A k \in 1 .. Len(ws) : Meets(fs[k], ws[k])
  BY ONLY <1>1, <1>2, <1>4, <1>5, OneMoreReply DEF n, f
<1> HIDE DEF ws
<1>7. Orderly("header", h, Drop(s, m), left, ws, fs)
  BY ONLY <1>1, <1>2, <1>6 DEF Orderly, InStep
<1> QED
  BY ONLY <1>7 DEF ws, w, m

\* The client sends a frame, whatever the session is at.
LEMMA OrderlySent ==
  ASSUME NEW st, NEW h, NEW s, NEW rs, NEW fs, Orderly(st, h, s, FALSE, rs, fs), NEW f \in Frames
  PROVE  Orderly(st, h, s \o f, FALSE, rs, Append(fs, f))
<1> DEFINE n == Len(rs)
           m == Len(fs)
           gs == Append(fs, f)
<1>1. /\ st \in {"new", "header", "body", "closed"}
      /\ h \in [transaction_id : U16, protocol : U16, length : U16, unit_id : Byte]
      /\ s \in Seq(Byte) /\ rs \in Seq(Seq(Byte)) /\ fs \in Seq(Frames)
      /\ n <= m
      /\ st # "closed" => InStep(st, h, s, FALSE, n, fs)
      /\ ShortReads => \A k \in 1 .. n : Meets(fs[k], rs[k])
  BY DEF Orderly
<1>2. n \in Nat /\ m \in Nat
  BY ONLY <1>1
<1>3. gs \in Seq(Frames) /\ Len(gs) = m + 1 /\ \A k \in 1 .. m : gs[k] = fs[k]
  BY ONLY <1>1, f \in Frames
<1>4. s \o f \in Seq(Byte)
  <2>1. f \in Seq(Byte)
    BY ONLY FrameFacts, f \in Frames
  <2> QED
    BY ONLY <1>1, <2>1, ConcatAt
<1>5. \A off \in Nat : Placed(s, FALSE, n, off, fs) => Placed(s \o f, FALSE, n, off, gs)
  BY ONLY <1>1, FramesBytewise, StreamSent, f \in Frames
<1> HIDE DEF n, m, gs
<1>6. st # "closed" => InStep(st, h, s \o f, FALSE, n, gs)
  <2>0. 0 \in Nat /\ header_size \in Nat
    BY DEF header_size
  <2>1. CASE st = "body"
    <3>1. n < m /\ h = Header(fs[n + 1]) /\ h.length >= 2 /\ Placed(s, FALSE, n, header_size, fs)
      BY ONLY <1>1, <2>1 DEF InStep, m
    <3>2. n < m + 1 /\ n + 1 \in 1 .. m
      BY ONLY <1>2, <3>1
    <3>3. gs[n + 1] = fs[n + 1] /\ n < Len(gs)
      BY ONLY <1>3, <3>2
    <3> QED
      BY ONLY <1>5, <2>0, <2>1, <3>1, <3>3 DEF InStep
  <2>2. CASE st # "body"
    BY ONLY <1>1, <1>5, <2>0, <2>2 DEF InStep
  <2> QED
    BY ONLY <2>1, <2>2
<1>7. ASSUME ShortReads, NEW k \in 1 .. n PROVE Meets(gs[k], rs[k])
  <2>1. k \in 1 .. m
    BY ONLY <1>1, <1>2, k \in 1 .. n
  <2> QED
    BY ONLY <1>1, <1>3, <1>7, <2>1
<1>8. n <= Len(gs)
  BY ONLY <1>1, <1>2, <1>3
<1>9. Orderly(st, h, s \o f, FALSE, rs, gs)
  BY ONLY <1>1, <1>3, <1>4, <1>6, <1>7, <1>8 DEF Orderly, n
<1> QED
  BY ONLY <1>9 DEF gs

\* The client leaves, and the last bytes that it sent are lost.
LEMMA OrderlyLeft ==
  ASSUME NEW st, NEW h, NEW s, NEW left, NEW rs, NEW fs, Orderly(st, h, s, left, rs, fs),
         NEW n \in {0, 1}, n <= Len(s)
  PROVE  Orderly(st, h, Take(s, Len(s) - n), TRUE, rs, fs)
<1> DEFINE m == Len(s) - n
<1>1. /\ st \in {"new", "header", "body", "closed"}
      /\ h \in [transaction_id : U16, protocol : U16, length : U16, unit_id : Byte]
      /\ s \in Seq(Byte) /\ rs \in Seq(Seq(Byte)) /\ fs \in Seq(Frames)
      /\ Len(rs) <= Len(fs)
      /\ st # "closed" => InStep(st, h, s, left, Len(rs), fs)
      /\ ShortReads => \A k \in 1 .. Len(rs) : Meets(fs[k], rs[k])
  BY DEF Orderly
<1>2. m \in Nat /\ m <= Len(s)
  <2>1. Len(s) \in Nat
    BY ONLY <1>1
  <2> QED
    BY ONLY <2>1, n \in {0, 1}, n <= Len(s)
<1> HIDE DEF m
<1>3. Take(s, m) \in Seq(Byte)
  BY ONLY <1>1, <1>2, PartsOfBytes
<1>4. \A off \in Nat : Placed(s, left, Len(rs), off, fs) => Placed(Take(s, m), TRUE, Len(rs), off, fs)
  BY ONLY <1>1, <1>2, StreamLost
<1>5. st # "closed" => InStep(st, h, Take(s, m), TRUE, Len(rs), fs)
  <2>0. 0 \in Nat /\ header_size \in Nat
    BY DEF header_size
  <2> QED
    BY ONLY <1>1, <1>4, <2>0 DEF InStep
<1>6. Orderly(st, h, Take(s, m), TRUE, rs, fs)
  BY ONLY <1>1, <1>3, <1>5 DEF Orderly
<1> QED
  BY ONLY <1>6 DEF m

\* async_read throws once the client has left.
LEMMA OrderlyFailed ==
  ASSUME NEW st, NEW h, NEW s, NEW left, NEW rs, NEW fs, Orderly(st, h, s, left, rs, fs)
  PROVE  Orderly("closed", h, <<>>, left, rs, fs)
<1>1. <<>> \in Seq(Byte)
  OBVIOUS
<1> QED
  BY <1>1 DEF Orderly

--------------------------------------------------------------------------------
(* All connections.                                                             *)

\* Every session is in order, and so is what they share.
AllOrderly ==
  /\ main \in {"run", "join", "ended"} /\ listening \in BOOLEAN
  /\ stage = [c \in Conn |-> stage[c]] /\ header = [c \in Conn |-> header[c]]
  /\ in = [c \in Conn |-> in[c]] /\ gone = [c \in Conn |-> gone[c]]
  /\ out = [c \in Conn |-> out[c]] /\ sent = [c \in Conn |-> sent[c]]
  /\ \A c \in Conn : Orderly(stage[c], header[c], in[c], gone[c], out[c], sent[c])

\* Of all connections only c changes, and its variables get these values.
Moves(c, st, h, s, left, rs, fs) ==
  /\ main' = main /\ listening' = listening
  /\ stage' = [stage EXCEPT ![c] = st] /\ header' = [header EXCEPT ![c] = h]
  /\ in' = [in EXCEPT ![c] = s] /\ gone' = [gone EXCEPT ![c] = left]
  /\ out' = [out EXCEPT ![c] = rs] /\ sent' = [sent EXCEPT ![c] = fs]

\* A step of one session, or of its client, leaves the other connections alone.
LEMMA OneMoves ==
  ASSUME AllOrderly, NEW c \in Conn, NEW st, NEW h, NEW s, NEW left, NEW rs, NEW fs,
         Moves(c, st, h, s, left, rs, fs), Orderly(st, h, s, left, rs, fs)
  PROVE  AllOrderly'
<1>0. /\ main' = main /\ listening' = listening
      /\ stage' = [stage EXCEPT ![c] = st] /\ header' = [header EXCEPT ![c] = h]
      /\ in' = [in EXCEPT ![c] = s] /\ gone' = [gone EXCEPT ![c] = left]
      /\ out' = [out EXCEPT ![c] = rs] /\ sent' = [sent EXCEPT ![c] = fs]
  BY DEF Moves
<1>1. /\ main \in {"run", "join", "ended"} /\ listening \in BOOLEAN
      /\ stage = [d \in Conn |-> stage[d]] /\ header = [d \in Conn |-> header[d]]
      /\ in = [d \in Conn |-> in[d]] /\ gone = [d \in Conn |-> gone[d]]
      /\ out = [d \in Conn |-> out[d]] /\ sent = [d \in Conn |-> sent[d]]
      /\ \A d \in Conn : Orderly(stage[d], header[d], in[d], gone[d], out[d], sent[d])
  BY DEF AllOrderly
<1>2. /\ stage' = [d \in Conn |-> stage'[d]] /\ header' = [d \in Conn |-> header'[d]]
      /\ in' = [d \in Conn |-> in'[d]] /\ gone' = [d \in Conn |-> gone'[d]]
      /\ out' = [d \in Conn |-> out'[d]] /\ sent' = [d \in Conn |-> sent'[d]]
  BY <1>0, <1>1
<1>3. ASSUME NEW d \in Conn
      PROVE  Orderly(stage'[d], header'[d], in'[d], gone'[d], out'[d], sent'[d])
  <2>1. CASE d = c
    <3>1. /\ stage'[d] = st /\ header'[d] = h /\ in'[d] = s /\ gone'[d] = left
          /\ out'[d] = rs /\ sent'[d] = fs
      BY <1>0, <1>1, <2>1
    <3> QED
      BY <3>1, Zenon
  <2>2. CASE d # c
    <3>1. /\ stage'[d] = stage[d] /\ header'[d] = header[d] /\ in'[d] = in[d]
          /\ gone'[d] = gone[d] /\ out'[d] = out[d] /\ sent'[d] = sent[d]
      BY <1>0, <1>1, <2>2
    <3> QED
      BY ONLY <1>1, <3>1, d \in Conn, Zenon
  <2> QED
    BY ONLY <2>1, <2>2
<1>4. main' \in {"run", "join", "ended"} /\ listening' \in BOOLEAN
  BY ONLY <1>0, <1>1
<1> QED
  BY ONLY <1>2, <1>3, <1>4 DEF AllOrderly

\* What does not change is a step of any connection that changes nothing.
LEMMA Same == ASSUME AllOrderly, NEW c \in Conn
              PROVE  /\ stage = [stage EXCEPT ![c] = stage[c]]
                     /\ header = [header EXCEPT ![c] = header[c]]
                     /\ in = [in EXCEPT ![c] = in[c]] /\ gone = [gone EXCEPT ![c] = gone[c]]
                     /\ out = [out EXCEPT ![c] = out[c]] /\ sent = [sent EXCEPT ![c] = sent[c]]
                     /\ Orderly(stage[c], header[c], in[c], gone[c], out[c], sent[c])
<1>1. /\ stage = [d \in Conn |-> stage[d]] /\ header = [d \in Conn |-> header[d]]
      /\ in = [d \in Conn |-> in[d]] /\ gone = [d \in Conn |-> gone[d]]
      /\ out = [d \in Conn |-> out[d]] /\ sent = [d \in Conn |-> sent[d]]
      /\ \A d \in Conn : Orderly(stage[d], header[d], in[d], gone[d], out[d], sent[d])
  BY DEF AllOrderly
<1>2. /\ stage = [stage EXCEPT ![c] = stage[c]] /\ header = [header EXCEPT ![c] = header[c]]
      /\ in = [in EXCEPT ![c] = in[c]] /\ gone = [gone EXCEPT ![c] = gone[c]]
      /\ out = [out EXCEPT ![c] = out[c]] /\ sent = [sent EXCEPT ![c] = sent[c]]
  BY <1>1
<1> QED
  BY ONLY <1>1, <1>2, c \in Conn, Zenon

\* listener starts a session at the first byte of its client.
LEMMA AcceptKeeps == ASSUME AllOrderly, NEW c \in Conn, Accept(c) PROVE AllOrderly'
<1>1. /\ stage = [stage EXCEPT ![c] = stage[c]] /\ header = [header EXCEPT ![c] = header[c]]
      /\ in = [in EXCEPT ![c] = in[c]] /\ gone = [gone EXCEPT ![c] = gone[c]]
      /\ out = [out EXCEPT ![c] = out[c]] /\ sent = [sent EXCEPT ![c] = sent[c]]
      /\ Orderly(stage[c], header[c], in[c], gone[c], out[c], sent[c])
  BY Same
<1>2. /\ stage[c] = "new" /\ stage' = [stage EXCEPT ![c] = "header"]
      /\ main' = main /\ listening' = listening
      /\ header' = header /\ in' = in /\ gone' = gone /\ out' = out /\ sent' = sent
  BY DEF Accept, client
<1>3. Orderly("header", header[c], in[c], gone[c], out[c], sent[c])
  BY ONLY <1>1, <1>2 DEF Orderly, InStep
<1>4. Moves(c, "header", header[c], in[c], gone[c], out[c], sent[c])
  BY ONLY <1>1, <1>2 DEF Moves
<1> QED
  BY ONLY AllOrderly, c \in Conn, <1>3, <1>4, OneMoves

\* A header is answered at once, or its body is waited for.
LEMMA ParseHeaderKeeps == ASSUME AllOrderly, NEW c \in Conn, ParseHeader(c) PROVE AllOrderly'
<1> DEFINE h == Header(in[c])
           s == Drop(in[c], header_size)
           rs == Append(out[c], Frame(h.transaction_id, h.unit_id,
                                      WriteException(0, modbus_exception_code.request_too_big)))
<1>1. /\ stage = [stage EXCEPT ![c] = stage[c]] /\ header = [header EXCEPT ![c] = header[c]]
      /\ in = [in EXCEPT ![c] = in[c]] /\ gone = [gone EXCEPT ![c] = gone[c]]
      /\ out = [out EXCEPT ![c] = out[c]] /\ sent = [sent EXCEPT ![c] = sent[c]]
      /\ Orderly(stage[c], header[c], in[c], gone[c], out[c], sent[c])
  BY Same
<1>2. /\ stage[c] = "header" /\ Len(in[c]) >= header_size
      /\ main' = main /\ listening' = listening
      /\ in' = [in EXCEPT ![c] = s] /\ header' = [header EXCEPT ![c] = h] /\ gone' = gone /\ sent' = sent
      /\ \/ /\ Refused(header'[c].length) /\ stage' = stage
            /\ write_exception_response(c, header'[c], 0, modbus_exception_code.request_too_big)
         \/ ~ Refused(header'[c].length) /\ stage' = [stage EXCEPT ![c] = "body"] /\ out' = out
  BY DEF ParseHeader
<1>3. header'[c] = h
  <2>1. header = [d \in Conn |-> header[d]]
    BY DEF AllOrderly
  <2> HIDE DEF h
  <2> QED
    BY ONLY <1>2, <2>1, c \in Conn
<1>4. /\ gone' = [gone EXCEPT ![c] = gone[c]] /\ sent' = [sent EXCEPT ![c] = sent[c]]
  BY ONLY <1>1, <1>2
<1>5. Orderly("header", header[c], in[c], gone[c], out[c], sent[c])
  BY ONLY <1>1, <1>2
<1>6. CASE Refused(h.length)
  <2>1. Orderly("header", h, s, gone[c], rs, sent[c])
    BY ONLY <1>2, <1>5, <1>6, OrderlyRefused
  <2>2. stage' = [stage EXCEPT ![c] = "header"] /\ out' = [out EXCEPT ![c] = rs]
    <3>1. stage' = stage /\ out' = [out EXCEPT ![c] = rs]
      BY ONLY <1>2, <1>3, <1>6, Zenon DEF write_exception_response, write_response
    <3> HIDE DEF rs
    <3> QED
      BY ONLY <1>1, <1>2, <3>1
  <2> HIDE DEF s, rs, h
  <2>3. Moves(c, "header", h, s, gone[c], rs, sent[c])
    BY ONLY <1>2, <1>4, <2>2 DEF Moves
  <2> QED
    BY ONLY AllOrderly, c \in Conn, <2>1, <2>3, OneMoves
<1>7. CASE ~ Refused(h.length)
  <2>1. Orderly("body", h, s, gone[c], out[c], sent[c])
    BY ONLY <1>2, <1>5, <1>7, OrderlyHeader
  <2> HIDE DEF s, rs, h
  <2>2. stage' = [stage EXCEPT ![c] = "body"] /\ out' = [out EXCEPT ![c] = out[c]]
    BY ONLY <1>1, <1>2, <1>3, <1>7
  <2>3. Moves(c, "body", h, s, gone[c], out[c], sent[c])
    BY ONLY <1>2, <1>4, <2>2 DEF Moves
  <2> QED
    BY ONLY AllOrderly, c \in Conn, <2>1, <2>3, OneMoves
<1> QED
  BY ONLY <1>6, <1>7

\* A body ends the session or is answered by the handler.
LEMMA ParseBodyKeeps == ASSUME Updates, AllOrderly, NEW c \in Conn, ParseBody(c) PROVE AllOrderly'
<1> DEFINE h == header[c]
           m == header[c].length - 1
           r == ReadReq(Take(in[c], m))
           s == Drop(in[c], m)
           rs == Append(out[c], Frame(h.transaction_id, h.unit_id, reqest_handler(r.req)))
<1>1. /\ stage = [stage EXCEPT ![c] = stage[c]] /\ header = [header EXCEPT ![c] = header[c]]
      /\ in = [in EXCEPT ![c] = in[c]] /\ gone = [gone EXCEPT ![c] = gone[c]]
      /\ out = [out EXCEPT ![c] = out[c]] /\ sent = [sent EXCEPT ![c] = sent[c]]
      /\ Orderly(stage[c], header[c], in[c], gone[c], out[c], sent[c])
  BY Same
<1>2. /\ stage[c] = "body" /\ Len(in[c]) >= header[c].length - 1
      /\ main' = main /\ listening' = listening
      /\ in' = [in EXCEPT ![c] = s] /\ header' = header /\ gone' = gone /\ sent' = sent
      /\ \/ r.ec # modbus_exception_code.success /\ stage' = [stage EXCEPT ![c] = "closed"] /\ out' = out
         \/ r.ec = modbus_exception_code.success /\ stage' = [stage EXCEPT ![c] = "header"]
            /\ out' = [out EXCEPT ![c] = rs]
  BY Zenon DEF ParseBody, write_response
<1>3. /\ gone' = [gone EXCEPT ![c] = gone[c]] /\ header' = [header EXCEPT ![c] = header[c]]
      /\ sent' = [sent EXCEPT ![c] = sent[c]]
  BY ONLY <1>1, <1>2
<1>4. Orderly("body", header[c], in[c], gone[c], out[c], sent[c])
  BY ONLY <1>1, <1>2
<1>5. CASE r.ec # modbus_exception_code.success
  <2>1. Orderly("closed", header[c], s, gone[c], out[c], sent[c])
    BY ONLY <1>2, <1>4, OrderlyUnreadable
  <2> HIDE DEF s, r, rs
  <2>2. stage' = [stage EXCEPT ![c] = "closed"] /\ out' = [out EXCEPT ![c] = out[c]]
    BY ONLY <1>1, <1>2, <1>5
  <2>3. Moves(c, "closed", header[c], s, gone[c], out[c], sent[c])
    BY ONLY <1>2, <1>3, <2>2 DEF Moves
  <2> QED
    BY ONLY AllOrderly, c \in Conn, <2>1, <2>3, OneMoves
<1>6. CASE r.ec = modbus_exception_code.success
  <2>1. Orderly("header", header[c], s, gone[c], rs, sent[c])
    BY ONLY Updates, <1>2, <1>4, <1>6, OrderlyAnswered
  <2> HIDE DEF s, r, rs
  <2>2. stage' = [stage EXCEPT ![c] = "header"] /\ out' = [out EXCEPT ![c] = rs]
    BY ONLY <1>2, <1>6
  <2>3. Moves(c, "header", header[c], s, gone[c], rs, sent[c])
    BY ONLY <1>2, <1>3, <2>2 DEF Moves
  <2> QED
    BY ONLY AllOrderly, c \in Conn, <2>1, <2>3, OneMoves
<1> QED
  BY ONLY <1>5, <1>6

\* A read that throws ends the session.
LEMMA ReadFailsKeeps == ASSUME AllOrderly, NEW c \in Conn, ReadFails(c) PROVE AllOrderly'
<1>1. /\ stage = [stage EXCEPT ![c] = stage[c]] /\ header = [header EXCEPT ![c] = header[c]]
      /\ in = [in EXCEPT ![c] = in[c]] /\ gone = [gone EXCEPT ![c] = gone[c]]
      /\ out = [out EXCEPT ![c] = out[c]] /\ sent = [sent EXCEPT ![c] = sent[c]]
      /\ Orderly(stage[c], header[c], in[c], gone[c], out[c], sent[c])
  BY Same
<1>2. /\ main' = main /\ listening' = listening /\ stage' = [stage EXCEPT ![c] = "closed"]
      /\ in' = [in EXCEPT ![c] = <<>>] /\ header' = header /\ gone' = gone /\ out' = out /\ sent' = sent
  BY DEF ReadFails
<1>3. Orderly("closed", header[c], <<>>, gone[c], out[c], sent[c])
  BY ONLY <1>1, OrderlyFailed
<1>4. Moves(c, "closed", header[c], <<>>, gone[c], out[c], sent[c])
  BY ONLY <1>1, <1>2 DEF Moves
<1> QED
  BY ONLY AllOrderly, c \in Conn, <1>3, <1>4, OneMoves

\* A frame that the client sends waits behind those it sent before.
LEMMA ClientSendsKeeps == ASSUME AllOrderly, NEW c \in Conn, ClientSends(c) PROVE AllOrderly'
<1>1. /\ stage = [stage EXCEPT ![c] = stage[c]] /\ header = [header EXCEPT ![c] = header[c]]
      /\ in = [in EXCEPT ![c] = in[c]] /\ gone = [gone EXCEPT ![c] = gone[c]]
      /\ out = [out EXCEPT ![c] = out[c]] /\ sent = [sent EXCEPT ![c] = sent[c]]
      /\ Orderly(stage[c], header[c], in[c], gone[c], out[c], sent[c])
  BY Same
<1>2. PICK f \in Frames :
        /\ in' = [in EXCEPT ![c] = in[c] \o f] /\ sent' = [sent EXCEPT ![c] = Append(sent[c], f)]
        /\ ~ gone[c] /\ main' = main /\ listening' = listening
        /\ stage' = stage /\ header' = header /\ out' = out /\ gone' = gone
  BY DEF ClientSends, session
<1>3. /\ stage' = [stage EXCEPT ![c] = stage[c]] /\ header' = [header EXCEPT ![c] = header[c]]
      /\ out' = [out EXCEPT ![c] = out[c]] /\ gone' = [gone EXCEPT ![c] = gone[c]]
  BY ONLY <1>1, <1>2
<1>4. gone[c] = FALSE
  <2>1. gone[c] \in BOOLEAN
    BY ONLY <1>1 DEF Orderly
  <2> QED
    BY ONLY <1>2, <2>1
<1>5. Orderly(stage[c], header[c], in[c], FALSE, out[c], sent[c])
  BY ONLY <1>1, <1>4
<1>6. Orderly(stage[c], header[c], in[c] \o f, FALSE, out[c], Append(sent[c], f))
  BY ONLY <1>5, OrderlySent
<1>7. gone' = [gone EXCEPT ![c] = FALSE]
  BY ONLY <1>3, <1>4
<1>8. Moves(c, stage[c], header[c], in[c] \o f, FALSE, out[c], Append(sent[c], f))
  BY ONLY <1>2, <1>3, <1>7 DEF Moves
<1> QED
  BY ONLY AllOrderly, c \in Conn, <1>6, <1>8, OneMoves

\* A client that leaves takes no more than the end of what it sent.
LEMMA ClientClosesKeeps == ASSUME AllOrderly, NEW c \in Conn, ClientCloses(c) PROVE AllOrderly'
<1>1. /\ stage = [stage EXCEPT ![c] = stage[c]] /\ header = [header EXCEPT ![c] = header[c]]
      /\ in = [in EXCEPT ![c] = in[c]] /\ gone = [gone EXCEPT ![c] = gone[c]]
      /\ out = [out EXCEPT ![c] = out[c]] /\ sent = [sent EXCEPT ![c] = sent[c]]
      /\ Orderly(stage[c], header[c], in[c], gone[c], out[c], sent[c])
  BY Same
<1>2. PICK n \in {0, 1} :
        /\ n <= Len(in[c]) /\ in' = [in EXCEPT ![c] = Take(in[c], Len(in[c]) - n)]
        /\ gone' = [gone EXCEPT ![c] = TRUE] /\ main' = main /\ listening' = listening
        /\ stage' = stage /\ header' = header /\ out' = out /\ sent' = sent
  BY DEF ClientCloses, session
<1>3. /\ stage' = [stage EXCEPT ![c] = stage[c]] /\ header' = [header EXCEPT ![c] = header[c]]
      /\ out' = [out EXCEPT ![c] = out[c]] /\ sent' = [sent EXCEPT ![c] = sent[c]]
  BY ONLY <1>1, <1>2
<1>4. Orderly(stage[c], header[c], Take(in[c], Len(in[c]) - n), TRUE, out[c], sent[c])
  BY ONLY <1>1, <1>2, OrderlyLeft
<1>5. Moves(c, stage[c], header[c], Take(in[c], Len(in[c]) - n), TRUE, out[c], sent[c])
  BY ONLY <1>2, <1>3 DEF Moves
<1> QED
  BY ONLY AllOrderly, c \in Conn, <1>4, <1>5, OneMoves

\* Init: nobody has sent anything, and the sessions have not begun.
LEMMA InitOrderly == Init => AllOrderly
<1> SUFFICES ASSUME Init PROVE AllOrderly
  OBVIOUS
<1> DEFINE h == Header(<<0, 0, 0, 0, 0, 0, 0>>)
           e == <<>>
<1>1. h \in [transaction_id : U16, protocol : U16, length : U16, unit_id : Byte]
  <2>1. <<0, 0, 0, 0, 0, 0, 0>> \in Seq(Byte) /\ Len(<<0, 0, 0, 0, 0, 0, 0>>) >= header_size
    BY DEF Byte, header_size
  <2> QED
    BY ONLY <2>1, HeaderFields
<1>2. /\ main = "run" /\ listening = TRUE /\ stage = [c \in Conn |-> "new"] /\ header = [c \in Conn |-> h]
      /\ in = [c \in Conn |-> e] /\ gone = [c \in Conn |-> FALSE]
      /\ out = [c \in Conn |-> e] /\ sent = [c \in Conn |-> e]
  BY Zenon DEF Init
<1>3. /\ e \in Seq(Byte) /\ e \in Seq(Seq(Byte)) /\ e \in Seq(Frames) /\ Len(e) = 0
      /\ \A k \in 1 .. Len(e) : Meets(e[k], e[k])
  OBVIOUS
<1>4. Placed(e, FALSE, 0, 0, e)
  BY ONLY StreamEmpty, Zenon
<1> HIDE DEF e, h
<1>5. Orderly("new", h, e, FALSE, e, e)
  <2>1. Placed(e, FALSE, Len(e), 0, e)
    BY ONLY <1>3, <1>4, Zenon
  <2>2. "new" # "body" /\ "new" \in {"new", "header", "body", "closed"} /\ FALSE \in BOOLEAN
    OBVIOUS
  <2>3. Len(e) <= Len(e)
    BY ONLY <1>3
  <2>4. InStep("new", h, e, FALSE, Len(e), e)
    BY ONLY <2>1, <2>2, Zenon DEF InStep
  <2> QED
    BY ONLY <1>1, <1>3, <2>2, <2>3, <2>4, Zenon DEF Orderly
<1>6. ASSUME NEW c \in Conn PROVE Orderly(stage[c], header[c], in[c], gone[c], out[c], sent[c])
  BY ONLY <1>2, <1>5, c \in Conn
<1>7. /\ stage = [c \in Conn |-> stage[c]] /\ header = [c \in Conn |-> header[c]]
      /\ in = [c \in Conn |-> in[c]] /\ gone = [c \in Conn |-> gone[c]]
      /\ out = [c \in Conn |-> out[c]] /\ sent = [c \in Conn |-> sent[c]]
  BY ONLY <1>2
<1> QED
  BY ONLY <1>2, <1>6, <1>7 DEF AllOrderly

\* Every step of the program and of its clients keeps every connection in order.
LEMMA NextOrderly == Updates /\ AllOrderly /\ [Next]_vars => AllOrderly'
<1> SUFFICES ASSUME Updates, AllOrderly, [Next]_vars PROVE AllOrderly'
  OBVIOUS
<1>1. CASE AcceptFails
  BY <1>1 DEF AllOrderly, AcceptFails, session, client
<1>2. CASE Tick \/ RunPosted
  BY <1>2 DEF AllOrderly, Tick, RunPosted, session, client
<1>3. CASE Signal \/ Join
  BY <1>3 DEF AllOrderly, Signal, Join, session, client
<1>4. ASSUME NEW c \in Conn, Accept(c) PROVE AllOrderly'
  BY ONLY AllOrderly, <1>4, AcceptKeeps
<1>5. ASSUME NEW c \in Conn, ParseHeader(c) PROVE AllOrderly'
  BY ONLY AllOrderly, <1>5, ParseHeaderKeeps
<1>6. ASSUME NEW c \in Conn, ParseBody(c) PROVE AllOrderly'
  BY ONLY Updates, AllOrderly, <1>6, ParseBodyKeeps
<1>7. ASSUME NEW c \in Conn, ReadFails(c) PROVE AllOrderly'
  BY ONLY AllOrderly, <1>7, ReadFailsKeeps
<1>8. ASSUME NEW c \in Conn, ClientSends(c) PROVE AllOrderly'
  BY ONLY AllOrderly, <1>8, ClientSendsKeeps
<1>9. ASSUME NEW c \in Conn, ClientCloses(c) PROVE AllOrderly'
  BY ONLY AllOrderly, <1>9, ClientClosesKeeps
<1>10. CASE UNCHANGED vars
  BY <1>10 DEF AllOrderly, vars, session, client
<1> QED
  BY <1>1, <1>2, <1>3, <1>4, <1>5, <1>6, <1>7, <1>8, <1>9, <1>10 DEF Next

\* The sessions of the program stay in order.
LEMMA OrderlyHolds == Spec => [](Updates /\ AllOrderly)
<1>1. Inv => Updates
  BY DEF Inv
<1> QED
  BY <1>1, InitInv, NextInv, InitOrderly, NextOrderly, PTL DEF Spec

--------------------------------------------------------------------------------
\* Every variable keeps its type, at the widths of the code: the counter of the second thread,
\* the registers, the fields of the headers and the bytes of the responses.
THEOREM TypeOKTheorem == Spec => []TypeOK
<1>1. Updates /\ AllOrderly => TypeOK
  <2> SUFFICES ASSUME Updates, AllOrderly PROVE TypeOK
    OBVIOUS
  <2>1. /\ main \in {"run", "join", "ended"} /\ listening \in BOOLEAN
        /\ stage = [c \in Conn |-> stage[c]] /\ header = [c \in Conn |-> header[c]]
        /\ in = [c \in Conn |-> in[c]] /\ gone = [c \in Conn |-> gone[c]]
        /\ out = [c \in Conn |-> out[c]] /\ sent = [c \in Conn |-> sent[c]]
        /\ \A c \in Conn : Orderly(stage[c], header[c], in[c], gone[c], out[c], sent[c])
    BY DEF AllOrderly
  <2>2. ASSUME NEW c \in Conn
        PROVE  /\ stage[c] \in {"new", "header", "body", "closed"}
               /\ header[c] \in [transaction_id : U16, protocol : U16, length : U16, unit_id : Byte]
               /\ in[c] \in Seq(Byte) /\ gone[c] \in BOOLEAN /\ out[c] \in Seq(Seq(Byte))
               /\ sent[c] \in Seq(Frames)
    BY ONLY <2>1, c \in Conn, Zenon DEF Orderly
  <2>3. stage \in [Conn -> {"new", "header", "body", "closed"}]
    BY ONLY <2>1, <2>2
  <2>4. header \in [Conn -> [transaction_id : U16, protocol : U16, length : U16, unit_id : Byte]]
    BY ONLY <2>1, <2>2
  <2>5. in \in [Conn -> Seq(Byte)] /\ gone \in [Conn -> BOOLEAN]
    BY ONLY <2>1, <2>2
  <2>6. out \in [Conn -> Seq(Seq(Byte))] /\ sent \in [Conn -> Seq(Frames)]
    BY ONLY <2>1, <2>2
  <2>7. s_holding_registers \in [Addresses -> U16] /\ posted \in Seq(Nat) /\ i \in 0 .. MaxTicks
    BY DEF Updates, InTurn
  <2> QED
    BY ONLY <2>1, <2>3, <2>4, <2>5, <2>6, <2>7 DEF TypeOK
<1> QED
  BY <1>1, OrderlyHolds, PTL

\* The library's own client takes the k-th response on a connection for the answer to the k-th
\* frame it sent, whatever the frames, the registers, the updates and the interleaving, as long as
\* nobody asks for 124 or 125 registers (ShortReads), which read_response refuses.
THEOREM UnderstoodTheorem == ASSUME ShortReads PROVE Spec => []Understood
<1>1. AllOrderly => Understood
  <2> SUFFICES ASSUME AllOrderly, NEW c \in Conn, NEW k \in 1 .. Len(out[c])
               PROVE  Meets(sent[c][k], out[c][k])
    BY Zenon DEF Understood, Meets
  <2>1. Orderly(stage[c], header[c], in[c], gone[c], out[c], sent[c])
    BY DEF AllOrderly
  <2>2. \A j \in 1 .. Len(out[c]) : Meets(sent[c][j], out[c][j])
    BY ONLY ShortReads, <2>1, Zenon DEF Orderly
  <2> QED
    BY ONLY <2>2, k \in 1 .. Len(out[c])
<1> QED
  BY <1>1, OrderlyHolds, PTL
================================================================================
