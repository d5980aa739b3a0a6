---------------------------- MODULE TcpMasterProofs ----------------------------
(* TypeOK, InSync, NoFalseSuccess and Honest of TcpMaster, and that it          *)
(* implements ModbusMemory, for every device, every set of documented calls and *)
(* any number of them.  At the end, the master with the data server in the      *)
(* place of the device, TcpSystem: Honest and Fresh, without broadcasts, for    *)
(* any number of calls, of registers and of updates.                            *)
EXTENDS TcpSystem, WireLemmas

\* A frame on its way to the device is the frame of the call it is filed under.
Carries(e) == \E tid \in U16 : e.bytes = Frame(tid, e.call.slave, WriteReq(RequestOf(e.call)))

WireOK == \A j \in 1 .. Len(toSlave) : Carries(toSlave[j])

Entry == [n : Nat, call : Calls, bytes : Seq(Byte)]

--------------------------------------------------------------------------------
\* The parts of a documented call that the stream uses.
LEMMA SlaveOfCall ==
  ASSUME NEW c \in Calls
  PROVE  c \in Call /\ Documented(c) /\ c.slave \in Byte /\ c.size \in Nat
  BY CallsDocumented DEF Call

\* The request of a call as bytes, and what the device reads from its frame.
LEMMA RequestBytes ==
  ASSUME NEW c \in Calls
  PROVE  /\ WriteReq(RequestOf(c)) \in Seq(Byte) /\ Len(WriteReq(RequestOf(c))) < 65535
         /\ ReadReq(WriteReq(RequestOf(c))).req = RequestOf(c)
         /\ RequestOf(c).fc \in Byte
<1>1. c \in Call /\ Documented(c)
  BY SlaveOfCall
<1> QED
  BY ONLY <1>1, DocumentedBytes

\* The device reads back from a frame the request, the transaction id and the unit id of its call.
LEMMA ReceivedIs ==
  ASSUME NEW e \in Entry, Carries(e)
  PROVE  /\ Received(e) = RequestOf(e.call)
         /\ Header(e.bytes).transaction_id \in U16
         /\ Header(e.bytes).unit_id = e.call.slave
<1> DEFINE c == e.call
           p == WriteReq(RequestOf(c))
<1>1. c \in Calls
  BY DEF Entry
<1>2. PICK tid \in U16 : e.bytes = Frame(tid, c.slave, p)
  BY DEF Carries
<1> HIDE DEF c
<1>3. p \in Seq(Byte) /\ Len(p) < 65535 /\ ReadReq(p).req = RequestOf(c)
  BY ONLY <1>1, RequestBytes
<1>4. c.slave \in Byte
  BY ONLY <1>1, SlaveOfCall
<1> HIDE DEF p
<1>5. /\ Header(Frame(tid, c.slave, p)) = [transaction_id |-> tid, protocol |-> m_protocol,
                                           length |-> Len(p) + 1, unit_id |-> c.slave]
      /\ Drop(Frame(tid, c.slave, p), header_size) = p
  BY ONLY <1>3, <1>4, tid \in U16, FrameParts
<1>6. /\ Header(e.bytes).transaction_id = tid /\ Header(e.bytes).unit_id = c.slave
      /\ Drop(e.bytes, header_size) = p
  BY ONLY <1>2, <1>5
<1> QED
  BY ONLY <1>3, <1>6, tid \in U16 DEF Received, c

\* The frame with which the device answers.
LEMMA ReplyFrame ==
  ASSUME NEW e \in Entry, Carries(e), NEW p \in Seq(Byte), Len(p) < 65535
  PROVE  LET h == Header(e.bytes)
         IN  Frame(h.transaction_id, h.unit_id, p) \in Seq(Byte)
<1> DEFINE t == Header(e.bytes).transaction_id
           u == Header(e.bytes).unit_id
<1>1. t \in U16 /\ u = e.call.slave
  BY ONLY e \in Entry, Carries(e), ReceivedIs
<1>2. u \in Byte
  <2>1. e.call \in Calls
    BY DEF Entry
  <2> QED
    BY ONLY <1>1, <2>1, SlaveOfCall
<1> HIDE DEF t, u
<1>3. Frame(t, u, p) \in Seq(Byte)
  BY ONLY <1>1, <1>2, p \in Seq(Byte), Len(p) < 65535, FrameParts
<1> QED
  BY ONLY <1>3 DEF t, u

\* Every way in which the device may answer is a reply.
LEMMA ServedReply ==
  ASSUME NEW m \in Memory, NEW e \in Entry, Carries(e)
  PROVE  /\ IsReply(Serve(m, Received(e)), ReplySize(e.call))
         /\ ReplySize(e.call) \in Nat /\ 2 <= ReplySize(e.call) /\ ReplySize(e.call) < 65535
         /\ \A x \in Nat : IsReply(Refusal(m, Received(e), x), 2)
<1> DEFINE c == e.call
<1>1. c \in Calls
  BY DEF Entry
<1> HIDE DEF c
<1>2. c \in Call /\ Documented(c)
  BY ONLY <1>1, SlaveOfCall
<1>3. Received(e) = RequestOf(c)
  BY ONLY ReceivedIs, e \in Entry, Carries(e) DEF c
<1>4. RequestOf(c).fc \in Byte
  BY ONLY <1>1, RequestBytes
<1>5. IsReply(Serve(m, RequestOf(c)), ReplySize(c))
  BY ONLY <1>2, m \in Memory, ServeType
<1>6. ReplySize(c) \in Nat /\ 2 <= ReplySize(c) /\ ReplySize(c) < 65535
  <2>1. c.quantity \in U16 /\ c.size \in Nat
    BY ONLY <1>2 DEF Call
  <2>2. c.fc \in {3, 4, 23} => c.size \div 2 <= 125
    <3>1. c.fc = 3 => c.size \div 2 <= 125
      BY ONLY <1>2 DEF Documented, function_code
    <3>2. c.fc = 4 => c.size \div 2 <= 125
      BY ONLY <1>2 DEF Documented, function_code
    <3>3. c.fc = 23 => c.size \div 2 <= 125
      BY ONLY <1>2 DEF Documented, function_code
    <3> QED
      BY ONLY <3>1, <3>2, <3>3
  <2> QED
    BY ONLY <2>1, <2>2 DEF ReplySize, function_code, U16
<1>7. \A x \in Nat : IsReply(Refusal(m, RequestOf(c), x), 2)
  BY ONLY <1>4, m \in Memory, RefusalType
<1> QED
  BY ONLY <1>3, <1>5, <1>6, <1>7 DEF c

--------------------------------------------------------------------------------
(* Type correctness.  TypeOK is not inductive: what the device makes of a frame *)
(* is known only because the frame carries a call (WireOK), and the body to be  *)
(* read is a part of the stream only because the header was checked (BodyOK).   *)

BodyOK == pc = "body" => length >= 2

Inv == TypeOK /\ WireOK /\ BodyOK

\* What a call returns is an outcome.
LEMMA OutcomeType ==
  ASSUME NEW o, IsOutcome(o)
  PROVE  o \in [ec : ErrorCode, out : Seq(U16)]
<1>1. o.ec \in ErrorCode
  BY DEF IsOutcome, ErrorCode, Byte, no_answer
<1> QED
  BY <1>1 DEF IsOutcome

\* So are an exception out of asio and the lack of an answer.
LEMMA FixedOutcomes ==
  Unanswered \in [ec : ErrorCode, out : Seq(U16)] /\ Failed \in [ec : ErrorCode, out : Seq(U16)]
<1>1. <<>> \in Seq(U16)
  OBVIOUS
<1> QED
  BY <1>1 DEF Unanswered, Failed, ErrorCode, no_answer, asio_error

\* What a call returns when read_response ends before the body.
LEMMA UnreadType ==
  ASSUME NEW c \in Calls, NEW x \in Byte
  PROVE  /\ Return(c, Unread(c)) \in [ec : ErrorCode, out : Seq(U16)]
         /\ Return(c, [Unread(c) EXCEPT !.ec = x]) \in [ec : ErrorCode, out : Seq(U16)]
<1>1. c \in Call /\ c.size \in Nat
  BY SlaveOfCall
<1>2. u8(c.size) \in Nat /\ <<>> \in Seq(Byte)
  BY <1>1, Casts DEF Byte
<1>3. modbus_exception_code.success \in Byte
  BY DEF modbus_exception_code, Byte
<1>4. IsReading(Unread(c)) /\ IsReading([Unread(c) EXCEPT !.ec = x])
  BY ONLY <1>2, <1>3, x \in Byte DEF IsReading, Unread, Reading
<1>5. IsOutcome(Return(c, Unread(c))) /\ IsOutcome(Return(c, [Unread(c) EXCEPT !.ec = x]))
  BY ONLY <1>1, <1>4, ReturnType
<1> QED
  BY ONLY <1>5, OutcomeType

\* The invariant holds on a new connection.
LEMMA InitInv == Init => Inv
<1> SUFFICES ASSUME Init PROVE Inv
  OBVIOUS
<1>1. 0 \in U16 /\ <<>> \in Seq(Byte) /\ <<>> \in Seq(Entry)
  BY DEF U16
<1>2. made \in 0 .. MaxCalls
  BY MaxCallsTyped DEF Init
<1>3. TypeOK
  <2>1. open \in BOOLEAN
    BY Zenon DEF Init
  <2> QED
    BY <1>1, <1>2, <2>1, FixedOutcomes, StartTidTyped, InitMemTyped DEF Init, TypeOK, Entry
<1>4. WireOK
  BY DEF Init, WireOK
<1>5. BodyOK
  BY DEF Init, BodyOK
<1> QED
  BY <1>3, <1>4, <1>5 DEF Inv

\* A frame that carries its call, put behind others that do.
LEMMA AppendWire ==
  ASSUME NEW t \in Seq(Entry), \A j \in 1 .. Len(t) : Carries(t[j]), NEW e \in Entry, Carries(e)
  PROVE  Append(t, e) \in Seq(Entry) /\ \A j \in 1 .. Len(Append(t, e)) : Carries(Append(t, e)[j])
<1>1. Append(t, e) \in Seq(Entry) /\ Len(Append(t, e)) = Len(t) + 1
  OBVIOUS
<1>2. ASSUME NEW j \in 1 .. Len(t) + 1 PROVE Carries(Append(t, e)[j])
  <2>1. CASE j = Len(t) + 1
    <3>1. Append(t, e)[j] = e
      BY ONLY <2>1, t \in Seq(Entry)
    <3> QED
      BY ONLY <3>1, Carries(e)
  <2>2. CASE j # Len(t) + 1
    <3>1. j \in 1 .. Len(t) /\ Append(t, e)[j] = t[j]
      BY ONLY <1>2, <2>2, t \in Seq(Entry)
    <3> QED
      BY ONLY <3>1, \A k \in 1 .. Len(t) : Carries(t[k])
  <2> QED
    BY ONLY <2>1, <2>2
<1> QED
  BY ONLY <1>1, <1>2

\* The oldest frame carries its call, and so do the others.
LEMMA TailWire ==
  ASSUME NEW t \in Seq(Entry), \A j \in 1 .. Len(t) : Carries(t[j]), t # <<>>
  PROVE  /\ Head(t) \in Entry /\ Carries(Head(t))
         /\ Tail(t) \in Seq(Entry) /\ \A j \in 1 .. Len(Tail(t)) : Carries(Tail(t)[j])
<1>1. /\ Head(t) \in Entry /\ Tail(t) \in Seq(Entry) /\ Head(t) = t[1] /\ 1 \in 1 .. Len(t)
      /\ Len(Tail(t)) = Len(t) - 1
  OBVIOUS
<1>2. \A j \in 1 .. Len(Tail(t)) : Tail(t)[j] = t[j + 1] /\ j + 1 \in 1 .. Len(t)
  OBVIOUS
<1>3. Carries(Head(t))
  BY ONLY <1>1, \A j \in 1 .. Len(t) : Carries(t[j])
<1>4. \A j \in 1 .. Len(Tail(t)) : Carries(Tail(t)[j])
  BY ONLY <1>2, \A j \in 1 .. Len(t) : Carries(t[j])
<1> QED
  BY ONLY <1>1, <1>3, <1>4

\* The invariant, conjunct by conjunct.
LEMMA TypeOKParts ==
  ASSUME Inv
  PROVE  /\ pc \in {"idle", "header", "body"} /\ call \in Calls /\ expected \in U16
         /\ m_transaction_id \in U16 /\ length \in U16 /\ toSlave \in Seq(Entry)
         /\ fromSlave \in Seq(Byte) /\ open \in BOOLEAN /\ mem \in Memory
         /\ ret \in [ec : ErrorCode, out : Seq(U16)] /\ made \in 0 .. MaxCalls
         /\ answer \in [ec : ErrorCode, out : Seq(U16)]
         /\ \A j \in 1 .. Len(toSlave) : Carries(toSlave[j])
         /\ pc = "body" => length >= 2
  BY DEF Inv, TypeOK, WireOK, BodyOK, Entry

\* What the device's turn leaves behind, whichever reply it chose.
LEMMA AnswerType ==
  ASSUME Inv, toSlave # <<>>, NEW reply, NEW max \in Nat, max < 65535, IsReply(reply, max),
         Answer(reply), answer' \in [ec : ErrorCode, out : Seq(U16)]
  PROVE  Inv'
<1> DEFINE e == Head(toSlave)
           f == Frame(Header(e.bytes).transaction_id, Header(e.bytes).unit_id, reply.pdu)
<1>1. /\ e \in Entry /\ Carries(e)
      /\ Tail(toSlave) \in Seq(Entry) /\ \A j \in 1 .. Len(Tail(toSlave)) : Carries(Tail(toSlave)[j])
  BY TypeOKParts, TailWire
<1>2. /\ toSlave' = Tail(toSlave) /\ mem' = reply.mem
      /\ fromSlave' = fromSlave \/ fromSlave' = fromSlave \o f
      /\ UNCHANGED <<pc, call, expected, m_transaction_id, length, open, ret, made>>
  BY ONLY Answer(reply) DEF Answer, stream
<1>3. reply.mem \in Memory /\ reply.pdu \in Seq(Byte) /\ Len(reply.pdu) < 65535
  BY DEF IsReply
<1>4. f \in Seq(Byte)
  BY ONLY <1>1, <1>3, ReplyFrame
<1> HIDE DEF f, e
<1>5. fromSlave' \in Seq(Byte)
  <2>1. fromSlave \in Seq(Byte)
    BY TypeOKParts
  <2>2. fromSlave \o f \in Seq(Byte)
    BY ONLY <1>4, <2>1, ConcatAt, Zenon
  <2> QED
    BY ONLY <1>2, <2>1, <2>2
<1>6. toSlave' \in Seq(Entry) /\ mem' \in Memory
  BY ONLY <1>1, <1>2, <1>3
<1>7. TypeOK'
  BY <1>2, <1>5, <1>6, TypeOKParts DEF TypeOK, Entry
<1>8. WireOK'
  BY ONLY <1>1, <1>2 DEF WireOK
<1>9. BodyOK'
  BY <1>2 DEF Inv, BodyOK
<1> QED
  BY ONLY <1>7, <1>8, <1>9 DEF Inv

\* The frame a call puts on the wire.
LEMMA CallFrame ==
  ASSUME NEW c \in Calls, NEW tid \in U16
  PROVE  /\ Frame(tid, c.slave, WriteReq(RequestOf(c))) \in Seq(Byte)
         /\ \A n \in Nat : LET e == [n |-> n, call |-> c,
                                     bytes |-> Frame(tid, c.slave, WriteReq(RequestOf(c)))]
                           IN  e \in Entry /\ Carries(e)
<1> DEFINE p == WriteReq(RequestOf(c))
<1>1. p \in Seq(Byte) /\ Len(p) < 65535
  BY RequestBytes
<1>2. c.slave \in Byte
  BY SlaveOfCall
<1> HIDE DEF p
<1>3. Frame(tid, c.slave, p) \in Seq(Byte)
  BY ONLY <1>1, <1>2, tid \in U16, FrameParts
<1>4. ASSUME NEW n \in Nat
      PROVE  LET e == [n |-> n, call |-> c, bytes |-> Frame(tid, c.slave, p)]
             IN  e \in Entry /\ Carries(e)
  BY ONLY <1>3, <1>4, c \in Calls, tid \in U16 DEF Entry, Carries, p
<1> QED
  BY ONLY <1>3, <1>4 DEF p

\* A call leaves the types as they are, and files its frame under itself.
LEMMA CallInv ==
  ASSUME Inv, NEW c \in Calls, CallOf(c) \/ CallThrows(c)
  PROVE  Inv'
<1> DEFINE E == [n |-> made + 1, call |-> c,
                 bytes |-> Frame(m_transaction_id, c.slave, WriteReq(RequestOf(c)))]
<1>0. made \in Nat /\ MaxCalls \in Nat /\ m_transaction_id \in U16
  BY TypeOKParts, MaxCallsTyped
<1>1. CASE CallOf(c)
  <2>1. /\ call' = c /\ made' = made + 1 /\ made < MaxCalls /\ expected' = m_transaction_id
        /\ m_transaction_id' = NextTid(m_transaction_id)
        /\ toSlave' = toSlave \/ toSlave' = Append(toSlave, E)
        /\ answer' = Unanswered
        /\ ret' = ret \/ ret' = Return(c, Unread(c))
        /\ pc' \in {"idle", "header"}
        /\ UNCHANGED <<length, fromSlave, open, mem>>
    BY <1>1 DEF CallOf, Returns
  <2>2. E \in Entry /\ Carries(E)
    BY <1>0, CallFrame
  <2> HIDE DEF E
  <2>3. toSlave' \in Seq(Entry) /\ \A j \in 1 .. Len(toSlave') : Carries(toSlave'[j])
    <3>1. toSlave \in Seq(Entry) /\ \A j \in 1 .. Len(toSlave) : Carries(toSlave[j])
      BY TypeOKParts
    <3>2. /\ Append(toSlave, E) \in Seq(Entry)
          /\ \A j \in 1 .. Len(Append(toSlave, E)) : Carries(Append(toSlave, E)[j])
      BY ONLY <2>2, <3>1, AppendWire
    <3> QED
      BY ONLY <2>1, <3>1, <3>2
  <2>4. m_transaction_id' \in U16 /\ expected' \in U16
    BY <1>0, <2>1, Casts DEF NextTid, U16
  <2>5. ret' \in [ec : ErrorCode, out : Seq(U16)] /\ answer' \in [ec : ErrorCode, out : Seq(U16)]
    <3>1. 0 \in Byte
      BY DEF Byte
    <3> QED
      BY <2>1, <3>1, UnreadType, FixedOutcomes, TypeOKParts
  <2>6. made' \in 0 .. MaxCalls
    BY <1>0, <2>1
  <2>7. TypeOK'
    BY <2>1, <2>3, <2>4, <2>5, <2>6, TypeOKParts DEF TypeOK, Entry
  <2>8. BodyOK'
    BY ONLY <2>1 DEF BodyOK
  <2> QED
    BY ONLY <2>3, <2>7, <2>8 DEF Inv, WireOK
<1>2. CASE CallThrows(c)
  <2>1. /\ call' = c /\ pc' = "idle" /\ ret' = Failed /\ answer' = Unanswered
        /\ UNCHANGED <<expected, m_transaction_id, length, toSlave, fromSlave, open, mem, made>>
    BY <1>2 DEF CallThrows, Returns, stream
  <2>2. TypeOK'
    BY <2>1, FixedOutcomes, TypeOKParts DEF TypeOK, Entry
  <2>3. WireOK'
    BY <2>1 DEF Inv, WireOK
  <2>4. BodyOK'
    BY ONLY <2>1 DEF BodyOK
  <2> QED
    BY ONLY <2>2, <2>3, <2>4 DEF Inv
<1> QED
  BY <1>1, <1>2

\* Seven bytes make a header with fields of the right width.
LEMMA HeaderType ==
  ASSUME NEW s \in Seq(Byte), Len(s) >= header_size
  PROVE  Header(s).length \in U16
<1>1. s[5] \in Byte /\ s[6] \in Byte
  BY DEF header_size
<1>2. make_uint16(s[5], s[6]) \in U16
  BY ONLY <1>1, MakeWord
<1> QED
  BY ONLY <1>2 DEF Header

\* The checks on a header yield an error code.
LEMMA HeaderErrorType ==
  ASSUME NEW h, NEW tid, NEW slave
  PROVE  HeaderError(h, tid, slave) \in Byte
<1>1. /\ modbus_exception_code.transaction_id_invalid \in Byte
      /\ modbus_exception_code.illegal_protocol \in Byte
      /\ modbus_exception_code.slave_id_invalid \in Byte
      /\ modbus_exception_code.invalid_response \in Byte
      /\ modbus_exception_code.success \in Byte
  BY DEF modbus_exception_code, Byte
<1> QED
  BY ONLY <1>1, Zenon DEF HeaderError

\* A header that passes the checks has the expected fields, and a length in range.
LEMMA HeaderPassed ==
  ASSUME NEW h, NEW tid, NEW slave, h.length \in U16,
         HeaderError(h, tid, slave) = modbus_exception_code.success
  PROVE  h.length >= 2 /\ h.length <= 249
  BY DEF HeaderError, modbus_exception_code, U16

\* Reading takes bytes from the stream and hands back an outcome.
LEMMA ReadInv ==
  ASSUME Inv, ReadHeader \/ ReadBody \/ ReadThrows
  PROVE  Inv'
<1>0. /\ fromSlave \in Seq(Byte) /\ call \in Calls /\ length \in U16
  BY TypeOKParts
<1>1. CASE ReadHeader
  <2> DEFINE h == Header(fromSlave)
             x == HeaderError(h, expected, call.slave)
  <2>1. /\ Len(fromSlave) >= header_size
        /\ fromSlave' = Drop(fromSlave, header_size) /\ length' = h.length
        /\ pc' \in {"idle", "body"}
        /\ ret' = ret \/ ret' = Return(call, [Unread(call) EXCEPT !.ec = x])
        /\ UNCHANGED <<call, expected, m_transaction_id, toSlave, open, mem, made, answer>>
    BY <1>1 DEF ReadHeader, Returns
  <2>2. h.length \in U16
    BY ONLY <1>0, <2>1, HeaderType
  <2>3. x \in Byte
    BY ONLY HeaderErrorType
  <2> HIDE DEF h, x
  <2>4. Return(call, [Unread(call) EXCEPT !.ec = x]) \in [ec : ErrorCode, out : Seq(U16)]
    BY ONLY <1>0, <2>3, UnreadType
  <2>5. Drop(fromSlave, header_size) \in Seq(Byte)
    BY ONLY <1>0, <2>1, PartsOfBytes DEF header_size
  <2>6. TypeOK'
    BY <2>1, <2>2, <2>4, <2>5, TypeOKParts DEF TypeOK, Entry
  <2>7. WireOK'
    BY <2>1 DEF Inv, WireOK
  <2>8. BodyOK'
    <3>1. pc' = "body" => x = modbus_exception_code.success
      BY <1>1 DEF ReadHeader, Returns, h, x
    <3>2. x = modbus_exception_code.success => h.length >= 2
      BY ONLY <2>2, HeaderPassed DEF x
    <3> QED
      BY ONLY <2>1, <3>1, <3>2 DEF BodyOK
  <2> QED
    BY ONLY <2>6, <2>7, <2>8 DEF Inv
<1>2. CASE ReadBody
  <2> DEFINE b == Take(fromSlave, length - 1)
             r == ReadResp(call.fc, call.size, b)
  <2>1. /\ Len(fromSlave) >= length - 1
        /\ fromSlave' = Drop(fromSlave, length - 1)
        /\ pc' = "idle" /\ ret' = Return(call, r)
        /\ UNCHANGED <<call, expected, m_transaction_id, length, toSlave, open, mem, made, answer>>
    BY <1>2 DEF ReadBody, Returns, stream
  <2>2. Drop(fromSlave, length - 1) \in Seq(Byte) /\ b \in Seq(Byte)
    <3>1. length - 1 \in Nat
      BY <1>0, <1>2, TypeOKParts DEF U16, ReadBody
    <3> QED
      BY ONLY <1>0, <2>1, <3>1, PartsOfBytes
  <2> HIDE DEF b
  <2>3. call \in Call /\ call.size \in Nat
    BY ONLY <1>0, SlaveOfCall
  <2>4. IsReading(r)
    BY ONLY <2>2, <2>3, ReadRespType
  <2> HIDE DEF r
  <2>5. IsOutcome(Return(call, r))
    BY ONLY <2>3, <2>4, ReturnType
  <2>6. Return(call, r) \in [ec : ErrorCode, out : Seq(U16)]
    BY ONLY <2>5, OutcomeType
  <2>7. TypeOK'
    BY <2>1, <2>2, <2>6, TypeOKParts DEF TypeOK, Entry
  <2>8. WireOK'
    BY <2>1 DEF Inv, WireOK
  <2>9. BodyOK'
    BY ONLY <2>1 DEF BodyOK
  <2> QED
    BY ONLY <2>7, <2>8, <2>9 DEF Inv
<1>3. CASE ReadThrows
  <2>1. /\ fromSlave' = <<>> /\ pc' = "idle" /\ ret' = Failed
        /\ UNCHANGED <<call, expected, m_transaction_id, length, toSlave, open, mem, made, answer>>
    BY <1>3 DEF ReadThrows, Returns, stream
  <2>2. <<>> \in Seq(Byte)
    OBVIOUS
  <2>3. TypeOK'
    BY <2>1, <2>2, FixedOutcomes, TypeOKParts DEF TypeOK, Entry
  <2>4. WireOK'
    BY <2>1 DEF Inv, WireOK
  <2>5. BodyOK'
    BY ONLY <2>1 DEF BodyOK
  <2> QED
    BY ONLY <2>3, <2>4, <2>5 DEF Inv
<1> QED
  BY <1>1, <1>2, <1>3

\* A turn of the device, and the end of the connection.
LEMMA PeerInv ==
  ASSUME Inv, SlaveServes \/ SlaveRefuses \/ PeerCloses
  PROVE  Inv'
<1> DEFINE e == Head(toSlave)
<1>0. ASSUME toSlave # <<>>
      PROVE  e \in Entry /\ Carries(e)
  BY <1>0, TypeOKParts, TailWire
<1>1. CASE SlaveServes
  <2>1. toSlave # <<>> /\ Answer(Serve(mem, Received(e)))
    BY <1>1 DEF SlaveServes
  <2>2. e \in Entry /\ Carries(e) /\ mem \in Memory
    BY <1>0, <2>1, TypeOKParts
  <2> DEFINE c == e.call
             a == IF Valid(mem, c)
                  THEN [ec |-> modbus_exception_code.success, out |-> Content(Effect(mem, c), c)]
                  ELSE [ec |-> modbus_exception_code.illegal_data_address, out |-> <<>>]
  <2>3. answer' = a \/ answer' = answer
    BY <1>1 DEF SlaveServes, Note
  <2>4. c \in Call /\ Documented(c)
    <3>1. c \in Calls
      BY ONLY <2>2 DEF Entry
    <3> QED
      BY ONLY <3>1, SlaveOfCall
  <2> HIDE DEF e
  <2>5. a \in [ec : ErrorCode, out : Seq(U16)]
    <3>1. /\ modbus_exception_code.success \in ErrorCode
          /\ modbus_exception_code.illegal_data_address \in ErrorCode
          /\ <<>> \in Seq(U16)
      BY DEF modbus_exception_code, ErrorCode, no_answer
    <3>2. Valid(mem, c) => Content(Effect(mem, c), c) \in Seq(U16)
      BY ONLY <2>2, <2>4, ContentType
    <3> QED
      BY ONLY <3>1, <3>2
  <2> HIDE DEF a
  <2>6. answer' \in [ec : ErrorCode, out : Seq(U16)]
    BY <2>3, <2>5, TypeOKParts
  <2>7. /\ IsReply(Serve(mem, Received(e)), ReplySize(e.call))
        /\ ReplySize(e.call) \in Nat /\ ReplySize(e.call) < 65535
    BY ONLY <2>2, ServedReply
  <2> QED
    BY ONLY Inv, <2>1, <2>6, <2>7, AnswerType
<1>2. CASE SlaveRefuses
  <2>1. PICK x \in Refusals : /\ toSlave # <<>> /\ Answer(Refusal(mem, Received(e), x))
                              /\ answer' = [ec |-> x, out |-> <<>>] \/ answer' = answer
    BY <1>2 DEF SlaveRefuses, Note
  <2>2. e \in Entry /\ Carries(e) /\ mem \in Memory
    BY <1>0, <2>1, TypeOKParts
  <2> HIDE DEF e
  <2>3. x \in Nat /\ x \in ErrorCode /\ <<>> \in Seq(U16)
    BY RefusalsTyped DEF ErrorCode, no_answer
  <2>4. [ec |-> x, out |-> <<>>] \in [ec : ErrorCode, out : Seq(U16)]
    BY ONLY <2>3
  <2>5. answer' \in [ec : ErrorCode, out : Seq(U16)]
    BY <2>1, <2>4, TypeOKParts
  <2>6. IsReply(Refusal(mem, Received(e), x), 2)
    BY ONLY <2>2, <2>3, ServedReply
  <2> QED
    BY ONLY Inv, <2>1, <2>5, <2>6, AnswerType
<1>3. CASE PeerCloses
  <2>1. /\ open' = FALSE /\ toSlave' = <<>>
        /\ \E n \in 0 .. Len(fromSlave) : fromSlave' = Take(fromSlave, n)
        /\ UNCHANGED <<pc, call, expected, m_transaction_id, length, mem, ret, made, answer>>
    BY <1>3 DEF PeerCloses, stream
  <2>2. PICK n \in 0 .. Len(fromSlave) : fromSlave' = Take(fromSlave, n)
    BY ONLY <2>1
  <2>3. fromSlave \in Seq(Byte)
    BY TypeOKParts
  <2>4. n \in Nat /\ n <= Len(fromSlave)
    BY ONLY <2>2, <2>3
  <2>5. fromSlave' \in Seq(Byte)
    BY ONLY <2>2, <2>3, <2>4, PartsOfBytes
  <2>6. open' \in BOOLEAN
    BY ONLY <2>1, Zenon
  <2>7. TypeOK'
    BY <2>1, <2>5, <2>6, TypeOKParts DEF TypeOK, Entry
  <2>8. WireOK' /\ BodyOK'
    BY <2>1 DEF Inv, WireOK, BodyOK
  <2> QED
    BY ONLY <2>7, <2>8 DEF Inv
<1> QED
  BY <1>1, <1>2, <1>3

\* Every step keeps the invariant.
LEMMA NextInv == Inv /\ [Next]_vars => Inv'
<1> SUFFICES ASSUME Inv, [Next]_vars PROVE Inv'
  OBVIOUS
<1>1. CASE \E c \in Calls : CallOf(c) \/ CallThrows(c)
  BY <1>1, CallInv
<1>2. CASE ReadHeader \/ ReadBody \/ ReadThrows
  BY <1>2, ReadInv
<1>3. CASE SlaveServes \/ SlaveRefuses \/ PeerCloses
  BY <1>3, PeerInv
<1>4. CASE UNCHANGED vars
  BY <1>4 DEF Inv, TypeOK, WireOK, BodyOK, Carries, vars, stream
<1> QED
  BY <1>1, <1>2, <1>3, <1>4 DEF Next

\* Whatever the documented calls, the tables of the device, its refusals and the moment at which
\* the connection dies, the fields of a frame, the counter and the outcome of a call stay within
\* the widths that the code gives them.
THEOREM TypeOKTheorem == Spec => []TypeOK
<1>1. Inv => TypeOK
  BY DEF Inv
<1> QED
  BY <1>1, InitInv, NextInv, PTL DEF Spec

--------------------------------------------------------------------------------
(* Synchronisation.  InSync speaks of the moments between two calls; what makes *)
(* it inductive is where the one unanswered request and its reply can be while  *)
(* a call is in progress.                                                       *)

\* Every request on its way up to the k-th is a broadcast.
Broadcasts(t, k) == \A j \in 1 .. k : t[j].call.slave = 0

\* The request of the current call is the last one on its way, and nothing comes back yet.
Waiting ==
  /\ fromSlave = <<>>
  /\ toSlave # <<>> /\ Broadcasts(toSlave, Len(toSlave) - 1)
  /\ toSlave[Len(toSlave)].call = call
  /\ toSlave[Len(toSlave)].bytes = Frame(expected, call.slave, WriteReq(RequestOf(call)))

\* A PDU that fits read_response's check of the length field.
ShortPdu == {p \in Seq(Byte) : 2 <= Len(p) /\ Len(p) <= 248}

\* The reply to the current call is all that the stream holds.
Answered == toSlave = <<>> /\ \E p \in ShortPdu : fromSlave = Frame(expected, call.slave, p)

Sync ==
  open =>
    /\ pc = "idle" => fromSlave = <<>> /\ Broadcasts(toSlave, Len(toSlave))
    /\ pc = "header" => call.slave # 0 /\ (Waiting \/ Answered)
    /\ pc = "body" => toSlave = <<>> /\ Len(fromSlave) = length - 1

\* What the theorem asks of the device and of the calls.
Hypotheses == ~ AnswersBroadcast /\ \A c \in Calls : ReplySize(c) <= 248

\* A new connection is in step.
LEMMA InitSync == Init => Sync
  BY DEF Init, Sync, Broadcasts

\* A call made between two calls puts its request last, and a broadcast is not waited for.
LEMMA CallSync ==
  ASSUME Inv, Sync, NEW c \in Calls, CallOf(c) \/ CallThrows(c)
  PROVE  Sync'
<1> SUFFICES ASSUME open' PROVE Sync'
  BY Zenon DEF Sync
<1> DEFINE E == [n |-> made + 1, call |-> c,
                 bytes |-> Frame(m_transaction_id, c.slave, WriteReq(RequestOf(c)))]
<1>1. open /\ CallOf(c)
  BY DEF CallOf, CallThrows
<1>2. /\ pc = "idle" /\ call' = c /\ expected' = m_transaction_id
      /\ toSlave' = Append(toSlave, E) /\ fromSlave' = fromSlave
      /\ c.slave = 0 => pc' = "idle"
      /\ c.slave # 0 => pc' = "header"
  BY <1>1 DEF CallOf, Returns
<1>3. fromSlave = <<>> /\ \A j \in 1 .. Len(toSlave) : toSlave[j].call.slave = 0
  BY <1>1, <1>2 DEF Sync, Broadcasts
<1>4. /\ E.call = c
      /\ E.bytes = Frame(m_transaction_id, c.slave, WriteReq(RequestOf(c)))
  OBVIOUS
<1> HIDE DEF E
<1>5. toSlave \in Seq(Entry)
  BY TypeOKParts
<1>6. /\ Len(toSlave') = Len(toSlave) + 1 /\ toSlave' # <<>>
      /\ toSlave'[Len(toSlave) + 1] = E
      /\ \A j \in 1 .. Len(toSlave) : toSlave'[j] = toSlave[j]
      /\ Len(toSlave) \in Nat
  BY ONLY <1>2, <1>5
<1>7. Broadcasts(toSlave', Len(toSlave))
  BY ONLY <1>3, <1>6 DEF Broadcasts
<1>8. CASE c.slave = 0
  <2>1. \A j \in 1 .. Len(toSlave) + 1 : j \in 1 .. Len(toSlave) \/ j = Len(toSlave) + 1
    BY ONLY <1>6
  <2>2. Broadcasts(toSlave', Len(toSlave) + 1)
    BY ONLY <1>4, <1>6, <1>7, <1>8, <2>1 DEF Broadcasts
  <2> QED
    BY <1>2, <1>3, <1>6, <1>8, <2>2 DEF Sync, Broadcasts
<1>9. CASE c.slave # 0
  <2>1. /\ fromSlave' = <<>> /\ toSlave' # <<>> /\ Len(toSlave') - 1 = Len(toSlave)
        /\ toSlave'[Len(toSlave')].call = call'
        /\ toSlave'[Len(toSlave')].bytes = Frame(expected', call'.slave, WriteReq(RequestOf(call')))
    BY ONLY <1>2, <1>3, <1>4, <1>6
  <2>2. Waiting'
    BY ONLY <1>7, <2>1 DEF Waiting, Broadcasts
  <2> QED
    BY ONLY <1>2, <1>9, <2>2 DEF Sync
<1> QED
  BY ONLY <1>8, <1>9

\* The header read is that of the reply, so it passes the checks and the rest is the reply's PDU.
LEMMA ReadHeaderSync ==
  ASSUME Inv, Sync, ReadHeader
  PROVE  Sync'
<1> SUFFICES ASSUME open' PROVE Sync'
  BY Zenon DEF Sync
<1>1. open /\ pc = "header" /\ Len(fromSlave) >= 7
  BY DEF ReadHeader, header_size
<1>2. Answered
  BY <1>1 DEF Sync, Waiting
<1>3. PICK p \in ShortPdu : fromSlave = Frame(expected, call.slave, p)
  BY <1>2 DEF Answered
<1>4. /\ expected \in U16 /\ call \in Calls
  BY TypeOKParts
<1>5. p \in Seq(Byte) /\ 2 <= Len(p) /\ Len(p) <= 248 /\ Len(p) < 65535
  BY DEF ShortPdu
<1>6. call.slave \in Byte
  BY ONLY <1>4, SlaveOfCall
<1> DEFINE h == Header(fromSlave)
<1>7. /\ h = [transaction_id |-> expected, protocol |-> m_protocol,
              length |-> Len(p) + 1, unit_id |-> call.slave]
      /\ Drop(fromSlave, header_size) = p
  BY ONLY <1>3, <1>4, <1>5, <1>6, FrameParts
<1> HIDE DEF h
<1>8. HeaderError(h, expected, call.slave) = modbus_exception_code.success
  BY ONLY <1>5, <1>7 DEF HeaderError
<1>9. pc' = "body" /\ length' = h.length /\ fromSlave' = p /\ toSlave' = toSlave
  BY <1>7, <1>8 DEF ReadHeader, Returns, h
<1>10. h.length - 1 = Len(p)
  BY ONLY <1>5, <1>7
<1> QED
  BY ONLY <1>2, <1>9, <1>10 DEF Sync, Answered

\* Reading the body takes what is left of the reply.
LEMMA ReadBodySync ==
  ASSUME Inv, Sync, ReadBody
  PROVE  Sync'
<1> SUFFICES ASSUME open' PROVE Sync'
  BY Zenon DEF Sync
<1>1. open /\ pc = "body" /\ pc' = "idle" /\ toSlave' = toSlave
      /\ fromSlave' = Drop(fromSlave, length - 1)
  BY DEF ReadBody, Returns
<1>2. toSlave = <<>> /\ Len(fromSlave) = length - 1
  BY <1>1 DEF Sync
<1>3. fromSlave \in Seq(Byte)
  BY TypeOKParts
<1>4. Drop(fromSlave, Len(fromSlave)) = <<>>
  BY ONLY <1>3 DEF Drop
<1> QED
  BY <1>1, <1>2, <1>4 DEF Sync, Broadcasts

\* The device takes a broadcast silently, and answers the current call with one short frame.
LEMMA AnswerSync ==
  ASSUME Hypotheses, Inv, Sync, toSlave # <<>>, NEW reply, Answer(reply),
         NEW max \in Nat, IsReply(reply, max), max <= 248
  PROVE  Sync'
<1> SUFFICES ASSUME open' PROVE Sync'
  BY Zenon DEF Sync
<1> DEFINE e == Head(toSlave)
<1>1. /\ toSlave' = Tail(toSlave)
      /\ e.call.slave = 0 => fromSlave' = fromSlave
      /\ e.call.slave # 0 => fromSlave' = fromSlave \o Frame(Header(e.bytes).transaction_id,
                                                             Header(e.bytes).unit_id, reply.pdu)
      /\ pc' = pc /\ call' = call /\ expected' = expected /\ length' = length /\ open
  BY DEF Answer, Hypotheses, stream
<1>2. /\ toSlave \in Seq(Entry) /\ pc \in {"idle", "header", "body"}
      /\ expected \in U16 /\ call \in Calls
  BY TypeOKParts
<1>3. /\ e = toSlave[1] /\ Len(toSlave) \in Nat /\ Len(toSlave) >= 1
      /\ Len(Tail(toSlave)) = Len(toSlave) - 1
      /\ \A j \in 1 .. Len(toSlave) - 1 : Tail(toSlave)[j] = toSlave[j + 1] /\ j + 1 \in 1 .. Len(toSlave)
  BY <1>2
<1>4. pc # "body"
  BY <1>1 DEF Sync
<1> HIDE DEF e
<1>5. CASE pc = "idle"
  <2>1. fromSlave = <<>> /\ \A j \in 1 .. Len(toSlave) : toSlave[j].call.slave = 0
    BY <1>1, <1>5 DEF Sync, Broadcasts
  <2>2. e.call.slave = 0
    BY ONLY <1>3, <2>1
  <2>3. \A j \in 1 .. Len(Tail(toSlave)) : Tail(toSlave)[j].call.slave = 0
    BY ONLY <1>3, <2>1
  <2> QED
    BY ONLY <1>1, <1>5, <2>1, <2>2, <2>3 DEF Sync, Broadcasts
<1>6. CASE pc = "header"
  <2> DEFINE k == Len(toSlave)
  <2>1. call.slave # 0 /\ Waiting
    BY <1>1, <1>6 DEF Sync, Answered
  <2>2. /\ fromSlave = <<>> /\ \A j \in 1 .. k - 1 : toSlave[j].call.slave = 0
        /\ toSlave[k].call = call
        /\ toSlave[k].bytes = Frame(expected, call.slave, WriteReq(RequestOf(call)))
    BY ONLY <2>1 DEF Waiting, Broadcasts
  <2>3. CASE k = 1
    <3> DEFINE q == WriteReq(RequestOf(call))
               p == reply.pdu
    <3>1. e.call = call /\ e.bytes = Frame(expected, call.slave, q)
      BY ONLY <1>3, <2>2, <2>3
    <3>2. q \in Seq(Byte) /\ Len(q) < 65535
      BY ONLY <1>2, RequestBytes
    <3>3. call.slave \in Byte
      BY ONLY <1>2, SlaveOfCall
    <3> HIDE DEF q
    <3>4. Header(Frame(expected, call.slave, q)) =
            [transaction_id |-> expected, protocol |-> m_protocol,
             length |-> Len(q) + 1, unit_id |-> call.slave]
      BY ONLY <1>2, <3>2, <3>3, FrameParts
    <3>5. Header(e.bytes).transaction_id = expected /\ Header(e.bytes).unit_id = call.slave
      BY ONLY <3>1, <3>4
    <3>6. p \in Seq(Byte) /\ 2 <= Len(p) /\ Len(p) <= 248
      BY DEF IsReply
    <3> HIDE DEF p
    <3>7. Frame(expected, call.slave, p) \in Seq(Byte)
      <4>1. Len(p) < 65535
        BY ONLY <3>6
      <4> QED
        BY ONLY <1>2, <3>3, <3>6, <4>1, FrameParts
    <3>8. fromSlave' = Frame(expected, call.slave, p)
      <4>1. fromSlave' = <<>> \o Frame(expected, call.slave, p)
        BY ONLY <1>1, <2>1, <2>2, <3>1, <3>5 DEF p
      <4> QED
        BY ONLY <3>7, <4>1
    <3>9. toSlave' = <<>>
      BY ONLY <1>1, <1>2, <1>3, <2>3
    <3>10. Answered'
      BY ONLY <1>1, <3>6, <3>8, <3>9 DEF Answered, ShortPdu
    <3> QED
      BY ONLY <1>1, <1>6, <2>1, <3>10 DEF Sync
  <2>4. CASE k # 1
    <3>1. k \in Nat /\ k >= 1
      BY ONLY <1>3
    <3>2. k \in Nat /\ 2 <= k /\ 1 \in 1 .. k - 1
      <4> HIDE DEF k
      <4> QED
        BY ONLY <2>4, <3>1
    <3>3. e.call.slave = 0
      BY ONLY <1>3, <2>2, <3>2
    <3>4. Tail(toSlave)[k - 1] = toSlave[k] /\ Tail(toSlave) # <<>>
      <4>1. k - 1 \in 1 .. k - 1 /\ (k - 1) + 1 = k
        BY ONLY <3>2
      <4>2. Tail(toSlave)[k - 1] = toSlave[k]
        BY ONLY <1>3, <4>1
      <4>3. Tail(toSlave) # <<>>
        <5>1. Len(Tail(toSlave)) # 0
          <6> DEFINE t == Len(Tail(toSlave))
          <6>1. t = k - 1
            BY ONLY <1>3
          <6> HIDE DEF t, k
          <6>2. t # 0
            BY ONLY <3>2, <6>1
          <6> QED
            BY ONLY <6>2 DEF t
        <5>2. Len(<<>>) = 0
          OBVIOUS
        <5> QED
          BY ONLY <5>1, <5>2
      <4> QED
        BY ONLY <4>2, <4>3
    <3>5. \A j \in 1 .. (k - 1) - 1 : Tail(toSlave)[j].call.slave = 0
      BY ONLY <1>3, <2>2
    <3>6. Waiting'
      BY ONLY <1>1, <1>3, <2>2, <3>3, <3>4, <3>5 DEF Waiting, Broadcasts
    <3> QED
      BY ONLY <1>1, <1>6, <2>1, <3>6 DEF Sync
  <2> QED
    BY ONLY <2>3, <2>4
<1> QED
  BY ONLY <1>2, <1>4, <1>5, <1>6

\* Every step keeps the stream in step.
LEMMA NextSync ==
  ASSUME Hypotheses
  PROVE  Inv /\ Sync /\ [Next]_vars => Sync'
<1> SUFFICES ASSUME Inv, Sync, [Next]_vars PROVE Sync'
  OBVIOUS
<1>1. CASE \E c \in Calls : CallOf(c) \/ CallThrows(c)
  BY <1>1, CallSync
<1>2. CASE ReadHeader \/ ReadBody
  BY <1>2, ReadHeaderSync, ReadBodySync
<1>3. CASE ReadThrows \/ PeerCloses
  BY <1>3, Zenon DEF ReadThrows, PeerCloses, Sync
<1>4. CASE SlaveServes \/ SlaveRefuses
  <2> DEFINE e == Head(toSlave)
  <2>1. toSlave # <<>>
    BY <1>4 DEF SlaveServes, SlaveRefuses
  <2>2. e \in Entry /\ Carries(e) /\ mem \in Memory
    BY <2>1, TypeOKParts, TailWire
  <2>3. e.call \in Calls
    BY ONLY <2>2 DEF Entry
  <2>4. ReplySize(e.call) <= 248
    BY ONLY <2>3, Hypotheses DEF Hypotheses
  <2>5. /\ IsReply(Serve(mem, Received(e)), ReplySize(e.call)) /\ ReplySize(e.call) \in Nat
        /\ \A x \in Nat : IsReply(Refusal(mem, Received(e), x), 2)
    BY ONLY <2>2, ServedReply
  <2>6. CASE SlaveServes
    <3>1. Answer(Serve(mem, Received(e)))
      BY <2>6 DEF SlaveServes
    <3> HIDE DEF e
    <3> QED
      BY ONLY Hypotheses, Inv, Sync, <2>1, <2>4, <2>5, <3>1, AnswerSync
  <2>7. CASE SlaveRefuses
    <3>1. PICK x \in Refusals : Answer(Refusal(mem, Received(e), x))
      BY <2>7 DEF SlaveRefuses
    <3>2. x \in Nat
      BY RefusalsTyped
    <3> HIDE DEF e
    <3>3. IsReply(Refusal(mem, Received(e), x), 2)
      BY ONLY <2>5, <3>2
    <3> QED
      BY ONLY Hypotheses, Inv, Sync, <2>1, <3>1, <3>3, AnswerSync
  <2> QED
    BY ONLY <1>4, <2>6, <2>7
<1>5. CASE UNCHANGED vars
  BY <1>5 DEF Sync, Waiting, Answered, vars, stream
<1> QED
  BY <1>1, <1>2, <1>3, <1>4, <1>5 DEF Next

\* With a device that does not answer broadcasts, and calls whose replies pass read_response's
\* check of the length field, no call of any sequence leaves a byte behind in the stream.
THEOREM InSyncTheorem ==
  ASSUME Hypotheses
  PROVE  Spec => []InSync
<1>1. Inv /\ Sync => InSync
  BY Zenon DEF Sync, InSync
<1>2. Inv /\ Sync /\ [Next]_vars => Sync'
  BY NextSync
<1> QED
  BY <1>1, <1>2, InitInv, NextInv, InitSync, PTL DEF Spec

--------------------------------------------------------------------------------
(* Honesty.  That ret is what the device did rests on where the reply is until  *)
(* then: all that is left of it once the connection has died (Part), and what   *)
(* the call will make of it (Meant), from the device's turn to the last read.   *)

\* The bytes s are p, or are what is left of p after its end was lost.
Part(s, p) == s \in Seq(Byte) /\ Arrived(s, p) /\ Len(s) <= Len(p)

\* The code has no error of its own for the reply to this call: the span is as long as the bits
\* that are read into it, and the value of a register one that the reader of its response accepts.
Accepted(c) == SpanIsSnug(c) /\ EchoIsAccepted(c)

\* What the call c returns, where the device did a.
Right(c, r, a) == (Accepted(c) \/ r.ec = modbus_exception_code.success) => r = a

\* The PDU p is read as what the device did for the current call.
Meant(p) ==
  /\ p \in ShortPdu
  /\ answer # Unanswered
  /\ Right(call, Return(call, ReadResp(call.fc, call.size, p)), answer)

Truthful == (pc = "idle" /\ call.slave # 0 /\ ret.ec # asio_error) => Right(call, ret, answer)

Told ==
  /\ ~ open => toSlave = <<>>
  /\ pc = "idle" => fromSlave = <<>>
  /\ pc # "idle" => call.slave # 0
  /\ pc = "header" /\ toSlave # <<>> => fromSlave = <<>> /\ toSlave[Len(toSlave)].n = made
  /\ pc = "header" /\ fromSlave # <<>> =>
       \E p : Meant(p) /\ Part(fromSlave, Frame(expected, call.slave, p))
  /\ pc = "body" => \E p : Meant(p) /\ length = Len(p) + 1 /\ Part(fromSlave, p)
  /\ Truthful

\* What it takes for a call to report all that the device did, and not only its successes.
HonestHypotheses == Hypotheses /\ \A c \in Calls : Accepted(c)

\* A header that arrived is the header that was sent, and what follows it is of the PDU.
LEMMA PartOfFrame ==
  ASSUME NEW tid \in U16, NEW unit \in Byte, NEW p \in Seq(Byte), Len(p) < 65535,
         NEW s, Part(s, Frame(tid, unit, p)), Len(s) >= header_size
  PROVE  /\ Header(s) = [transaction_id |-> tid, protocol |-> m_protocol,
                         length |-> Len(p) + 1, unit_id |-> unit]
         /\ Part(Drop(s, header_size), p)
<1> DEFINE f == Frame(tid, unit, p)
<1>1. /\ f \in Seq(Byte) /\ Len(f) = 7 + Len(p)
      /\ Header(f) = [transaction_id |-> tid, protocol |-> m_protocol,
                      length |-> Len(p) + 1, unit_id |-> unit]
      /\ SubSeq(f, 8, Len(f)) = p
  BY FrameParts DEF header_size, Drop
<1>2. /\ s \in Seq(Byte) /\ Len(s) <= Len(f) /\ Len(s) >= 7 /\ Len(s) \in Nat /\ Len(p) \in Nat
      /\ \A k \in 1 .. Len(f) : k <= Len(s) => s[k] = f[k]
  BY DEF Part, Arrived, header_size
<1> HIDE DEF f
<1>3. /\ s[1] = f[1] /\ s[2] = f[2] /\ s[3] = f[3] /\ s[4] = f[4]
      /\ s[5] = f[5] /\ s[6] = f[6] /\ s[7] = f[7]
  BY ONLY <1>1, <1>2
<1>4. Header(s) = Header(f)
  BY ONLY <1>3, Zenon DEF Header
<1> DEFINE d == SubSeq(s, 8, Len(s))
<1>5. d \in Seq(Byte) /\ Len(d) = Len(s) - 7 /\ \A k \in 1 .. Len(s) - 7 : d[k] = s[k + 7]
  <2>1. d \in Seq(Byte) /\ Len(d) = Len(s) - 7
    <3>1. s \in Seq(Byte) /\ 7 \in Nat /\ 7 <= Len(s)
      BY ONLY <1>2
    <3>2. Drop(s, 7) \in Seq(Byte) /\ Len(Drop(s, 7)) = Len(s) - 7
      BY ONLY <3>1, PartsOfBytes
    <3> QED
      BY ONLY <3>2 DEF Drop
  <2>2. ASSUME NEW k \in 1 .. Len(s) - 7 PROVE d[k] = s[k + 7]
    <3>1. d[k] = s[8 + k - 1] /\ 8 + k - 1 = k + 7
      BY ONLY <1>2, k \in 1 .. Len(s) - 7
    <3> HIDE DEF d
    <3> QED
      BY ONLY <3>1
  <2> QED
    BY ONLY <2>1, <2>2
<1>6. \A k \in 1 .. Len(p) : p[k] = f[k + 7]
  BY ONLY <1>1
<1> HIDE DEF d
<1>7. Len(d) <= Len(p)
  BY ONLY <1>1, <1>2, <1>5
<1>8. ASSUME NEW k \in 1 .. Len(p), k <= Len(d) PROVE d[k] = p[k]
  <2>1. k \in 1 .. Len(s) - 7 /\ k + 7 \in 1 .. Len(f) /\ k + 7 <= Len(s)
    BY ONLY <1>1, <1>2, <1>5, <1>8
  <2> QED
    BY ONLY <1>2, <1>5, <1>6, <2>1, k \in 1 .. Len(p)
<1>9. Part(d, p)
  BY ONLY <1>5, <1>7, <1>8 DEF Part, Arrived
<1>10. Drop(s, header_size) = d
  BY ONLY DEF Drop, header_size, d
<1> QED
  BY ONLY <1>1, <1>4, <1>9, <1>10 DEF f

\* If as many bytes arrived as were sent, they are the bytes sent.
LEMMA PartIsWhole ==
  ASSUME NEW p \in Seq(Byte), NEW s, Part(s, p), Len(s) >= Len(p)
  PROVE  Take(s, Len(p)) = p /\ Drop(s, Len(p)) = <<>>
<1>1. /\ s \in Seq(Byte) /\ Len(s) = Len(p) /\ Len(p) \in Nat
      /\ \A k \in 1 .. Len(p) : s[k] = p[k]
  BY DEF Part, Arrived
<1> QED
  BY ONLY <1>1, p \in Seq(Byte) DEF Take, Drop

\* Losing the end of a part leaves a part.
LEMMA PartOfPart ==
  ASSUME NEW p \in Seq(Byte), NEW s, Part(s, p), NEW n \in 0 .. Len(s)
  PROVE  Part(Take(s, n), p) /\ (s = <<>> => Take(s, n) = <<>>)
<1>1. /\ s \in Seq(Byte) /\ Len(s) <= Len(p) /\ Len(p) \in Nat /\ Len(s) \in Nat
      /\ \A k \in 1 .. Len(p) : k <= Len(s) => s[k] = p[k]
  BY DEF Part, Arrived
<1> DEFINE d == SubSeq(s, 1, n)
<1>2. d \in Seq(Byte) /\ Len(d) = n /\ \A k \in 1 .. n : d[k] = s[k]
  BY ONLY <1>1, n \in 0 .. Len(s)
<1> HIDE DEF d
<1>3. ASSUME NEW k \in 1 .. Len(p), k <= Len(d) PROVE d[k] = p[k]
  BY ONLY <1>1, <1>2, <1>3, n \in 0 .. Len(s)
<1>4. Part(d, p)
  BY ONLY <1>1, <1>2, <1>3, n \in 0 .. Len(s) DEF Part, Arrived
<1>5. s = <<>> => d = <<>>
  BY ONLY <1>2, n \in 0 .. Len(s)
<1> QED
  BY ONLY <1>4, <1>5 DEF Take, d

\* Bytes are a part of themselves.
LEMMA WholeIsPart ==
  ASSUME NEW p \in Seq(Byte)
  PROVE  Part(p, p) /\ Arrived(p, p) /\ Len(p) >= Len(p)
  BY DEF Part, Arrived

\* Nothing has been told on a new connection.
LEMMA InitTold == Init => Told
  BY DEF Init, Told, Truthful, Right

\* A call starts with nothing to be read, and its request is the last one.
LEMMA CallTold ==
  ASSUME Inv, Told, NEW c \in Calls, CallOf(c) \/ CallThrows(c)
  PROVE  Told'
<1> DEFINE E == [n |-> made + 1, call |-> c,
                 bytes |-> Frame(m_transaction_id, c.slave, WriteReq(RequestOf(c)))]
<1>0. fromSlave = <<>> /\ (~ open => toSlave = <<>>)
  BY DEF Told, CallOf, CallThrows
<1>1. CASE CallOf(c)
  <2>1. /\ call' = c /\ made' = made + 1
        /\ open => toSlave' = Append(toSlave, E)
        /\ ~ open => toSlave' = toSlave
        /\ c.slave = 0 => pc' = "idle"
        /\ c.slave # 0 => pc' = "header"
        /\ UNCHANGED <<fromSlave, open>>
    BY <1>1 DEF CallOf, Returns
  <2>2. E.n = made + 1
    OBVIOUS
  <2> HIDE DEF E
  <2>3. toSlave \in Seq(Entry)
    BY TypeOKParts
  <2>4. open => toSlave'[Len(toSlave')].n = made'
    BY ONLY <2>1, <2>2, <2>3
  <2> QED
    BY ONLY <1>0, <2>1, <2>4 DEF Told, Truthful
<1>2. CASE CallThrows(c)
  <2>1. pc' = "idle" /\ ret' = Failed /\ UNCHANGED <<toSlave, fromSlave, open>>
    BY <1>2 DEF CallThrows, Returns
  <2> QED
    BY ONLY <1>0, <2>1 DEF Told, Truthful, Failed
<1> QED
  BY <1>1, <1>2

\* The header read is that of the reply.
LEMMA ReadHeaderTold ==
  ASSUME Inv, Told, ReadHeader
  PROVE  Told' /\ pc' = "body" /\ ret' = ret
<1>1. pc = "header" /\ Len(fromSlave) >= header_size /\ fromSlave # <<>>
  BY DEF ReadHeader, header_size
<1>2. PICK p : Meant(p) /\ Part(fromSlave, Frame(expected, call.slave, p))
  BY <1>1 DEF Told
<1>3. expected \in U16 /\ call \in Calls
  BY TypeOKParts
<1>4. p \in Seq(Byte) /\ 2 <= Len(p) /\ Len(p) <= 248 /\ Len(p) < 65535
  BY <1>2 DEF Meant, ShortPdu
<1>5. call.slave \in Byte
  BY ONLY <1>3, SlaveOfCall
<1> DEFINE h == Header(fromSlave)
<1>6. /\ h = [transaction_id |-> expected, protocol |-> m_protocol,
              length |-> Len(p) + 1, unit_id |-> call.slave]
      /\ Part(Drop(fromSlave, header_size), p)
  BY ONLY <1>1, <1>2, <1>3, <1>4, <1>5, PartOfFrame
<1> HIDE DEF h
<1>7. HeaderError(h, expected, call.slave) = modbus_exception_code.success
  BY ONLY <1>4, <1>6 DEF HeaderError
<1>8. /\ pc' = "body" /\ ret' = ret /\ length' = Len(p) + 1
      /\ fromSlave' = Drop(fromSlave, header_size)
      /\ UNCHANGED <<call, toSlave, open, answer>>
  BY <1>6, <1>7 DEF ReadHeader, Returns, h
<1>9. (~ open => toSlave = <<>>) /\ call.slave # 0
  BY <1>1 DEF Told
<1>10. Meant(p)'
  BY ONLY <1>2, <1>8 DEF Meant
<1>11. \E q : Meant(q)' /\ length' = Len(q) + 1 /\ Part(fromSlave', q)
  BY ONLY <1>6, <1>8, <1>10
<1>12. Told'
  BY ONLY <1>8, <1>9, <1>11 DEF Told, Truthful
<1> QED
  BY ONLY <1>8, <1>12

\* The body read is the PDU of the reply, all of it.
LEMMA ReadBodyTold ==
  ASSUME Inv, Told, ReadBody
  PROVE  Told' /\ Right(call, ret', answer) /\ answer # Unanswered /\ pc' = "idle"
<1>1. pc = "body" /\ Len(fromSlave) >= length - 1
  BY DEF ReadBody
<1>2. PICK p : Meant(p) /\ length = Len(p) + 1 /\ Part(fromSlave, p)
  BY <1>1 DEF Told
<1>3. p \in Seq(Byte) /\ Len(p) \in Nat
  BY <1>2 DEF Meant, ShortPdu
<1>4. length - 1 = Len(p)
  BY ONLY <1>2, <1>3
<1>5. Take(fromSlave, length - 1) = p /\ Drop(fromSlave, length - 1) = <<>>
  BY ONLY <1>1, <1>2, <1>3, <1>4, PartIsWhole
<1>6. /\ pc' = "idle" /\ fromSlave' = <<>>
      /\ ret' = Return(call, ReadResp(call.fc, call.size, p))
      /\ UNCHANGED <<call, toSlave, open, made, answer>>
  BY <1>5 DEF ReadBody, Returns
<1>7. Right(call, ret', answer) /\ answer # Unanswered
  BY ONLY <1>2, <1>6 DEF Meant
<1>8. ~ open => toSlave = <<>>
  BY DEF Told
<1>9. Told'
  BY ONLY <1>6, <1>7, <1>8 DEF Told, Truthful
<1> QED
  BY ONLY <1>6, <1>7, <1>9
\* The device takes a broadcast silently, and what it sends for the current call is read as
\* what it did.
LEMMA AnswerTold ==
  ASSUME Hypotheses, Inv, Sync, Told, toSlave # <<>>, NEW reply, Answer(reply),
         NEW a, Note(Head(toSlave), a), a # Unanswered, reply.pdu \in ShortPdu,
         LET c == Head(toSlave).call IN Right(c, Return(c, ReadResp(c.fc, c.size, reply.pdu)), a)
  PROVE  Told'
<1> DEFINE e == Head(toSlave)
           k == Len(toSlave)
<1>1. /\ toSlave' = Tail(toSlave)
      /\ e.call.slave = 0 => fromSlave' = fromSlave
      /\ e.call.slave # 0 => fromSlave' = fromSlave \o Frame(Header(e.bytes).transaction_id,
                                                             Header(e.bytes).unit_id, reply.pdu)
      /\ UNCHANGED <<pc, call, expected, length, open, ret, made>>
  BY DEF Answer, Hypotheses, stream
<1>2. answer' = IF e.n = made /\ e.call.slave # 0 THEN a ELSE answer
  BY DEF Note
<1>3. /\ toSlave \in Seq(Entry) /\ pc \in {"idle", "header", "body"}
      /\ expected \in U16 /\ call \in Calls
  BY TypeOKParts
<1>4. /\ e = toSlave[1] /\ k \in Nat /\ k >= 1 /\ Len(Tail(toSlave)) = k - 1
      /\ \A j \in 1 .. k - 1 : Tail(toSlave)[j] = toSlave[j + 1]
      /\ k = 1 => Tail(toSlave) = <<>>
  <2>1. /\ e = toSlave[1] /\ k \in Nat /\ k >= 1 /\ Len(Tail(toSlave)) = k - 1
        /\ \A j \in 1 .. k - 1 : Tail(toSlave)[j] = toSlave[j + 1]
    BY <1>3
  <2>2. k = 1 => Tail(toSlave) = <<>>
    <3>1. Tail(toSlave) \in Seq(Entry)
      BY <1>3
    <3> DEFINE u == Tail(toSlave)
    <3>2. u \in Seq(Entry) /\ (k = 1 => Len(u) = 0)
      BY ONLY <2>1, <3>1
    <3> HIDE DEF u, k
    <3>3. k = 1 => u = <<>>
      BY ONLY <3>2
    <3> QED
      BY ONLY <3>3 DEF u
  <2> QED
    BY ONLY <2>1, <2>2
<1>5. open /\ pc # "body"
  BY DEF Told, Sync
<1>6. Right(e.call, Return(e.call, ReadResp(e.call.fc, e.call.size, reply.pdu)), a)
  OBVIOUS
<1> HIDE DEF e
<1>7. CASE pc = "idle"
  <2>1. fromSlave = <<>> /\ \A j \in 1 .. k : toSlave[j].call.slave = 0
    BY <1>5, <1>7 DEF Sync, Broadcasts
  <2>2. e.call.slave = 0
    BY ONLY <1>4, <2>1
  <2>3. fromSlave' = <<>> /\ answer' = answer
    BY ONLY <1>1, <1>2, <2>1, <2>2
  <2>4. Truthful'
    BY <1>1, <2>3 DEF Told, Truthful
  <2> QED
    BY ONLY <1>1, <1>5, <1>7, <2>3, <2>4 DEF Told
<1>8. CASE pc = "header"
  <2>1. call.slave # 0 /\ Waiting /\ toSlave[k].n = made
    BY <1>5, <1>8 DEF Sync, Answered, Told
  <2>2. /\ fromSlave = <<>> /\ \A j \in 1 .. k - 1 : toSlave[j].call.slave = 0
        /\ toSlave[k].call = call
        /\ toSlave[k].bytes = Frame(expected, call.slave, WriteReq(RequestOf(call)))
    BY ONLY <2>1 DEF Waiting, Broadcasts
  <2>3. CASE k = 1
    <3> DEFINE q == WriteReq(RequestOf(call))
               p == reply.pdu
    <3>1. e.call = call /\ e.n = made /\ e.bytes = Frame(expected, call.slave, q)
      BY ONLY <1>4, <2>1, <2>2, <2>3
    <3>2. q \in Seq(Byte) /\ Len(q) < 65535
      BY ONLY <1>3, RequestBytes
    <3>3. call.slave \in Byte
      BY ONLY <1>3, SlaveOfCall
    <3> HIDE DEF q
    <3>4. Header(Frame(expected, call.slave, q)) =
            [transaction_id |-> expected, protocol |-> m_protocol,
             length |-> Len(q) + 1, unit_id |-> call.slave]
      BY ONLY <1>3, <3>2, <3>3, FrameParts
    <3>5. Header(e.bytes).transaction_id = expected /\ Header(e.bytes).unit_id = call.slave
      BY ONLY <3>1, <3>4
    <3>6. p \in Seq(Byte) /\ 2 <= Len(p) /\ Len(p) < 65535 /\ p \in ShortPdu
      BY DEF ShortPdu
    <3> DEFINE f == Frame(expected, call.slave, p)
    <3>7. f \in Seq(Byte)
      <4> HIDE DEF p
      <4> QED
        BY ONLY <1>3, <3>3, <3>6, FrameParts
    <3>8. fromSlave' = f
      <4>1. fromSlave' = <<>> \o f
        BY ONLY <1>1, <2>1, <2>2, <3>1, <3>5
      <4> HIDE DEF f
      <4> QED
        BY ONLY <3>7, <4>1
    <3>9. toSlave' = <<>>
      BY ONLY <1>1, <1>4, <2>3
    <3>10. answer' = a
      BY ONLY <1>2, <2>1, <3>1
    <3> HIDE DEF p
    <3>11. Meant(p)'
      BY ONLY <1>1, <1>6, <3>1, <3>6, <3>10, a # Unanswered DEF Meant, p
    <3> HIDE DEF f
    <3>12. Part(fromSlave', f)
      BY ONLY <3>7, <3>8, WholeIsPart
    <3>13. \E x : Meant(x)' /\ Part(fromSlave', Frame(expected', call'.slave, x))
      BY ONLY <1>1, <3>11, <3>12 DEF f
    <3> QED
      BY ONLY <1>1, <1>8, <2>1, <3>9, <3>13 DEF Told, Truthful
  <2>4. CASE k # 1
    <3>1. k - 1 \in 1 .. k - 1 /\ (k - 1) + 1 = k /\ 1 \in 1 .. k - 1
      <4> HIDE DEF k
      <4> QED
        BY ONLY <1>4, <2>4
    <3>2. e.call.slave = 0
      BY ONLY <1>4, <2>2, <3>1
    <3>3. Tail(toSlave)[Len(Tail(toSlave))] = toSlave[k]
      BY ONLY <1>4, <3>1
    <3>4. fromSlave' = <<>> /\ toSlave'[Len(toSlave')].n = made'
      BY ONLY <1>1, <2>1, <2>2, <3>2, <3>3
    <3> QED
      BY ONLY <1>1, <1>5, <1>8, <2>1, <3>4 DEF Told, Truthful
  <2> QED
    BY ONLY <2>3, <2>4
<1> QED
  BY ONLY <1>3, <1>5, <1>7, <1>8

\* What a whole reply is read as.
LEMMA WholeReply ==
  ASSUME NEW m \in Memory, NEW c \in Call, Documented(c),
         Serve(m, RequestOf(c)).pdu \in Seq(Byte)
  PROVE  /\ Serve(m, RequestOf(c)).mem = IF Valid(m, c) THEN Effect(m, c) ELSE m
         /\ Right(c, Return(c, ReadResp(c.fc, c.size, Serve(m, RequestOf(c)).pdu)), Outcome(m, c))
<1> DEFINE p == Serve(m, RequestOf(c)).pdu
           r == ReadResp(c.fc, c.size, p)
<1>1. p \in Seq(Byte)
  OBVIOUS
<1>2. Arrived(p, p) /\ Len(p) >= Len(p)
  <2> HIDE DEF p
  <2> QED
    BY ONLY <1>1, WholeIsPart
<1>3. p = Serve(m, RequestOf(c)).pdu /\ r = ReadResp(c.fc, c.size, p)
  OBVIOUS
<1> HIDE DEF p, r
<1>4. /\ Serve(m, RequestOf(c)).mem = IF Valid(m, c) THEN Effect(m, c) ELSE m
      /\ Right(c, Return(c, r), Outcome(m, c))
  BY ReplyIsReadBack, <1>2, <1>3 DEF Right, Accepted
<1> QED
  BY ONLY <1>3, <1>4

\* What a refusal is read as.
LEMMA WholeRefusal ==
  ASSUME NEW m, NEW c \in Call, RequestOf(c).fc \in Byte,
         NEW code \in Byte, code # modbus_exception_code.success
  PROVE  Return(c, ReadResp(c.fc, c.size, Refusal(m, RequestOf(c), code).pdu)) =
           [ec |-> code, out |-> <<>>]
<1> DEFINE q == RequestOf(c)
           p == Refusal(m, q, code).pdu
<1>1. q.fc \in Byte /\ p = Refusal(m, q, code).pdu
  OBVIOUS
<1> HIDE DEF q, p
<1>2. Return(c, ReadResp(c.fc, c.size, p)) = [ec |-> code, out |-> <<>>]
  BY ONLY <1>1, c \in Call, code \in Byte, code # modbus_exception_code.success,
          RefusalIsReadBack
<1> QED
  BY ONLY <1>1, <1>2 DEF q

\* Each turn of the device: what it sends, what it stores and what is noted.
LEMMA TurnMeaning ==
  ASSUME Hypotheses, Inv, toSlave # <<>>
  PROVE  LET e == Head(toSlave)
             c == e.call
             rep == Serve(mem, Received(e))
         IN  /\ rep.pdu \in ShortPdu
             /\ rep.mem = IF Valid(mem, c) THEN Effect(mem, c) ELSE mem
             /\ Right(c, Return(c, ReadResp(c.fc, c.size, rep.pdu)), Outcome(mem, c))
             /\ Outcome(mem, c) # Unanswered
             /\ \A x \in Refusals :
                  LET no == Refusal(mem, Received(e), x)
                  IN  /\ no.pdu \in ShortPdu /\ no.mem = mem
                      /\ Return(c, ReadResp(c.fc, c.size, no.pdu)) = [ec |-> x, out |-> <<>>]
                      /\ [ec |-> x, out |-> <<>>] # Unanswered
<1> DEFINE e == Head(toSlave)
           c == e.call
           rep == Serve(mem, Received(e))
<1>1. e \in Entry /\ Carries(e) /\ mem \in Memory
  BY TypeOKParts, TailWire
<1>2. c \in Calls
  BY ONLY <1>1 DEF Entry
<1>3. Received(e) = RequestOf(c)
  BY ONLY <1>1, ReceivedIs
<1>4. /\ IsReply(rep, ReplySize(c)) /\ ReplySize(c) \in Nat
      /\ \A x \in Nat : IsReply(Refusal(mem, Received(e), x), 2)
  BY ONLY <1>1, ServedReply
<1> HIDE DEF e
<1>5. ReplySize(c) <= 248
  BY <1>2 DEF Hypotheses
<1> HIDE DEF c
<1>6. c \in Call /\ Documented(c) /\ RequestOf(c).fc \in Byte
  BY ONLY <1>2, SlaveOfCall, RequestBytes
<1> DEFINE p == rep.pdu
<1>7. p = Serve(mem, RequestOf(c)).pdu /\ p \in Seq(Byte) /\ p \in ShortPdu
  BY ONLY <1>3, <1>4, <1>5 DEF IsReply, ShortPdu
<1> HIDE DEF p
<1>8. Arrived(p, p) /\ Len(p) >= Len(p)
  BY ONLY <1>7, WholeIsPart
<1>9. /\ Serve(mem, RequestOf(c)).mem = IF Valid(mem, c) THEN Effect(mem, c) ELSE mem
      /\ Right(c, Return(c, ReadResp(c.fc, c.size, p)), Outcome(mem, c))
  <2>1. mem \in Memory /\ Serve(mem, RequestOf(c)).pdu \in Seq(Byte)
    BY ONLY <1>1, <1>7
  <2>2. /\ Serve(mem, RequestOf(c)).mem = IF Valid(mem, c) THEN Effect(mem, c) ELSE mem
        /\ Right(c, Return(c, ReadResp(c.fc, c.size, Serve(mem, RequestOf(c)).pdu)), Outcome(mem, c))
    BY ONLY <1>6, <2>1, WholeReply, Zenon
  <2> QED
    BY ONLY <1>7, <2>2
<1>10. Outcome(mem, c) # Unanswered
  BY DEF Outcome, Unanswered, modbus_exception_code, no_answer
<1>11. ASSUME NEW x \in Refusals
       PROVE  LET no == Refusal(mem, Received(e), x)
              IN  /\ no.pdu \in ShortPdu /\ no.mem = mem
                  /\ Return(c, ReadResp(c.fc, c.size, no.pdu)) = [ec |-> x, out |-> <<>>]
                  /\ [ec |-> x, out |-> <<>>] # Unanswered
  <2> DEFINE no == Refusal(mem, RequestOf(c), x)
             y == no.pdu
  <2>1. x \in Nat /\ x \in Byte /\ x # modbus_exception_code.success
    BY RefusalsTyped DEF Byte, modbus_exception_code
  <2>2. IsReply(no, 2) /\ no.mem = mem /\ y = Refusal(mem, RequestOf(c), x).pdu
    BY ONLY <1>3, <1>4, <2>1 DEF Refusal
  <2>3. y \in ShortPdu
    BY ONLY <2>2 DEF IsReply, ShortPdu
  <2> HIDE DEF y
  <2>4. Return(c, ReadResp(c.fc, c.size, y)) = [ec |-> x, out |-> <<>>]
    BY ONLY <1>6, <2>1, <2>2, WholeRefusal, Zenon
  <2>5. [ec |-> x, out |-> <<>>] # Unanswered
    BY ONLY <2>1 DEF Unanswered, no_answer
  <2> QED
    BY ONLY <1>3, <2>2, <2>3, <2>4, <2>5 DEF y
<1> QED
  BY ONLY <1>3, <1>7, <1>9, <1>10, <1>11 DEF c, e, p

\* When the connection dies, what is left to read is a part of what was.
LEMMA ClosesTold ==
  ASSUME Inv, Told, PeerCloses
  PROVE  Told'
<1>1. /\ open' = FALSE /\ toSlave' = <<>>
      /\ \E n \in 0 .. Len(fromSlave) : fromSlave' = Take(fromSlave, n)
      /\ UNCHANGED <<pc, call, expected, length, ret, made, answer>>
  BY DEF PeerCloses, stream
<1>2. PICK n \in 0 .. Len(fromSlave) : fromSlave' = Take(fromSlave, n)
  BY ONLY <1>1
<1>3. expected \in U16 /\ call \in Calls /\ fromSlave \in Seq(Byte) /\ pc \in {"idle", "header", "body"}
  BY TypeOKParts
<1>4. fromSlave = <<>> => fromSlave' = <<>>
  BY ONLY <1>2, <1>3, WholeIsPart, PartOfPart
<1>5. pc = "idle" => fromSlave' = <<>>
  BY <1>4 DEF Told
<1>6. ASSUME pc = "header", fromSlave' # <<>>
      PROVE  \E p : Meant(p)' /\ Part(fromSlave', Frame(expected', call'.slave, p))
  <2>1. PICK p : Meant(p) /\ Part(fromSlave, Frame(expected, call.slave, p))
    BY <1>4, <1>6 DEF Told
  <2>2. p \in Seq(Byte) /\ Len(p) < 65535
    BY <2>1 DEF Meant, ShortPdu
  <2>3. call.slave \in Byte
    BY ONLY <1>3, SlaveOfCall
  <2> DEFINE f == Frame(expected, call.slave, p)
  <2>4. f \in Seq(Byte)
    BY ONLY <1>3, <2>2, <2>3, FrameParts
  <2>5. Part(fromSlave, f)
    BY ONLY <2>1
  <2> HIDE DEF f
  <2>6. Part(Take(fromSlave, n), f)
    BY ONLY <2>4, <2>5, PartOfPart, n \in 0 .. Len(fromSlave)
  <2>7. Meant(p)'
    BY ONLY <1>1, <2>1 DEF Meant
  <2> QED
    BY ONLY <1>1, <1>2, <2>6, <2>7 DEF f
<1>7. ASSUME pc = "body"
      PROVE  \E p : Meant(p)' /\ length' = Len(p) + 1 /\ Part(fromSlave', p)
  <2>1. PICK p : Meant(p) /\ length = Len(p) + 1 /\ Part(fromSlave, p)
    BY <1>7 DEF Told
  <2>2. p \in Seq(Byte)
    BY <2>1 DEF Meant, ShortPdu
  <2>3. Part(Take(fromSlave, n), p)
    BY ONLY <2>1, <2>2, PartOfPart, n \in 0 .. Len(fromSlave)
  <2>4. Meant(p)'
    BY ONLY <1>1, <2>1 DEF Meant
  <2> QED
    BY ONLY <1>1, <1>2, <2>1, <2>3, <2>4
<1>8. Truthful'
  BY <1>1 DEF Told, Truthful
<1>9. pc' # "idle" => call'.slave # 0
  BY <1>1 DEF Told
<1> QED
  BY ONLY <1>1, <1>5, <1>6, <1>7, <1>8, <1>9 DEF Told

\* Every step keeps what the device did and what the call will return together.
LEMMA NextTold ==
  ASSUME Hypotheses
  PROVE  Inv /\ Sync /\ Told /\ [Next]_vars => Told'
<1> SUFFICES ASSUME Inv, Sync, Told, [Next]_vars PROVE Told'
  OBVIOUS
<1>1. CASE \E c \in Calls : CallOf(c) \/ CallThrows(c)
  BY <1>1, CallTold
<1>2. CASE ReadHeader \/ ReadBody
  BY <1>2, ReadHeaderTold, ReadBodyTold
<1>3. CASE ReadThrows
  <2>1. pc' = "idle" /\ fromSlave' = <<>> /\ ret' = Failed /\ UNCHANGED <<open, toSlave>>
    BY <1>3 DEF ReadThrows, Returns
  <2>2. ~ open => toSlave = <<>>
    BY DEF Told
  <2> QED
    BY ONLY <2>1, <2>2 DEF Told, Truthful, Failed
<1>4. CASE SlaveServes
  <2> DEFINE e == Head(toSlave)
             c == e.call
             rep == Serve(mem, Received(e))
  <2>1. toSlave # <<>> /\ Answer(rep) /\ Note(e, Outcome(mem, c))
    BY <1>4 DEF SlaveServes, Outcome
  <2>2. /\ rep.pdu \in ShortPdu /\ Outcome(mem, c) # Unanswered
        /\ Right(c, Return(c, ReadResp(c.fc, c.size, rep.pdu)), Outcome(mem, c))
    BY <2>1, TurnMeaning
  <2> HIDE DEF rep
  <2> QED
    BY <2>1, <2>2, AnswerTold
<1>5. CASE SlaveRefuses
  <2> DEFINE e == Head(toSlave)
             c == e.call
  <2>1. PICK x \in Refusals : /\ toSlave # <<>> /\ Answer(Refusal(mem, Received(e), x))
                              /\ Note(e, [ec |-> x, out |-> <<>>])
    BY <1>5 DEF SlaveRefuses
  <2> DEFINE no == Refusal(mem, Received(e), x)
             a == [ec |-> x, out |-> <<>>]
  <2>2. /\ no.pdu \in ShortPdu /\ a # Unanswered
        /\ Right(c, Return(c, ReadResp(c.fc, c.size, no.pdu)), a)
    BY <2>1, TurnMeaning DEF Right
  <2>3. toSlave # <<>> /\ Answer(no) /\ Note(e, a)
    BY ONLY <2>1
  <2> HIDE DEF no, a
  <2> QED
    BY <2>2, <2>3, AnswerTold
<1>6. CASE PeerCloses
  BY <1>6, ClosesTold
<1>7. CASE UNCHANGED vars
  BY <1>7 DEF Told, Meant, Truthful, vars, stream
<1> QED
  BY <1>1, <1>2, <1>3, <1>4, <1>5, <1>6, <1>7 DEF Next

\* Whatever the calls, as long as the stream is in step: a call that reports success was carried
\* out by the device and returns its contents, wherever in the exchange the connection dies.  The
\* code's refusals of a longer span and of a register's value are errors, never false successes.
THEOREM NoFalseSuccessTheorem ==
  ASSUME Hypotheses
  PROVE  Spec => []NoFalseSuccess
<1>1. Told => NoFalseSuccess
  BY DEF Told, Truthful, Right, NoFalseSuccess, asio_error, modbus_exception_code
<1>2. Inv /\ Sync /\ [Next]_vars => Sync'
  BY NextSync
<1>3. Inv /\ Sync /\ Told /\ [Next]_vars => Told'
  BY NextTold
<1> QED
  BY <1>1, <1>2, <1>3, InitInv, NextInv, InitSync, InitTold, PTL DEF Spec

\* Whatever the calls, as long as their replies pass read_response's checks: a call that returns
\* without a connection error returns what the device did for it, its error code and contents,
\* wherever in the exchange the connection dies.
THEOREM HonestTheorem ==
  ASSUME HonestHypotheses
  PROVE  Spec => []Honest
<1>0. Hypotheses
  BY DEF HonestHypotheses
<1>1. Inv /\ Told => Honest
  <2>1. Inv => Accepted(call)
    BY TypeOKParts DEF HonestHypotheses
  <2> QED
    BY <2>1 DEF Told, Truthful, Right, Honest
<1>2. Inv /\ Sync /\ [Next]_vars => Sync'
  BY <1>0, NextSync
<1>3. Inv /\ Sync /\ Told /\ [Next]_vars => Told'
  BY <1>0, NextTold
<1> QED
  BY <1>1, <1>2, <1>3, InitInv, NextInv, InitSync, InitTold, PTL DEF Spec

--------------------------------------------------------------------------------
(* Refinement.  Each action of TcpMaster is one of ModbusMemory, but for         *)
(* ReadHeader, which changes nothing that the application sees.                 *)

\* The abstract specification has the same operators for calls and tables.
LEMMA SameMeaning ==
  ASSUME NEW m, NEW c
  PROVE  /\ Abstract!Valid(m, c) = Valid(m, c)
         /\ Abstract!Effect(m, c) = Effect(m, c)
         /\ Abstract!Content(m, c) = Content(m, c)
         /\ Abstract!Return(c, Abstract!Unread(c)) = Return(c, Unread(c))
<1> USE DEF function_code, Abstract!function_code
<1>1. Abstract!Valid(m, c) = Valid(m, c)
  BY DEF Valid, Present, Abstract!Valid, Abstract!Present
<1>2. Abstract!Effect(m, c) = Effect(m, c)
  BY DEF Effect, Store, Abstract!Effect, Abstract!Store
<1>3. Abstract!Content(m, c) = Content(m, c)
  BY DEF Content, Slice, Pack, WordBytes,
         Abstract!Content, Abstract!Slice, Abstract!Pack, Abstract!WordBytes
<1>4. Abstract!Return(c, Abstract!Unread(c)) = Return(c, Unread(c))
  BY DEF Return, Unread, Reading, u8, SizeChecked, BytesWords, make_uint16, modbus_exception_code,
         Abstract!Return, Abstract!Unread, Abstract!Reading, Abstract!u8, Abstract!SizeChecked,
         Abstract!BytesWords, Abstract!make_uint16, Abstract!modbus_exception_code
<1> QED
  BY ONLY <1>1, <1>2, <1>3, <1>4

\* A call of the application.
LEMMA CallImplements ==
  ASSUME Inv, NEW c \in Calls, CallOf(c) \/ CallThrows(c)
  PROVE  Abstract!Next
<1> DEFINE E == [n |-> made + 1, call |-> c,
                 bytes |-> Frame(m_transaction_id, c.slave, WriteReq(RequestOf(c)))]
<1>0. made \in Nat /\ m_transaction_id \in U16 /\ toSlave \in Seq(Entry)
  BY TypeOKParts, MaxCallsTyped
<1>1. CASE CallOf(c)
  <2>1. /\ pc = "idle" /\ call' = c /\ made' = made + 1
        /\ toSlave' = IF open THEN Append(toSlave, E) ELSE toSlave
        /\ answer' = Unanswered
        /\ c.slave = 0 => pc' = "idle" /\ ret' = Return(c, Unread(c))
        /\ c.slave # 0 => pc' = "header" /\ ret' = ret
        /\ UNCHANGED <<mem, open>>
    BY <1>1 DEF CallOf, Returns
  <2>2. E \in Entry /\ E.n = made + 1 /\ E.call = c
    BY <1>0, CallFrame
  <2> HIDE DEF E
  <2>3. Pending(toSlave') = IF open THEN Append(Pending(toSlave), [n |-> made', call |-> c])
                            ELSE Pending(toSlave)
    <3>1. Pending(Append(toSlave, E)) = Append(Pending(toSlave), [n |-> E.n, call |-> E.call])
      BY ONLY <1>0, <2>2, PendingAppend
    <3> QED
      BY ONLY <2>1, <2>2, <3>1
  <2>4. Return(c, Unread(c)) = Abstract!Return(c, Abstract!Unread(c))
    BY ONLY SameMeaning
  <2>5. Abstract!Issue(c)
    BY ONLY <2>1, <2>3, <2>4, Zenon
       DEF Abstract!Issue, Pending, Unanswered, Abstract!Unanswered, no_answer, Abstract!no_answer
  <2> QED
    BY ONLY <2>5, c \in Calls DEF Abstract!Next
<1>2. CASE CallThrows(c)
  <2>1. /\ pc = "idle" /\ ~ open /\ call' = c /\ pc' = "idle" /\ ret' = Failed
        /\ answer' = Unanswered
        /\ UNCHANGED <<toSlave, open, mem, made>>
    BY <1>2 DEF CallThrows, Returns
  <2>2. Abstract!IssueFails(c)
    BY ONLY <2>1, Zenon
       DEF Abstract!IssueFails, Unanswered, Abstract!Unanswered, no_answer, Abstract!no_answer,
           Failed, Abstract!Failed, asio_error, Abstract!asio_error
  <2> QED
    BY ONLY <2>2, c \in Calls DEF Abstract!Next
<1> QED
  BY <1>1, <1>2

\* The reads of a call: the header changes nothing that the application sees.
LEMMA ReadImplements ==
  ASSUME HonestHypotheses, Inv, Told, ReadHeader \/ ReadBody \/ ReadThrows
  PROVE  Abstract!Next \/ UNCHANGED Abstract!vars
<1>1. CASE ReadHeader
  <2>1. pc = "header" /\ UNCHANGED <<call, toSlave, open, mem, made, answer>>
    BY <1>1 DEF ReadHeader
  <2>2. pc' = "body" /\ ret' = ret
    BY <1>1, ReadHeaderTold
  <2>3. (pc' # "idle") = (pc # "idle")
    BY ONLY <2>1, <2>2
  <2> QED
    BY ONLY <2>1, <2>2, <2>3 DEF Abstract!vars
<1>2. CASE ReadBody
  <2>1. pc = "body" /\ UNCHANGED <<call, toSlave, open, mem, made, answer>>
    BY <1>2 DEF ReadBody
  <2>a. Accepted(call)
    BY TypeOKParts DEF HonestHypotheses
  <2>2. pc' = "idle" /\ ret' = answer /\ answer # Unanswered
    BY <1>2, <2>a, ReadBodyTold DEF Right
  <2>3. Abstract!End
    BY ONLY <2>1, <2>2
       DEF Abstract!End, Unanswered, Abstract!Unanswered, no_answer, Abstract!no_answer
  <2> QED
    BY ONLY <2>3 DEF Abstract!Next
<1>3. CASE ReadThrows
  <2>1. /\ pc # "idle" /\ pc' = "idle" /\ ~ open /\ ret' = Failed
        /\ UNCHANGED <<call, toSlave, open, mem, made, answer>>
    BY <1>3 DEF ReadThrows, Returns
  <2>2. Abstract!Fail
    BY ONLY <2>1 DEF Abstract!Fail, Failed, Abstract!Failed, asio_error, Abstract!asio_error
  <2> QED
    BY ONLY <2>2 DEF Abstract!Next
<1> QED
  BY <1>1, <1>2, <1>3

\* A turn of the device.
LEMMA TurnImplements ==
  ASSUME HonestHypotheses, Inv, SlaveServes \/ SlaveRefuses
  PROVE  Abstract!Next
<1> DEFINE e == Head(toSlave)
           c == e.call
           h == Head(Pending(toSlave))
           ok == modbus_exception_code.success
           bad == modbus_exception_code.illegal_data_address
<1>1. toSlave # <<>> /\ toSlave \in Seq(Entry)
  BY TypeOKParts DEF SlaveServes, SlaveRefuses
<1>2. /\ Pending(toSlave) # <<>> /\ h = [n |-> e.n, call |-> c]
      /\ Pending(Tail(toSlave)) = Tail(Pending(toSlave))
  BY ONLY <1>1, PendingTail
<1>3. toSlave' = Tail(toSlave) /\ UNCHANGED <<pc, call, open, ret, made>>
  BY DEF SlaveServes, SlaveRefuses, Answer
<1>4. /\ Serve(mem, Received(e)).mem = IF Valid(mem, c) THEN Effect(mem, c) ELSE mem
      /\ \A x \in Refusals : Refusal(mem, Received(e), x).mem = mem
  BY <1>1, TurnMeaning DEF HonestHypotheses
<1>5. /\ Abstract!Valid(mem, c) = Valid(mem, c)
      /\ Abstract!Effect(mem, c) = Effect(mem, c)
      /\ Abstract!Content(mem', c) = Content(mem', c)
  BY ONLY SameMeaning
<1>6. /\ Abstract!modbus_exception_code.success = ok
      /\ Abstract!modbus_exception_code.illegal_data_address = bad
  BY ONLY DEF modbus_exception_code, Abstract!modbus_exception_code
<1> DEFINE Noted(a) == answer' = IF e.n = made /\ c.slave # 0 THEN a ELSE answer
<1>7. CASE SlaveServes /\ Valid(mem, c)
  <2>1. mem' = Serve(mem, Received(e)).mem /\ Noted([ec |-> ok, out |-> Content(Effect(mem, c), c)])
    BY <1>7 DEF SlaveServes, Answer, Note
  <2>2. mem' = Effect(mem, c)
    BY ONLY <1>4, <1>7, <2>1
  <2>3. Noted([ec |-> ok, out |-> Content(mem', c)])
    BY ONLY <2>1, <2>2
  <2>4. h.call = c /\ h.n = e.n
    BY ONLY <1>2
  <2> HIDE DEF c, e, ok, bad
  <2>5. Abstract!Apply
    BY ONLY <1>2, <1>3, <1>5, <1>6, <1>7, <2>2, <2>3, <2>4 DEF Abstract!Apply, Pending
  <2> QED
    BY ONLY <2>5 DEF Abstract!Next
<1>8. CASE SlaveServes /\ ~ Valid(mem, c)
  <2>1. mem' = Serve(mem, Received(e)).mem /\ Noted([ec |-> bad, out |-> <<>>])
    BY <1>8 DEF SlaveServes, Answer, Note
  <2>2. mem' = mem
    BY ONLY <1>4, <1>8, <2>1
  <2>3. h.call = c /\ h.n = e.n
    BY ONLY <1>2
  <2> HIDE DEF c, e, ok, bad
  <2>4. Abstract!Apply
    BY ONLY <1>2, <1>3, <1>5, <1>6, <1>8, <2>1, <2>2, <2>3 DEF Abstract!Apply, Pending
  <2> QED
    BY ONLY <2>4 DEF Abstract!Next
<1>9. CASE SlaveRefuses
  <2>1. PICK x \in Refusals : mem' = Refusal(mem, Received(e), x).mem /\ Noted([ec |-> x, out |-> <<>>])
    BY <1>9 DEF SlaveRefuses, Answer, Note
  <2>2. mem' = mem
    BY ONLY <1>4, <2>1
  <2>3. h.call = c /\ h.n = e.n
    BY ONLY <1>2
  <2> HIDE DEF c, e, ok, bad
  <2>4. Abstract!Apply
    BY ONLY <1>2, <1>3, <2>1, <2>2, <2>3 DEF Abstract!Apply, Pending
  <2> QED
    BY ONLY <2>4 DEF Abstract!Next
<1> QED
  BY <1>7, <1>8, <1>9

\* The end of the connection.
LEMMA ClosesImplements ==
  ASSUME PeerCloses
  PROVE  Abstract!Next
<1>1. /\ open /\ open' = FALSE /\ toSlave' = <<>>
      /\ UNCHANGED <<pc, call, mem, ret, made, answer>>
  BY DEF PeerCloses
<1>2. Pending(toSlave') = <<>>
  BY ONLY <1>1 DEF Pending
<1>3. Abstract!Disconnect
  BY ONLY <1>1, <1>2 DEF Abstract!Disconnect, Pending
<1> QED
  BY ONLY <1>3 DEF Abstract!Next

\* A new connection is one of the abstract specification.
LEMMA InitImplements == Init => Abstract!Init
<1> SUFFICES ASSUME Init PROVE Abstract!Init
  OBVIOUS
<1>1. Pending(<<>>) = <<>>
  BY DEF Pending
<1>2. Pending(toSlave) = <<>>
  BY <1>1 DEF Init
<1> QED
  BY <1>2 DEF Init, Abstract!Init, Pending, Unanswered, Abstract!Unanswered, no_answer, Abstract!no_answer

\* Every step is a step of the abstract specification, or changes nothing that it sees.
LEMMA NextImplements ==
  ASSUME HonestHypotheses
  PROVE  Inv /\ Told /\ [Next]_vars => [Abstract!Next]_(Abstract!vars)
<1> SUFFICES ASSUME Inv, Told, [Next]_vars PROVE Abstract!Next \/ UNCHANGED Abstract!vars
  OBVIOUS
<1>1. CASE \E c \in Calls : CallOf(c) \/ CallThrows(c)
  BY <1>1, CallImplements
<1>2. CASE ReadHeader \/ ReadBody \/ ReadThrows
  BY <1>2, ReadImplements
<1>3. CASE SlaveServes \/ SlaveRefuses
  BY <1>3, TurnImplements
<1>4. CASE PeerCloses
  BY <1>4, ClosesImplements
<1>5. CASE UNCHANGED vars
  BY <1>5 DEF vars, Abstract!vars
<1> QED
  BY <1>1, <1>2, <1>3, <1>4, <1>5 DEF Next

\* The calls over TCP, byte by byte, with lost ends of the stream and refusals, are the calls of
\* ModbusMemory: each acts on the device's tables at most once and in order, and a call that
\* returns without a connection error returns what the device did for that very call.
THEOREM ImplementsTheorem ==
  ASSUME HonestHypotheses
  PROVE  Spec => Implements
<1>1. Inv /\ Sync /\ [Next]_vars => Sync'
  BY NextSync DEF HonestHypotheses
<1>2. Inv /\ Sync /\ Told /\ [Next]_vars => Told'
  BY NextTold DEF HonestHypotheses
<1>3. Inv /\ Told /\ [Next]_vars => [Abstract!Next]_(Abstract!vars)
  BY NextImplements
<1> QED
  BY <1>1, <1>2, <1>3, InitInv, NextInv, InitSync, InitTold, InitImplements, PTL
     DEF Spec, Implements, Abstract!Spec

--------------------------------------------------------------------------------
(* The master and the server of TcpSystem.                                      *)

\* The server has the same operators for PDUs and frames.
LEMMA SameCodec ==
  ASSUME NEW s, NEW n, NEW m, NEW p
  PROVE  /\ D!header_size = header_size /\ D!modbus_exception_code = modbus_exception_code
         /\ D!function_code = function_code
         /\ D!Take(s, n) = Take(s, n) /\ D!Drop(s, n) = Drop(s, n)
         /\ D!Header(s) = Header(s) /\ D!Frame(n, m, p) = Frame(n, m, p)
         /\ D!ReadReq(s) = ReadReq(s) /\ D!WordBytes(s) = WordBytes(s)
         /\ D!WriteException(n, m) = WriteException(n, m) /\ D!WriteValues(n, s) = WriteValues(n, s)
         /\ D!u16(n) = u16(n)
<1> USE DEF function_code, D!function_code, D!modbus_exception_code, modbus_exception_code
<1>1. /\ D!header_size = header_size /\ D!modbus_exception_code = modbus_exception_code
      /\ D!function_code = function_code
  BY DEF D!header_size, header_size
<1>2. D!Take(s, n) = Take(s, n) /\ D!Drop(s, n) = Drop(s, n)
  BY DEF D!Take, Take, D!Drop, Drop
<1>3. D!WordBytes(s) = WordBytes(s) /\ D!u16(n) = u16(n)
  BY DEF D!WordBytes, WordBytes, D!u16, u16
<1>4. D!Header(s) = Header(s)
  BY DEF D!Header, Header, D!make_uint16, make_uint16
<1>5. D!Frame(n, m, p) = Frame(n, m, p)
  BY DEF D!Frame, Frame, D!WordBytes, WordBytes, D!u16, u16, D!m_protocol, m_protocol
<1>6. D!WriteException(n, m) = WriteException(n, m) /\ D!WriteValues(n, s) = WriteValues(n, s)
  BY DEF D!WriteException, WriteException, D!WriteValues, WriteValues, D!u8, u8
<1>7. D!ReadReq(s) = ReadReq(s)
  BY Zenon DEF D!ReadReq, ReadReq, D!ReqClass, ReqClass, D!ReqSize, ReqSize, D!Request, Request,
         D!not_implemented, not_implemented, D!BytesWords, BytesWords, D!make_uint16, make_uint16,
         D!pdu_req, pdu_req, D!read_coils_pdu_req, read_coils_pdu_req,
         D!read_discrete_inputs_pdu_req, read_discrete_inputs_pdu_req, D!read_holding_pdu_req,
         read_holding_pdu_req, D!read_input_pdu_req, read_input_pdu_req,
         D!write_single_coil_pdu_req, write_single_coil_pdu_req, D!write_single_register_pdu_req,
         write_single_register_pdu_req, D!write_multiple_coils_pdu_req, write_multiple_coils_pdu_req,
         D!write_multiple_registers_pdu_req, write_multiple_registers_pdu_req,
         D!read_write_multiple_registers_pdu_req, read_write_multiple_registers_pdu_req
<1> QED
  BY ONLY <1>1, <1>2, <1>3, <1>4, <1>5, <1>6, <1>7

--------------------------------------------------------------------------------
(* What holds in every state.                                                   *)

\* What the theorems ask of the calls: broadcasts, which this server answers, and reads of more
\* registers than the master takes, leave a reply in the stream.
Hypothesis == \A c \in Calls : /\ c.slave # 0
                               /\ c.fc = function_code.read_holding_registers => c.size <= 246

\* All registers hold one value, which moves on in the order of the posted updates, and has not
\* gone back since the last call.
Registers ==
  /\ s_holding_registers \in [D!Addresses -> U16]
  /\ \A a \in D!Addresses : s_holding_registers[a] = s_holding_registers[0]
  /\ i \in 0 .. MaxTicks /\ InTurn(s_holding_registers[0], posted, i)
  /\ asked \in Nat /\ asked <= s_holding_registers[0]

Shapes ==
  /\ pc \in {"idle", "header", "body"} /\ call \in Calls /\ open \in BOOLEAN
  /\ expected \in U16 /\ m_transaction_id \in U16
  /\ DOMAIN stage = {conn} /\ DOMAIN header = {conn} /\ DOMAIN gone = {conn}
  /\ in \in [{conn} -> Seq(Byte)]
  /\ out \in [{conn} -> Seq(Seq(Byte))] /\ sent \in [{conn} -> Seq(Seq(Byte))]

\* The registers that a call shows the application, out being what it returned.
Shown(c, values) == IF c.words THEN values ELSE BytesWords(values)

Recent(c, r) ==
  r.ec = modbus_exception_code.success =>
    \A k \in 1 .. Len(Shown(c, r.out)) : Shown(c, r.out)[k] >= asked

\* The PDU p is read as what the server did for the current call, and tells nothing old.
Apt(p) ==
  /\ p \in ShortPdu
  /\ Return(call, ReadResp(call.fc, call.size, p)) = answer
  /\ Recent(call, answer)

Pdu(c) == WriteReq(RequestOf(c))

\* The server has nothing to read.
Quiet == toSlave = <<>> /\ in[conn] = <<>> /\ stage[conn] \in {"new", "header"}

\* The server has the request of the current call to read, or the body of it.
Unserved ==
  LET f == Frame(expected, call.slave, Pdu(call))
  IN  /\ pc = "header" /\ fromSlave = <<>>
      /\ toSlave = <<[n |-> made, call |-> call, bytes |-> f]>>
      /\ \/ stage[conn] \in {"new", "header"} /\ in[conn] = f
         \/ stage[conn] = "body" /\ in[conn] = Pdu(call) /\ header[conn] = Header(f)

Exchange ==
  /\ open => ~ gone[conn] /\ (Quiet \/ Unserved)
  /\ ~ open => Abandoned /\ toSlave = <<>>
  /\ pc = "idle" => fromSlave = <<>>
  /\ pc = "header" /\ fromSlave # <<>> =>
       \E p : Apt(p) /\ Part(fromSlave, Frame(expected, call.slave, p))
  /\ pc = "body" => \E p : Apt(p) /\ length = Len(p) + 1 /\ Part(fromSlave, p)
  /\ pc = "idle" => ret.ec = asio_error \/ (ret = answer /\ Recent(call, ret))

SystemInv == Registers /\ Shapes /\ Exchange

--------------------------------------------------------------------------------
(* What the server answers.                                                     *)

\* The sizes of the server are numbers.
LEMMA Sizes == NRegisters \in Nat /\ NRegisters > 0 /\ MaxTicks \in Nat
  BY ServerSizes

\* There is a register.
LEMMA FirstRegister == 0 \in D!Addresses /\ D!Addresses = 0 .. NRegisters - 1
  BY Sizes DEF D!Addresses

\* The call reads the list of registers that it asked for.
LEMMA ListShown ==
  ASSUME NEW c \in Calls, c.fc = function_code.read_holding_registers, NEW v \in Seq(U16),
         2 * Len(v) = c.size, c.size <= 246
  PROVE  LET p == WriteValues(c.fc, WordBytes(v))
             r == Return(c, ReadResp(c.fc, c.size, p))
         IN  p \in ShortPdu /\ Shown(c, r.out) = v
<1> DEFINE b == WordBytes(v)
           p == WriteValues(c.fc, b)
           r == Return(c, ReadResp(c.fc, c.size, p))
<1>1. c \in Call /\ c.size \in Nat
  BY SlaveOfCall
<1>2. c.fc = 3
  BY DEF function_code
<1>3. b \in Seq(Byte) /\ Len(b) = c.size
  BY WordBytesType
<1>4. BytesWords(b) = v
  BY WordsReadBack
<1> HIDE DEF b
<1>5. p \in Seq(Byte) /\ Len(p) = 2 + Len(b)
  <2>1. c.fc \in Byte
    BY ONLY <1>2 DEF Byte
  <2> QED
    BY ONLY <2>1, <1>3, WriteValuesType
<1>6. p \in ShortPdu
  BY ONLY <1>1, <1>3, <1>5, c.size <= 246 DEF ShortPdu
<1>7. ReadResp(c.fc, c.size, p) = Reading(modbus_exception_code.success, Len(b), b, 2 + Len(b))
  <2>1. Arrived(p, p) /\ Len(p) >= 2 + Len(b)
    BY ONLY <1>1, <1>3, <1>5, WholeIsPart
  <2>2. c.fc \in {1, 2, 3, 4, 23} /\ Len(b) < 256 /\ Len(b) <= c.size
    BY ONLY <1>1, <1>2, <1>3, c.size <= 246
  <2> QED
    BY ONLY <1>1, <1>3, <2>1, <2>2, ListReadBack
<1>8. r = [ec |-> modbus_exception_code.success, out |-> IF c.words THEN BytesWords(b) ELSE b]
  BY ONLY <1>1, <1>3, <1>7, ReturnList
<1>9. Shown(c, r.out) = v
  BY ONLY <1>4, <1>8 DEF Shown
<1> QED
  BY ONLY <1>6, <1>9 DEF b

\* The request of a call as the server reads it.
LEMMA RequestCode ==
  ASSUME NEW c \in Calls
  PROVE  /\ RequestOf(c).fc = c.fc /\ c.fc \in Byte
         /\ Pdu(c) \in Seq(Byte) /\ 1 <= Len(Pdu(c)) /\ Len(Pdu(c)) < 65535
         /\ ReadReq(Pdu(c)).ec = modbus_exception_code.success /\ ReadReq(Pdu(c)).req = RequestOf(c)
<1> DEFINE q == RequestOf(c)
<1>1. c \in Call /\ Documented(c)
  BY SlaveOfCall
<1>2. PICK l \in pdu_req : /\ l.fc = c.fc /\ q = Request(l, q.words, q.byte_count, q.values)
                           /\ WellFormed(l, q.words, q.byte_count, q.values)
  BY ONLY <1>1, RequestOfWellFormed
<1> HIDE DEF q
<1>3. q.fc = c.fc
  BY ONLY <1>2 DEF Request
<1>4. c.fc \in Byte
  BY ONLY <1>2, ReqClassFacts
<1>5. ReadReq(WriteReq(q)) = [ec |-> modbus_exception_code.success, kept |-> FALSE, req |-> q]
  BY ONLY <1>2, RequestIsReadBack
<1>6. Pdu(c) \in Seq(Byte) /\ Len(Pdu(c)) < 65535
  BY RequestBytes DEF Pdu
<1>7. Pdu(c) # <<>>
  <2>1. ReadReq(Pdu(c)).ec = modbus_exception_code.success
    BY ONLY <1>5 DEF Pdu, q
  <2>2. ReadReq(<<>>).ec # modbus_exception_code.success
    BY DEF ReadReq, modbus_exception_code
  <2> QED
    BY ONLY <2>1, <2>2
<1>8. 1 <= Len(Pdu(c))
  BY ONLY <1>6, <1>7
<1> QED
  BY ONLY <1>3, <1>4, <1>5, <1>6, <1>8 DEF Pdu, q

\* The call reads the exception that it was answered with.
LEMMA ExceptionShown ==
  ASSUME NEW c \in Calls, NEW code \in 1 .. 255
  PROVE  LET p == WriteException(c.fc, code)
         IN  p \in ShortPdu /\ Return(c, ReadResp(c.fc, c.size, p)).ec = code
<1> DEFINE p == WriteException(c.fc, code)
<1>1. c \in Call /\ c.size \in Nat
  BY SlaveOfCall
<1>2. c.fc \in Byte
  BY <1>1, RequestCode
<1>3. code \in Byte /\ code \in Nat /\ code # modbus_exception_code.success
  BY DEF Byte, modbus_exception_code
<1>4. p \in Seq(Byte) /\ Len(p) = 2
  BY ONLY <1>2, <1>3, WriteExceptionType
<1>0. p = WriteException(c.fc, code)
  OBVIOUS
<1> HIDE DEF p
<1>5. p \in ShortPdu
  <2>1. 2 <= Len(p) /\ Len(p) <= 248
    BY ONLY <1>4
  <2> QED
    BY ONLY <1>4, <2>1, Zenon DEF ShortPdu
<1>6. Arrived(p, p) /\ Len(p) >= 2
  BY ONLY <1>4, WholeIsPart
<1>7. ReadResp(c.fc, c.size, p) = Reading(code, u8(c.size), <<>>, 2)
  <2>1. Arrived(p, WriteException(c.fc, code))
    BY ONLY <1>0, <1>6, Zenon
  <2>2. PICK fc \in Byte, size \in Nat : fc = c.fc /\ size = c.size
    BY ONLY <1>1, <1>2, Zenon
  <2>3. Arrived(p, WriteException(fc, code))
    BY ONLY <2>1, <2>2, Zenon
  <2>4. ReadResp(fc, size, p) = Reading(code, u8(size), <<>>, 2)
    BY ONLY <1>3, <1>6, <2>3, ExceptionReadBack, Zenon
  <2> QED
    BY ONLY <2>2, <2>4, Zenon
<1>8. Return(c, Reading(code, u8(c.size), <<>>, 2)) = [ec |-> code, out |-> <<>>]
  BY ONLY <1>3, ReturnError
<1>9. Return(c, ReadResp(c.fc, c.size, p)).ec = code
  BY ONLY <1>7, <1>8
<1> QED
  BY ONLY <1>5, <1>9 DEF p

\* Whatever the call, the server answers with a PDU that the master reads, and a success tells
\* the value of the registers.
LEMMA HandlerAnswers ==
  ASSUME Hypothesis, Registers, NEW c \in Calls
  PROVE  LET p == D!reqest_handler(RequestOf(c))
         IN  p \in ShortPdu /\ Recent(c, Return(c, ReadResp(c.fc, c.size, p)))
<1> DEFINE q == RequestOf(c)
           a == q.words[1]
           n == q.words[2]
           v == [k \in 1 .. n |-> IF TRUE THEN s_holding_registers[a + k - 1] ELSE 0]
           p == D!reqest_handler(q)
           E == modbus_exception_code
           ReadCode == function_code.read_holding_registers
<1> SUFFICES p \in ShortPdu /\ Recent(c, Return(c, ReadResp(c.fc, c.size, p)))
  OBVIOUS
<1>1. q.fc = c.fc
  BY RequestCode
<1>2. p = IF q.fc # ReadCode THEN WriteException(q.fc, E.illegal_function)
          ELSE IF ~ (1 <= n /\ n <= 125) THEN WriteException(q.fc, E.illegal_data_value)
          ELSE IF TRUE /\ a + n > NRegisters THEN WriteException(q.fc, E.illegal_data_address)
          ELSE WriteValues(q.fc, WordBytes(v))
  <2> DEFINE F == D!function_code.read_holding_registers
             X == D!modbus_exception_code
  <2>1. p = IF q.fc # F THEN D!WriteException(q.fc, X.illegal_function)
            ELSE IF ~ (1 <= n /\ n <= 125) THEN D!WriteException(q.fc, X.illegal_data_value)
            ELSE IF TRUE /\ a + n > NRegisters THEN D!WriteException(q.fc, X.illegal_data_address)
            ELSE D!WriteValues(q.fc, D!WordBytes(v))
    BY DEF D!reqest_handler, D!memcpy_msb
  <2>2. F = ReadCode /\ X = E
    BY SameCodec
  <2>3. \A x, y : D!WriteException(x, y) = WriteException(x, y) /\ D!WriteValues(x, y) = WriteValues(x, y)
    BY SameCodec
  <2>4. D!WordBytes(v) = WordBytes(v)
    BY SameCodec
  <2> HIDE DEF p, q, a, n, v, F, X
  <2> QED
    BY ONLY <2>1, <2>2, <2>3, <2>4
<1>3. /\ E.illegal_function \in 1 .. 255 /\ E.illegal_data_value \in 1 .. 255
      /\ E.illegal_data_address \in 1 .. 255
  BY DEF modbus_exception_code
<1>4. ASSUME NEW code \in 1 .. 255, p = WriteException(q.fc, code)
      PROVE  p \in ShortPdu /\ Recent(c, Return(c, ReadResp(c.fc, c.size, p)))
  <2> HIDE DEF p, q
  <2>1. p = WriteException(c.fc, code)
    BY ONLY <1>1, <1>4
  <2>2. p \in ShortPdu /\ Return(c, ReadResp(c.fc, c.size, p)).ec = code
    BY ONLY <2>1, c \in Calls, code \in 1 .. 255, ExceptionShown
  <2>3. code # modbus_exception_code.success
    BY ONLY code \in 1 .. 255 DEF modbus_exception_code
  <2> QED
    BY ONLY <2>2, <2>3 DEF Recent
<1>5. ASSUME q.fc = ReadCode
      PROVE  /\ a \in Nat /\ n \in Nat /\ 1 <= n /\ n <= 125 /\ 2 * n = c.size /\ c.size <= 246
  <2>1. c.fc = ReadCode /\ c \in Call /\ Documented(c) /\ c.size \in Nat
    BY <1>1, <1>5, SlaveOfCall
  <2>2. q = read_registers(c)
    BY ONLY <2>1 DEF RequestOf, function_code, q
  <2>3. q.words = <<c.address, u16(c.size \div 2)>>
    BY ONLY <2>2 DEF read_registers, Request
  <2>4. c.size % 2 = 0 /\ 1 <= c.size \div 2 /\ c.size \div 2 <= 125
    BY ONLY <2>1 DEF Documented, function_code
  <2>5. u16(c.size \div 2) = c.size \div 2
    BY ONLY <2>1, <2>4 DEF u16
  <2>6. a = c.address /\ n = c.size \div 2
    BY ONLY <2>3, <2>5
  <2>7. c.address \in Nat
    BY ONLY <2>1 DEF Call, U16
  <2>8. c.size <= 246
    BY ONLY Hypothesis, <2>1, c \in Calls DEF Hypothesis
  <2> QED
    BY ONLY <2>1, <2>4, <2>6, <2>7, <2>8
<1> HIDE DEF p, q, a, n, v
<1>6. CASE q.fc # ReadCode
  <2>1. p = WriteException(q.fc, E.illegal_function)
    BY ONLY <1>2, <1>6
  <2> QED
    BY ONLY <1>3, <1>4, <2>1
<1>7. CASE q.fc = ReadCode /\ a + n > NRegisters
  <2>1. p = WriteException(q.fc, E.illegal_data_address)
    BY ONLY <1>2, <1>5, <1>7
  <2> QED
    BY ONLY <1>3, <1>4, <2>1
<1>8. CASE q.fc = ReadCode /\ ~ (a + n > NRegisters)
  <2>1. p = WriteValues(c.fc, WordBytes(v))
    BY ONLY <1>1, <1>2, <1>5, <1>8
  <2>2. v = [k \in 1 .. n |-> s_holding_registers[a + k - 1]]
    BY ONLY DEF v
  <2>3. ASSUME NEW k \in 1 .. n
        PROVE  /\ s_holding_registers[a + k - 1] \in U16
               /\ s_holding_registers[a + k - 1] = s_holding_registers[0]
    <3>1. a + k - 1 \in D!Addresses
      <4>1. a + k - 1 \in 0 .. NRegisters - 1
        BY ONLY <1>5, <1>8, Sizes, k \in 1 .. n
      <4> QED
        BY ONLY <4>1, FirstRegister
    <3> QED
      BY ONLY Registers, <3>1 DEF Registers
  <2>4. v \in Seq(U16) /\ Len(v) = n /\ \A k \in 1 .. n : v[k] = s_holding_registers[0]
    BY ONLY <1>5, <1>8, <2>2, <2>3
  <2>5. p \in ShortPdu /\ Shown(c, Return(c, ReadResp(c.fc, c.size, p)).out) = v
    <3>1. c.fc = ReadCode /\ 2 * Len(v) = c.size /\ c.size <= 246
      BY ONLY <1>1, <1>5, <1>8, <2>4
    <3> QED
      BY ONLY <2>1, <2>4, <3>1, c \in Calls, ListShown
  <2>6. \A k \in 1 .. Len(v) : v[k] >= asked
    <3>1. s_holding_registers[0] \in Nat /\ asked \in Nat /\ asked <= s_holding_registers[0]
      BY ONLY Registers, FirstRegister DEF Registers, U16
    <3> QED
      BY ONLY <2>4, <3>1
  <2> QED
    BY ONLY <2>5, <2>6, Zenon DEF Recent
<1> QED
  BY ONLY <1>6, <1>7, <1>8

--------------------------------------------------------------------------------
(* The steps.                                                                   *)

\* On a new connection nothing has been asked.
LEMMA InitSystem == SystemInit => SystemInv
<1> SUFFICES ASSUME SystemInit PROVE SystemInv
  OBVIOUS
<1>0. /\ Init /\ asked = 0
      /\ s_holding_registers = [a \in D!Addresses |-> 0] /\ posted = <<>> /\ i = 0
      /\ stage = [c \in {conn} |-> "new"] /\ DOMAIN header = {conn}
      /\ out = [c \in {conn} |-> <<>>] /\ in = [c \in {conn} |-> <<>>]
      /\ gone = [c \in {conn} |-> FALSE] /\ sent = [c \in {conn} |-> <<>>]
  BY DEF SystemInit, D!Init
<1>1. <<>> \in Seq(Byte) /\ <<>> \in Seq(Nat) /\ <<>> \in Seq(Seq(Byte)) /\ 0 \in U16
  BY DEF U16
<1>2. Registers
  <2>1. s_holding_registers[0] = 0
    BY ONLY <1>0, FirstRegister
  <2>2. InTurn(0, <<>>, 0)
    BY ONLY <1>1 DEF InTurn
  <2>3. /\ s_holding_registers \in [D!Addresses -> U16]
        /\ \A a \in D!Addresses : s_holding_registers[a] = s_holding_registers[0]
    BY ONLY <1>0, <1>1, <2>1
  <2>4. i \in 0 .. MaxTicks /\ asked \in Nat /\ asked <= s_holding_registers[0]
    BY ONLY <1>0, <2>1, Sizes
  <2>5. InTurn(s_holding_registers[0], posted, i)
    BY ONLY <1>0, <2>1, <2>2, Zenon
  <2> QED
    BY ONLY <2>3, <2>4, <2>5 DEF Registers
<1>3. Shapes
  BY <1>0, <1>1, StartTidTyped DEF Init, Shapes
<1>4. Exchange
  <2>1. Recent(call, Unanswered)
    BY DEF Recent, Unanswered, no_answer, modbus_exception_code
  <2> QED
    BY <1>0, <2>1 DEF Init, Exchange, Quiet
<1> QED
  BY <1>2, <1>3, <1>4 DEF SystemInv

\* Steps that leave the registers alone.
LEMMA RegistersKept ==
  ASSUME Registers, UNCHANGED <<s_holding_registers, posted, i, asked>>
  PROVE  Registers'
  BY DEF Registers, D!Addresses

\* The request of a call, as a frame.
LEMMA RequestFrame ==
  ASSUME NEW c \in Calls, NEW tid \in U16
  PROVE  LET f == Frame(tid, c.slave, Pdu(c))
         IN  /\ f \in Seq(Byte) /\ Len(f) = header_size + Len(Pdu(c)) /\ f # <<>>
             /\ Header(f) = [transaction_id |-> tid, protocol |-> m_protocol,
                             length |-> Len(Pdu(c)) + 1, unit_id |-> c.slave]
             /\ Drop(f, header_size) = Pdu(c)
<1> DEFINE f == Frame(tid, c.slave, Pdu(c))
<1>1. Pdu(c) \in Seq(Byte) /\ Len(Pdu(c)) < 65535 /\ c.slave \in Byte
  BY RequestCode, SlaveOfCall
<1>2. /\ f \in Seq(Byte) /\ Len(f) = header_size + Len(Pdu(c))
      /\ Header(f) = [transaction_id |-> tid, protocol |-> m_protocol,
                      length |-> Len(Pdu(c)) + 1, unit_id |-> c.slave]
      /\ Drop(f, header_size) = Pdu(c)
  BY ONLY <1>1, tid \in U16, FrameParts
<1> HIDE DEF f
<1>3. f # <<>>
  BY ONLY <1>1, <1>2 DEF header_size
<1> QED
  BY ONLY <1>2, <1>3 DEF f

\* A call: its request is all that the server has to read.
LEMMA AskInv == ASSUME Hypothesis, SystemInv, Ask PROVE SystemInv'
<1>0. Registers /\ Shapes /\ Exchange
  BY DEF SystemInv
<1>1. PICK c \in Calls :
        /\ CallOf(c) /\ asked' = s_holding_registers[0]
        /\ IF open
           THEN D!ClientSends(conn) /\ sent'[conn] = Append(sent[conn], toSlave'[Len(toSlave')].bytes)
           ELSE UNCHANGED server
  BY DEF Ask
<1> DEFINE f == Frame(m_transaction_id, c.slave, Pdu(c))
           E == [n |-> made', call |-> c, bytes |-> f]
<1>2. /\ pc = "idle" /\ pc' = "header" /\ call' = c /\ expected' = m_transaction_id
      /\ m_transaction_id' = NextTid(m_transaction_id)
      /\ toSlave' = (IF open THEN Append(toSlave, E) ELSE toSlave)
      /\ UNCHANGED <<fromSlave, open>>
  BY <1>1 DEF CallOf, Hypothesis, Pdu
<1>3. /\ pc \in {"idle", "header", "body"} /\ open \in BOOLEAN /\ m_transaction_id \in U16
      /\ DOMAIN stage = {conn} /\ DOMAIN header = {conn} /\ DOMAIN gone = {conn}
      /\ in \in [{conn} -> Seq(Byte)]
      /\ out \in [{conn} -> Seq(Seq(Byte))] /\ sent \in [{conn} -> Seq(Seq(Byte))]
  BY ONLY <1>0 DEF Shapes
<1>4. m_transaction_id' \in U16
  BY ONLY <1>2, <1>3, Casts DEF NextTid, U16
<1>5. /\ fromSlave = <<>>
      /\ open => ~ gone[conn] /\ Quiet
      /\ ~ open => Abandoned /\ toSlave = <<>>
  BY ONLY <1>0, <1>2 DEF Exchange, Unserved
<1>6. f \in Seq(Byte)
  BY ONLY <1>3, c \in Calls, RequestFrame
<1>7. /\ UNCHANGED <<s_holding_registers, posted, i, main, listening, stage, header, out, gone>>
      /\ in' \in [{conn} -> Seq(Byte)] /\ sent' \in [{conn} -> Seq(Seq(Byte))]
      /\ open => in'[conn] = in[conn] \o f
  <2>1. CASE open
    <3>1. /\ UNCHANGED <<s_holding_registers, posted, i, main, listening, stage, header, out, gone>>
          /\ \E g \in Requests : /\ in' = [in EXCEPT ![conn] = @ \o g]
                                 /\ sent' = [sent EXCEPT ![conn] = Append(@, g)]
      BY <1>1, <2>1 DEF D!ClientSends, D!data, D!session
    <3>2. PICK g : /\ in' = [in EXCEPT ![conn] = @ \o g] /\ sent' = [sent EXCEPT ![conn] = Append(@, g)]
      BY ONLY <3>1
    <3>3. toSlave' = <<E>>
      BY ONLY <1>2, <1>5, <2>1 DEF Quiet
    <3>4. sent'[conn] = Append(sent[conn], f)
      <4>1. toSlave'[Len(toSlave')].bytes = f
        BY ONLY <3>3
      <4> QED
        BY ONLY <1>1, <2>1, <4>1
    <3>5. sent'[conn] = Append(sent[conn], g) /\ in'[conn] = in[conn] \o g
      BY ONLY <1>3, <3>2
    <3> HIDE DEF f
    <3>6. g = f
      <4>1. sent[conn] \in Seq(Seq(Byte))
        BY ONLY <1>3
      <4>2. Append(sent[conn], g)[Len(sent[conn]) + 1] = g /\ Append(sent[conn], f)[Len(sent[conn]) + 1] = f
        BY ONLY <4>1
      <4> QED
        BY ONLY <3>4, <3>5, <4>2
    <3>7. in' \in [{conn} -> Seq(Byte)] /\ sent' \in [{conn} -> Seq(Seq(Byte))]
      BY ONLY <1>3, <1>6, <3>2, <3>6
    <3> QED
      BY ONLY <3>1, <3>5, <3>6, <3>7
  <2>2. CASE ~ open
    BY ONLY <1>1, <1>3, <2>2 DEF server
  <2> QED
    BY ONLY <2>1, <2>2
<1>8. Registers'
  <2>1. s_holding_registers[0] \in Nat
    BY ONLY <1>0, FirstRegister DEF Registers, U16
  <2> QED
    BY ONLY <1>0, <1>1, <1>7, <2>1 DEF Registers, D!Addresses
<1>9. Shapes'
  BY ONLY <1>2, <1>3, <1>4, <1>7, c \in Calls DEF Shapes
<1>10. Exchange'
  <2>1. CASE open
    <3>1. toSlave' = <<E>> /\ in'[conn] = f
      <4>1. toSlave = <<>> /\ in[conn] = <<>>
        BY ONLY <1>5, <2>1 DEF Quiet
      <4> HIDE DEF f
      <4>2. toSlave' = <<E>>
        BY ONLY <1>2, <2>1, <4>1
      <4>3. in'[conn] = f
        BY ONLY <1>6, <1>7, <2>1, <4>1
      <4> QED
        BY ONLY <4>2, <4>3
    <3>2. stage'[conn] \in {"new", "header"}
      BY ONLY <1>5, <1>7, <2>1 DEF Quiet
    <3>3. Unserved'
      <4>1. /\ f = Frame(expected', call'.slave, Pdu(call'))
            /\ E = [n |-> made', call |-> call', bytes |-> f]
        BY ONLY <1>2
      <4> HIDE DEF f, E
      <4>2. fromSlave' = <<>> /\ pc' = "header"
        BY ONLY <1>2, <1>5
      <4>3. Pdu(call)' = Pdu(call')
        BY ONLY DEF Pdu
      <4> QED
        BY ONLY <3>1, <3>2, <4>1, <4>2, <4>3, Zenon DEF Unserved
    <3> QED
      BY ONLY <1>2, <1>5, <1>7, <2>1, <3>3 DEF Exchange
  <2>2. CASE ~ open
    <3>1. Abandoned'
      BY ONLY <1>5, <1>7, <2>2 DEF Abandoned
    <3> QED
      BY ONLY <1>2, <1>5, <2>2, <3>1 DEF Exchange
  <2> QED
    BY ONLY <2>1, <2>2
<1> QED
  BY ONLY <1>8, <1>9, <1>10 DEF SystemInv

\* Steps of the master leave the server alone.
LEMMA ServerKept ==
  ASSUME UNCHANGED server
  PROVE  /\ UNCHANGED <<s_holding_registers, posted, i, main, listening>>
         /\ UNCHANGED <<stage, header, out, in, gone, sent>>
  BY DEF server

\* The same answer is as apt, the same result as recent.
LEMMA AptKept ==
  ASSUME UNCHANGED <<call, answer, asked>>
  PROVE  /\ \A p : Apt(p)' <=> Apt(p)
         /\ \A c, r : Recent(c, r)' <=> Recent(c, r)
<1>1. \A c, r : Recent(c, r)' <=> Recent(c, r)
  BY Zenon DEF Recent
<1> QED
  BY <1>1, Zenon DEF Apt

\* The header that is read is that of the answer to the current call.
LEMMA ReadHeaderExchange ==
  ASSUME SystemInv, ReadHeader, UNCHANGED <<server, asked>>
  PROVE  Exchange' /\ Shapes'
<1>0. Shapes /\ Exchange
  BY DEF SystemInv
<1>1. /\ pc = "header" /\ Len(fromSlave) >= header_size
      /\ fromSlave' = Drop(fromSlave, header_size)
      /\ length' = Header(fromSlave).length
      /\ UNCHANGED <<call, expected, m_transaction_id, toSlave, open, made, answer>>
  BY DEF ReadHeader
<1>2. fromSlave # <<>>
  BY ONLY <1>1 DEF header_size
<1>3. PICK p : Apt(p) /\ Part(fromSlave, Frame(expected, call.slave, p))
  BY ONLY <1>0, <1>1, <1>2 DEF Exchange
<1>4. call \in Calls /\ expected \in U16 /\ call.slave \in Byte
  BY <1>0, SlaveOfCall DEF Shapes
<1>5. p \in Seq(Byte) /\ 2 <= Len(p) /\ Len(p) <= 248
  BY ONLY <1>3 DEF Apt, ShortPdu
<1>6. /\ Header(fromSlave) = [transaction_id |-> expected, protocol |-> m_protocol,
                              length |-> Len(p) + 1, unit_id |-> call.slave]
      /\ Part(Drop(fromSlave, header_size), p)
  <2>1. Len(p) < 65535
    BY ONLY <1>5
  <2> QED
    BY ONLY <1>1, <1>3, <1>4, <1>5, <2>1, PartOfFrame
<1>7. HeaderError(Header(fromSlave), expected, call.slave) = modbus_exception_code.success
  BY ONLY <1>5, <1>6 DEF HeaderError
<1>8. pc' = "body" /\ ret' = ret
  BY ONLY <1>7, ReadHeader DEF ReadHeader
<1>9. Apt(p)'
  BY ONLY <1>1, <1>3, asked' = asked, AptKept
<1>10. /\ UNCHANGED <<main, listening, stage, header, out, in, gone, sent>>
  BY ServerKept
<1>11. length' = Len(p) + 1 /\ Part(fromSlave', p)
  BY ONLY <1>1, <1>6
<1>12. ~ Unserved /\ (Quiet' <=> Quiet) /\ (Abandoned' <=> Abandoned)
  BY ONLY <1>1, <1>2, <1>10 DEF Unserved, Quiet, Abandoned
<1>13. Shapes'
  BY ONLY <1>0, <1>1, <1>8, <1>10 DEF Shapes
<1>14. Exchange'
  <2>1. \E q : Apt(q)' /\ length' = Len(q) + 1 /\ Part(fromSlave', q)
    BY ONLY <1>9, <1>11
  <2>2. open' => ~ gone'[conn] /\ Quiet'
    BY ONLY <1>0, <1>1, <1>10, <1>12 DEF Exchange
  <2>3. ~ open' => Abandoned' /\ toSlave' = <<>>
    BY ONLY <1>0, <1>1, <1>10, <1>12 DEF Exchange
  <2> QED
    BY ONLY <1>8, <2>1, <2>2, <2>3 DEF Exchange
<1> QED
  BY ONLY <1>13, <1>14

\* The body that is read is the answer to the current call, and nothing is left in the stream.
LEMMA ReadBodyExchange ==
  ASSUME SystemInv, ReadBody, UNCHANGED <<server, asked>>
  PROVE  Exchange' /\ Shapes'
<1>0. Shapes /\ Exchange
  BY DEF SystemInv
<1>1. /\ pc = "body" /\ pc' = "idle" /\ Len(fromSlave) >= length - 1
      /\ fromSlave' = Drop(fromSlave, length - 1)
      /\ ret' = Return(call, ReadResp(call.fc, call.size, Take(fromSlave, length - 1)))
      /\ UNCHANGED <<call, expected, m_transaction_id, toSlave, open, answer>>
  BY DEF ReadBody, Returns, stream
<1>2. PICK p : Apt(p) /\ length = Len(p) + 1 /\ Part(fromSlave, p)
  BY ONLY <1>0, <1>1 DEF Exchange
<1>3. p \in Seq(Byte) /\ length - 1 = Len(p)
  BY ONLY <1>2 DEF Apt, ShortPdu
<1>4. Take(fromSlave, Len(p)) = p /\ Drop(fromSlave, Len(p)) = <<>>
  BY ONLY <1>1, <1>2, <1>3, PartIsWhole
<1>5. fromSlave' = <<>> /\ ret' = answer
  BY ONLY <1>1, <1>2, <1>3, <1>4 DEF Apt
<1>6. Recent(call, answer)'
  <2>1. Recent(call, answer)
    BY ONLY <1>2 DEF Apt
  <2> QED
    BY ONLY <1>1, <2>1, asked' = asked DEF Recent
<1>7. Recent(call, ret)'
  <2>1. ret' = answer'
    BY ONLY <1>1, <1>5
  <2> QED
    BY ONLY <1>6, <2>1 DEF Recent
<1>8. /\ UNCHANGED <<main, listening, stage, header, out, in, gone, sent>>
  BY ServerKept
<1>9. ~ Unserved /\ (Quiet' <=> Quiet) /\ (Abandoned' <=> Abandoned)
  BY ONLY <1>1, <1>8 DEF Unserved, Quiet, Abandoned
<1>10. Shapes'
  BY ONLY <1>0, <1>1, <1>8 DEF Shapes
<1>11. Exchange'
  BY ONLY <1>0, <1>1, <1>5, <1>7, <1>8, <1>9 DEF Exchange
<1> QED
  BY ONLY <1>10, <1>11

\* An exception ends the call; what was left of the answer is gone.
LEMMA ThrowsExchange ==
  ASSUME SystemInv, ReadThrows \/ \E c \in Calls : CallThrows(c), UNCHANGED <<server, asked>>
  PROVE  Exchange' /\ Shapes'
<1>0. Shapes /\ Exchange
  BY DEF SystemInv
<1>1. /\ ~ open /\ pc' = "idle" /\ ret' = Failed /\ call' \in Calls
      /\ UNCHANGED <<expected, m_transaction_id, toSlave, open>>
      /\ fromSlave' = <<>>
  <2>1. CASE ReadThrows
    BY <1>0, <2>1 DEF ReadThrows, Returns, stream, Shapes
  <2>2. CASE \E c \in Calls : CallThrows(c)
    BY <1>0, <2>2 DEF CallThrows, Returns, stream, Exchange
  <2> QED
    BY <2>1, <2>2
<1>2. /\ UNCHANGED <<main, listening, stage, header, out, in, gone, sent>>
  BY ServerKept
<1>3. Abandoned' <=> Abandoned
  BY ONLY <1>2 DEF Abandoned
<1>4. Shapes'
  BY ONLY <1>0, <1>1, <1>2 DEF Shapes
<1>5. Exchange'
  BY ONLY <1>0, <1>1, <1>3 DEF Exchange, Failed
<1> QED
  BY ONLY <1>4, <1>5

\* Only a session that was accepted, of a program that runs, takes a step, and only while the
\* connection is up: what it reads is the request of the current call.
LEMMA ServingUnserved ==
  ASSUME SystemInv, D!Serving(conn)
  PROVE  /\ open /\ ~ gone[conn] /\ Unserved
         /\ D!ParseHeader(conn) \/ D!ParseBody(conn)
<1>0. Shapes /\ Exchange
  BY DEF SystemInv
<1>1. main = "run" /\ stage[conn] \in {"header", "body"}
  BY DEF D!Serving, D!ParseHeader, D!ParseBody, D!ReadFails
<1>2. open /\ ~ gone[conn] /\ (Quiet \/ Unserved)
  BY ONLY <1>0, <1>1 DEF Shapes, Exchange, Abandoned
<1>3. D!ParseHeader(conn) \/ D!ParseBody(conn)
  BY <1>2 DEF D!Serving, D!ReadFails
<1>4. ~ Quiet
  <2>1. ASSUME Quiet PROVE FALSE
    <3>1. stage[conn] = "header" /\ in[conn] = <<>> /\ Len(in[conn]) = 0
      BY ONLY <1>1, <2>1 DEF Quiet
    <3>2. D!ParseHeader(conn)
      BY <1>3, <3>1 DEF D!ParseBody
    <3>3. Len(in[conn]) >= 7
      BY <3>2 DEF D!ParseHeader, D!header_size
    <3> QED
      BY ONLY <3>1, <3>3
  <2> QED
    BY <2>1
<1> QED
  BY ONLY <1>2, <1>3, <1>4

\* The session reads the header, and waits for the body.
LEMMA ParseHeaderInv == ASSUME SystemInv, Serves, D!ParseHeader(conn) PROVE SystemInv'
<1> DEFINE f == Frame(expected, call.slave, Pdu(call))
<1>0. Registers /\ Shapes /\ Exchange
  BY DEF SystemInv
<1>1. open /\ ~ gone[conn] /\ Unserved
  BY ServingUnserved DEF Serves
<1>2. stage[conn] = "header" /\ in[conn] = f /\ fromSlave = <<>> /\ pc = "header"
  BY <1>1 DEF D!ParseHeader, Unserved
<1>3. /\ DOMAIN stage = {conn} /\ DOMAIN header = {conn} /\ in \in [{conn} -> Seq(Byte)]
      /\ call \in Calls /\ expected \in U16 /\ out[conn] \in Seq(Seq(Byte))
  BY ONLY <1>0 DEF Shapes
<1>4. /\ Header(f) = [transaction_id |-> expected, protocol |-> m_protocol,
                      length |-> Len(Pdu(call)) + 1, unit_id |-> call.slave]
      /\ Drop(f, header_size) = Pdu(call)
  BY ONLY <1>3, RequestFrame
<1>5. Pdu(call) \in Seq(Byte) /\ 1 <= Len(Pdu(call))
  BY ONLY <1>3, RequestCode
<1> HIDE DEF f
<1>6. D!Header(in[conn]) = Header(f) /\ D!Drop(in[conn], D!header_size) = Pdu(call)
  BY ONLY <1>2, <1>4, SameCodec
<1>7. /\ in' = [in EXCEPT ![conn] = D!Drop(@, D!header_size)]
      /\ header' = [header EXCEPT ![conn] = D!Header(in[conn])]
      /\ UNCHANGED <<s_holding_registers, posted, i, main, listening, gone, sent>>
  BY DEF D!ParseHeader, D!data
<1>8. in'[conn] = Pdu(call) /\ header'[conn] = Header(f) /\ DOMAIN header' = {conn}
  BY ONLY <1>3, <1>6, <1>7
<1>9. in' \in [{conn} -> Seq(Byte)]
  BY ONLY <1>3, <1>5, <1>6, <1>7
<1>10. ~ D!Refused(header'[conn].length)
  <2>1. header'[conn].length = Len(Pdu(call)) + 1
    BY ONLY <1>4, <1>8
  <2>2. 2 <= header'[conn].length
    BY ONLY <1>5, <2>1
  <2> QED
    BY ONLY <2>2 DEF D!Refused
<1>11. stage' = [stage EXCEPT ![conn] = "body"] /\ out' = out
  BY ONLY <1>10, D!ParseHeader(conn) DEF D!ParseHeader
<1>12. stage'[conn] = "body" /\ DOMAIN stage' = {conn}
  BY ONLY <1>3, <1>11
<1>13. /\ UNCHANGED <<fromSlave, toSlave, answer>>
       /\ UNCHANGED <<pc, call, expected, m_transaction_id, length, open, ret, made, asked>>
  <2>1. ~ (Len(out'[conn]) > Len(out[conn]))
    BY ONLY <1>3, <1>11
  <2> QED
    BY ONLY <2>1, Serves DEF Serves, stream
<1>14. Registers'
  BY ONLY <1>0, <1>7, <1>13, RegistersKept
<1>15. Shapes'
  BY ONLY <1>0, <1>7, <1>8, <1>9, <1>11, <1>12, <1>13 DEF Shapes
<1>16. Unserved'
  <2>1. f = Frame(expected', call'.slave, Pdu(call'))
    BY ONLY <1>13 DEF f
  <2>2. Pdu(call)' = Pdu(call')
    BY ONLY DEF Pdu
  <2>3. /\ pc' = "header" /\ fromSlave' = <<>>
        /\ toSlave' = <<[n |-> made', call |-> call', bytes |-> f]>>
    BY ONLY <1>1, <1>2, <1>13 DEF Unserved, f
  <2>4. in'[conn] = Pdu(call')
    BY ONLY <1>8, <1>13
  <2> QED
    BY ONLY <1>8, <1>12, <2>1, <2>2, <2>3, <2>4, Zenon DEF Unserved
<1>17. Exchange'
  BY ONLY <1>1, <1>2, <1>7, <1>13, <1>16 DEF Exchange
<1> QED
  BY ONLY <1>14, <1>15, <1>17 DEF SystemInv

\* The session reads the body, and answers.
LEMMA ParseBodyInv == ASSUME Hypothesis, SystemInv, Serves, D!ParseBody(conn) PROVE SystemInv'
<1> DEFINE f == Frame(expected, call.slave, Pdu(call))
           p == D!reqest_handler(RequestOf(call))
           w == Frame(expected, call.slave, p)
           n == Len(Pdu(call))
           e == Head(toSlave)
<1>0. Registers /\ Shapes /\ Exchange
  BY DEF SystemInv
<1>1. open /\ ~ gone[conn] /\ Unserved
  BY ServingUnserved DEF Serves
<1>2. /\ stage[conn] = "body" /\ in[conn] = Pdu(call) /\ header[conn] = Header(f)
      /\ fromSlave = <<>> /\ pc = "header"
      /\ toSlave = <<[n |-> made, call |-> call, bytes |-> f]>>
  BY <1>1 DEF D!ParseBody, Unserved
<1>3. /\ DOMAIN stage = {conn} /\ DOMAIN header = {conn} /\ in \in [{conn} -> Seq(Byte)]
      /\ call \in Calls /\ expected \in U16 /\ out \in [{conn} -> Seq(Seq(Byte))]
      /\ out[conn] \in Seq(Seq(Byte))
  BY ONLY <1>0 DEF Shapes
<1>4. /\ header[conn].transaction_id = expected /\ header[conn].unit_id = call.slave
      /\ header[conn].length = n + 1
  <2>1. Header(f) = [transaction_id |-> expected, protocol |-> m_protocol,
                     length |-> n + 1, unit_id |-> call.slave]
    BY ONLY <1>3, RequestFrame
  <2> HIDE DEF f, n
  <2> QED
    BY ONLY <1>2, <2>1
<1>5. /\ Pdu(call) \in Seq(Byte) /\ n \in Nat
      /\ ReadReq(Pdu(call)).ec = modbus_exception_code.success
      /\ ReadReq(Pdu(call)).req = RequestOf(call)
  BY ONLY <1>3, RequestCode
<1>6. p \in ShortPdu /\ Recent(call, Return(call, ReadResp(call.fc, call.size, p)))
  BY ONLY Hypothesis, <1>0, <1>3, HandlerAnswers
<1>7. call.slave \in Byte /\ call.slave # 0
  BY <1>3, SlaveOfCall DEF Hypothesis
<1> HIDE DEF f, p, n
<1>8. p \in Seq(Byte) /\ Len(p) < 65535
  BY ONLY <1>6 DEF ShortPdu
<1>9. w \in Seq(Byte) /\ Drop(w, header_size) = p
  BY ONLY <1>3, <1>7, <1>8, FrameParts
<1>10. header[conn].length - 1 = n
  BY ONLY <1>4, <1>5
<1>11. /\ D!Take(in[conn], header[conn].length - 1) = Pdu(call)
       /\ D!Drop(in[conn], header[conn].length - 1) = <<>>
  <2>1. Take(Pdu(call), n) = Pdu(call) /\ Drop(Pdu(call), n) = <<>>
    BY ONLY <1>5 DEF Take, Drop, n
  <2> QED
    BY ONLY <1>2, <1>10, <2>1, SameCodec
<1> DEFINE r == D!ReadReq(D!Take(in[conn], header[conn].length - 1))
<1>12. r.ec = D!modbus_exception_code.success /\ r.req = RequestOf(call)
  BY ONLY <1>5, <1>11, SameCodec
<1>13. /\ in' = [in EXCEPT ![conn] = D!Drop(@, header[conn].length - 1)]
       /\ UNCHANGED <<s_holding_registers, posted, i, main, listening, header, gone, sent>>
  BY DEF D!ParseBody, D!data
<1>14. /\ stage' = [stage EXCEPT ![conn] = "header"]
       /\ D!write_response(conn, header[conn], D!reqest_handler(r.req))
  BY ONLY <1>12, D!ParseBody(conn) DEF D!ParseBody
<1>15. out' = [out EXCEPT ![conn] = Append(@, w)]
  <2>1. out' = [out EXCEPT ![conn] = Append(@, D!Frame(header[conn].transaction_id,
                                                      header[conn].unit_id, D!reqest_handler(r.req)))]
    BY ONLY <1>14 DEF D!write_response
  <2>2. D!Frame(header[conn].transaction_id, header[conn].unit_id, D!reqest_handler(r.req)) = w
    <3>1. D!reqest_handler(r.req) = p
      BY ONLY <1>12, Zenon DEF p
    <3>2. D!Frame(expected, call.slave, p) = w
      BY ONLY SameCodec
    <3> HIDE DEF r, w
    <3> QED
      BY ONLY <1>4, <3>1, <3>2, Zenon
  <2> HIDE DEF r, w
  <2> QED
    BY ONLY <2>1, <2>2
<1> HIDE DEF w, r
<1>16. in'[conn] = <<>> /\ in' \in [{conn} -> Seq(Byte)]
  <2>1. <<>> \in Seq(Byte)
    OBVIOUS
  <2> QED
    BY ONLY <1>3, <1>11, <1>13, <2>1
<1>17. stage'[conn] = "header" /\ DOMAIN stage' = {conn}
  BY ONLY <1>3, <1>14
<1>18. /\ out' \in [{conn} -> Seq(Seq(Byte))] /\ Len(out'[conn]) > Len(out[conn])
       /\ out'[conn][Len(out'[conn])] = w
  <2>1. out'[conn] = Append(out[conn], w)
    BY ONLY <1>3, <1>15
  <2>2. out' \in [{conn} -> Seq(Seq(Byte))]
    BY ONLY <1>3, <1>9, <1>15
  <2> QED
    BY ONLY <1>3, <1>9, <2>1, <2>2
<1>19. /\ fromSlave' = fromSlave \o w /\ toSlave' = Tail(toSlave)
       /\ Note(e, Return(e.call, ReadResp(e.call.fc, e.call.size, Drop(w, header_size))))
       /\ UNCHANGED <<pc, call, expected, m_transaction_id, length, open, ret, made, asked>>
  BY ONLY <1>1, <1>18, Serves DEF Serves, stream
<1>20. e.call = call /\ e.n = made /\ toSlave' = <<>>
  BY ONLY <1>2, <1>19
<1> HIDE DEF e
<1>21. answer' = Return(call, ReadResp(call.fc, call.size, p))
  BY ONLY <1>7, <1>9, <1>19, <1>20 DEF Note
<1>22. fromSlave' = w
  BY ONLY <1>2, <1>9, <1>19
<1>23. Registers'
  BY ONLY <1>0, <1>13, <1>19, RegistersKept
<1>24. Shapes'
  BY ONLY <1>0, <1>13, <1>16, <1>17, <1>18, <1>19 DEF Shapes
<1>25. Exchange'
  <2>1. Quiet'
    BY ONLY <1>16, <1>17, <1>20 DEF Quiet
  <2>2. Recent(call, answer)'
    BY ONLY <1>6, <1>19, <1>21 DEF Recent
  <2>3. PICK q : q = p
    OBVIOUS
  <2>4. Apt(q)'
    <3>1. Return(call', ReadResp(call'.fc, call'.size, q)) = answer' /\ q \in ShortPdu
      BY ONLY <1>6, <1>19, <1>21, <2>3
    <3> QED
      BY ONLY <2>2, <3>1, Zenon DEF Apt
  <2>5. Part(fromSlave', Frame(expected', call'.slave, q))
    <3>1. Part(w, w)
      BY ONLY <1>9, WholeIsPart
    <3>2. w = Frame(expected', call'.slave, q)
      BY ONLY <1>19, <2>3 DEF w
    <3> QED
      BY ONLY <1>22, <3>1, <3>2
  <2> QED
    BY ONLY <1>1, <1>2, <1>13, <1>19, <2>1, <2>4, <2>5 DEF Exchange
<1> QED
  BY ONLY <1>23, <1>24, <1>25 DEF SystemInv

\* A round of the second thread, or a handler that it posted: the registers move on, all of them.
LEMMA UpdateInv ==
  ASSUME Registers, asked' = asked, D!Tick \/ D!RunPosted
  PROVE  Registers' /\ UNCHANGED <<main, listening, stage, header, out, in, gone, sent>>
<1> DEFINE x == s_holding_registers[0]
           v == Head(posted)
<1>1. /\ s_holding_registers \in [D!Addresses -> U16]
      /\ \A a \in D!Addresses : s_holding_registers[a] = s_holding_registers[0]
      /\ i \in 0 .. MaxTicks /\ InTurn(x, posted, i)
      /\ asked \in Nat /\ asked <= x
  BY DEF Registers
<1>2. UNCHANGED <<main, listening, stage, header, out, in, gone, sent>>
  BY DEF D!Tick, D!RunPosted, D!session, D!client
<1> HIDE DEF x
<1>3. ASSUME D!Tick PROVE Registers'
  <2>1. /\ i < MaxTicks /\ i' = i + 1 /\ posted' = Append(posted, i)
        /\ s_holding_registers' = s_holding_registers
    BY <1>3 DEF D!Tick
  <2>2. i' \in 0 .. MaxTicks
    BY ONLY <1>1, <2>1, Sizes
  <2>3. InTurn(x, posted', i')
    BY ONLY <1>1, <2>1, TurnPosted
  <2> QED
    BY ONLY <1>1, <2>1, <2>2, <2>3, asked' = asked DEF Registers, D!Addresses, x
<1>4. ASSUME D!RunPosted PROVE Registers'
  <2>1. /\ posted # <<>> /\ posted' = Tail(posted) /\ i' = i
        /\ s_holding_registers' = [a \in D!Addresses |-> D!u16(v)]
    BY <1>4 DEF D!RunPosted
  <2>2. v \in Nat /\ x <= v /\ v < i /\ InTurn(v, posted', i)
    BY ONLY <1>1, <2>1, TurnRun
  <2> HIDE DEF v
  <2>3. D!u16(v) = v /\ v \in U16
    <3>1. v < 65536
      BY ONLY <1>1, <2>2, ServerSizes
    <3> QED
      BY ONLY <2>2, <3>1, Casts, SameCodec
  <2>4. s_holding_registers' = [a \in D!Addresses |-> v]
    BY ONLY <2>1, <2>3
  <2>5. s_holding_registers'[0] = v
    BY ONLY <2>4, FirstRegister
  <2>6. /\ s_holding_registers' \in [D!Addresses -> U16]
        /\ \A a \in D!Addresses : s_holding_registers'[a] = s_holding_registers'[0]
    BY ONLY <2>3, <2>4, <2>5
  <2>7. asked <= v
    <3>1. x \in Nat
      BY ONLY <1>1 DEF InTurn
    <3> QED
      BY ONLY <1>1, <2>2, <3>1
  <2> QED
    BY ONLY <1>1, <2>1, <2>2, <2>5, <2>6, <2>7, asked' = asked DEF Registers, D!Addresses
<1> QED
  BY <1>2, <1>3, <1>4

\* The same session, and the same bytes on their way.
LEMMA ExchangeKept ==
  ASSUME Shapes, Exchange, UNCHANGED <<vars, asked, stage, header, out, in, gone, sent>>,
         Abandoned => Abandoned'
  PROVE  Shapes' /\ Exchange'
<1>1. UNCHANGED <<pc, call, expected, m_transaction_id, length, toSlave, fromSlave, open, ret, made, answer>>
  BY DEF vars, stream
<1>2. Shapes'
  BY ONLY Shapes, <1>1, UNCHANGED <<stage, header, out, in, gone, sent>> DEF Shapes
<1>3. \A p : Apt(p)' <=> Apt(p)
  BY ONLY <1>1, asked' = asked, AptKept
<1>4. Recent(call, ret)' <=> Recent(call, ret)
  BY ONLY <1>1, asked' = asked DEF Recent
<1>5. (Quiet' <=> Quiet) /\ (Unserved' <=> Unserved)
  BY ONLY <1>1, UNCHANGED <<stage, header, in>> DEF Quiet, Unserved, Pdu
<1>6. \A p : /\ Part(fromSlave', Frame(expected', call'.slave, p)) <=> Part(fromSlave, Frame(expected, call.slave, p))
             /\ Part(fromSlave', p) <=> Part(fromSlave, p)
  BY ONLY <1>1
<1>7. Exchange'
  BY ONLY Exchange, Abandoned => Abandoned', gone' = gone, <1>1, <1>3, <1>4, <1>5, <1>6, Zenon
     DEF Exchange
<1> QED
  BY ONLY <1>2, <1>7

\* The server's other work, and its end.
LEMMA WorksInv == ASSUME SystemInv, Works \/ Stops PROVE SystemInv'
<1>0. Registers /\ Shapes /\ Exchange /\ UNCHANGED <<vars, asked>>
  BY DEF SystemInv, Works, Stops
<1>1. CASE D!Tick \/ D!RunPosted
  <2>1. Registers' /\ UNCHANGED <<main, listening, stage, header, out, in, gone, sent>>
    BY ONLY <1>0, <1>1, UpdateInv
  <2>2. Abandoned => Abandoned'
    BY ONLY <2>1 DEF Abandoned
  <2> QED
    BY ONLY <1>0, <2>1, <2>2, ExchangeKept DEF SystemInv
<1>2. CASE D!Join \/ D!Signal \/ D!AcceptFails
  <2>1. /\ UNCHANGED <<s_holding_registers, posted, i, stage, header, out, in, gone, sent>>
        /\ main' = "ended" \/ (main = "run" /\ (listening' = listening \/ ~ listening'))
    BY <1>2 DEF D!Join, D!Signal, D!AcceptFails, D!data, D!session, D!client
  <2>2. Abandoned => Abandoned'
    BY ONLY <2>1 DEF Abandoned
  <2>3. Registers'
    BY ONLY <1>0, <2>1, RegistersKept
  <2> QED
    BY ONLY <1>0, <2>1, <2>2, <2>3, ExchangeKept DEF SystemInv
<1>3. CASE D!Accept(conn)
  <2>1. /\ UNCHANGED <<s_holding_registers, posted, i, main, listening, header, out, in, gone, sent>>
        /\ main = "run" /\ listening /\ stage[conn] = "new"
        /\ stage' = [stage EXCEPT ![conn] = "header"]
    BY <1>3 DEF D!Accept, D!data, D!client
  <2>2. open /\ ~ Abandoned
    BY ONLY <1>0, <2>1 DEF Shapes, Exchange, Abandoned
  <2>3. stage'[conn] = "header" /\ DOMAIN stage' = {conn}
    BY ONLY <1>0, <2>1 DEF Shapes
  <2>4. UNCHANGED <<pc, call, expected, m_transaction_id, length, toSlave, fromSlave, open, ret, made, answer>>
    BY ONLY <1>0 DEF vars, stream
  <2>5. Registers'
    BY ONLY <1>0, <2>1, RegistersKept
  <2>6. Shapes'
    BY ONLY <1>0, <2>1, <2>3, <2>4 DEF Shapes
  <2>7. (Quiet => Quiet') /\ (Unserved => Unserved')
    <3>1. Quiet => Quiet'
      BY ONLY <2>1, <2>3, <2>4 DEF Quiet
    <3>2. ASSUME Unserved PROVE Unserved'
      <4> DEFINE f == Frame(expected, call.slave, Pdu(call))
      <4>1. in[conn] = f /\ pc = "header" /\ fromSlave = <<>>
            /\ toSlave = <<[n |-> made, call |-> call, bytes |-> f]>>
        BY ONLY <2>1, <3>2 DEF Unserved
      <4>2. Pdu(call)' = Pdu(call)
        BY ONLY <2>4 DEF Pdu
      <4>3. f = Frame(expected', call'.slave, Pdu(call)')
        BY ONLY <2>4, <4>2
      <4> HIDE DEF f
      <4>4. /\ in'[conn] = f /\ pc' = "header" /\ fromSlave' = <<>>
            /\ toSlave' = <<[n |-> made', call |-> call', bytes |-> f]>>
        BY ONLY <2>1, <2>4, <4>1
      <4> QED
        BY ONLY <2>3, <4>3, <4>4 DEF Unserved
    <3> QED
      BY <3>1, <3>2
  <2>8. \A p : Apt(p)' <=> Apt(p)
    BY ONLY <1>0, <2>4, AptKept
  <2>9. Recent(call, ret)' <=> Recent(call, ret)
    BY ONLY <1>0, <2>4 DEF Recent
  <2>10. \A p : /\ Part(fromSlave', Frame(expected', call'.slave, p)) <=> Part(fromSlave, Frame(expected, call.slave, p))
                /\ Part(fromSlave', p) <=> Part(fromSlave, p)
    BY ONLY <2>4
  <2>11. Exchange'
    BY ONLY <1>0, <2>1, <2>2, <2>4, <2>7, <2>8, <2>9, <2>10, Zenon DEF Exchange
  <2> QED
    BY ONLY <2>5, <2>6, <2>11 DEF SystemInv
<1> QED
  BY <1>1, <1>2, <1>3 DEF Works, Stops

\* The connection is lost, and with it any end of the answer.
LEMMA DisconnectsInv == ASSUME SystemInv, Disconnects PROVE SystemInv'
<1>0. Registers /\ Shapes /\ Exchange
  BY DEF SystemInv
<1>1. /\ Abandoned /\ open /\ open' = FALSE /\ toSlave' = <<>>
      /\ \E n \in 0 .. Len(fromSlave) : fromSlave' = Take(fromSlave, n)
      /\ UNCHANGED <<pc, call, expected, m_transaction_id, length, ret, made, answer, asked>>
  BY DEF Disconnects, PeerCloses, stream
<1>2. /\ UNCHANGED <<s_holding_registers, posted, i, main, listening, stage, header, out, sent>>
      /\ gone' = [gone EXCEPT ![conn] = TRUE]
      /\ \E n \in {0, 1} : n <= Len(in[conn]) /\ in' = [in EXCEPT ![conn] = D!Take(@, Len(@) - n)]
  BY DEF Disconnects, D!ClientCloses, D!data, D!session
<1>3. in' \in [{conn} -> Seq(Byte)] /\ DOMAIN gone' = {conn}
  <2>1. in \in [{conn} -> Seq(Byte)] /\ in[conn] \in Seq(Byte) /\ DOMAIN gone = {conn}
    BY ONLY <1>0 DEF Shapes
  <2>2. PICK n \in {0, 1} : n <= Len(in[conn]) /\ in' = [in EXCEPT ![conn] = D!Take(@, Len(@) - n)]
    BY ONLY <1>2
  <2>3. D!Take(in[conn], Len(in[conn]) - n) \in Seq(Byte)
    <3>1. SubSeq(in[conn], 1, Len(in[conn]) - n) \in Seq(Byte)
      BY ONLY <2>1, <2>2
    <3> QED
      BY ONLY <3>1 DEF D!Take
  <2> QED
    BY ONLY <1>2, <2>1, <2>2, <2>3
<1>4. Registers'
  BY ONLY <1>0, <1>1, <1>2, RegistersKept
<1>5. Shapes'
  BY ONLY <1>0, <1>1, <1>2, <1>3 DEF Shapes
<1>6. Abandoned'
  BY ONLY <1>1, <1>2 DEF Abandoned
<1>7. PICK n \in 0 .. Len(fromSlave) : fromSlave' = Take(fromSlave, n)
  BY ONLY <1>1
<1>8. \A p : Apt(p)' <=> Apt(p)
  BY ONLY <1>1, AptKept
<1>9. Recent(call, ret)' <=> Recent(call, ret)
  BY ONLY <1>1 DEF Recent
<1>10. ASSUME NEW p \in Seq(Byte), Part(fromSlave, p)
       PROVE  Part(fromSlave', p)
  BY ONLY <1>7, <1>10, PartOfPart
<1>11. ASSUME pc = "idle" PROVE fromSlave' = <<>>
  <2>1. fromSlave = <<>>
    BY ONLY <1>0, <1>11 DEF Exchange
  <2> QED
    BY ONLY <1>7, <2>1 DEF Take
<1>12. ASSUME pc = "header", fromSlave' # <<>>
       PROVE  \E p : Apt(p)' /\ Part(fromSlave', Frame(expected', call'.slave, p))
  <2>1. fromSlave # <<>>
    BY ONLY <1>7, <1>12 DEF Take
  <2>2. PICK p : Apt(p) /\ Part(fromSlave, Frame(expected, call.slave, p))
    BY ONLY <1>0, <1>12, <2>1 DEF Exchange
  <2>3. Frame(expected, call.slave, p) \in Seq(Byte)
    <3>1. call.slave \in Byte /\ expected \in U16
      BY <1>0, SlaveOfCall DEF Shapes
    <3>2. p \in Seq(Byte) /\ Len(p) < 65535
      BY ONLY <2>2 DEF Apt, ShortPdu
    <3> QED
      BY ONLY <3>1, <3>2, FrameParts
  <2>4. Part(fromSlave', Frame(expected, call.slave, p))
    BY ONLY <1>10, <2>2, <2>3
  <2> QED
    BY ONLY <1>1, <1>8, <2>2, <2>4
<1>13. ASSUME pc = "body"
       PROVE  \E p : Apt(p)' /\ length' = Len(p) + 1 /\ Part(fromSlave', p)
  <2>1. PICK p : Apt(p) /\ length = Len(p) + 1 /\ Part(fromSlave, p)
    BY ONLY <1>0, <1>13 DEF Exchange
  <2>2. p \in Seq(Byte)
    BY ONLY <2>1 DEF Apt, ShortPdu
  <2> QED
    BY ONLY <1>1, <1>8, <1>10, <2>1, <2>2
<1>14. Exchange'
  BY ONLY <1>0, <1>1, <1>6, <1>9, <1>11, <1>12, <1>13, Zenon DEF Exchange
<1> QED
  BY ONLY <1>4, <1>5, <1>14 DEF SystemInv

\* Every step.
LEMMA NextSystem ==
  ASSUME Hypothesis
  PROVE  SystemInv /\ [SystemNext]_systemVars => SystemInv'
<1> SUFFICES ASSUME SystemInv, [SystemNext]_systemVars PROVE SystemInv'
  OBVIOUS
<1>1. CASE Ask
  BY <1>1, AskInv
<1>2. CASE Read \/ CallFails
  <2>1. UNCHANGED <<server, asked>> /\ Registers
    BY <1>2 DEF Read, CallFails, SystemInv
  <2>2. Registers'
    BY ONLY <2>1, ServerKept, RegistersKept
  <2>3. ReadHeader \/ ReadBody \/ (ReadThrows \/ \E c \in Calls : CallThrows(c))
    BY <1>2 DEF Read, CallFails
  <2>4. Exchange' /\ Shapes'
    BY ONLY SystemInv, <2>1, <2>3, ReadHeaderExchange, ReadBodyExchange, ThrowsExchange
  <2> QED
    BY ONLY <2>2, <2>4 DEF SystemInv
<1>3. CASE Serves
  <2>1. D!ParseHeader(conn) \/ D!ParseBody(conn)
    BY <1>3, ServingUnserved DEF Serves
  <2> QED
    BY <1>3, <2>1, ParseHeaderInv, ParseBodyInv
<1>4. CASE Works \/ Stops
  BY <1>4, WorksInv
<1>5. CASE Disconnects
  BY <1>5, DisconnectsInv
<1>6. CASE UNCHANGED systemVars
  <2>1. UNCHANGED <<vars, asked, server>>
    BY <1>6 DEF systemVars
  <2>2. /\ UNCHANGED <<s_holding_registers, posted, i, main, listening>>
        /\ UNCHANGED <<stage, header, out, in, gone, sent>>
    BY ONLY <2>1, ServerKept
  <2>3. Abandoned => Abandoned'
    BY ONLY <2>2 DEF Abandoned
  <2>4. Registers'
    BY <2>1, <2>2, RegistersKept DEF SystemInv
  <2> QED
    BY <2>1, <2>2, <2>3, <2>4, ExchangeKept DEF SystemInv
<1> QED
  BY <1>1, <1>2, <1>3, <1>4, <1>5, <1>6 DEF SystemNext

\* Of a master and a server that exchange no broadcasts: whatever the second thread, the session
\* and the connection do between a call and its return, and however many calls were made before,
\* a read that reports success shows the registers as they were when it was made, or later.
THEOREM FreshTheorem ==
  ASSUME Hypothesis
  PROVE  SystemSpec => []Fresh
<1>1. SystemInv => Fresh
  BY DEF SystemInv, Exchange, Fresh, Recent, Shown, asio_error, modbus_exception_code
<1>2. SystemInv /\ [SystemNext]_systemVars => SystemInv'
  BY NextSystem
<1> QED
  BY <1>1, <1>2, InitSystem, PTL DEF SystemSpec

\* The same master and server: a call that comes back without a connection error returns what the
\* server answered to its own request, errors included.
THEOREM SystemHonestTheorem ==
  ASSUME Hypothesis
  PROVE  SystemSpec => []Honest
<1>1. SystemInv => Honest
  BY DEF SystemInv, Exchange, Honest
<1>2. SystemInv /\ [SystemNext]_systemVars => SystemInv'
  BY NextSystem
<1> QED
  BY <1>1, <1>2, InitSystem, PTL DEF SystemSpec
================================================================================
