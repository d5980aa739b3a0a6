---------------------------- MODULE RtuMasterProofs ----------------------------
(* For every device, every set of documented calls and any number of them:      *)
(* TypeOK of RtuMaster on every line; NoFalseSuccess without noise; Drained and *)
(* WithinBuffer where it is prompt as well, and requests may be lost; Honest    *)
(* and the refinement of ModbusMemory where besides none is, and the device has *)
(* what the calls name.                                                         *)
EXTENDS RtuMaster, WireLemmas

\* No reply comes later than the timeout that waits for it, and no bit flips.
PromptLine == Faults \subseteq {"unsent"}

Bytes(c) == RtuFrame(c.slave, WriteReq(RequestOf(c)))

\* A frame on its way to the device is the frame of the call it is filed under.
Entry(e) == e.call \in Calls /\ e.bytes = Bytes(e.call)

\* The request that the application waits for is the last one on its way to the device, the only
\* one that will be answered, and until then nothing comes from the device.
Waiting ==
  /\ \A k \in 1 .. Len(toSlave) :
       toSlave[k].call.slave # 0 => pc = "first" /\ k = Len(toSlave) /\ toSlave[k].call = call
                                    /\ line = <<>>
  /\ pc = "first" /\ line # <<>> => Head(line) = call.slave

Sizes ==
  /\ Len(source) <= 255
  /\ pc = "first" => Len(line) <= 255
  /\ pc = "more" => Len(source) + Len(line) <= 255

Typed ==
  /\ pc \in {"idle", "first", "more"} /\ call \in Calls /\ mem \in Memory
  /\ line \in Seq(Byte) /\ source \in Seq(Byte)
  /\ toSlave \in Seq([n : Nat, call : Calls, bytes : Seq(Byte)])
  /\ \A k \in 1 .. Len(toSlave) : Entry(toSlave[k])
  /\ made \in Nat

Inv == Typed /\ Drained /\ Waiting /\ Sizes

\* Where the elements of the first part of a frame are.
LEMMA ConcatFirst ==
  ASSUME NEW S, NEW s \in Seq(S), NEW r \in Seq(S)
  PROVE  /\ s \o r \in Seq(S) /\ Len(s \o r) = Len(s) + Len(r)
         /\ \A k \in 1 .. Len(s) : (s \o r)[k] = s[k]
  OBVIOUS

\* What Append leaves alone and what it adds.
LEMMA AppendAt ==
  ASSUME NEW S, NEW s \in Seq(S), NEW x \in S
  PROVE  /\ Append(s, x) \in Seq(S) /\ Len(Append(s, x)) = Len(s) + 1 /\ Len(s) \in Nat
         /\ Append(s, x)[Len(s) + 1] = x
         /\ \A k \in 1 .. Len(s) : Append(s, x)[k] = s[k]
  OBVIOUS

\* The checksum of some bytes is two bytes.
LEMMA CrcOfBytes ==
  ASSUME NEW m \in Seq(Byte)
  PROVE  CrcBytes(CRC16(m)) \in Seq(Byte) /\ Len(CrcBytes(CRC16(m))) = 2
<1>1. Len(m) \in Nat
  OBVIOUS
<1> QED
  BY ONLY <1>1, CrcType

\* A frame: the unit id, the PDU, and two bytes more.
LEMMA RtuFrameParts ==
  ASSUME NEW unit \in Byte, NEW p \in Seq(Byte)
  PROVE  /\ RtuFrame(unit, p) \in Seq(Byte) /\ Len(RtuFrame(unit, p)) = Len(p) + 3
         /\ RtuFrame(unit, p)[1] = unit
         /\ SubSeq(RtuFrame(unit, p), 2, Len(RtuFrame(unit, p)) - 2) = p
<1> DEFINE u == <<unit>>
           m == u \o p
           x == CrcBytes(CRC16(m))
           f == m \o x
<1>1. u \in Seq(Byte) /\ Len(u) = 1 /\ u[1] = unit
  OBVIOUS
<1> HIDE DEF u
<1>2. /\ m \in Seq(Byte) /\ Len(m) = Len(u) + Len(p)
      /\ \A k \in 1 .. Len(u) : m[k] = u[k]
      /\ \A k \in 1 .. Len(p) : m[k + Len(u)] = p[k]
  BY ONLY <1>1, ConcatAt, p \in Seq(Byte)
<1> HIDE DEF m
<1>3. x \in Seq(Byte) /\ Len(x) = 2
  BY ONLY <1>2, CrcOfBytes
<1> HIDE DEF x
<1>4. /\ f \in Seq(Byte) /\ Len(f) = Len(m) + 2
      /\ \A k \in 1 .. Len(m) : f[k] = m[k]
  <2>1. /\ f \in Seq(Byte) /\ Len(f) = Len(m) + Len(x)
        /\ \A k \in 1 .. Len(m) : f[k] = m[k]
    <3>1. m \in Seq(Byte) /\ x \in Seq(Byte)
      BY ONLY <1>2, <1>3
    <3> QED
      BY ONLY <3>1, ConcatFirst
  <2> HIDE DEF f
  <2> QED
    BY ONLY <1>3, <2>1
<1>5. RtuFrame(unit, p) = f
  BY DEF RtuFrame, f, x, m, u
<1> HIDE DEF f
<1>6. f[1] = unit /\ \A k \in 1 .. Len(p) : f[k + 1] = p[k]
  <2>1. 1 \in 1 .. Len(u) /\ 1 \in 1 .. Len(m) /\ Len(p) \in Nat
    BY ONLY <1>1, <1>2, p \in Seq(Byte)
  <2>2. \A k \in 1 .. Len(p) : k + 1 \in 1 .. Len(m)
    BY ONLY <1>1, <1>2, <2>1
  <2> QED
    BY ONLY <1>1, <1>2, <1>4, <2>1, <2>2
<1>7. Len(f) = Len(p) + 3 /\ Len(p) \in Nat
  BY ONLY <1>1, <1>2, <1>4, p \in Seq(Byte)
<1>8. SubSeq(f, 2, Len(f) - 2) = p
  <2>1. Len(f) - 2 = Len(p) + 1
    BY ONLY <1>7
  <2> QED
    BY ONLY <1>4, <1>6, <1>7, <2>1, p \in Seq(Byte)
<1> QED
  BY ONLY <1>4, <1>5, <1>6, <1>7, <1>8

\* The parts of a documented call that the stream uses.
LEMMA CallParts ==
  ASSUME NEW c \in Calls
  PROVE  /\ c \in Call /\ Documented(c) /\ c.slave \in Byte
         /\ WriteReq(RequestOf(c)) \in Seq(Byte) /\ RequestOf(c).fc \in Byte
         /\ ReadReq(WriteReq(RequestOf(c))).req = RequestOf(c)
<1>1. c \in Call /\ Documented(c)
  BY CallsDocumented
<1>2. c.slave \in Byte
  BY ONLY <1>1 DEF Call
<1> QED
  BY ONLY <1>1, <1>2, DocumentedBytes

\* The device reads the request and the unit id of the call, and its reply is at most 255 bytes.
LEMMA Replied ==
  ASSUME NEW m \in Memory, NEW e, Entry(e)
  PROVE  /\ Received(e) = RequestOf(e.call) /\ e.bytes[1] = e.call.slave
         /\ IsReply(Serve(m, Received(e)), 252)
         /\ \A code \in Nat : IsReply(Refusal(m, Received(e), code), 252)
<1> DEFINE c == e.call
           p == WriteReq(RequestOf(c))
<1>1. c \in Calls /\ e.bytes = RtuFrame(c.slave, p)
  BY DEF Entry, Bytes
<1> HIDE DEF c
<1>2. /\ c \in Call /\ Documented(c) /\ c.slave \in Byte /\ p \in Seq(Byte)
      /\ RequestOf(c).fc \in Byte /\ ReadReq(p).req = RequestOf(c)
  BY ONLY <1>1, CallParts
<1> HIDE DEF p
<1>3. e.bytes[1] = c.slave /\ SubSeq(e.bytes, 2, Len(e.bytes) - 2) = p
  <2>1. PICK unit \in Byte, q \in Seq(Byte) : unit = c.slave /\ q = p
    BY ONLY <1>2
  <2>2. PICK f : f = RtuFrame(unit, q)
    OBVIOUS
  <2>3. f[1] = unit /\ SubSeq(f, 2, Len(f) - 2) = q
    BY ONLY <2>2, RtuFrameParts
  <2>4. f = e.bytes
    BY ONLY <1>1, <2>1, <2>2
  <2> QED
    BY ONLY <2>1, <2>3, <2>4
<1>4. Received(e) = RequestOf(c)
  BY ONLY <1>2, <1>3 DEF Received
<1>5. IsReply(Serve(m, RequestOf(c)), ReplySize(c))
  BY ONLY <1>2, m \in Memory, ServeType
<1>6. ReplySize(c) \in Nat /\ ReplySize(c) <= 252
  BY ONLY <1>2, ReplySizeBound
<1>7. IsReply(Serve(m, RequestOf(c)), 252)
  <2> DEFINE r == Serve(m, RequestOf(c))
             k == ReplySize(c)
  <2> HIDE DEF r, k
  <2>1. /\ r.mem \in Memory /\ r.pdu \in Seq(Byte) /\ 2 <= Len(r.pdu) /\ Len(r.pdu) <= k
        /\ k \in Nat /\ k <= 252
    BY ONLY <1>5, <1>6 DEF IsReply, r, k
  <2>2. IsReply(r, 252)
    BY ONLY <2>1 DEF IsReply
  <2> QED
    BY ONLY <2>2 DEF r
<1>8. \A code \in Nat : IsReply(Refusal(m, RequestOf(c), code), 252)
  BY ONLY <1>2, m \in Memory, RefusalType
<1> QED
  BY ONLY <1>3, <1>4, <1>7, <1>8 DEF c

--------------------------------------------------------------------------------
(* Types.  Only noise puts something else than a frame on the line.             *)

\* Nothing is under way at the start.
LEMMA InitTyped == Init => Typed
<1>1. \A S : <<>> \in Seq(S) /\ Len(<<>>) = 0
  OBVIOUS
<1> QED
  BY <1>1, InitMemTyped DEF Init, Typed

\* write_request puts the request of the call behind the others, or it is lost.
LEMMA CallSent ==
  ASSUME Typed, NEW c \in Calls, NEW sent \in BOOLEAN, CallOf(c, sent)
  PROVE  /\ toSlave' \in Seq([n : Nat, call : Calls, bytes : Seq(Byte)])
         /\ sent => toSlave' # <<>> /\ Len(toSlave') = Len(toSlave) + 1
         /\ \A k \in 1 .. Len(toSlave') :
              \/ k \in 1 .. Len(toSlave) /\ toSlave'[k] = toSlave[k]
              \/ /\ k = Len(toSlave') /\ Entry(toSlave'[k])
                 /\ toSlave'[k].call = c /\ toSlave'[k].n = made'
         /\ sent => LET k == Len(toSlave') IN toSlave'[k].call = c /\ toSlave'[k].n = made'
<1> DEFINE e == [n |-> made', call |-> c, bytes |-> Bytes(c)]
           T == [n : Nat, call : Calls, bytes : Seq(Byte)]
<1>1. /\ made \in Nat /\ made' = made + 1 /\ toSlave \in Seq(T)
      /\ toSlave' = (IF sent THEN Append(toSlave, e) ELSE toSlave)
  BY DEF Typed, CallOf, Bytes
<1>2. e \in T
  <2>1. c.slave \in Byte /\ WriteReq(RequestOf(c)) \in Seq(Byte)
    BY CallParts
  <2>2. Bytes(c) \in Seq(Byte)
    BY ONLY <2>1, RtuFrameParts DEF Bytes
  <2>3. made' \in Nat
    BY ONLY <1>1
  <2> QED
    BY ONLY <2>2, <2>3, c \in Calls
<1>3. Entry(e) /\ e.call = c /\ e.n = made'
  BY DEF Entry
<1> HIDE DEF e, T
<1>4. CASE sent
  <2>1. toSlave' = Append(toSlave, e)
    BY ONLY <1>1, <1>4
  <2>2. /\ toSlave' \in Seq(T) /\ Len(toSlave') = Len(toSlave) + 1 /\ Len(toSlave) \in Nat
        /\ toSlave'[Len(toSlave) + 1] = e
        /\ \A k \in 1 .. Len(toSlave) : toSlave'[k] = toSlave[k]
    BY ONLY <1>1, <1>2, <2>1, AppendAt
  <2>3. toSlave' # <<>>
    BY ONLY <2>2
  <2>4. \A k \in 1 .. Len(toSlave') :
          \/ k \in 1 .. Len(toSlave) /\ toSlave'[k] = toSlave[k]
          \/ k = Len(toSlave') /\ toSlave'[k] = e
    BY ONLY <2>2
  <2> QED
    BY ONLY <1>3, <2>2, <2>3, <2>4 DEF T
<1>5. CASE ~ sent
  <2>1. toSlave' = toSlave
    BY ONLY <1>1, <1>5
  <2> QED
    BY ONLY <1>1, <1>5, <2>1 DEF T
<1> QED
  BY <1>4, <1>5

\* A call sends its frame.
LEMMA CallTyped ==
  ASSUME Typed, NEW c \in Calls, NEW sent \in BOOLEAN, CallOf(c, sent)
  PROVE  Typed'
<1>1. /\ call' = c /\ line' = line /\ source' = source /\ mem' = mem /\ made' = made + 1
      /\ line \in Seq(Byte) /\ source \in Seq(Byte) /\ mem \in Memory /\ made \in Nat
      /\ \A k \in 1 .. Len(toSlave) : Entry(toSlave[k])
  BY DEF CallOf, Typed
<1>2. pc' \in {"idle", "first", "more"}
  BY DEF CallOf, Returns
<1>3. toSlave' \in Seq([n : Nat, call : Calls, bytes : Seq(Byte)])
  BY CallSent
<1>4. \A k \in 1 .. Len(toSlave') : Entry(toSlave'[k])
  BY <1>1, CallSent
<1>5. \A x : Entry(x)' <=> Entry(x)
  BY DEF Entry, Bytes
<1>6. made' \in Nat
  BY ONLY <1>1
<1> QED
  BY ONLY <1>1, <1>2, <1>3, <1>4, <1>5, <1>6, c \in Calls DEF Typed

\* The application only moves bytes from the line to the buffer.
LEMMA ReadTyped ==
  ASSUME Typed, ResponseTimeout \/ FirstByte \/ NextByte \/ EndOfFrame
  PROVE  Typed'
<1>1. /\ call' = call /\ mem' = mem /\ toSlave' = toSlave /\ made' = made
      /\ pc' \in {"idle", "first", "more"}
  BY DEF Typed, ResponseTimeout, FirstByte, NextByte, EndOfFrame, Returns
<1>2. line \in Seq(Byte) /\ source \in Seq(Byte)
  BY DEF Typed
<1>3. line' \in Seq(Byte) /\ source' \in Seq(Byte)
  <2>1. CASE ResponseTimeout \/ EndOfFrame
    <3>1. line' = line /\ (source' = <<>> \/ source' = source)
      BY <2>1 DEF ResponseTimeout, EndOfFrame
    <3>2. <<>> \in Seq(Byte)
      OBVIOUS
    <3> QED
      BY ONLY <1>2, <3>1, <3>2, Zenon
  <2>2. CASE FirstByte \/ NextByte
    <3>1. /\ line # <<>> /\ line' = Tail(line)
          /\ source' = <<Head(line)>> \/ source' = Append(source, Head(line))
      BY <2>2 DEF FirstByte, NextByte
    <3>2. Head(line) \in Byte /\ Tail(line) \in Seq(Byte)
      BY ONLY <1>2, <3>1
    <3>3. <<Head(line)>> \in Seq(Byte) /\ Append(source, Head(line)) \in Seq(Byte)
      BY ONLY <1>2, <3>2
    <3> QED
      BY ONLY <3>1, <3>2, <3>3, Zenon
  <2> QED
    BY <2>1, <2>2
<1>4. \A x : Entry(x)' <=> Entry(x)
  BY DEF Entry, Bytes
<1> QED
  BY <1>1, <1>3, <1>4 DEF Typed

\* The device takes up a request and sends a frame, or nothing.
LEMMA AnswerTyped ==
  ASSUME Typed, toSlave # <<>>, NEW reply, IsReply(reply, 252), NEW a, Answer(reply, a)
  PROVE  /\ Typed'
         /\ Entry(Head(toSlave)) /\ Head(toSlave) = toSlave[1]
         /\ Len(toSlave) \in Nat /\ Len(toSlave) >= 1 /\ Len(toSlave') = Len(toSlave) - 1
         /\ \A k \in 1 .. Len(toSlave') :
              toSlave'[k] = toSlave[k + 1] /\ k + 1 \in 1 .. Len(toSlave)
<1> DEFINE e == Head(toSlave)
           T == [n : Nat, call : Calls, bytes : Seq(Byte)]
<1>0. /\ toSlave \in Seq(T) /\ toSlave' = Tail(toSlave) /\ mem' = reply.mem
      /\ line' = (IF e.call.slave = 0 THEN line ELSE line \o RtuFrame(e.bytes[1], reply.pdu))
      /\ pc' = pc /\ call' = call /\ source' = source /\ made' = made /\ made \in Nat
      /\ line \in Seq(Byte) /\ source \in Seq(Byte) /\ mem \in Memory
      /\ pc \in {"idle", "first", "more"} /\ call \in Calls
      /\ \A k \in 1 .. Len(toSlave) : Entry(toSlave[k])
  BY DEF Typed, Answer
<1> HIDE DEF T
<1>1. /\ e = toSlave[1] /\ 1 \in 1 .. Len(toSlave) /\ Tail(toSlave) \in Seq(T)
      /\ Len(toSlave) \in Nat /\ Len(toSlave) >= 1 /\ Len(Tail(toSlave)) = Len(toSlave) - 1
      /\ \A k \in 1 .. Len(Tail(toSlave)) :
           Tail(toSlave)[k] = toSlave[k + 1] /\ k + 1 \in 1 .. Len(toSlave)
  BY ONLY <1>0, toSlave # <<>>
<1>2. Entry(e)
  BY ONLY <1>0, <1>1
<1> HIDE DEF e
<1>3. reply.mem \in Memory /\ reply.pdu \in Seq(Byte)
  BY DEF IsReply
<1>4. \A k \in 1 .. Len(toSlave') : Entry(toSlave'[k])
  BY ONLY <1>0, <1>1
<1>5. line' \in Seq(Byte)
  <2>1. e.bytes[1] \in Byte
    <3>1. e.bytes[1] = e.call.slave
      BY <1>0, <1>2, Replied
    <3>2. e.call.slave \in Byte
      BY ONLY <1>2, CallParts DEF Entry
    <3> QED
      BY ONLY <3>1, <3>2
  <2>2. RtuFrame(e.bytes[1], reply.pdu) \in Seq(Byte)
    BY ONLY <1>3, <2>1, RtuFrameParts
  <2> QED
    BY ONLY <1>0, <2>2
<1>6. \A x : Entry(x)' <=> Entry(x)
  BY DEF Entry, Bytes
<1>7. Typed'
  BY ONLY <1>0, <1>1, <1>3, <1>4, <1>5, <1>6 DEF Typed, T
<1> QED
  BY ONLY <1>0, <1>1, <1>2, <1>7 DEF e

\* The device takes up the request of a call.
LEMMA TurnEntry ==
  ASSUME Typed, SlaveServes \/ SlaveRefuses
  PROVE  toSlave # <<>> /\ mem \in Memory /\ Entry(Head(toSlave))
<1>1. toSlave # <<>>
  BY DEF SlaveServes, SlaveRefuses
<1>2. /\ toSlave \in Seq([n : Nat, call : Calls, bytes : Seq(Byte)]) /\ mem \in Memory
      /\ \A k \in 1 .. Len(toSlave) : Entry(toSlave[k])
  BY DEF Typed
<1>3. Head(toSlave) = toSlave[1] /\ 1 \in 1 .. Len(toSlave)
  BY ONLY <1>1, <1>2
<1> QED
  BY ONLY <1>1, <1>2, <1>3

\* Whatever the device does with a request, it answers with a reply.
LEMMA TurnIsReply ==
  ASSUME Typed, SlaveServes \/ SlaveRefuses
  PROVE  /\ toSlave # <<>>
         /\ \E reply, a : IsReply(reply, 252) /\ Answer(reply, a)
<1>1. toSlave # <<>> /\ mem \in Memory /\ Entry(Head(toSlave))
  BY TurnEntry
<1>2. CASE SlaveServes
  <2>1. PICK a : Answer(Serve(mem, Received(Head(toSlave))), a)
    BY <1>2, Zenon DEF SlaveServes
  <2>2. IsReply(Serve(mem, Received(Head(toSlave))), 252)
    BY ONLY <1>1, Replied
  <2> QED
    BY ONLY <1>1, <2>1, <2>2
<1>3. CASE SlaveRefuses
  <2>1. PICK x \in Refusals : Answer(Refusal(mem, Received(Head(toSlave)), x), [ec |-> x, out |-> <<>>])
    BY <1>3, Zenon DEF SlaveRefuses
  <2>2. x \in Nat
    BY RefusalsTyped
  <2>3. IsReply(Refusal(mem, Received(Head(toSlave)), x), 252)
    BY ONLY <1>1, <2>2, Replied
  <2> QED
    BY ONLY <1>1, <2>1, <2>3
<1> QED
  BY <1>2, <1>3

\* A bit that flips leaves a byte.
LEMMA NoiseTyped == ASSUME Typed, Noise PROVE Typed'
<1>1. PICK i \in 1 .. Len(line), w \in {1, 2, 4, 8, 16, 32, 64, 128} : line' = [line EXCEPT ![i] = Xor(@, w)]
  BY DEF Noise
<1>2. PICK x \in Byte : x = Xor(line[i], w)
  BY XorType
<1>3. line \in Seq(Byte) /\ line' = [line EXCEPT ![i] = x]
  BY <1>1, <1>2 DEF Typed
<1>4. line' \in Seq(Byte)
  BY ONLY <1>3, i \in 1 .. Len(line), x \in Byte
<1>5. pc' = pc /\ call' = call /\ mem' = mem /\ source' = source /\ toSlave' = toSlave /\ made' = made
  BY DEF Noise
<1>6. \A x1 : Entry(x1)' <=> Entry(x1)
  BY DEF Entry, Bytes
<1> QED
  BY <1>4, <1>5, <1>6 DEF Typed

\* Each action keeps the types.
LEMMA NextTyped == Typed /\ [Next]_vars => Typed'
<1> SUFFICES ASSUME Typed, [Next]_vars PROVE Typed'
  OBVIOUS
<1>1. CASE \E c \in Calls, sent \in BOOLEAN : CallOf(c, sent)
  BY <1>1, CallTyped
<1>2. CASE ResponseTimeout \/ FirstByte \/ NextByte \/ EndOfFrame
  BY <1>2, ReadTyped
<1>3. CASE SlaveServes \/ SlaveRefuses
  BY <1>3, TurnIsReply, AnswerTyped
<1>4. CASE Noise
  BY <1>4, NoiseTyped
<1>5. CASE UNCHANGED vars
  <2>1. \A x : Entry(x)' <=> Entry(x)
    BY DEF Entry, Bytes
  <2> QED
    BY <1>5, <2>1 DEF vars, Typed
<1> QED
  BY <1>1, <1>2, <1>3, <1>4, <1>5 DEF Next

--------------------------------------------------------------------------------
(* What the application and the history variables remember.                     *)

Returned == [ec : ErrorCode, out : Seq(U16)]

Remembered ==
  /\ ret \in Returned /\ answer \in Returned
  /\ made \in 0 .. MaxCalls /\ noise \in 0 .. MaxNoise /\ clean \in BOOLEAN

\* What a call returns is an outcome, and so is that nothing was answered.
LEMMA ReturnedType ==
  /\ Unanswered \in Returned
  /\ \A o : IsOutcome(o) => o \in Returned
  /\ \A x \in ErrorCode : [ec |-> x, out |-> <<>>] \in Returned
<1>1. <<>> \in Seq(U16) /\ no_answer \in ErrorCode
  BY DEF ErrorCode, no_answer, timed_out
<1>2. Byte \subseteq ErrorCode
  BY DEF ErrorCode, timed_out, Byte
<1>3. ASSUME NEW o, IsOutcome(o) PROVE o \in Returned
  BY <1>2, <1>3 DEF Returned, IsOutcome
<1> QED
  BY <1>1, <1>3 DEF Returned, Unanswered

\* What a call returns when receive_response ends before the response is read.
LEMMA UnreadType ==
  ASSUME NEW c \in Calls, NEW x \in Byte \cup {timed_out}
  PROVE  /\ Return(c, Unread(c)) \in Returned
         /\ Return(c, [Unread(c) EXCEPT !.ec = x]) \in Returned
<1>1. c \in Call /\ c.size \in Nat
  BY CallParts DEF Call
<1>2. u8(c.size) \in Nat /\ <<>> \in Seq(Byte) /\ modbus_exception_code.success \in Byte
  BY <1>1, Casts DEF modbus_exception_code, Byte
<1>3. IsReading(Unread(c))
  BY ONLY <1>2 DEF IsReading, Unread, Reading
<1>4. CASE x \in Byte
  <2>1. IsReading([Unread(c) EXCEPT !.ec = x])
    BY ONLY <1>2, <1>4 DEF IsReading, Unread, Reading
  <2> QED
    BY ONLY <1>1, <1>3, <2>1, ReturnType, ReturnedType
<1>5. CASE x = timed_out
  <2> DEFINE r == [Unread(c) EXCEPT !.ec = x]
  <2>1. r.ec = timed_out /\ r.values = <<>>
    BY <1>5 DEF Unread, Reading
  <2> HIDE DEF r
  <2>2. Return(c, r) = [ec |-> timed_out, out |-> <<>>]
    BY ONLY <2>1 DEF Return, timed_out, modbus_exception_code
  <2>3. timed_out \in ErrorCode
    BY DEF timed_out, ErrorCode
  <2>4. Return(c, r) \in Returned
    BY ONLY <2>2, <2>3, ReturnedType
  <2> QED
    BY ONLY <1>1, <1>3, <2>4, ReturnType, ReturnedType DEF r
<1> QED
  BY <1>4, <1>5

\* Whatever bytes were collected, and whatever stood in the uninitialised bytes of the checksum, a
\* call returns an outcome.
LEMMA OutcomesType ==
  ASSUME NEW c \in Calls, NEW s \in Seq(Byte), s # <<>>, NEW o \in Outcomes(c, s)
  PROVE  o \in Returned
<1> DEFINE r == ReadResp(c.fc, c.size, Tail(s))
           Ends(e) == Return(c, [r EXCEPT !.ec = e])
<1>1. c \in Call /\ c.size \in Nat
  BY CallParts DEF Call
<1>2. Tail(s) \in Seq(Byte)
  OBVIOUS
<1>3. IsReading(r)
  BY ONLY <1>1, <1>2, ReadRespType
<1>4. o = Ends(modbus_exception_code.success) \/ o = Ends(modbus_exception_code.invalid_response)
  BY DEF Outcomes
<1> HIDE DEF r
<1>5. PICK e \in Byte : o = Ends(e)
  <2>1. modbus_exception_code.success \in Byte /\ modbus_exception_code.invalid_response \in Byte
    BY DEF modbus_exception_code, Byte
  <2> QED
    BY ONLY <1>4, <2>1
<1>6. IsReading([r EXCEPT !.ec = e])
  BY ONLY <1>3, e \in Byte DEF IsReading
<1> QED
  BY ONLY <1>1, <1>5, <1>6, ReturnType, ReturnedType

\* receive_response has taken a byte before its loop ends.
Begun == pc = "more" => source # <<>>

\* What the device did is an outcome.
LEMMA AnswerRemembered ==
  ASSUME Typed, Remembered, SlaveServes \/ SlaveRefuses
  PROVE  answer' \in Returned
<1>1. toSlave # <<>> /\ mem \in Memory /\ Head(toSlave).call \in Calls
  BY TurnEntry DEF Typed, Entry
<1>2. answer \in Returned
  BY DEF Remembered
<1>3. CASE SlaveServes
  <2> DEFINE c == Head(toSlave).call
             a == IF Valid(mem, c)
                  THEN [ec |-> modbus_exception_code.success, out |-> Content(Effect(mem, c), c)]
                  ELSE [ec |-> modbus_exception_code.illegal_data_address, out |-> <<>>]
  <2>1. answer' = a \/ answer' = answer
    BY <1>3 DEF SlaveServes, Answer
  <2>2. a \in Returned
    <3>1. c \in Call /\ Documented(c)
      BY ONLY <1>1, CallParts
    <3> HIDE DEF c
    <3>2. /\ modbus_exception_code.success \in ErrorCode
          /\ modbus_exception_code.illegal_data_address \in ErrorCode
      BY DEF modbus_exception_code, ErrorCode, timed_out
    <3>3. CASE Valid(mem, c)
      <4>1. Content(Effect(mem, c), c) \in Seq(U16)
        BY ONLY <1>1, <3>1, <3>3, ContentType
      <4> QED
        BY ONLY <3>2, <3>3, <4>1 DEF Returned
    <3>4. CASE ~ Valid(mem, c)
      BY ONLY <3>2, <3>4, ReturnedType
    <3> QED
      BY ONLY <3>3, <3>4
  <2> HIDE DEF a
  <2> QED
    BY ONLY <1>2, <2>1, <2>2
<1>4. CASE SlaveRefuses
  <2>1. PICK x \in Refusals : answer' = [ec |-> x, out |-> <<>>] \/ answer' = answer
    BY <1>4 DEF SlaveRefuses, Answer
  <2>2. x \in ErrorCode
    BY RefusalsTyped DEF ErrorCode, timed_out
  <2> QED
    BY ONLY <1>2, <2>1, <2>2, ReturnedType
<1> QED
  BY <1>3, <1>4

\* Each action keeps what is remembered within its type.
LEMMA NextRemembered == Typed /\ Begun /\ Remembered /\ [Next]_vars => Remembered' /\ Begun'
<1> SUFFICES ASSUME Typed, Begun, Remembered, [Next]_vars PROVE Remembered' /\ Begun'
  OBVIOUS
<1> DEFINE Kept == made' = made /\ noise' = noise /\ answer' = answer
<1>0. /\ ret \in Returned /\ answer \in Returned /\ clean \in BOOLEAN
      /\ made \in 0 .. MaxCalls /\ noise \in 0 .. MaxNoise /\ MaxCalls \in Nat /\ MaxNoise \in Nat
      /\ call \in Calls /\ source \in Seq(Byte) /\ line \in Seq(Byte)
  BY BoundsTyped DEF Remembered, Typed
<1>1. ASSUME NEW c \in Calls, NEW sent \in BOOLEAN, CallOf(c, sent) PROVE Remembered' /\ Begun'
  <2>1. /\ made < MaxCalls /\ made' = made + 1 /\ noise' = noise /\ answer' = Unanswered
        /\ clean' = ~ Coming /\ (ret' = ret \/ ret' = Return(c, Unread(c)))
        /\ pc' # "more"
    BY <1>1 DEF CallOf, Returns
  <2>2. made' \in 0 .. MaxCalls
    BY ONLY <1>0, <2>1
  <2>3. ret' \in Returned /\ answer' \in Returned
    <3>1. 0 \in Byte
      BY DEF Byte
    <3>2. Return(c, Unread(c)) \in Returned
      BY ONLY <3>1, UnreadType, c \in Calls
    <3> QED
      BY ONLY <1>0, <2>1, <3>2, ReturnedType
  <2>4. clean' \in BOOLEAN
    BY ONLY <2>1, Zenon
  <2> QED
    BY ONLY <1>0, <2>1, <2>2, <2>3, <2>4 DEF Remembered, Returned, Begun
<1>2. CASE ResponseTimeout
  <2>1. /\ Kept /\ clean' = (clean /\ ~ Coming) /\ pc' = "idle"
        /\ ret' = Return(call, [Unread(call) EXCEPT !.ec = timed_out])
    BY <1>2 DEF ResponseTimeout, Returns
  <2>2. ret' \in Returned
    BY ONLY <1>0, <2>1, UnreadType
  <2>3. clean' \in BOOLEAN
    BY ONLY <2>1, Zenon
  <2> QED
    BY ONLY <1>0, <2>1, <2>2, <2>3 DEF Remembered, Returned, Begun
<1>3. CASE FirstByte
  <2> DEFINE bad == modbus_exception_code.slave_id_invalid
  <2>1. /\ Kept /\ clean' = clean /\ source' = <<Head(line)>>
        /\ ret' = ret \/ ret' = Return(call, [Unread(call) EXCEPT !.ec = bad])
    BY <1>3 DEF FirstByte, Returns
  <2>2. bad \in Byte
    BY DEF modbus_exception_code, Byte
  <2>3. ret' \in Returned
    BY ONLY <1>0, <2>1, <2>2, UnreadType
  <2>4. source' # <<>>
    BY ONLY <2>1
  <2> QED
    BY ONLY <1>0, <2>1, <2>3, <2>4 DEF Remembered, Returned, Begun
<1>4. CASE NextByte
  <2>1. /\ Kept /\ clean' = clean /\ source' = Append(source, Head(line)) /\ ret' = ret /\ line # <<>>
    BY <1>4 DEF NextByte
  <2>2. source' # <<>>
    BY ONLY <1>0, <2>1
  <2> QED
    BY ONLY <1>0, <2>1, <2>2 DEF Remembered, Returned, Begun
<1>5. CASE EndOfFrame
  <2>1. /\ Kept /\ clean' = (clean /\ ~ Coming) /\ pc' = "idle" /\ source # <<>>
        /\ ret' \in Outcomes(call, source)
    BY <1>5 DEF EndOfFrame, Returns, Begun
  <2>2. ret' \in Returned
    BY ONLY <1>0, <2>1, OutcomesType
  <2>3. clean' \in BOOLEAN
    BY ONLY <2>1, Zenon
  <2> QED
    BY ONLY <1>0, <2>1, <2>2, <2>3 DEF Remembered, Returned, Begun
<1>6. CASE SlaveServes \/ SlaveRefuses
  <2>1. made' = made /\ noise' = noise /\ clean' = clean /\ ret' = ret /\ pc' = pc /\ source' = source
    BY <1>6 DEF SlaveServes, SlaveRefuses, Answer
  <2>2. answer' \in Returned
    BY <1>6, AnswerRemembered
  <2> QED
    BY ONLY <1>0, <2>1, <2>2, Begun DEF Remembered, Returned, Begun
<1>7. CASE Noise
  <2>1. /\ noise < MaxNoise /\ noise' = noise + 1
        /\ made' = made /\ clean' = clean /\ ret' = ret /\ pc' = pc /\ source' = source /\ answer' = answer
    BY <1>7 DEF Noise
  <2>2. noise' \in 0 .. MaxNoise
    BY ONLY <1>0, <2>1
  <2> QED
    BY ONLY <1>0, <2>1, <2>2, Begun DEF Remembered, Returned, Begun
<1>8. CASE UNCHANGED vars
  BY <1>8 DEF vars, Remembered, Begun, Returned
<1> QED
  BY <1>1, <1>2, <1>3, <1>4, <1>5, <1>6, <1>7, <1>8 DEF Next

\* Whatever goes wrong on the line - replies late, requests lost, bits flipped - what is on it and
\* in the buffer stays bytes, the two of the checksum included, and a call returns an error code
\* and words.  That CRC16 always ends with bytes is an induction on its loop.
THEOREM TypeOKTheorem == Spec => []TypeOK
<1> DEFINE I == Typed /\ Begun /\ Remembered
<1>1. Init => I
  <2> SUFFICES ASSUME Init PROVE I
    OBVIOUS
  <2>1. Begun
    BY DEF Init, Begun
  <2>2. Remembered
    <3>1. ret = Unanswered /\ answer = Unanswered /\ made = 0 /\ noise = 0 /\ clean = TRUE
      BY DEF Init
    <3> QED
      BY ONLY <3>1, ReturnedType, BoundsTyped DEF Remembered
  <2> QED
    BY <2>1, <2>2, InitTyped
<1>2. I /\ [Next]_vars => I'
  BY NextTyped, NextRemembered
<1>3. I => TypeOK
  BY DEF Typed, Remembered, Returned, TypeOK
<1> QED
  BY <1>1, <1>2, <1>3, PTL DEF Spec

--------------------------------------------------------------------------------
(* A prompt line.                                                               *)

\* Nothing is under way at the start.
LEMMA InitInv == Init => Inv
<1>1. Init => Drained /\ Waiting /\ Sizes
  BY DEF Init, Drained, Waiting, Sizes
<1> QED
  BY <1>1, InitTyped DEF Inv

\* A call is made when nothing else that will be answered is under way.
LEMMA CallInv ==
  ASSUME Inv, NEW c \in Calls, NEW sent \in BOOLEAN, CallOf(c, sent)
  PROVE  Inv'
<1>1. /\ pc = "idle" /\ line = <<>> /\ line' = line /\ source' = source /\ call' = c
      /\ Typed /\ Len(source) <= 255
  BY DEF Inv, Drained, Sizes, CallOf
<1>2. \A k \in 1 .. Len(toSlave) : toSlave[k].call.slave = 0
  BY <1>1 DEF Inv, Waiting
<1>3. /\ c.slave = 0 => pc' = "idle"
      /\ c.slave # 0 => pc' = "first"
  BY DEF CallOf, Returns
<1>4. \A k \in 1 .. Len(toSlave') :
        toSlave'[k].call.slave # 0 => k = Len(toSlave') /\ toSlave'[k].call = c
  BY <1>1, <1>2, CallSent
<1>5. Waiting'
  BY ONLY <1>1, <1>3, <1>4 DEF Waiting
<1>6. Drained' /\ Sizes'
  BY <1>1, <1>3 DEF Drained, Sizes
<1> QED
  BY <1>1, <1>5, <1>6, CallTyped DEF Inv

\* The device is only waited for as long as something is due.
LEMMA TimeoutInv == ASSUME PromptLine, Inv, ResponseTimeout PROVE Inv'
<1>1. "late" \notin Faults
  BY DEF PromptLine
<1>2. line = <<>> /\ \A k \in 1 .. Len(toSlave) : toSlave[k].call.slave = 0
  BY <1>1 DEF ResponseTimeout, Coming
<1>3. /\ pc' = "idle" /\ source' = <<>> /\ call' = call /\ mem' = mem /\ line' = line
      /\ toSlave' = toSlave /\ made' = made
  BY DEF ResponseTimeout, Returns
<1>5. Drained' /\ Waiting' /\ Sizes'
  BY <1>2, <1>3 DEF Drained, Waiting, Sizes
<1> QED
  BY <1>5, ReadTyped DEF Inv

\* The bytes of the reply move from the line to the buffer.
LEMMA ByteInv == ASSUME Inv, FirstByte \/ NextByte PROVE Inv'
<1>0. /\ line # <<>> /\ line \in Seq(Byte) /\ source \in Seq(Byte) /\ line' = Tail(line)
      /\ call' = call /\ mem' = mem /\ toSlave' = toSlave /\ made' = made
  BY DEF Inv, Typed, FirstByte, NextByte
<1>1. /\ Head(line) \in Byte /\ Tail(line) \in Seq(Byte) /\ Len(line) \in Nat
      /\ Len(Tail(line)) = Len(line) - 1 /\ Len(source) \in Nat
  BY ONLY <1>0
<1>2. \A k \in 1 .. Len(toSlave) : toSlave[k].call.slave = 0
  BY <1>0 DEF Inv, Waiting
<1>3. pc' = "more" /\ source' \in Seq(Byte) /\ Len(source') + Len(Tail(line)) <= 255
  <2>1. CASE FirstByte
    <3>1. pc = "first" /\ Head(line) = call.slave /\ Len(line) <= 255
      BY <1>0, <2>1 DEF Inv, Waiting, Sizes, FirstByte
    <3>2. pc' = "more" /\ source' = <<Head(line)>>
      BY <2>1, <3>1 DEF FirstByte
    <3>3. source' \in Seq(Byte) /\ Len(source') = 1
      BY ONLY <1>1, <3>2
    <3> QED
      BY ONLY <1>1, <3>1, <3>2, <3>3
  <2>2. CASE NextByte
    <3>1. pc = "more" /\ pc' = pc /\ source' = Append(source, Head(line))
      BY <2>2 DEF NextByte
    <3>2. Len(source) + Len(line) <= 255
      BY <3>1 DEF Inv, Sizes
    <3>3. source' \in Seq(Byte) /\ Len(source') = Len(source) + 1
      BY ONLY <1>0, <1>1, <3>1
    <3> QED
      BY ONLY <1>1, <3>1, <3>2, <3>3
  <2> QED
    BY <2>1, <2>2
<1>4. Len(source') <= 255
  <2>1. Len(source') \in Nat /\ Len(Tail(line)) \in Nat
    BY ONLY <1>1, <1>3
  <2> QED
    BY ONLY <1>3, <2>1
<1>6. Drained' /\ Waiting' /\ Sizes'
  BY <1>0, <1>2, <1>3, <1>4 DEF Drained, Waiting, Sizes
<1> QED
  BY <1>6, ReadTyped DEF Inv

\* The loop ends when the line is silent, and then the whole reply is in the buffer.
LEMMA EndInv == ASSUME PromptLine, Inv, EndOfFrame PROVE Inv'
<1>1. "late" \notin Faults
  BY DEF PromptLine
<1>2. /\ line = <<>> /\ pc = "more" /\ pc' = "idle" /\ source' = source /\ call' = call
      /\ mem' = mem /\ line' = line /\ toSlave' = toSlave /\ made' = made
  BY <1>1 DEF EndOfFrame, Returns
<1>4. Drained' /\ Waiting' /\ Sizes'
  BY <1>2 DEF Inv, Drained, Waiting, Sizes
<1> QED
  BY <1>4, ReadTyped DEF Inv

\* The device answers the request that is waited for, or takes up a broadcast.
LEMMA AnswerInv ==
  ASSUME Inv, toSlave # <<>>, NEW reply, IsReply(reply, 252), NEW a, Answer(reply, a)
  PROVE  Inv'
<1> DEFINE e == Head(toSlave)
<1>0. /\ line' = (IF e.call.slave = 0 THEN line ELSE line \o RtuFrame(e.bytes[1], reply.pdu))
      /\ pc' = pc /\ call' = call /\ source' = source /\ Typed
      /\ mem \in Memory /\ call \in Calls
  BY DEF Inv, Typed, Answer
<1>1. /\ Typed' /\ Entry(e) /\ e = toSlave[1]
      /\ Len(toSlave) \in Nat /\ Len(toSlave) >= 1 /\ Len(toSlave') = Len(toSlave) - 1
      /\ \A k \in 1 .. Len(toSlave') :
           toSlave'[k] = toSlave[k + 1] /\ k + 1 \in 1 .. Len(toSlave)
  BY <1>0, AnswerTyped
<1> HIDE DEF e
<1>3. reply.pdu \in Seq(Byte) /\ Len(reply.pdu) <= 252
  BY DEF IsReply
<1>5. CASE e.call.slave = 0
  <2>1. line' = line
    BY ONLY <1>0, <1>5
  <2>3. Drained' /\ Sizes'
    BY <1>0, <2>1 DEF Inv, Drained, Sizes
  <2>4. Waiting'
    <3>1. \A k \in 1 .. Len(toSlave) :
            toSlave[k].call.slave # 0 => pc = "first" /\ k = Len(toSlave) /\ toSlave[k].call = call
                                         /\ line = <<>>
      BY DEF Inv, Waiting
    <3>2. pc = "first" /\ line # <<>> => Head(line) = call.slave
      BY DEF Inv, Waiting
    <3>3. ASSUME NEW k \in 1 .. Len(toSlave'), toSlave'[k].call.slave # 0
          PROVE  pc' = "first" /\ k = Len(toSlave') /\ toSlave'[k].call = call' /\ line' = <<>>
      <4>1. toSlave'[k] = toSlave[k + 1] /\ k + 1 \in 1 .. Len(toSlave)
        BY ONLY <1>0, <1>1, k \in 1 .. Len(toSlave')
      <4>2. pc = "first" /\ k + 1 = Len(toSlave) /\ toSlave[k + 1].call = call /\ line = <<>>
        BY ONLY <3>1, <3>3, <4>1
      <4>3. k = Len(toSlave')
        <5>1. Len(toSlave') = Len(toSlave) - 1
          BY ONLY <1>0, <1>1
        <5>2. k \in Int
          OBVIOUS
        <5> QED
          BY ONLY <5>1, <5>2, <4>2
      <4> QED
        BY ONLY <1>0, <2>1, <4>1, <4>2, <4>3
    <3> QED
      BY ONLY <1>0, <2>1, <3>2, <3>3 DEF Waiting
  <2> QED
    BY <1>1, <2>3, <2>4 DEF Inv
<1>6. CASE e.call.slave # 0
  <2>1. pc = "first" /\ 1 = Len(toSlave) /\ e.call = call /\ line = <<>>
    BY <1>1, <1>6 DEF Inv, Waiting
  <2>2. e.bytes[1] = call.slave /\ call.slave \in Byte
    <3>1. e.bytes[1] = e.call.slave
      BY <1>0, <1>1, Replied
    <3>2. call.slave \in Byte
      BY <1>0, CallParts
    <3> QED
      BY ONLY <2>1, <3>1, <3>2
  <2> DEFINE f == RtuFrame(e.bytes[1], reply.pdu)
  <2>3. f \in Seq(Byte) /\ Len(f) = Len(reply.pdu) + 3 /\ f[1] = call.slave
    BY ONLY <1>3, <2>2, RtuFrameParts
  <2> HIDE DEF f
  <2>4. line' = f
    <3>1. line' = <<>> \o f
      BY ONLY <1>0, <1>6, <2>1 DEF f
    <3>2. <<>> \o f = f
      BY ONLY <2>3
    <3> QED
      BY ONLY <3>1, <3>2
  <2>5. Len(f) <= 255 /\ Head(f) = call.slave
    BY ONLY <1>3, <2>3
  <2>6. \A k \in 1 .. Len(toSlave') : FALSE
    <3>1. Len(toSlave') = 0
      <4>1. Len(toSlave') = Len(toSlave) - 1 /\ Len(toSlave) = 1
        BY ONLY <1>1, <2>1
      <4>2. Len(toSlave') = 1 - 1
        BY ONLY <4>1, Zenon
      <4> QED
        BY ONLY <4>2
    <3> QED
      BY ONLY <3>1
  <2>8. Drained' /\ Waiting'
    BY ONLY <1>0, <2>1, <2>4, <2>5, <2>6 DEF Drained, Waiting
  <2>9. Sizes'
    <3>1. Len(source) <= 255
      BY DEF Inv, Sizes
    <3> QED
      BY ONLY <1>0, <2>1, <2>4, <2>5, <3>1 DEF Sizes
  <2> QED
    BY <1>1, <2>8, <2>9 DEF Inv
<1> QED
  BY <1>5, <1>6

\* Each action keeps the invariant.
LEMMA NextInv == ASSUME PromptLine PROVE Inv /\ [Next]_vars => Inv'
<1> SUFFICES ASSUME Inv, [Next]_vars PROVE Inv'
  OBVIOUS
<1>1. CASE \E c \in Calls, sent \in BOOLEAN : CallOf(c, sent)
  BY <1>1, CallInv
<1>2. CASE ResponseTimeout
  BY <1>2, TimeoutInv
<1>3. CASE FirstByte \/ NextByte
  BY <1>3, ByteInv
<1>4. CASE EndOfFrame
  BY <1>4, EndInv
<1>5. CASE SlaveServes \/ SlaveRefuses
  BY <1>5, TurnIsReply, AnswerInv DEF Inv
<1>6. CASE Noise
  BY <1>6 DEF Noise, PromptLine
<1>7. CASE UNCHANGED vars
  <2>1. \A x : Entry(x)' <=> Entry(x)
    BY DEF Entry, Bytes
  <2> QED
    BY <1>7, <2>1 DEF vars, Inv, Typed, Drained, Waiting, Sizes
<1> QED
  BY <1>1, <1>2, <1>3, <1>4, <1>5, <1>6, <1>7 DEF Next

\* On a prompt line every call leaves the line empty, although nothing clears it and nothing on it
\* says to which request a reply belongs: broadcasts that wait and requests that are lost do not
\* change that.
THEOREM DrainedTheorem == ASSUME PromptLine PROVE Spec => []Drained
<1>1. Inv => Drained
  BY DEF Inv
<1>2. Inv /\ [Next]_vars => Inv'
  BY NextInv
<1> QED
  BY InitInv, <1>1, <1>2, PTL DEF Spec

\* On a prompt line the loop that collects a reply never fills the message buffer, although it does
\* not look at its size, for every documented call.
THEOREM WithinBufferTheorem == ASSUME PromptLine PROVE Spec => []WithinBuffer
<1>1. Inv => WithinBuffer
  <2>1. Inv => Len(source) \in Nat /\ Len(source) <= 255
    BY DEF Inv, Typed, Sizes
  <2> QED
    BY <2>1 DEF WithinBuffer, buffer_size
<1>2. Inv /\ [Next]_vars => Inv'
  BY NextInv
<1> QED
  BY InitInv, <1>1, <1>2, PTL DEF Spec

--------------------------------------------------------------------------------
(* Honest, on a line without faults and with a device that has what the calls  *)
(* name.  Above all this needs to know of the bytes under way what the device  *)
(* did when it sent them (Meant), from its turn to the end of the frame.       *)

\* The PDU p is the device's reply to the current call, from tables that held m.
Meant(p) ==
  \E m \in Memory : p = Serve(m, RequestOf(call)).pdu /\ answer = Outcome(m, call)

\* The bytes f are the frame of such a reply.
MeantFrame(f) == \E p : Meant(p) /\ f = RtuFrame(call.slave, p)

Told ==
  /\ pc # "idle" => call.slave # 0
  /\ pc = "first" /\ line = <<>> =>
       /\ toSlave # <<>>
       /\ toSlave[Len(toSlave)].n = made
       /\ toSlave[Len(toSlave)].call = call
  /\ pc = "first" /\ line # <<>> => MeantFrame(line)
  /\ pc = "more" => MeantFrame(source \o line)
  /\ Honest

\* The line is prompt and loses nothing, the device has what the calls name and does not refuse,
\* and spans are as long as the bits that are read into them.  The error of the reader is lost
\* behind the checksum: a device that refuses would be reported as a success.
HonestHypotheses ==
  /\ Faults = {} /\ Refusals = {}
  /\ \A c \in Calls : SpanIsSnug(c) /\ \A m \in Memory : Valid(m, c)

\* Where the elements of the second part of a frame are.
LEMMA ConcatSecond ==
  ASSUME NEW S, NEW s \in Seq(S), NEW r \in Seq(S)
  PROVE  \A k \in 1 .. Len(r) : (s \o r)[k + Len(s)] = r[k]
  OBVIOUS

\* A sequence whose last elements are those of v ends in v.
LEMMA EndIs ==
  ASSUME NEW S, NEW s \in Seq(S), NEW v \in Seq(S), NEW k \in Nat, Len(s) = k + Len(v),
         \A i \in 1 .. Len(v) : s[i + k] = v[i]
  PROVE  SubSeq(s, k + 1, Len(s)) = v
<1> DEFINE t == SubSeq(s, k + 1, Len(s))
<1>1. Len(v) \in Nat /\ Len(s) \in Nat
  OBVIOUS
<1>2. Len(s) - k = Len(v)
  BY ONLY <1>1, k \in Nat, Len(s) = k + Len(v)
<1>3. /\ t \in Seq(S) /\ Len(t) = Len(v)
      /\ \A i \in 1 .. Len(v) : t[i] = s[i + k]
  <2>1. t \in Seq(S)
    BY ONLY <1>1, s \in Seq(S), k \in Nat, Len(s) = k + Len(v)
  <2>2. Len(t) = Len(v)
    BY ONLY <1>1, s \in Seq(S), k \in Nat, Len(s) = k + Len(v)
  <2>3. ASSUME NEW i \in 1 .. Len(v) PROVE t[i] = s[i + k]
    BY ONLY <1>1, s \in Seq(S), k \in Nat, Len(s) = k + Len(v), i \in 1 .. Len(v)
  <2> HIDE DEF t
  <2> QED
    BY ONLY <2>1, <2>2, <2>3
<1> HIDE DEF t
<1>4. \A i \in 1 .. Len(v) : t[i] = v[i]
  BY ONLY <1>3, \A i \in 1 .. Len(v) : s[i + k] = v[i], Zenon
<1>5. t = v
  BY ONLY <1>1, <1>3, <1>4, v \in Seq(S)
<1> QED
  BY ONLY <1>5 DEF t

\* The parts of a frame, as the reader meets them.
LEMMA FrameIsRead ==
  ASSUME NEW unit \in Byte, NEW p \in Seq(Byte), NEW f, f = RtuFrame(unit, p)
  PROVE  /\ Arrived(Tail(f), p) /\ Len(Tail(f)) >= Len(p)
         /\ Take(f, 1 + Len(p)) = <<unit>> \o p
         /\ Drop(f, 1 + Len(p)) = CrcBytes(CRC16(<<unit>> \o p))
<1> DEFINE u == <<unit>>
           m == u \o p
           x == CrcBytes(CRC16(m))
<1>1. u \in Seq(Byte) /\ Len(u) = 1 /\ u[1] = unit
  OBVIOUS
<1> HIDE DEF u
<1>2. /\ m \in Seq(Byte) /\ Len(m) = Len(u) + Len(p)
      /\ \A k \in 1 .. Len(p) : m[k + Len(u)] = p[k]
  BY ONLY <1>1, ConcatAt, p \in Seq(Byte)
<1>3. f = m \o x
  BY DEF RtuFrame, u
<1> HIDE DEF m
<1>5. x \in Seq(Byte) /\ Len(x) = 2
  BY ONLY <1>2, CrcOfBytes
<1> HIDE DEF x
<1>6. m \in Seq(Byte)
  BY ONLY <1>2
<1>7. Len(p) \in Nat /\ Len(m) = 1 + Len(p)
  BY ONLY <1>1, <1>2, p \in Seq(Byte)
<1>8. /\ f \in Seq(Byte) /\ Len(f) = Len(m) + Len(x)
      /\ \A k \in 1 .. Len(m) : f[k] = m[k]
      /\ \A k \in 1 .. Len(x) : f[k + Len(m)] = x[k]
  <2> DEFINE e == m \o x
  <2>1. /\ e \in Seq(Byte) /\ Len(e) = Len(m) + Len(x)
        /\ \A k \in 1 .. Len(m) : e[k] = m[k]
    BY ONLY <1>5, <1>6, ConcatFirst
  <2>2. \A k \in 1 .. Len(x) : e[k + Len(m)] = x[k]
    BY ONLY <1>5, <1>6, ConcatSecond, SMTT(40)
  <2> QED
    BY ONLY <1>3, <2>1, <2>2
<1>9. Len(f) = 3 + Len(p)
  BY ONLY <1>5, <1>7, <1>8
<1> DEFINE g == Tail(f)
<1>10. g \in Seq(Byte) /\ Len(g) = 2 + Len(p) /\ \A k \in 1 .. 2 + Len(p) : g[k] = f[k + 1]
  BY ONLY <1>7, <1>8, <1>9
<1> HIDE DEF g
<1>11. ASSUME NEW k \in 1 .. Len(p) PROVE g[k] = p[k]
  <2>1. k \in 1 .. 2 + Len(p) /\ k + 1 \in 1 .. Len(m)
    BY ONLY <1>7, k \in 1 .. Len(p)
  <2>2. m[k + 1] = p[k]
    BY ONLY <1>1, <1>2, k \in 1 .. Len(p)
  <2> QED
    BY ONLY <1>8, <1>10, <2>1, <2>2
<1>12. Arrived(g, p) /\ Len(g) >= Len(p)
  BY ONLY <1>7, <1>10, <1>11 DEF Arrived
<1>13. SubSeq(f, 1, 1 + Len(p)) = m
  <2> DEFINE t == SubSeq(f, 1, 1 + Len(p))
  <2>1. t \in Seq(Byte) /\ Len(t) = 1 + Len(p) /\ \A k \in 1 .. 1 + Len(p) : t[k] = f[k]
    BY ONLY <1>7, <1>8, <1>9
  <2> HIDE DEF t
  <2> QED
    BY ONLY <1>6, <1>7, <1>8, <2>1 DEF t
<1>14. SubSeq(f, (1 + Len(p)) + 1, Len(f)) = x
  <2>1. Len(m) \in Nat
    BY ONLY <1>7
  <2>2. SubSeq(f, Len(m) + 1, Len(f)) = x
    BY ONLY <1>5, <1>8, <2>1, EndIs
  <2> QED
    BY ONLY <1>7, <2>2
<1> QED
  BY ONLY <1>12, <1>13, <1>14 DEF Take, Drop, g, m, x, u

\* At the end of the frame of a reply the checksum is found where the reader stopped, and the call
\* can return only what the device did, or refuse a span that is too long.
LEMMA FrameIsTold ==
  ASSUME NEW c \in Calls, NEW m \in Memory, Valid(m, c), NEW p, p = Serve(m, RequestOf(c)).pdu,
         NEW f, f = RtuFrame(c.slave, p), NEW r \in Outcomes(c, f)
  PROVE  (SpanIsSnug(c) \/ r.ec = modbus_exception_code.success) => r = Outcome(m, c)
<1>1. c \in Call /\ Documented(c) /\ c.slave \in Byte
  BY CallParts
<1>2. p \in Seq(Byte)
  <2>1. IsReply(Serve(m, RequestOf(c)), ReplySize(c))
    BY ONLY <1>1, m \in Memory, ServeType
  <2> QED
    BY <2>1 DEF IsReply
<1> DEFINE g == Tail(f)
           rd == ReadResp(c.fc, c.size, g)
           x == CrcBytes(CRC16(<<c.slave>> \o p))
<1>3. /\ Arrived(g, p) /\ Len(g) >= Len(p) /\ Take(f, 1 + Len(p)) = <<c.slave>> \o p
      /\ Drop(f, 1 + Len(p)) = x
  BY ONLY <1>1, <1>2, f = RtuFrame(c.slave, p), FrameIsRead
<1> HIDE DEF g
<1>4. /\ rd.used = Len(p)
      /\ (SpanIsSnug(c) \/ Return(c, Overridden(rd)).ec = modbus_exception_code.success) =>
           Return(c, Overridden(rd)) = Outcome(m, c)
  BY ONLY <1>1, <1>3, m \in Memory, Valid(m, c), p = Serve(m, RequestOf(c)).pdu, ReplyIsReadBack
<1>5. Len(x) = 2
  BY DEF CrcBytes
<1>6. Take(f, 1 + rd.used) = <<c.slave>> \o p /\ Drop(f, 1 + rd.used) = x
  BY ONLY <1>3, <1>4
<1>7. Outcomes(c, f) = {Return(c, Overridden(rd))}
  <2> DEFINE rest == Drop(f, 1 + rd.used)
             crc == CrcBytes(CRC16(Take(f, 1 + rd.used)))
             may == \A i \in 1 .. 2 : i <= Len(rest) => rest[i] = crc[i]
             Ends(e) == Return(c, [rd EXCEPT !.ec = e])
  <2>1. crc = x /\ rest = x
    BY ONLY <1>6
  <2>2. Outcomes(c, f) = (IF may THEN {Ends(modbus_exception_code.success)} ELSE {})
                   \cup (IF may /\ Len(rest) >= 2 THEN {} ELSE {Ends(modbus_exception_code.invalid_response)})
    BY DEF Outcomes, g
  <2>3. Ends(modbus_exception_code.success) = Return(c, Overridden(rd))
    BY ONLY DEF Overridden
  <2> HIDE DEF x, rest, crc, rd, Ends
  <2>4. may /\ Len(rest) >= 2
    <3>1. may
      BY ONLY <2>1, Zenon
    <3>2. Len(rest) = Len(x)
      BY ONLY <2>1, Zenon
    <3> QED
      BY ONLY <1>5, <3>1, <3>2
  <2> HIDE DEF may
  <2> QED
    BY ONLY <2>2, <2>3, <2>4
<1> QED
  BY ONLY <1>4, <1>7, r \in Outcomes(c, f)

\* Nothing has been told at the start.
LEMMA InitTold == Init => Told
  BY DEF Init, Told, Honest

\* A call that is waited for has its request as the last on its way.
LEMMA CallTold ==
  ASSUME HonestHypotheses, Inv, NEW c \in Calls, NEW sent \in BOOLEAN, CallOf(c, sent)
  PROVE  Told'
<1>1. Typed /\ sent /\ line = <<>> /\ line' = line /\ call' = c
  BY DEF HonestHypotheses, Inv, Drained, CallOf
<1>2. /\ c.slave = 0 => pc' = "idle"
      /\ c.slave # 0 => pc' = "first"
  BY DEF CallOf, Returns
<1>3. /\ toSlave' # <<>>
      /\ toSlave'[Len(toSlave')].n = made' /\ toSlave'[Len(toSlave')].call = c
  BY <1>1, CallSent
<1> QED
  BY ONLY <1>1, <1>2, <1>3 DEF Told, Honest

\* As long as the call waits for the first byte, its request or its reply is under way.
LEMMA NoTimeout == ASSUME HonestHypotheses, Inv, Told PROVE ~ ResponseTimeout
<1> SUFFICES ASSUME ResponseTimeout PROVE FALSE
  OBVIOUS
<1>1. pc = "first" /\ line = <<>> /\ ~ \E i \in 1 .. Len(toSlave) : toSlave[i].call.slave # 0
  BY DEF HonestHypotheses, ResponseTimeout, Coming
<1>2. /\ call.slave # 0 /\ toSlave # <<>> /\ toSlave[Len(toSlave)].call = call
      /\ toSlave \in Seq([n : Nat, call : Calls, bytes : Seq(Byte)])
  BY <1>1 DEF Told, Inv, Typed
<1>3. Len(toSlave) \in 1 .. Len(toSlave)
  BY ONLY <1>2
<1> QED
  BY ONLY <1>1, <1>2, <1>3

\* A byte that moves from the line to the buffer stays in its place in the frame.
LEMMA MovedByte ==
  ASSUME NEW S, NEW s \in Seq(S), NEW r \in Seq(S), r # <<>>
  PROVE  Append(s, Head(r)) \o Tail(r) = s \o r
<1> DEFINE A == Append(s, Head(r))
           B == Tail(r)
           L == A \o B
           R == s \o r
<1>1. /\ A \in Seq(S) /\ Len(A) = Len(s) + 1 /\ A[Len(s) + 1] = r[1] /\ \A k \in 1 .. Len(s) : A[k] = s[k]
      /\ B \in Seq(S) /\ Len(B) = Len(r) - 1 /\ \A k \in 1 .. Len(r) - 1 : B[k] = r[k + 1]
      /\ Len(s) \in Nat /\ Len(r) \in Nat /\ Len(r) >= 1
  <2>1. /\ B \in Seq(S) /\ Len(B) = Len(r) - 1 /\ \A k \in 1 .. Len(r) - 1 : B[k] = r[k + 1]
        /\ Len(s) \in Nat /\ Len(r) \in Nat /\ Len(r) >= 1 /\ Head(r) = r[1] /\ Head(r) \in S
    OBVIOUS
  <2>2. /\ A \in Seq(S) /\ Len(A) = Len(s) + 1 /\ A[Len(s) + 1] = Head(r)
        /\ \A k \in 1 .. Len(s) : A[k] = s[k]
    BY ONLY <2>1, AppendAt, s \in Seq(S)
  <2> HIDE DEF A, B
  <2> QED
    BY ONLY <2>1, <2>2
<1> HIDE DEF A, B
<1>2. /\ L \in Seq(S) /\ Len(L) = Len(A) + Len(B)
      /\ \A k \in 1 .. Len(A) : L[k] = A[k]
  <2>1. A \in Seq(S) /\ B \in Seq(S)
    BY ONLY <1>1
  <2> QED
    BY ONLY <2>1, ConcatFirst, Zenon
<1>3. \A k \in 1 .. Len(B) : L[k + Len(A)] = B[k]
  BY ONLY <1>1, ConcatSecond
<1>4. /\ R \in Seq(S) /\ Len(R) = Len(s) + Len(r)
      /\ \A k \in 1 .. Len(s) : R[k] = s[k]
  BY ConcatFirst
<1>5. \A k \in 1 .. Len(r) : R[k + Len(s)] = r[k]
  BY ConcatSecond
<1> HIDE DEF L, R
<1>6. ASSUME NEW k \in 1 .. Len(L) PROVE L[k] = R[k]
  <2>1. CASE k <= Len(s)
    <3>1. k \in 1 .. Len(s) /\ k \in 1 .. Len(A)
      BY ONLY <1>1, <1>2, <2>1, k \in 1 .. Len(L)
    <3> QED
      BY ONLY <1>1, <1>2, <1>4, <3>1
  <2>2. CASE k = Len(s) + 1
    <3>1. k \in 1 .. Len(A) /\ 1 \in 1 .. Len(r) /\ k = 1 + Len(s)
      BY ONLY <1>1, <2>2
    <3> QED
      BY ONLY <1>1, <1>2, <1>5, <2>2, <3>1
  <2>3. CASE k > Len(s) + 1
    <3>1. PICK j \in 1 .. Len(B) : k = j + Len(A)
      <4>1. k - Len(A) \in 1 .. Len(B) /\ k = (k - Len(A)) + Len(A)
        BY ONLY <1>1, <1>2, <2>3, k \in 1 .. Len(L)
      <4> QED
        BY ONLY <4>1
    <3>2. L[k] = r[j + 1]
      BY ONLY <1>1, <1>3, <3>1
    <3>3. k = (j + 1) + Len(s) /\ j + 1 \in 1 .. Len(r)
      BY ONLY <1>1, <3>1
    <3> QED
      BY ONLY <1>5, <3>2, <3>3
  <2> QED
    BY ONLY <1>1, <1>2, <2>1, <2>2, <2>3, k \in 1 .. Len(L)
<1>7. Len(L) = Len(R)
  BY ONLY <1>1, <1>2, <1>4
<1>8. L = R
  BY ONLY <1>2, <1>4, <1>6, <1>7
<1> QED
  BY ONLY <1>8 DEF L, R, A, B

\* The bytes of the reply move from the line to the buffer, and nothing else does.
LEMMA ByteTold ==
  ASSUME Inv, Told, FirstByte \/ NextByte
  PROVE  Told' /\ pc # "idle" /\ pc' = "more" /\ ret' = ret
<1>0. /\ line # <<>> /\ line \in Seq(Byte) /\ source \in Seq(Byte) /\ line' = Tail(line)
      /\ call' = call /\ toSlave' = toSlave /\ made' = made /\ answer' = answer
  BY DEF Inv, Typed, FirstByte, NextByte
<1>1. /\ pc # "idle" /\ call.slave # 0 /\ pc' = "more" /\ ret' = ret
      /\ MeantFrame(source' \o Tail(line))
  <2>1. CASE FirstByte
    <3>1. pc = "first" /\ call.slave # 0 /\ MeantFrame(line) /\ Head(line) = call.slave
      BY <1>0, <2>1 DEF FirstByte, Told, Inv, Waiting
    <3>2. pc' = "more" /\ source' = <<Head(line)>> /\ ret' = ret
      BY <2>1, <3>1 DEF FirstByte
    <3>3. source' \o Tail(line) = line
      <4>1. <<>> \in Seq(Byte) /\ <<Head(line)>> = Append(<<>>, Head(line)) /\ <<>> \o line = line
        BY ONLY <1>0
      <4>2. Append(<<>>, Head(line)) \o Tail(line) = <<>> \o line
        BY ONLY <1>0, <4>1, MovedByte
      <4> QED
        BY ONLY <3>2, <4>1, <4>2
    <3> QED
      BY ONLY <3>1, <3>2, <3>3
  <2>2. CASE NextByte
    <3>1. pc = "more" /\ pc' = pc /\ source' = Append(source, Head(line)) /\ ret' = ret
      BY <2>2 DEF NextByte
    <3>2. call.slave # 0 /\ MeantFrame(source \o line)
      BY <3>1 DEF Told
    <3>3. source' \o Tail(line) = source \o line
      BY ONLY <1>0, <3>1, MovedByte
    <3> QED
      BY ONLY <3>1, <3>2, <3>3
  <2> QED
    BY <2>1, <2>2
<1>2. PICK p : Meant(p) /\ source' \o Tail(line) = RtuFrame(call.slave, p)
  BY ONLY <1>1 DEF MeantFrame
<1>3. MeantFrame(source \o line)'
  <2>1. Meant(p)'
    BY ONLY <1>0, <1>2 DEF Meant
  <2> QED
    BY ONLY <1>0, <1>2, <2>1 DEF MeantFrame
<1> QED
  BY ONLY <1>0, <1>1, <1>3 DEF Told, Honest

\* The call ends with what the device did for it.
LEMMA EndTold ==
  ASSUME HonestHypotheses, Inv, Told, EndOfFrame
  PROVE  Told' /\ pc # "idle" /\ pc' = "idle" /\ ret' = answer /\ answer # Unanswered
<1>1. /\ pc = "more" /\ line = <<>> /\ pc' = "idle"
      /\ call' = call /\ toSlave' = toSlave /\ made' = made /\ answer' = answer
  BY DEF HonestHypotheses, EndOfFrame, Returns
<1>2. PICK r \in Outcomes(call, source) : ret' = r
  BY DEF EndOfFrame, Returns
<1>3. source \in Seq(Byte) /\ call \in Calls
  BY DEF Inv, Typed
<1>4. source \o line = source
  BY ONLY <1>1, <1>3
<1>5. MeantFrame(source)
  BY <1>1, <1>4 DEF Told
<1>6. PICK p : Meant(p) /\ source = RtuFrame(call.slave, p)
  BY ONLY <1>5 DEF MeantFrame
<1>7. PICK m \in Memory : p = Serve(m, RequestOf(call)).pdu /\ answer = Outcome(m, call)
  BY ONLY <1>6 DEF Meant
<1>8. r = answer
  <2>1. SpanIsSnug(call) /\ Valid(m, call)
    BY <1>3 DEF HonestHypotheses
  <2> QED
    BY ONLY <1>2, <1>3, <1>6, <1>7, <2>1, FrameIsTold
<1>9. answer # Unanswered
  BY ONLY <1>7 DEF Outcome, modbus_exception_code, Unanswered, no_answer
<1> QED
  BY ONLY <1>1, <1>2, <1>8, <1>9 DEF Told, Honest

\* The device answers the request that is waited for, or takes up a broadcast and says nothing.
LEMMA ServeTold ==
  ASSUME HonestHypotheses, Inv, Told, SlaveServes
  PROVE  Told'
<1> DEFINE e == Head(toSlave)
           T == [n : Nat, call : Calls, bytes : Seq(Byte)]
           rep == Serve(mem, Received(e))
<1>1. /\ toSlave # <<>> /\ toSlave \in Seq(T) /\ mem \in Memory /\ call \in Calls /\ made \in Nat
      /\ \A k \in 1 .. Len(toSlave) : Entry(toSlave[k])
      /\ line \in Seq(Byte) /\ source \in Seq(Byte)
  BY DEF SlaveServes, Inv, Typed
<1>2. /\ toSlave' = Tail(toSlave)
      /\ line' = (IF e.call.slave = 0 THEN line ELSE line \o RtuFrame(e.bytes[1], rep.pdu))
      /\ answer' = (IF e.n = made /\ e.call.slave # 0 THEN Outcome(mem, e.call) ELSE answer)
      /\ pc' = pc /\ call' = call /\ source' = source /\ ret' = ret /\ made' = made
  BY Zenon DEF SlaveServes, Answer, Outcome
<1> HIDE DEF T
<1>3. /\ e = toSlave[1] /\ 1 \in 1 .. Len(toSlave) /\ Tail(toSlave) \in Seq(T)
      /\ Len(toSlave) \in Nat /\ Len(toSlave) >= 1 /\ Len(Tail(toSlave)) = Len(toSlave) - 1
      /\ \A k \in 1 .. Len(toSlave) - 1 : Tail(toSlave)[k] = toSlave[k + 1]
  BY ONLY <1>1
<1>4. /\ Received(e) = RequestOf(e.call) /\ e.bytes[1] = e.call.slave
      /\ IsReply(rep, 252)
  <2>1. Entry(e)
    BY ONLY <1>1, <1>3
  <2> HIDE DEF e
  <2> QED
    BY ONLY <1>1, <2>1, Replied
<1> HIDE DEF e
<1>5. CASE e.call.slave = 0
  <2>1. line' = line /\ answer' = answer
    BY ONLY <1>2, <1>5
  <2>2. pc = "first" /\ line = <<>> =>
          /\ toSlave' # <<>>
          /\ toSlave'[Len(toSlave')].n = made
          /\ toSlave'[Len(toSlave')].call = call
    <3> SUFFICES ASSUME pc = "first", line = <<>>
                 PROVE  /\ toSlave' # <<>>
                        /\ toSlave'[Len(toSlave')].n = made
                        /\ toSlave'[Len(toSlave')].call = call
      OBVIOUS
    <3>1. toSlave[Len(toSlave)].n = made /\ toSlave[Len(toSlave)].call = call /\ call.slave # 0
      BY DEF Told
    <3>2. Len(toSlave) # 1
      BY ONLY <1>3, <1>5, <3>1
    <3>3. Len(toSlave) - 1 \in 1 .. Len(toSlave) - 1 /\ (Len(toSlave) - 1) + 1 = Len(toSlave)
      BY ONLY <1>3, <3>2
    <3>4. toSlave'[Len(toSlave')] = toSlave[Len(toSlave)]
      BY ONLY <1>2, <1>3, <3>3
    <3>5. toSlave' # <<>>
      <4>1. toSlave' \in Seq(T) /\ Len(toSlave') >= 1
        BY ONLY <1>2, <1>3, <3>2
      <4> QED
        BY ONLY <4>1
    <3> QED
      BY ONLY <3>1, <3>4, <3>5
  <2>3. \A p : Meant(p) => Meant(p)'
    BY ONLY <1>2, <2>1 DEF Meant
  <2>4. pc = "first" /\ line # <<>> => MeantFrame(line)'
    <3>1. pc = "first" /\ line # <<>> => MeantFrame(line)
      BY DEF Told
    <3> QED
      BY ONLY <1>2, <2>1, <2>3, <3>1 DEF MeantFrame
  <2>5. pc = "more" => MeantFrame(source \o line)'
    <3>1. pc = "more" => MeantFrame(source \o line)
      BY DEF Told
    <3> QED
      BY ONLY <1>2, <2>1, <2>3, <3>1 DEF MeantFrame
  <2>6. (pc # "idle" => call.slave # 0) /\ Honest
    BY DEF Told
  <2> QED
    BY ONLY <1>2, <2>1, <2>2, <2>4, <2>5, <2>6 DEF Told, Honest
<1>6. CASE e.call.slave # 0
  <2>1. pc = "first" /\ 1 = Len(toSlave) /\ e.call = call /\ line = <<>>
    BY <1>3, <1>6 DEF Inv, Waiting
  <2>2. e.n = made
    BY <1>3, <2>1 DEF Told
  <2>3. answer' = Outcome(mem, call)
    BY ONLY <1>2, <1>6, <2>1, <2>2
  <2>p. PICK p : p = Serve(mem, RequestOf(call)).pdu
    OBVIOUS
  <2> DEFINE f == RtuFrame(call.slave, p)
  <2>4. rep.pdu = p /\ p \in Seq(Byte)
    BY ONLY <1>4, <2>1, <2>p DEF IsReply
  <2>5. f \in Seq(Byte) /\ Len(f) = Len(p) + 3
    <3>1. call.slave \in Byte
      BY <1>1, CallParts
    <3> QED
      BY ONLY <2>4, <3>1, RtuFrameParts
  <2>6. line' = <<>> \o f
    BY ONLY <1>2, <1>4, <1>6, <2>1, <2>4
  <2>7. Meant(p)'
    BY ONLY <1>1, <1>2, <2>3, <2>p DEF Meant
  <2>8. line' = f /\ line' # <<>>
    <3>1. Len(p) \in Nat
      BY ONLY <2>4
    <3> HIDE DEF f
    <3> QED
      BY ONLY <2>5, <2>6, <3>1
  <2>9. MeantFrame(line)'
    BY ONLY <1>2, <2>7, <2>8 DEF MeantFrame
  <2> QED
    BY ONLY <1>2, <1>6, <2>1, <2>8, <2>9 DEF Told, Honest
<1> QED
  BY <1>5, <1>6

\* Each action keeps it.
LEMMA NextTold ==
  ASSUME HonestHypotheses
  PROVE  Inv /\ Told /\ [Next]_vars => Told'
<1> SUFFICES ASSUME Inv, Told, [Next]_vars PROVE Told'
  OBVIOUS
<1>1. CASE \E c \in Calls, sent \in BOOLEAN : CallOf(c, sent)
  BY <1>1, CallTold
<1>2. CASE ResponseTimeout
  BY <1>2, NoTimeout
<1>3. CASE FirstByte \/ NextByte
  BY <1>3, ByteTold
<1>4. CASE EndOfFrame
  BY <1>4, EndTold
<1>5. CASE SlaveServes
  BY <1>5, ServeTold
<1>6. CASE SlaveRefuses \/ Noise
  BY <1>6 DEF SlaveRefuses, Noise, HonestHypotheses
<1>7. CASE UNCHANGED vars
  <2>1. UNCHANGED <<pc, call, toSlave, line, source, ret, made, answer>>
    BY <1>7 DEF vars
  <2>2. \A p : Meant(p) => Meant(p)'
    BY ONLY <2>1 DEF Meant
  <2>3. \A f : MeantFrame(f) => MeantFrame(f)'
    BY ONLY <2>1, <2>2 DEF MeantFrame
  <2> QED
    BY <2>1, <2>3 DEF Told, Honest, MeantFrame, Meant
<1> QED
  BY <1>1, <1>2, <1>3, <1>4, <1>5, <1>6, <1>7 DEF Next

\* On a prompt line without faults, a call that ends returned what the device did for that very
\* call, whatever broadcasts it crossed: the reader of the response stops where the checksum is,
\* although its own error is thrown away, also after a 0x06 whose value it does not accept.
THEOREM HonestTheorem ==
  ASSUME HonestHypotheses
  PROVE  Spec => []Honest
<1>1. PromptLine
  BY DEF HonestHypotheses, PromptLine
<1>2. Told => Honest
  BY DEF Told
<1>3. Inv /\ [Next]_vars => Inv'
  BY <1>1, NextInv
<1>4. Inv /\ Told /\ [Next]_vars => Told'
  BY NextTold
<1> QED
  BY <1>2, <1>3, <1>4, InitInv, InitTold, PTL DEF Spec

--------------------------------------------------------------------------------
(* Late replies, lost requests and refusals.  What a call returns still is what *)
(* the device did for it as long as it is clean: then nothing but its own       *)
(* request and reply is under way, from the call to its end (Alone).            *)

\* The bytes f are the frame that answers the current call; unless the device refused, that frame
\* tells what the device did.
AnswerFrame(f) ==
  \E p \in Seq(Byte) :
    /\ f = RtuFrame(call.slave, p)
    /\ answer.ec <= modbus_exception_code.success =>
         \E m \in Memory :
           Valid(m, call) /\ p = Serve(m, RequestOf(call)).pdu /\ answer = Outcome(m, call)

Alone ==
  clean =>
    /\ \A k \in 1 .. Len(toSlave) : toSlave[k].call.slave # 0 =>
         /\ pc = "first" /\ line = <<>> /\ k = Len(toSlave)
         /\ toSlave[k].call = call /\ toSlave[k].n = made
    /\ pc = "first" /\ line # <<>> => AnswerFrame(line)
    /\ pc = "more" => AnswerFrame(source \o line)
    /\ NoFalseSuccess

\* Nothing is under way at the start.
LEMMA InitAlone == Init => Alone
<1>1. Len(<<>>) = 0
  OBVIOUS
<1> QED
  BY <1>1 DEF Init, Alone, NoFalseSuccess

\* A call that starts clean finds an empty line and only broadcasts before it.
LEMMA CallAlone ==
  ASSUME Typed, NEW c \in Calls, NEW sent \in BOOLEAN, CallOf(c, sent)
  PROVE  Alone'
<1> SUFFICES ASSUME clean' PROVE Alone'
  BY DEF Alone
<1>1. /\ line = <<>> /\ line' = <<>> /\ call' = c
      /\ \A k \in 1 .. Len(toSlave) : toSlave[k].call.slave = 0
  BY DEF CallOf, Coming
<1>2. /\ c.slave = 0 => pc' = "idle"
      /\ c.slave # 0 => pc' = "first"
  BY DEF CallOf, Returns
<1>3. \A k \in 1 .. Len(toSlave') : toSlave'[k].call.slave # 0 =>
        k = Len(toSlave') /\ toSlave'[k].call = c /\ toSlave'[k].n = made'
  BY <1>1, CallSent
<1> QED
  BY ONLY <1>1, <1>2, <1>3 DEF Alone, NoFalseSuccess

\* A call that times out clean leaves nothing behind, and reports an error.
LEMMA TimeoutAlone ==
  ASSUME ResponseTimeout
  PROVE  Alone'
<1> DEFINE r == [Unread(call) EXCEPT !.ec = timed_out]
<1> SUFFICES ASSUME clean' PROVE Alone'
  BY DEF Alone
<1>1. /\ pc' = "idle" /\ toSlave' = toSlave /\ ret' = Return(call, r)
      /\ \A k \in 1 .. Len(toSlave) : toSlave[k].call.slave = 0
  BY DEF ResponseTimeout, Coming, Returns
<1>2. r.ec = timed_out
  BY DEF Unread, Reading
<1>3. timed_out # modbus_exception_code.success
  BY DEF timed_out, modbus_exception_code
<1> HIDE DEF r
<1>4. ret'.ec # modbus_exception_code.success
  BY ONLY <1>1, <1>2, <1>3, ErrorIsKept
<1> QED
  BY ONLY <1>1, <1>4 DEF Alone, NoFalseSuccess

\* The bytes of the answer move from the line to the buffer.
LEMMA ByteAlone ==
  ASSUME Typed, Alone, FirstByte \/ NextByte
  PROVE  Alone'
<1> SUFFICES ASSUME clean' PROVE Alone'
  BY DEF Alone
<1>0. /\ line # <<>> /\ line \in Seq(Byte) /\ source \in Seq(Byte) /\ line' = Tail(line)
      /\ call' = call /\ toSlave' = toSlave /\ made' = made /\ answer' = answer
      /\ clean /\ call \in Calls
  BY DEF Typed, FirstByte, NextByte
<1>1. pc' = "more" /\ AnswerFrame(source' \o Tail(line))
  <2>1. CASE FirstByte
    <3>1. pc = "first" /\ AnswerFrame(line)
      BY <1>0, <2>1 DEF FirstByte, Alone
    <3>2. PICK p \in Seq(Byte) : line = RtuFrame(call.slave, p)
      BY ONLY <3>1 DEF AnswerFrame
    <3>3. call.slave \in Byte
      BY ONLY <1>0, CallParts
    <3>4. line[1] = call.slave
      BY ONLY <3>2, <3>3, RtuFrameParts
    <3>5. Head(line) = call.slave
      BY ONLY <1>0, <3>4
    <3>6. pc' = "more" /\ source' = <<Head(line)>>
      BY <2>1, <3>5 DEF FirstByte
    <3>7. source' \o Tail(line) = line
      <4>1. <<>> \in Seq(Byte) /\ <<Head(line)>> = Append(<<>>, Head(line)) /\ <<>> \o line = line
        BY ONLY <1>0
      <4>2. Append(<<>>, Head(line)) \o Tail(line) = <<>> \o line
        BY ONLY <1>0, <4>1, MovedByte
      <4> QED
        BY ONLY <3>6, <4>1, <4>2
    <3> QED
      BY ONLY <3>1, <3>6, <3>7
  <2>2. CASE NextByte
    <3>1. pc = "more" /\ pc' = pc /\ source' = Append(source, Head(line))
      BY <2>2 DEF NextByte
    <3>2. AnswerFrame(source \o line)
      BY <1>0, <3>1 DEF Alone
    <3>3. source' \o Tail(line) = source \o line
      BY ONLY <1>0, <3>1, MovedByte
    <3> QED
      BY ONLY <3>1, <3>2, <3>3
  <2> QED
    BY <2>1, <2>2
<1>2. AnswerFrame(source \o line)'
  BY ONLY <1>0, <1>1 DEF AnswerFrame
<1>3. \A k \in 1 .. Len(toSlave) : toSlave[k].call.slave = 0
  BY <1>0 DEF Alone
<1> QED
  BY ONLY <1>0, <1>1, <1>2, <1>3 DEF Alone, NoFalseSuccess

\* A call that ends clean has collected all of its answer.
LEMMA EndAlone ==
  ASSUME Typed, Alone, EndOfFrame
  PROVE  Alone'
<1> SUFFICES ASSUME clean' PROVE Alone'
  BY DEF Alone
<1>1. /\ pc = "more" /\ line = <<>> /\ pc' = "idle" /\ clean
      /\ call' = call /\ toSlave' = toSlave /\ answer' = answer
      /\ \A k \in 1 .. Len(toSlave) : toSlave[k].call.slave = 0
  BY DEF EndOfFrame, Returns, Coming
<1>2. PICK r \in Outcomes(call, source) : ret' = r
  BY DEF EndOfFrame, Returns
<1>3. source \in Seq(Byte) /\ call \in Calls
  BY DEF Typed
<1>4. source \o line = source
  BY ONLY <1>1, <1>3
<1>5. AnswerFrame(source)
  BY <1>1, <1>4 DEF Alone
<1>6. ASSUME answer.ec <= modbus_exception_code.success, r.ec = modbus_exception_code.success
      PROVE  r = answer
  <2>1. PICK m \in Memory, p \in Seq(Byte) :
          /\ source = RtuFrame(call.slave, p) /\ Valid(m, call)
          /\ p = Serve(m, RequestOf(call)).pdu /\ answer = Outcome(m, call)
    BY ONLY <1>5, <1>6 DEF AnswerFrame
  <2> QED
    BY ONLY <1>2, <1>3, <1>6, <2>1, FrameIsTold
<1> QED
  BY ONLY <1>1, <1>2, <1>6 DEF Alone, NoFalseSuccess

\* The device takes up a broadcast silently, or answers the call that is waited for.
LEMMA AnswerAlone ==
  ASSUME Typed, Alone, toSlave # <<>>, NEW reply, IsReply(reply, 252), NEW a, Answer(reply, a),
         NEW c, c = Head(toSlave).call,
         a.ec <= modbus_exception_code.success =>
           Valid(mem, c) /\ reply.pdu = Serve(mem, RequestOf(c)).pdu /\ a = Outcome(mem, c)
  PROVE  Alone'
<1> DEFINE e == Head(toSlave)
<1> SUFFICES ASSUME clean' PROVE Alone'
  BY DEF Alone
<1>0. /\ line' = (IF e.call.slave = 0 THEN line ELSE line \o RtuFrame(e.bytes[1], reply.pdu))
      /\ answer' = (IF e.n = made /\ e.call.slave # 0 THEN a ELSE answer)
      /\ pc' = pc /\ call' = call /\ source' = source /\ ret' = ret /\ made' = made /\ clean
      /\ mem \in Memory /\ call \in Calls /\ e.call = c
  BY DEF Typed, Answer
<1>1. /\ Entry(e) /\ e = toSlave[1]
      /\ Len(toSlave) \in Nat /\ Len(toSlave) >= 1 /\ Len(toSlave') = Len(toSlave) - 1
      /\ \A k \in 1 .. Len(toSlave') :
           toSlave'[k] = toSlave[k + 1] /\ k + 1 \in 1 .. Len(toSlave)
  BY AnswerTyped
<1> HIDE DEF e
<1>2. /\ \A k \in 1 .. Len(toSlave) : toSlave[k].call.slave # 0 =>
           /\ pc = "first" /\ line = <<>> /\ k = Len(toSlave)
           /\ toSlave[k].call = call /\ toSlave[k].n = made
      /\ pc = "first" /\ line # <<>> => AnswerFrame(line)
      /\ pc = "more" => AnswerFrame(source \o line)
      /\ NoFalseSuccess
  BY <1>0 DEF Alone
<1>3. CASE c.slave = 0
  <2>1. line' = line /\ answer' = answer
    BY ONLY <1>0, <1>3
  <2>2. ASSUME NEW k \in 1 .. Len(toSlave'), toSlave'[k].call.slave # 0
        PROVE  /\ pc = "first" /\ line = <<>> /\ k = Len(toSlave')
               /\ toSlave'[k].call = call /\ toSlave'[k].n = made
    <3>1. toSlave'[k] = toSlave[k + 1] /\ k + 1 \in 1 .. Len(toSlave)
      BY ONLY <1>1, k \in 1 .. Len(toSlave')
    <3>2. /\ pc = "first" /\ line = <<>> /\ k + 1 = Len(toSlave)
          /\ toSlave[k + 1].call = call /\ toSlave[k + 1].n = made
      BY ONLY <1>2, <2>2, <3>1
    <3>3. k \in Int
      OBVIOUS
    <3>4. k = Len(toSlave')
      BY ONLY <1>1, <3>2, <3>3
    <3> QED
      BY ONLY <3>1, <3>2, <3>4
  <2>3. \A f : AnswerFrame(f) => AnswerFrame(f)'
    BY ONLY <1>0, <2>1 DEF AnswerFrame
  <2>4. /\ pc = "first" /\ line # <<>> => AnswerFrame(line)'
        /\ pc = "more" => AnswerFrame(source \o line)'
    BY ONLY <1>0, <1>2, <2>1 DEF AnswerFrame
  <2> QED
    BY ONLY <1>0, <1>2, <2>1, <2>2, <2>4 DEF Alone, NoFalseSuccess
<1>4. CASE c.slave # 0
  <2>1. 1 \in 1 .. Len(toSlave) /\ toSlave[1].call.slave # 0
    BY ONLY <1>0, <1>1, <1>4
  <2>2. pc = "first" /\ line = <<>> /\ 1 = Len(toSlave) /\ c = call /\ e.n = made
    BY ONLY <1>0, <1>1, <1>2, <2>1
  <2>3. Len(toSlave') = 0
    <3>1. Len(toSlave') = Len(toSlave) - 1 /\ Len(toSlave) = 1
      BY ONLY <1>1, <2>2
    <3>2. Len(toSlave') = 1 - 1
      BY ONLY <3>1, Zenon
    <3> QED
      BY ONLY <3>2
  <2>4. e.bytes[1] = call.slave /\ call.slave \in Byte
    <3>1. e.bytes[1] = e.call.slave
      BY <1>0, <1>1, Replied
    <3>2. call.slave \in Byte
      BY <1>0, CallParts
    <3> QED
      BY ONLY <1>0, <2>2, <3>1, <3>2
  <2>p. PICK p \in Seq(Byte) : p = reply.pdu
    BY DEF IsReply
  <2> DEFINE f == RtuFrame(call.slave, p)
  <2>5. f \in Seq(Byte)
    BY ONLY <2>4, RtuFrameParts, p \in Seq(Byte)
  <2>6. line' = <<>> \o f
    BY ONLY <1>0, <1>4, <2>2, <2>4, <2>p
  <2>7. line' = f
    <3> HIDE DEF f
    <3> QED
      BY ONLY <2>5, <2>6
  <2>8. answer' = a
    BY ONLY <1>0, <1>4, <2>2
  <2>9. a.ec <= modbus_exception_code.success =>
          Valid(mem, call) /\ p = Serve(mem, RequestOf(call)).pdu /\ a = Outcome(mem, call)
    BY <2>2, <2>p
  <2>10. AnswerFrame(line)'
    BY ONLY <1>0, <2>7, <2>8, <2>9, p \in Seq(Byte) DEF AnswerFrame
  <2>11. \A k \in 1 .. Len(toSlave') : FALSE
    BY ONLY <2>3
  <2> QED
    BY ONLY <1>0, <2>2, <2>10, <2>11 DEF Alone, NoFalseSuccess
<1> QED
  BY <1>3, <1>4

\* A turn of the device: only what it carries out is noted as a success.
LEMMA TurnAlone ==
  ASSUME Typed, Alone, SlaveServes \/ SlaveRefuses
  PROVE  Alone'
<1> DEFINE e == Head(toSlave)
           OK == modbus_exception_code.success
<1>1. toSlave # <<>> /\ mem \in Memory /\ Entry(e)
  <2>1. /\ toSlave # <<>> /\ mem \in Memory
        /\ toSlave \in Seq([n : Nat, call : Calls, bytes : Seq(Byte)])
        /\ \A k \in 1 .. Len(toSlave) : Entry(toSlave[k])
    BY DEF SlaveServes, SlaveRefuses, Typed
  <2>2. e = toSlave[1] /\ 1 \in 1 .. Len(toSlave)
    BY ONLY <2>1
  <2> QED
    BY ONLY <2>1, <2>2
<1>2. PICK c : c = e.call
  OBVIOUS
<1>3. /\ Received(e) = RequestOf(c)
      /\ IsReply(Serve(mem, Received(e)), 252)
      /\ \A x \in Nat : IsReply(Refusal(mem, Received(e), x), 252)
  BY ONLY <1>1, <1>2, Replied
<1>4. CASE SlaveServes
  <2> DEFINE rep == Serve(mem, Received(e))
             a == Outcome(mem, c)
  <2>1. Answer(rep, a)
    BY <1>2, <1>4, Zenon DEF SlaveServes, Outcome
  <2>2. a.ec <= OK => Valid(mem, c)
    BY DEF Outcome, modbus_exception_code
  <2>3. rep.pdu = Serve(mem, RequestOf(c)).pdu /\ IsReply(rep, 252) /\ a = Outcome(mem, c)
    BY ONLY <1>3
  <2> HIDE DEF rep, a
  <2> QED
    BY <1>1, <1>2, <2>1, <2>2, <2>3, AnswerAlone
<1>5. CASE SlaveRefuses
  <2>1. PICK x \in Refusals : Answer(Refusal(mem, Received(e), x), [ec |-> x, out |-> <<>>])
    BY <1>5, Zenon DEF SlaveRefuses
  <2> DEFINE no == Refusal(mem, Received(e), x)
             a == [ec |-> x, out |-> <<>>]
  <2>2. x \in Nat /\ ~ (a.ec <= OK)
    BY RefusalsTyped DEF modbus_exception_code
  <2>3. IsReply(no, 252) /\ Answer(no, a)
    BY ONLY <1>3, <2>1, <2>2
  <2> HIDE DEF no, a
  <2> QED
    BY <1>1, <1>2, <2>2, <2>3, AnswerAlone
<1> QED
  BY <1>4, <1>5

\* Each action keeps it, whether replies come in time or not.
LEMMA NextAlone ==
  ASSUME "noise" \notin Faults
  PROVE  Typed /\ Alone /\ [Next]_vars => Alone'
<1> SUFFICES ASSUME Typed, Alone, [Next]_vars PROVE Alone'
  OBVIOUS
<1>1. CASE \E c \in Calls, sent \in BOOLEAN : CallOf(c, sent)
  BY <1>1, CallAlone
<1>2. CASE ResponseTimeout
  BY <1>2, TimeoutAlone
<1>3. CASE FirstByte \/ NextByte
  BY <1>3, ByteAlone
<1>4. CASE EndOfFrame
  BY <1>4, EndAlone
<1>5. CASE SlaveServes \/ SlaveRefuses
  BY <1>5, TurnAlone
<1>6. CASE Noise
  BY <1>6 DEF Noise
<1>7. CASE UNCHANGED vars
  <2>1. UNCHANGED <<pc, call, toSlave, line, source, ret, made, answer, clean>>
    BY <1>7 DEF vars
  <2> QED
    BY <2>1 DEF Alone, AnswerFrame, NoFalseSuccess
<1> QED
  BY <1>1, <1>2, <1>3, <1>4, <1>5, <1>6, <1>7 DEF Next

\* On a line without noise, where replies may be late, requests may be lost and the device may
\* refuse: a call that no other reply crossed, that waited for the whole of its own and was not
\* refused reports success only for what the device did, whatever was left on the line by calls
\* before, and whatever its span.
THEOREM NoFalseSuccessTheorem ==
  ASSUME "noise" \notin Faults
  PROVE  Spec => []NoFalseSuccess
<1>1. Alone => NoFalseSuccess
  BY DEF Alone, NoFalseSuccess
<1>2. Typed /\ [Next]_vars => Typed'
  BY NextTyped
<1>3. Typed /\ Alone /\ [Next]_vars => Alone'
  BY NextAlone
<1> QED
  BY <1>1, <1>2, <1>3, InitTyped, InitAlone, PTL DEF Spec

--------------------------------------------------------------------------------
(* Refinement.  The bytes of a reply change nothing that the application sees;  *)
(* a call, a turn of the device and the end of a frame are each one step of     *)
(* ModbusMemory.                                                                *)

\* The abstract specification has the same operators for calls and tables.
LEMMA SameMeaning ==
  ASSUME NEW m, NEW c
  PROVE  /\ Abstract!Valid(m, c) = Valid(m, c)
         /\ Abstract!Effect(m, c) = Effect(m, c)
         /\ Abstract!Content(m, c) = Content(m, c)
         /\ Abstract!Return(c, Abstract!Unread(c)) = Return(c, Unread(c))
<1> USE DEF function_code, Abstract!function_code
<1>1. Abstract!Valid(m, c) = Valid(m, c)
  BY DEF Valid, Present, Abstract!Valid, Abstract!Present
<1>2. Abstract!Effect(m, c) = Effect(m, c)
  BY DEF Effect, Store, Abstract!Effect, Abstract!Store
<1>3. Abstract!Content(m, c) = Content(m, c)
  BY DEF Content, Slice, Pack, WordBytes,
         Abstract!Content, Abstract!Slice, Abstract!Pack, Abstract!WordBytes
<1>4. Abstract!Return(c, Abstract!Unread(c)) = Return(c, Unread(c))
  BY DEF Return, Unread, Reading, u8, SizeChecked, BytesWords, make_uint16, modbus_exception_code,
         Abstract!Return, Abstract!Unread, Abstract!Reading, Abstract!u8, Abstract!SizeChecked,
         Abstract!BytesWords, Abstract!make_uint16, Abstract!modbus_exception_code
<1> QED
  BY ONLY <1>1, <1>2, <1>3, <1>4

\* A call of the application.
LEMMA CallImplements ==
  ASSUME HonestHypotheses, Inv, NEW c \in Calls, NEW sent \in BOOLEAN, CallOf(c, sent)
  PROVE  Abstract!Next
<1> DEFINE T == [n : Nat, call : Calls, bytes : Seq(Byte)]
           E == [n |-> made + 1, call |-> c, bytes |-> Bytes(c)]
<1>1. /\ pc = "idle" /\ call' = c /\ made' = made + 1
      /\ toSlave' = Append(toSlave, E)
      /\ answer' = Unanswered
      /\ c.slave = 0 => pc' = "idle" /\ ret' = Return(c, Unread(c))
      /\ c.slave # 0 => pc' = "first" /\ ret' = ret
      /\ UNCHANGED mem
  BY DEF HonestHypotheses, CallOf, Returns, Bytes
<1>2. made \in Nat /\ toSlave \in Seq(T)
  BY DEF Inv, Typed
<1>3. E \in T
  <2>1. c.slave \in Byte /\ WriteReq(RequestOf(c)) \in Seq(Byte)
    BY CallParts
  <2>2. Bytes(c) \in Seq(Byte)
    BY ONLY <2>1, RtuFrameParts DEF Bytes
  <2> QED
    BY ONLY <1>2, <2>2, c \in Calls
<1>4. E.n = made + 1 /\ E.call = c
  OBVIOUS
<1> HIDE DEF E, T
<1>5. Pending(toSlave') = Append(Pending(toSlave), [n |-> made', call |-> c])
  <2>1. Pending(Append(toSlave, E)) = Append(Pending(toSlave), [n |-> E.n, call |-> E.call])
    BY ONLY <1>2, <1>3, PendingAppend
  <2> QED
    BY ONLY <1>1, <1>4, <2>1
<1>6. Return(c, Unread(c)) = Abstract!Return(c, Abstract!Unread(c))
  BY ONLY SameMeaning
<1>7. Abstract!Issue(c)
  BY ONLY <1>1, <1>5, <1>6, Zenon
     DEF Abstract!Issue, Pending, Unanswered, Abstract!Unanswered, no_answer, Abstract!no_answer
<1> QED
  BY ONLY <1>7, c \in Calls DEF Abstract!Next

\* The bytes of a reply are not seen, and its last one is not told from the others: the call ends
\* when no more come.
LEMMA ReadImplements ==
  ASSUME HonestHypotheses, Inv, Told, FirstByte \/ NextByte \/ EndOfFrame
  PROVE  Abstract!Next \/ UNCHANGED Abstract!vars
<1>1. CASE FirstByte \/ NextByte
  <2>1. UNCHANGED <<call, toSlave, mem, made, answer>>
    BY <1>1 DEF FirstByte, NextByte
  <2>2. pc # "idle" /\ pc' = "more" /\ ret' = ret
    BY <1>1, ByteTold
  <2>3. (pc' # "idle") = (pc # "idle")
    BY ONLY <2>2
  <2> QED
    BY ONLY <2>1, <2>2, <2>3 DEF Abstract!vars
<1>2. CASE EndOfFrame
  <2>1. UNCHANGED <<call, toSlave, mem, made, answer>>
    BY <1>2 DEF EndOfFrame
  <2>2. pc # "idle" /\ pc' = "idle" /\ ret' = answer /\ answer # Unanswered
    BY <1>2, EndTold
  <2>3. Abstract!End
    BY ONLY <2>1, <2>2
       DEF Abstract!End, Unanswered, Abstract!Unanswered, no_answer, Abstract!no_answer
  <2> QED
    BY ONLY <2>3 DEF Abstract!Next
<1> QED
  BY <1>1, <1>2

\* A turn of the device.
LEMMA ServeImplements ==
  ASSUME HonestHypotheses, Inv, SlaveServes
  PROVE  Abstract!Next
<1> DEFINE e == Head(toSlave)
           c == e.call
           h == Head(Pending(toSlave))
           T == [n : Nat, call : Calls, bytes : Seq(Byte)]
<1>1. toSlave # <<>> /\ toSlave \in Seq(T) /\ mem \in Memory
      /\ \A k \in 1 .. Len(toSlave) : Entry(toSlave[k])
  BY DEF SlaveServes, Inv, Typed
<1> HIDE DEF T
<1>2. /\ Pending(toSlave) # <<>> /\ h = [n |-> e.n, call |-> c]
      /\ Pending(Tail(toSlave)) = Tail(Pending(toSlave))
  BY ONLY <1>1, PendingTail
<1>3. /\ toSlave' = Tail(toSlave) /\ UNCHANGED <<pc, call, ret, made>>
      /\ mem' = Serve(mem, Received(e)).mem
      /\ answer' = (IF e.n = made /\ c.slave # 0 THEN Outcome(mem, c) ELSE answer)
  BY Zenon DEF SlaveServes, Answer, Outcome
<1>4. Entry(e)
  <2>1. e = toSlave[1] /\ 1 \in 1 .. Len(toSlave)
    BY ONLY <1>1
  <2> QED
    BY ONLY <1>1, <2>1
<1> HIDE DEF e
<1>5. Received(e) = RequestOf(c) /\ c \in Calls
  BY ONLY <1>1, <1>4, Replied DEF Entry
<1>6. c \in Call /\ Documented(c) /\ SpanIsSnug(c) /\ Valid(mem, c)
  BY <1>1, <1>5, CallParts DEF HonestHypotheses
<1>7. mem' = Effect(mem, c)
  <2> DEFINE p == Serve(mem, RequestOf(c)).pdu
  <2>1. p \in Seq(Byte)
    <3>1. IsReply(Serve(mem, RequestOf(c)), ReplySize(c))
      BY ONLY <1>1, <1>6, ServeType
    <3> QED
      BY ONLY <3>1 DEF IsReply
  <2>2. Arrived(p, p)
    <3> HIDE DEF p
    <3> QED
      BY ONLY <2>1 DEF Arrived
  <2>3. Serve(mem, RequestOf(c)).mem = IF Valid(mem, c) THEN Effect(mem, c) ELSE mem
    BY ONLY <1>1, <1>6, <2>2, ReplyIsReadBack
  <2> QED
    BY ONLY <1>3, <1>5, <1>6, <2>3
<1>8. Outcome(mem, c) = [ec |-> modbus_exception_code.success, out |-> Content(mem', c)]
  BY ONLY <1>6, <1>7 DEF Outcome
<1>9. /\ Abstract!Valid(mem, c) = Valid(mem, c)
      /\ Abstract!Effect(mem, c) = Effect(mem, c)
      /\ Abstract!Content(mem', c) = Content(mem', c)
  BY ONLY SameMeaning
<1>10. Abstract!modbus_exception_code.success = modbus_exception_code.success
  BY ONLY DEF modbus_exception_code, Abstract!modbus_exception_code
<1>11. h.call = c /\ h.n = e.n
  BY ONLY <1>2
<1> HIDE DEF c
<1>12. Abstract!Apply
  BY ONLY <1>2, <1>3, <1>6, <1>7, <1>8, <1>9, <1>10, <1>11 DEF Abstract!Apply, Pending
<1> QED
  BY ONLY <1>12 DEF Abstract!Next

\* A line on which nothing has been sent is a connection of the abstract specification.
LEMMA InitImplements == Init => Abstract!Init
<1> SUFFICES ASSUME Init PROVE Abstract!Init
  OBVIOUS
<1>1. Pending(<<>>) = <<>>
  BY DEF Pending
<1>2. Pending(toSlave) = <<>>
  BY <1>1 DEF Init
<1> QED
  BY <1>2 DEF Init, Abstract!Init, Pending, Unanswered, Abstract!Unanswered, no_answer, Abstract!no_answer

\* Every step is a step of the abstract specification, or changes nothing that it sees.
LEMMA NextImplements ==
  ASSUME HonestHypotheses
  PROVE  Inv /\ Told /\ [Next]_vars => [Abstract!Next]_(Abstract!vars)
<1> SUFFICES ASSUME Inv, Told, [Next]_vars PROVE Abstract!Next \/ UNCHANGED Abstract!vars
  OBVIOUS
<1>1. CASE \E c \in Calls, sent \in BOOLEAN : CallOf(c, sent)
  BY <1>1, CallImplements
<1>2. CASE ResponseTimeout
  BY <1>2, NoTimeout
<1>3. CASE FirstByte \/ NextByte \/ EndOfFrame
  BY <1>3, ReadImplements
<1>4. CASE SlaveServes
  BY <1>4, ServeImplements
<1>5. CASE SlaveRefuses \/ Noise
  BY <1>5 DEF SlaveRefuses, Noise, HonestHypotheses
<1>6. CASE UNCHANGED vars
  BY <1>6 DEF vars, Abstract!vars
<1> QED
  BY <1>1, <1>2, <1>3, <1>4, <1>5, <1>6 DEF Next

\* The calls over a serial line, byte by byte, with nothing in a frame that names its request and
\* nothing but silence that ends one, are the calls of ModbusMemory over a connection that never
\* dies: each acts on the device's tables at most once and in order, and returns what the device
\* did for that very call.
THEOREM ImplementsTheorem ==
  ASSUME HonestHypotheses
  PROVE  Spec => Implements
<1>1. PromptLine
  BY DEF HonestHypotheses, PromptLine
<1>2. Inv /\ [Next]_vars => Inv'
  BY <1>1, NextInv
<1>3. Inv /\ Told /\ [Next]_vars => Told'
  BY NextTold
<1>4. Inv /\ Told /\ [Next]_vars => [Abstract!Next]_(Abstract!vars)
  BY NextImplements
<1> QED
  BY <1>2, <1>3, <1>4, InitInv, InitTold, InitImplements, PTL
     DEF Spec, Implements, Abstract!Spec
================================================================================
