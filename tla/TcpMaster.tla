------------------------------- MODULE TcpMaster -------------------------------
(* tcp_master: the calls of master_base over tcp::stream (adu/tcp.h), one       *)
(* connection, and the device at its other end.  A call is write_request, then  *)
(* read_response; both block the calling thread, so a call is three steps of    *)
(* the master: Call, ReadHeader (seven bytes), ReadBody (the rest).  Between    *)
(* them the device may act and the connection may die.                          *)
(*                                                                              *)
(* The byte stream from the device is kept byte by byte: the code has nothing   *)
(* but lengths to find the next frame with.  asio's read takes exactly the      *)
(* bytes it was asked for, whatever the segments they come in, or throws.       *)
EXTENDS SlaveMemory, Mbap

CONSTANTS Calls,             \* the calls the application may make
          InitMem,           \* the device's tables at the start
          Refusals,          \* the exception codes with which the device may refuse
          StartTid,          \* m_transaction_id after the calls made so far
          MaxCalls,          \* bound on the number of calls
          AnswersBroadcast   \* the device answers unit id 0, as the example servers do

ASSUME CallsDocumented == Calls \subseteq Call /\ \A c \in Calls : Documented(c)
ASSUME InitMemTyped    == InitMem \in Memory
ASSUME RefusalsTyped   == Refusals \subseteq 1 .. 11
ASSUME StartTidTyped   == StartTid \in U16
ASSUME MaxCallsTyped   == MaxCalls \in Nat
ASSUME BroadcastTyped  == AnswersBroadcast \in BOOLEAN

VARIABLES
  pc,                \* "idle", or what read_response waits for: "header", "body"
  call,              \* the arguments of the last call
  expected,          \* its transaction_id, as write_request returned it
  m_transaction_id,  \* the stream's counter
  length,            \* the length field of the header just read
  toSlave,           \* frames on their way to the device: the bytes, and the call they carry
  fromSlave,         \* bytes on their way to the master
  open,              \* the connection is up
  mem,               \* the device's tables
  ret,               \* what the last call returned
  made,              \* how many calls were sent
  answer             \* history: what the device did for the last call

stream == <<expected, m_transaction_id, length>>
vars   == <<pc, call, stream, toSlave, fromSlave, open, mem, ret, made, answer>>

\* An exception out of asio, and no answer yet: neither is a modbus_exception_code.
asio_error == -1
no_answer  == -2
ErrorCode  == {n \in Int : no_answer <= n /\ n < 256}
Unanswered == [ec |-> no_answer, out |-> <<>>]
Failed     == [ec |-> asio_error, out |-> <<>>]

Init ==
  /\ pc = "idle"
  /\ call \in Calls
  /\ expected = 0
  /\ m_transaction_id = StartTid
  /\ length = 0
  /\ toSlave = <<>>
  /\ fromSlave = <<>>
  /\ open = TRUE
  /\ mem = InitMem
  /\ ret = Unanswered
  /\ made = 0
  /\ answer = Unanswered

--------------------------------------------------------------------------------
(* The application's thread.                                                    *)

Returns(r) == pc' = "idle" /\ ret' = r

\* Faulty variant: the counter is wider than its field in the header.
NextTidWide(tid) == tid + 1

\* The counter of write_request is a uint16_t.
NextTid(tid) == u16(tid + 1)

\* write_request, and the first lines of read_response: a broadcast is not answered.
\* On a connection that has died the kernel may still accept the bytes.
CallOf(c) ==
  /\ pc = "idle" /\ made < MaxCalls
  /\ call' = c
  /\ made' = made + 1
  /\ expected' = m_transaction_id
  /\ m_transaction_id' = NextTid(m_transaction_id)
  /\ toSlave' = IF open
                THEN Append(toSlave, [n |-> made', call |-> c,
                                      bytes |-> Frame(m_transaction_id, c.slave, WriteReq(RequestOf(c)))])
                ELSE toSlave
  /\ answer' = Unanswered
  /\ IF c.slave = 0
     THEN Returns(Return(c, Unread(c)))
     ELSE pc' = "header" /\ ret' = ret
  /\ UNCHANGED <<length, fromSlave, open, mem>>

\* mothbus::write throws: the counter is not incremented.
CallThrows(c) ==
  /\ pc = "idle" /\ ~ open
  /\ call' = c
  /\ Returns(Failed)
  /\ answer' = Unanswered
  /\ UNCHANGED <<stream, toSlave, fromSlave, open, mem, made>>

ReadHeader ==
  /\ pc = "header" /\ Len(fromSlave) >= header_size
  /\ fromSlave' = Drop(fromSlave, header_size)
  /\ LET h  == Header(fromSlave)
         ec == HeaderError(h, expected, call.slave)
     IN  /\ length' = h.length
         /\ \/ /\ ec = modbus_exception_code.success
               /\ pc' = "body" /\ ret' = ret
            \/ /\ ec # modbus_exception_code.success       \* the body stays in the stream
               /\ Returns(Return(call, [Unread(call) EXCEPT !.ec = ec]))
  /\ UNCHANGED <<call, expected, m_transaction_id, toSlave, open, mem, made, answer>>

\* Faulty variant: the unit id is taken off the length twice.
ReadBodyShort ==
  /\ pc = "body" /\ Len(fromSlave) >= length - 2
  /\ fromSlave' = Drop(fromSlave, length - 2)
  /\ Returns(Return(call, ReadResp(call.fc, call.size, Take(fromSlave, length - 2))))
  /\ UNCHANGED <<call, stream, toSlave, open, mem, made, answer>>

\* Faulty variant: the unit id, already read, is waited for again.
ReadBodyLong ==
  /\ pc = "body" /\ Len(fromSlave) >= length
  /\ fromSlave' = Drop(fromSlave, length)
  /\ Returns(Return(call, ReadResp(call.fc, call.size, Take(fromSlave, length))))
  /\ UNCHANGED <<call, stream, toSlave, open, mem, made, answer>>

ReadBody ==
  /\ pc = "body" /\ Len(fromSlave) >= length - 1
  /\ fromSlave' = Drop(fromSlave, length - 1)
  /\ Returns(Return(call, ReadResp(call.fc, call.size, Take(fromSlave, length - 1))))
  /\ UNCHANGED <<call, stream, toSlave, open, mem, made, answer>>

\* mothbus::read throws at the end of the stream, having taken what there was.
ReadThrows ==
  /\ ~ open
  /\ \/ pc = "header" /\ Len(fromSlave) < header_size
     \/ pc = "body" /\ Len(fromSlave) < length - 1
  /\ fromSlave' = <<>>
  /\ Returns(Failed)
  /\ UNCHANGED <<call, stream, toSlave, open, mem, made, answer>>

--------------------------------------------------------------------------------
(* The device, and the connection.                                              *)

\* The device takes up the oldest frame and does what `reply' says; a broadcast is not
\* answered by a conforming device.
Answer(reply) ==
  LET e == Head(toSlave)
  IN  /\ toSlave' = Tail(toSlave)
      /\ mem' = reply.mem
      /\ fromSlave' = IF e.call.slave = 0 /\ ~ AnswersBroadcast THEN fromSlave
                      ELSE fromSlave \o Frame(Header(e.bytes).transaction_id,
                                              Header(e.bytes).unit_id, reply.pdu)
      /\ UNCHANGED <<pc, call, stream, open, ret, made>>

Received(e) == ReadReq(Drop(e.bytes, header_size)).req

\* History: the device acted on entry e in memory m, with outcome a for the application.
Note(e, a) == answer' = IF e.n = made /\ e.call.slave # 0 THEN a ELSE answer

SlaveServes ==
  /\ toSlave # <<>>
  /\ Answer(Serve(mem, Received(Head(toSlave))))
  /\ LET c == Head(toSlave).call
     IN  Note(Head(toSlave),
              IF Valid(mem, c)
              THEN [ec |-> modbus_exception_code.success, out |-> Content(Effect(mem, c), c)]
              ELSE [ec |-> modbus_exception_code.illegal_data_address, out |-> <<>>])

SlaveRefuses ==
  \E e \in Refusals :
    /\ toSlave # <<>>
    /\ Answer(Refusal(mem, Received(Head(toSlave)), e))
    /\ Note(Head(toSlave), [ec |-> e, out |-> <<>>])

\* The peer goes away: what it has not taken up is lost, and so is any end of what it sent.
PeerCloses ==
  /\ open
  /\ open' = FALSE
  /\ toSlave' = <<>>
  /\ \E n \in 0 .. Len(fromSlave) : fromSlave' = Take(fromSlave, n)
  /\ UNCHANGED <<pc, call, stream, mem, ret, made, answer>>

Next ==
  \/ \E c \in Calls : CallOf(c) \/ CallThrows(c)
  \/ ReadHeader \/ ReadBody \/ ReadThrows
  \/ SlaveServes \/ SlaveRefuses \/ PeerCloses

Spec == Init /\ [][Next]_vars

\* A blocked read returns once its bytes are there; the device keeps serving.  Neither the
\* application's next call nor the loss of the connection is ever owed.
Fairness ==
  WF_vars(ReadHeader \/ ReadBody \/ ReadThrows) /\ WF_vars(SlaveServes)

FairSpec == Spec /\ Fairness

--------------------------------------------------------------------------------
(* Properties.                                                                  *)

\* Every variable keeps its type, at the widths of the code: what is on the wire is bytes, the
\* counter and the fields of a header are uint16_t, and an outcome is an error code and words.
TypeOK ==
  /\ pc \in {"idle", "header", "body"}
  /\ call \in Calls
  /\ expected \in U16 /\ m_transaction_id \in U16 /\ length \in U16
  /\ toSlave \in Seq([n : Nat, call : Calls, bytes : Seq(Byte)])
  /\ fromSlave \in Seq(Byte)
  /\ open \in BOOLEAN
  /\ mem \in Memory
  /\ ret \in [ec : ErrorCode, out : Seq(U16)]
  /\ made \in 0 .. MaxCalls
  /\ answer \in [ec : ErrorCode, out : Seq(U16)]

\* Whenever no call is in progress, the stream holds no byte: every call has consumed exactly the
\* frame that answers it.  Nothing in read_response can find a frame boundary again once it is lost.
InSync == open /\ pc = "idle" => fromSlave = <<>>

\* A call that returned without a connection error returned what the device did for it: its
\* error code and the contents it read, in the byte or word layout of the overload.
Honest ==
  (pc = "idle" /\ call.slave # 0 /\ made > 0 /\ ret.ec # asio_error) => ret = answer

\* A call that reports success was carried out by the device, and returned its contents: the
\* transaction id keeps the answer to another call from being taken for this one's.
NoFalseSuccess ==
  (pc = "idle" /\ call.slave # 0 /\ ret.ec = modbus_exception_code.success) => ret = answer

\* The byte-level master and device implement the calls of ModbusMemory.
Abstract ==
  INSTANCE ModbusMemory WITH
    pending <- [i \in 1 .. Len(toSlave) |-> [n |-> toSlave[i].n, call |-> toSlave[i].call]],
    number  <- made,
    busy    <- pc # "idle"

Implements == Abstract!Spec

\* Every call comes back to the application, as long as the device serves what it is sent or the
\* connection dies.
CallReturns == pc # "idle" ~> pc = "idle"
================================================================================
