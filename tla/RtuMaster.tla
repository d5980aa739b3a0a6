------------------------------- MODULE RtuMaster -------------------------------
(* rtu_master: the calls of master_base over rtu::stream (adu/rtu.h), a serial  *)
(* line, and the device at its other end.  The master reads byte by byte, each  *)
(* byte with a timeout; RtuByteRead shows that such a read returns the next     *)
(* byte of the line or takes nothing, and that is all this module uses of it.   *)
(*                                                                              *)
(* Nothing on the line says to which request a reply belongs, and a frame ends  *)
(* only where no byte comes for a while.  The code cannot tell a byte that does *)
(* not come from one that comes late: a timeout may happen at any moment, or    *)
(* only when nothing is due, if the line is assumed to be prompt.               *)
EXTENDS SlaveMemory, Crc

CONSTANTS Calls,      \* the calls the application may make
          InitMem,    \* the device's tables at the start
          Refusals,   \* the exception codes with which the device may refuse
          Faults,     \* what may go wrong: "late", "noise", "unsent"
          MaxCalls,   \* bound on the number of calls
          MaxNoise    \* bound on the bits that flip

ASSUME CallsDocumented == Calls \subseteq Call /\ \A c \in Calls : Documented(c)
ASSUME InitMemTyped    == InitMem \in Memory
ASSUME RefusalsTyped   == Refusals \subseteq 1 .. 11
ASSUME FaultsTyped     == Faults \subseteq {"late", "noise", "unsent"}
ASSUME BoundsTyped     == MaxCalls \in Nat /\ MaxNoise \in Nat

VARIABLES
  pc,       \* "idle", or what receive_response waits for: "first", "more"
  call,     \* the arguments of the last call
  toSlave,  \* frames on their way to the device: the bytes, and the call they carry
  line,     \* bytes on their way to the master
  source,   \* the bytes committed to the message buffer by receive_response
  mem,      \* the device's tables
  ret,      \* what the last call returned
  made,     \* how many calls were made; m_transaction_id is made % 2^16, and nothing reads it
  noise,    \* how many bits have flipped
  answer,   \* history: what the device did for the last call
  clean     \* history: no reply was due when the last call was made, or when it stopped waiting

vars == <<pc, call, toSlave, line, source, mem, ret, made, noise, answer, clean>>

\* boost::system::errc::timed_out, and no answer yet: neither is a modbus_exception_code.
timed_out  == -3
no_answer  == -2
ErrorCode  == {n \in Int : timed_out <= n /\ n < 256}
Unanswered == [ec |-> no_answer, out |-> <<>>]

\* Faulty variant: the buffer has room for a PDU, not for the unit id and the checksum.
buffer_size_of_pdu == 253

\* std::array m_messageBuffer
buffer_size == 320

Init ==
  /\ pc = "idle"
  /\ call \in Calls
  /\ toSlave = <<>>
  /\ line = <<>>
  /\ source = <<>>
  /\ mem = InitMem
  /\ ret = Unanswered
  /\ made = 0
  /\ noise = 0
  /\ answer = Unanswered
  /\ clean = TRUE

--------------------------------------------------------------------------------
(* The application's thread.                                                    *)

Returns(r) == pc' = "idle" /\ ret' = r

\* A reply, or the rest of one, is still due.
Coming == line # <<>> \/ \E i \in 1 .. Len(toSlave) : toSlave[i].call.slave # 0

\* Faulty variant: a broadcast is waited for like any other request.
CallOfWaits(c, sent) ==
  /\ pc = "idle" /\ made < MaxCalls
  /\ sent \/ "unsent" \in Faults
  /\ call' = c
  /\ made' = made + 1
  /\ toSlave' = IF sent
                THEN Append(toSlave, [n |-> made', call |-> c,
                                      bytes |-> RtuFrame(c.slave, WriteReq(RequestOf(c)))])
                ELSE toSlave
  /\ answer' = Unanswered
  /\ clean' = ~ Coming
  /\ pc' = "first" /\ ret' = ret
  /\ UNCHANGED <<line, source, mem, noise>>

\* write_request, and the first lines of receive_response: a broadcast is not answered.  The
\* error of the write goes into a local that nobody looks at: the call waits all the same.
CallOf(c, sent) ==
  /\ pc = "idle" /\ made < MaxCalls
  /\ sent \/ "unsent" \in Faults
  /\ call' = c
  /\ made' = made + 1
  /\ toSlave' = IF sent
                THEN Append(toSlave, [n |-> made', call |-> c,
                                      bytes |-> RtuFrame(c.slave, WriteReq(RequestOf(c)))])
                ELSE toSlave
  /\ answer' = Unanswered
  /\ clean' = ~ Coming
  /\ IF c.slave = 0
     THEN Returns(Return(c, Unread(c)))
     ELSE pc' = "first" /\ ret' = ret
  /\ UNCHANGED <<line, source, mem, noise>>

\* Faulty variant: the timer starts with the first byte.
ResponseTimeoutArmedLate ==
  /\ pc = "first" /\ line # <<>>
  /\ "late" \in Faults \/ ~ Coming
  /\ source' = <<>>
  /\ Returns(Return(call, [Unread(call) EXCEPT !.ec = timed_out]))
  /\ clean' = (clean /\ ~ Coming)
  /\ UNCHANGED <<call, toSlave, line, mem, made, noise, answer>>

\* read_byte_with_timeout reports nothing, within m_timeoutResponse.
ResponseTimeout ==
  /\ pc = "first"
  /\ "late" \in Faults \/ ~ Coming
  /\ source' = <<>>
  /\ Returns(Return(call, [Unread(call) EXCEPT !.ec = timed_out]))
  /\ clean' = (clean /\ ~ Coming)
  /\ UNCHANGED <<call, toSlave, line, mem, made, noise, answer>>

\* The first byte is the unit id.  If it is another one, the rest of the frame stays on the line.
FirstByte ==
  /\ pc = "first" /\ line # <<>>
  /\ line' = Tail(line)
  /\ source' = <<Head(line)>>
  /\ \/ /\ Head(line) = call.slave
        /\ pc' = "more" /\ ret' = ret
     \/ /\ Head(line) # call.slave
        /\ Returns(Return(call, [Unread(call) EXCEPT !.ec = modbus_exception_code.slave_id_invalid]))
  /\ UNCHANGED <<call, toSlave, mem, made, noise, answer, clean>>

\* The loop reads on as long as bytes come; it does not look at the size of the buffer.
NextByte ==
  /\ pc = "more" /\ line # <<>>
  /\ line' = Tail(line)
  /\ source' = Append(source, Head(line))
  /\ UNCHANGED <<pc, call, toSlave, mem, ret, made, noise, answer, clean>>

\* Faulty variant: the checksum is taken over everything that was received.
OutcomesOfAll(c, s) ==
  LET r       == ReadResp(c.fc, c.size, Tail(s))
      Ends(e) == Return(c, [r EXCEPT !.ec = e])
  IN  IF Len(s) < 3 \/ CrcBytes(CRC16(s)) # Drop(s, Len(s) - 2)
      THEN {Ends(modbus_exception_code.invalid_response)}
      ELSE {Ends(modbus_exception_code.success)}

\* Faulty variant: the checksum is not compared.
OutcomesUnchecked(c, s) ==
  {Return(c, [ReadResp(c.fc, c.size, Tail(s)) EXCEPT !.ec = modbus_exception_code.success])}

\* What the call may return once the loop has ended with the bytes s.  What the reader returned
\* is dropped: only the checksum decides, taken over the bytes that the reader consumed.  The two
\* bytes it is compared with are not initialised: one that was not received has any value.
Outcomes(c, s) ==
  LET r       == ReadResp(c.fc, c.size, Tail(s))
      crc     == CrcBytes(CRC16(Take(s, 1 + r.used)))
      rest    == Drop(s, 1 + r.used)
      may     == \A i \in 1 .. 2 : i <= Len(rest) => rest[i] = crc[i]
      must    == may /\ Len(rest) >= 2
      Ends(e) == Return(c, [r EXCEPT !.ec = e])
  IN  (IF may THEN {Ends(modbus_exception_code.success)} ELSE {})
      \cup (IF must THEN {} ELSE {Ends(modbus_exception_code.invalid_response)})

\* Faulty variant: the loop ends once the shortest frame may be complete.
EndOfFrameEarly ==
  /\ pc = "more"
  /\ "late" \in Faults \/ line = <<>> \/ Len(source) >= 5
  /\ \E r \in Outcomes(call, source) : Returns(r)
  /\ clean' = (clean /\ ~ Coming)
  /\ UNCHANGED <<call, toSlave, line, source, mem, made, noise, answer>>

\* No byte within m_timeoutInterCharacter: the response is read and checked.
EndOfFrame ==
  /\ pc = "more"
  /\ "late" \in Faults \/ line = <<>>
  /\ \E r \in Outcomes(call, source) : Returns(r)
  /\ clean' = (clean /\ ~ Coming)
  /\ UNCHANGED <<call, toSlave, line, source, mem, made, noise, answer>>

--------------------------------------------------------------------------------
(* The device, and the line.                                                    *)

Received(e) == ReadReq(SubSeq(e.bytes, 2, Len(e.bytes) - 2)).req

\* The device takes up the oldest frame and does what `reply' says, which the application would
\* see as a; a broadcast is not answered.
Answer(reply, a) ==
  LET e == Head(toSlave)
  IN  /\ toSlave' = Tail(toSlave)
      /\ mem' = reply.mem
      /\ line' = IF e.call.slave = 0 THEN line ELSE line \o RtuFrame(e.bytes[1], reply.pdu)
      /\ answer' = IF e.n = made /\ e.call.slave # 0 THEN a ELSE answer
      /\ UNCHANGED <<pc, call, source, ret, made, noise, clean>>

SlaveServes ==
  /\ toSlave # <<>>
  /\ LET c == Head(toSlave).call
     IN  Answer(Serve(mem, Received(Head(toSlave))),
                IF Valid(mem, c)
                THEN [ec |-> modbus_exception_code.success, out |-> Content(Effect(mem, c), c)]
                ELSE [ec |-> modbus_exception_code.illegal_data_address, out |-> <<>>])

SlaveRefuses ==
  \E e \in Refusals :
    /\ toSlave # <<>>
    /\ Answer(Refusal(mem, Received(Head(toSlave)), e), [ec |-> e, out |-> <<>>])

\* A bit of what is on the line flips.
Noise ==
  /\ "noise" \in Faults /\ noise < MaxNoise
  /\ noise' = noise + 1
  /\ \E i \in 1 .. Len(line), w \in {1, 2, 4, 8, 16, 32, 64, 128} :
       line' = [line EXCEPT ![i] = Xor(@, w)]
  /\ UNCHANGED <<pc, call, toSlave, source, mem, ret, made, answer, clean>>

Next ==
  \/ \E c \in Calls, sent \in BOOLEAN : CallOf(c, sent)
  \/ ResponseTimeout \/ FirstByte \/ NextByte \/ EndOfFrame
  \/ SlaveServes \/ SlaveRefuses \/ Noise

Spec == Init /\ [][Next]_vars

\* The application's thread takes its next step: a read of a byte comes back with it, or in time
\* without it.  Nothing is assumed of the device.
Fairness == WF_vars(ResponseTimeout \/ FirstByte \/ NextByte \/ EndOfFrame)

FairSpec == Spec /\ Fairness

--------------------------------------------------------------------------------
(* Properties.                                                                  *)

\* Every variable keeps its type; what is on the line and in the buffer is bytes.
TypeOK ==
  /\ pc \in {"idle", "first", "more"}
  /\ call \in Calls
  /\ toSlave \in Seq([n : Nat, call : Calls, bytes : Seq(Byte)])
  /\ line \in Seq(Byte)
  /\ source \in Seq(Byte)
  /\ mem \in Memory
  /\ ret \in [ec : ErrorCode, out : Seq(U16)]
  /\ made \in 0 .. MaxCalls
  /\ noise \in 0 .. MaxNoise
  /\ answer \in [ec : ErrorCode, out : Seq(U16)]
  /\ clean \in BOOLEAN

\* Between two calls nothing is on the line: every call has collected the whole of its answer.
\* Nothing clears the line before a request, and nothing on it names the request it answers.
Drained == pc = "idle" => line = <<>>

\* What receive_response collects fits the message buffer, although its loop does not look.
WithinBuffer == Len(source) <= buffer_size

\* A call that was answered returned what the device did for it.
Honest == (pc = "idle" /\ call.slave # 0 /\ made > 0) => ret = answer

\* A call that no other reply crossed, that waited for the whole of its own, was not refused and
\* reports success, was carried out by the device and returned its contents, whichever requests were
\* lost.  On a noisy line the checksum, taken where the reader stopped, is all that tells.
NoFalseSuccess ==
  (/\ pc = "idle" /\ call.slave # 0 /\ clean /\ answer.ec <= modbus_exception_code.success
   /\ ret.ec = modbus_exception_code.success) => ret = answer

\* A call that the device answered with an exception does not report success.
ExceptionReported ==
  (pc = "idle" /\ made > 0 /\ answer.ec > 0) => ret.ec # modbus_exception_code.success

\* On a prompt line without faults, the byte-level master and device implement the calls of
\* ModbusMemory, over a connection that never dies.
Abstract ==
  INSTANCE ModbusMemory WITH
    pending <- [i \in 1 .. Len(toSlave) |-> [n |-> toSlave[i].n, call |-> toSlave[i].call]],
    number  <- made,
    busy    <- pc # "idle",
    open    <- TRUE

Implements == Abstract!Spec

\* Every call comes back to the application, whatever the device and the line do.
CallReturns == pc # "idle" ~> pc = "idle"
================================================================================
