---------------------------------- MODULE Codec ----------------------------------
(* The writers against the readers: a frame is built as one side builds it, and *)
(* the other side reads what arrives of it, a prefix or the frame and bytes     *)
(* that follow it.  A device that misbehaves may also answer with a shorter     *)
(* list than was asked for.                                                     *)
EXTENDS SlaveMemory, Mbap, Crc

CONSTANTS Calls,    \* calls whose request and reply are coded
          InitMem,  \* the device's tables
          Junk,     \* bytes that may follow a PDU
          Missing   \* how many bytes a short list may lack

ASSUME CallsDocumented == Calls \subseteq Call /\ \A c \in Calls : Documented(c)
ASSUME InitMemTyped    == InitMem \in Memory
ASSUME JunkTyped       == Junk \subseteq Byte
ASSUME MissingTyped    == Missing \subseteq Nat

VARIABLES call,     \* the call
          side,     \* "request": to the device; "reply", "short": from it
          pdu,      \* the PDU as written
          wire      \* the PDU as it arrived

vars == <<call, side, pdu, wire>>

Written(c, s) == IF s = "request" THEN WriteReq(RequestOf(c)) ELSE Serve(InitMem, RequestOf(c)).pdu

Init ==
  /\ call \in Calls
  /\ side \in {"request", "reply"}
  /\ pdu = Written(call, side)
  /\ wire = pdu

\* The device misbehaves: its list has fewer bytes than were asked for, and its count says so.
Shorten ==
  \E n \in Missing :
    /\ side = "reply" /\ wire = pdu
    /\ RespClass(call.fc).kind = "values" /\ Len(pdu) >= 2 + n /\ pdu[1] < 128
    /\ side' = "short"
    /\ pdu' = WriteValues(call.fc, SubSeq(pdu, 3, Len(pdu) - n))
    /\ wire' = pdu'
    /\ UNCHANGED call

\* The last byte did not arrive.
Lose ==
  /\ wire # <<>> /\ Len(wire) <= Len(pdu)
  /\ wire' = Take(wire, Len(wire) - 1)
  /\ UNCHANGED <<call, side, pdu>>

\* A byte follows the PDU.
Pad ==
  /\ Len(wire) = Len(pdu)
  /\ \E b \in Junk : wire' = Append(wire, b)
  /\ UNCHANGED <<call, side, pdu>>

Next == Lose \/ Pad \/ Shorten

Spec == Init /\ [][Next]_vars

--------------------------------------------------------------------------------
Complete == Len(wire) >= Len(pdu)

\* Reading what arrived of a request gives back the very request if all of it did, and otherwise
\* an error that leaves the server's variant as it was.
RequestReadBack ==
  side = "request" =>
    LET r == ReadReq(wire)
    IN  IF Complete THEN r.ec = modbus_exception_code.success /\ r.req = RequestOf(call)
        ELSE r.ec # modbus_exception_code.success /\ r.kept

\* The request of every documented call fits the length that the server's stream accepts, and
\* the length field leads the server to its last byte.
RequestFits ==
  side = "request" =>
    LET h == Header(Frame(1, call.slave, pdu))
    IN  is_valid_length(h.length) /\ h.length - 1 = Len(pdu)

\* A call whose reply arrived whole returns the contents of the device's tables, in the layout of
\* its overload; a call whose reply was cut never reports success.
ReplyReadBack ==
  side = "reply" =>
    LET r == Return(call, ReadResp(call.fc, call.size, wire))
    IN  IF ~ Complete THEN r.ec # modbus_exception_code.success
        ELSE IF Valid(InitMem, call)
        THEN r = [ec  |-> modbus_exception_code.success,
                  out |-> Content(Effect(InitMem, call), call)]
        ELSE r = [ec |-> modbus_exception_code.illegal_data_address, out |-> <<>>]

\* A read that reports success has filled the caller's span, although the reader itself takes
\* any list that is not too long for it.  0x17 reads into a vector of its own, and is left out.
SpanFilled ==
  (side # "request" /\ call.fc # function_code.read_write_multiple_registers) =>
    LET r == ReadResp(call.fc, call.size, wire)
    IN  Return(call, r).ec = modbus_exception_code.success => Len(r.values) = call.size

\* The checksum by its definition: one shift of the register at a time, and the polynomial
\* x^16 + x^15 + x^2 + 1, reversed, whenever a one falls out.
ShiftOut(r) ==
  LET s == r \div 2
  IN  IF r % 2 = 0 THEN s ELSE 256 * Xor(s \div 256, 160) + Xor(s % 256, 1)

Eight(r) == ShiftOut(ShiftOut(ShiftOut(ShiftOut(ShiftOut(ShiftOut(ShiftOut(ShiftOut(r))))))))

\* A byte of the message goes into the low byte of the register, and is shifted out.
ByteStep(r, b) == Eight(256 * (r \div 256) + Xor(r % 256, b))

Remainder(msg) ==
  LET after[t \in Nat \X Nat \X U16] ==
        LET lo  == t[1]
            hi  == t[2]
            mid == (lo + hi) \div 2
        IN  IF lo > hi THEN t[3]
            ELSE IF lo = hi THEN ByteStep(t[3], msg[lo])
            ELSE after[<<mid + 1, hi, after[<<lo, mid, t[3]>>]>>]
  IN  after[<<1, Len(msg), 65535>>]

\* The two tables and the loop of crc.h compute that remainder for every frame of a serial line.
TableIsRemainder ==
  wire = pdu => CRC16(<<call.slave>> \o pdu) = Remainder(<<call.slave>> \o pdu)
================================================================================
