---------------------------------- MODULE Pdu ----------------------------------
(* The protocol data units of include/mothbus/pdu.h and include/mothbus/pdu/:   *)
(* how a request or a response is laid out as bytes, and what the readers make  *)
(* of an arbitrary sequence of received bytes.  Pure operators, no state.       *)
(*                                                                              *)
(* Readers run on an adu::buffer.  Its get() refuses to read past the committed *)
(* bytes, and because adu::read(buffer&, uint8_t&) is a non-template it is the  *)
(* overload every nested read() resolves to, so the refusal reaches the caller. *)
EXTENDS Integers, Sequences

Byte == {n \in Nat : n < 256}
U16  == {n \in Nat : n < 65536}

u8(n)  == n % 256        \* static_cast<uint8_t>
u16(n) == n % 65536      \* static_cast<uint16_t>

function_code ==
  [read_coils |-> 1, read_discrete_inputs |-> 2, read_holding_registers |-> 3,
   read_input_registers |-> 4, write_single_coil |-> 5, write_single_register |-> 6,
   write_multiple_coils |-> 15, write_multiple_registers |-> 16,
   read_write_multiple_registers |-> 23]

modbus_exception_code ==
  [success |-> 0, illegal_function |-> 1, illegal_data_address |-> 2,
   illegal_data_value |-> 3, slave_device_failure |-> 4, acknowledge |-> 5,
   slave_device_busy |-> 6, negative_acknowledge |-> 7, memory_parity_error |-> 8,
   gateway_path_unavailable |-> 10, gateway_target_device_failed_to_respond |-> 11,
   invalid_response |-> 12, too_many_bytes_received |-> 13,
   transaction_id_invalid |-> 14, illegal_protocol |-> 15, slave_id_invalid |-> 16,
   request_too_big |-> 17]

--------------------------------------------------------------------------------
(* 16-bit values travel most significant byte first.                            *)

make_uint16(b1, b2) == b1 * 256 + b2

\* writer::write(uint16_t), once per word
WordBytes(words) ==
  [i \in 1 .. 2 * Len(words) |->
     IF i % 2 = 1 THEN words[(i + 1) \div 2] \div 256 ELSE words[i \div 2] % 256]

\* read(Reader&, uint16_t&), once per complete pair of bytes
BytesWords(bytes) ==
  [i \in 1 .. Len(bytes) \div 2 |-> make_uint16(bytes[2 * i - 1], bytes[2 * i])]

Drop(s, n) == SubSeq(s, n + 1, Len(s))
Take(s, n) == SubSeq(s, 1, n)

--------------------------------------------------------------------------------
(* Requests.  A class is its function code, the number of 16-bit fields that    *)
(* follow it, and the size in bytes of one element of the counted list that     *)
(* ends it (0: there is no list).                                               *)

read_coils_pdu_req                    == [fc |-> function_code.read_coils, words |-> 2, unit |-> 0]
read_discrete_inputs_pdu_req          == [fc |-> function_code.read_discrete_inputs, words |-> 2, unit |-> 0]
read_holding_pdu_req                  == [fc |-> function_code.read_holding_registers, words |-> 2, unit |-> 0]
read_input_pdu_req                    == [fc |-> function_code.read_input_registers, words |-> 2, unit |-> 0]
write_single_coil_pdu_req             == [fc |-> function_code.write_single_coil, words |-> 2, unit |-> 0]
write_single_register_pdu_req         == [fc |-> function_code.write_single_register, words |-> 2, unit |-> 0]
write_multiple_coils_pdu_req          == [fc |-> function_code.write_multiple_coils, words |-> 2, unit |-> 1]
write_multiple_registers_pdu_req      == [fc |-> function_code.write_multiple_registers, words |-> 2, unit |-> 2]
read_write_multiple_registers_pdu_req == [fc |-> function_code.read_write_multiple_registers, words |-> 4, unit |-> 2]

\* The alternatives of the variant, but for the last one.
pdu_req ==
  {read_coils_pdu_req, read_discrete_inputs_pdu_req, read_holding_pdu_req,
   read_input_pdu_req, write_single_coil_pdu_req, write_single_register_pdu_req,
   write_multiple_coils_pdu_req, write_multiple_registers_pdu_req,
   read_write_multiple_registers_pdu_req}

\* A request: its class's code, its 16-bit fields, the count byte and the bytes of the list.
Request(l, words, byte_count, values) ==
  [fc |-> l.fc, words |-> words, byte_count |-> byte_count, values |-> values]

not_implemented == [fc |-> 0, words |-> <<>>, byte_count |-> 0, values |-> <<>>]

ReqClass(fc) == CHOOSE l \in pdu_req : l.fc = fc

\* write(Writer&, const X_pdu_req&)
WriteReq(r) ==
  <<r.fc>> \o WordBytes(r.words)
           \o IF ReqClass(r.fc).unit = 0 THEN <<>> ELSE <<r.byte_count>> \o r.values

\* The bytes of a request of class l that a complete reading of s takes.
ReqSize(l, s) ==
  LET fixed == 1 + 2 * l.words
  IN  IF l.unit = 0 THEN fixed
      ELSE fixed + 1 + (IF Len(s) > fixed THEN l.unit * (s[fixed + 1] \div l.unit) ELSE 0)

\* read(Reader&, pdu_req&).  The variant is assigned when the class was read to its end, or
\* when no class has the code; "kept" says that the caller's variant keeps its earlier value.
ReadReq(s) ==
  LET Failed == [ec |-> modbus_exception_code.too_many_bytes_received,
                 kept |-> TRUE, req |-> not_implemented]
  IN  IF s = <<>> THEN Failed
      ELSE IF \A l \in pdu_req : l.fc # s[1]
      THEN [ec |-> modbus_exception_code.illegal_function, kept |-> FALSE,
            req |-> not_implemented]
      ELSE LET l     == ReqClass(s[1])
               fixed == 1 + 2 * l.words
               size  == ReqSize(l, s)
           IN  IF Len(s) < size THEN Failed
               ELSE [ec |-> modbus_exception_code.success, kept |-> FALSE,
                     req |-> Request(l, BytesWords(SubSeq(s, 2, fixed)),
                                     IF l.unit = 0 THEN 0 ELSE s[fixed + 1],
                                     SubSeq(s, fixed + 2, size))]

--------------------------------------------------------------------------------
(* Responses: either a counted list of bytes read into the caller's span, or    *)
(* the echo of two 16-bit fields; two echo classes also restrict the value.     *)

read_coils_pdu_resp                    == [fc |-> function_code.read_coils, kind |-> "values"]
read_discrete_inputs_pdu_resp          == [fc |-> function_code.read_discrete_inputs, kind |-> "values"]
read_holding_pdu_resp                  == [fc |-> function_code.read_holding_registers, kind |-> "values"]
read_input_pdu_resp                    == [fc |-> function_code.read_input_registers, kind |-> "values"]
read_write_multiple_registers_pdu_resp == [fc |-> function_code.read_write_multiple_registers, kind |-> "values"]
write_single_coil_pdu_resp             == [fc |-> function_code.write_single_coil, kind |-> "onoff"]
write_single_register_pdu_resp         == [fc |-> function_code.write_single_register, kind |-> "onoff"]
write_multiple_coils_pdu_resp          == [fc |-> function_code.write_multiple_coils, kind |-> "echo"]
write_multiple_registers_pdu_resp      == [fc |-> function_code.write_multiple_registers, kind |-> "echo"]

pdu_resp ==
  {read_coils_pdu_resp, read_discrete_inputs_pdu_resp, read_holding_pdu_resp,
   read_input_pdu_resp, read_write_multiple_registers_pdu_resp,
   write_single_coil_pdu_resp, write_single_register_pdu_resp,
   write_multiple_coils_pdu_resp, write_multiple_registers_pdu_resp}

RespClass(fc) == CHOOSE l \in pdu_resp : l.fc = fc

\* Faulty variant: the count is not cut down to a byte.
WriteValuesWide(fc, values) == <<fc, Len(values)>> \o values

\* write(Writer&, const X_pdu_resp&) for the two shapes, and for pdu_exception_resp
WriteValues(fc, values)  == <<fc, u8(Len(values))>> \o values
WriteEcho(fc, a, b)      == <<fc>> \o WordBytes(<<a, b>>)
WriteException(fc, code) == <<IF fc < 128 THEN fc + 128 ELSE fc, u8(code)>>

\* What reading a response leaves behind: the error, the count field of the response object,
\* the bytes stored in the caller's span from its start, and how many bytes were consumed.
Reading(ec, byte_count, values, used) ==
  [ec |-> ec, byte_count |-> byte_count, values |-> values, used |-> used]

\* Faulty variant: the error of reading the list is dropped.
ReadValuesDropsError(size, s) ==
  LET TooMany == modbus_exception_code.too_many_bytes_received
      count   == s[2]
  IN  IF Len(s) < 2 THEN Reading(TooMany, u8(size), <<>>, 1)
      ELSE IF count > size THEN Reading(TooMany, count, <<>>, 2)
      ELSE IF Len(s) < 2 + count
      THEN Reading(modbus_exception_code.success, count, Drop(s, 2), Len(s))
      ELSE Reading(modbus_exception_code.success, count, SubSeq(s, 3, 2 + count), 2 + count)

\* read(Reader&, X_pdu_resp&) for a counted list, the caller's span holding `size' bytes
ReadValues(size, s) ==
  LET TooMany == modbus_exception_code.too_many_bytes_received
      count   == s[2]
  IN  IF Len(s) < 2 THEN Reading(TooMany, u8(size), <<>>, 1)
      ELSE IF count > size THEN Reading(TooMany, count, <<>>, 2)
      ELSE IF Len(s) < 2 + count THEN Reading(TooMany, count, Drop(s, 2), Len(s))
      ELSE Reading(modbus_exception_code.success, count, SubSeq(s, 3, 2 + count), 2 + count)

\* read(Reader&, X_pdu_resp&) for an echo
ReadEcho(kind, s) ==
  IF Len(s) < 5 THEN Reading(modbus_exception_code.too_many_bytes_received, 0, <<>>, Len(s))
  ELSE IF kind = "onoff" /\ make_uint16(s[4], s[5]) \notin {0, 65280}
  THEN Reading(modbus_exception_code.illegal_data_value, 0, <<>>, 5)
  ELSE Reading(modbus_exception_code.success, 0, <<>>, 5)

\* read(Reader&, pdu_resp<Response>&)
ReadResp(fc, size, s) ==
  IF s = <<>> THEN Reading(modbus_exception_code.too_many_bytes_received, u8(size), <<>>, 0)
  ELSE IF s[1] >= 128
  THEN IF Len(s) < 2 THEN Reading(modbus_exception_code.too_many_bytes_received, u8(size), <<>>, 1)
       ELSE Reading(s[2], u8(size), <<>>, 2)
  ELSE IF s[1] # fc THEN Reading(modbus_exception_code.invalid_response, u8(size), <<>>, 1)
  ELSE IF RespClass(fc).kind = "values" THEN ReadValues(size, s)
  ELSE ReadEcho(RespClass(fc).kind, s)
================================================================================
