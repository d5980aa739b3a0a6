--------------------------------- MODULE Master ---------------------------------
(* The calls of adu::master_base<Stream> (include/mothbus/adu/master.h): the    *)
(* request each one sends, and what it hands back to the application once the   *)
(* stream's read_response has produced a Reading.  Both streams (tcp, rtu)      *)
(* share this part; it has no state of its own besides the stream it owns.      *)
(*                                                                              *)
(* A call is a record of its arguments:                                         *)
(*   fc        which function (its function code)                               *)
(*   slave     unit id, 0 is the broadcast address                              *)
(*   address   start address (the read address of 0x17)                         *)
(*   quantity  coils or inputs to read (functions 0x01 and 0x02)                *)
(*   waddress  write address of 0x17                                            *)
(*   values    values to write: coils 0/1 (or any byte), registers U16          *)
(*   size      bytes the caller's out span holds (twice its words, for words)   *)
(*   words     the overload with span<uint16_t> out                             *)
EXTENDS Pdu

Call == [fc : {l.fc : l \in pdu_req}, slave : Byte, address : U16, quantity : U16,
         waddress : U16, values : Seq(U16), size : Nat, words : BOOLEAN]

\* Faulty variant: the first coil goes to the most significant place.
PackCoilsMsbFirst(coils) ==
  LET Coil(k) == IF k <= Len(coils) THEN coils[k] ELSE 0
  IN  [i \in 1 .. (Len(coils) - 1) \div 8 + 1 |->
         LET k == 8 * (i - 1)
         IN  u8(Coil(k + 8) + 2 * Coil(k + 7) + 4 * Coil(k + 6) + 8 * Coil(k + 5)
                + 16 * Coil(k + 4) + 32 * Coil(k + 3) + 64 * Coil(k + 2) + 128 * Coil(k + 1))]

\* The packing loop of write_multiple_coils: coil c of a group of eight is shifted left by c
\* and added to the group's byte; the last group may be incomplete.
PackCoils(coils) ==
  LET Coil(k) == IF k <= Len(coils) THEN coils[k] ELSE 0
  IN  [i \in 1 .. (Len(coils) - 1) \div 8 + 1 |->
         LET k == 8 * (i - 1)
         IN  u8(Coil(k + 1) + 2 * Coil(k + 2) + 4 * Coil(k + 3) + 8 * Coil(k + 4)
                + 16 * Coil(k + 5) + 32 * Coil(k + 6) + 64 * Coil(k + 7) + 128 * Coil(k + 8))]

read_coils(c)           == Request(read_coils_pdu_req, <<c.address, c.quantity>>, 0, <<>>)
read_discrete_inputs(c) == Request(read_discrete_inputs_pdu_req, <<c.address, c.quantity>>, 0, <<>>)
read_registers(c)       == Request(read_holding_pdu_req, <<c.address, u16(c.size \div 2)>>, 0, <<>>)
read_input_registers(c) == Request(read_input_pdu_req, <<c.address, u16(c.size \div 2)>>, 0, <<>>)

write_single_coil(c) ==
  Request(write_single_coil_pdu_req, <<c.address, IF c.values[1] # 0 THEN 65280 ELSE 0>>, 0, <<>>)

write_single_register(c) ==
  Request(write_single_register_pdu_req, <<c.address, c.values[1]>>, 0, <<>>)

\* Faulty variant: the count of an incomplete last byte is rounded down.
write_multiple_coils_floor(c) ==
  LET quantity == u16(Len(c.values))
  IN  Request(write_multiple_coils_pdu_req, <<c.address, quantity>>,
              u8(quantity \div 8), PackCoils(c.values))

write_multiple_coils(c) ==
  LET quantity == u16(Len(c.values))
  IN  Request(write_multiple_coils_pdu_req, <<c.address, quantity>>,
              u8((quantity - 1) \div 8 + 1), PackCoils(c.values))

write_multiple_registers(c) ==
  LET quantity == u16(Len(c.values))
  IN  Request(write_multiple_registers_pdu_req, <<c.address, quantity>>,
              u8(quantity * 2), WordBytes(c.values))

\* Faulty variant: the two address ranges are exchanged.
read_write_multiple_registers_swapped(c) ==
  LET quantity == u16(Len(c.values))
  IN  Request(read_write_multiple_registers_pdu_req,
              <<c.waddress, quantity, c.address, u16(c.size \div 2)>>,
              u8(quantity * 2), WordBytes(c.values))

read_write_multiple_registers(c) ==
  LET quantity == u16(Len(c.values))
  IN  Request(read_write_multiple_registers_pdu_req,
              <<c.address, u16(c.size \div 2), c.waddress, quantity>>,
              u8(quantity * 2), WordBytes(c.values))

\* The request object that the call hands to write_request.
RequestOf(c) ==
  CASE c.fc = function_code.read_coils               -> read_coils(c)
    [] c.fc = function_code.read_discrete_inputs     -> read_discrete_inputs(c)
    [] c.fc = function_code.read_holding_registers   -> read_registers(c)
    [] c.fc = function_code.read_input_registers     -> read_input_registers(c)
    [] c.fc = function_code.write_single_coil        -> write_single_coil(c)
    [] c.fc = function_code.write_single_register    -> write_single_register(c)
    [] c.fc = function_code.write_multiple_coils     -> write_multiple_coils(c)
    [] c.fc = function_code.write_multiple_registers -> write_multiple_registers(c)
    [] c.fc = function_code.read_write_multiple_registers -> read_write_multiple_registers(c)

--------------------------------------------------------------------------------
(* What the application gets: the error code and what was stored in its span.   *)

\* The response object as constructed, when read_response returns without reading.
Unread(c) == Reading(modbus_exception_code.success, u8(c.size), <<>>, 0)

\* Faulty variant: the registers are read without the comparison.
SizeCheckedBits(fc) == fc \in {function_code.read_coils, function_code.read_discrete_inputs}

\* The four plain reads compare the count with out.size(); 0x17 does not.
SizeChecked(fc) == fc \in {function_code.read_coils, function_code.read_discrete_inputs,
                           function_code.read_holding_registers,
                           function_code.read_input_registers}

\* The tail of every call after read_response.  The byte overloads read straight into the
\* caller's span; the word overloads read into a zeroed vector that is converted on success.
Return(c, r) ==
  LET ec == IF r.ec = modbus_exception_code.success /\ SizeChecked(c.fc) /\ r.byte_count # c.size
            THEN modbus_exception_code.invalid_response ELSE r.ec
      padded == [i \in 1 .. c.size |-> IF i <= Len(r.values) THEN r.values[i] ELSE 0]
  IN  [ec |-> ec, out |-> IF ~ c.words THEN r.values
                          ELSE IF ec # modbus_exception_code.success THEN <<>>
                          ELSE BytesWords(padded)]

--------------------------------------------------------------------------------
(* What master.h asks of its caller: the ranges of its comments and assertions. *)
(* That a coil to write is 0 or 1 is not written down, but PackCoils needs it;  *)
(* 0x03 and 0x04 have no comment, and are given the range of 0x17's reads.      *)

Documented(c) ==
  LET n == Len(c.values)
      Up(k, max) == 1 <= k /\ k <= max
      NoOut == c.size = 0 /\ ~ c.words
  IN  CASE c.fc \in {function_code.read_coils, function_code.read_discrete_inputs} ->
             Up(c.quantity, 2000) /\ (c.quantity - 1) \div 8 + 1 <= c.size /\ ~ c.words
        [] c.fc \in {function_code.read_holding_registers, function_code.read_input_registers} ->
             c.size % 2 = 0 /\ Up(c.size \div 2, 125)
        [] c.fc = function_code.write_single_coil     -> n = 1 /\ c.values[1] \in {0, 1} /\ NoOut
        [] c.fc = function_code.write_single_register -> n = 1 /\ NoOut
        [] c.fc = function_code.write_multiple_coils  ->
             Up(n, 1968) /\ (\A i \in 1 .. n : c.values[i] \in {0, 1}) /\ NoOut
        [] c.fc = function_code.write_multiple_registers -> Up(n, 123) /\ NoOut
        [] c.fc = function_code.read_write_multiple_registers ->
             Up(n, 121) /\ c.size % 2 = 0 /\ Up(c.size \div 2, 125) /\ c.words
================================================================================
