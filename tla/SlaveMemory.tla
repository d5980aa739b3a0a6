------------------------------ MODULE SlaveMemory ------------------------------
(* EXTERNAL to the repository: the Modbus device at the other end, as the       *)
(* master's calls presume it.  Four tables, addressed from 0, and the answer of *)
(* a conforming device to each request that the master can send.                *)
EXTENDS Master

CONSTANTS NCoils,    \* coils, and as many discrete inputs
          NRegs      \* holding registers, and as many input registers

ASSUME TableSizes == NCoils \in Nat /\ NRegs \in Nat

Memory == [coils   : [0 .. NCoils - 1 -> {0, 1}],
           inputs  : [0 .. NCoils - 1 -> {0, 1}],
           holding : [0 .. NRegs - 1 -> U16],
           input   : [0 .. NRegs - 1 -> U16]]

\* The n consecutive entries of a table from address a, and whether they all exist.
Slice(table, a, n)   == [k \in 1 .. n |-> table[a + k - 1]]
Present(table, a, n) == n >= 1 /\ \A k \in 0 .. n - 1 : a + k \in DOMAIN table

\* The table with the entries from address a replaced by the sequence v.
Store(table, a, v) ==
  [k \in DOMAIN table |-> IF k \in a .. a + Len(v) - 1 THEN v[k - a + 1] ELSE table[k]]

\* Bits in bytes, the first one in the least significant place.
Weight == <<1, 2, 4, 8, 16, 32, 64, 128>>
BitOf(bytes, k) == (bytes[(k - 1) \div 8 + 1] \div Weight[((k - 1) % 8) + 1]) % 2
Unpack(bytes, n) == [k \in 1 .. n |-> BitOf(bytes, k)]
Pack(bits) ==
  LET Place(k) == IF k <= Len(bits) THEN bits[k] ELSE 0
  IN  [i \in 1 .. (Len(bits) + 7) \div 8 |->
         LET k == 8 * (i - 1)
         IN  Place(k + 1) + 2 * Place(k + 2) + 4 * Place(k + 3) + 8 * Place(k + 4)
             + 16 * Place(k + 5) + 32 * Place(k + 6) + 64 * Place(k + 7) + 128 * Place(k + 8)]

--------------------------------------------------------------------------------
(* What a call means, in terms of its arguments alone.                          *)

\* The entries the call names exist.
Valid(m, c) ==
  LET n == Len(c.values)
  IN  CASE c.fc = function_code.read_coils               -> Present(m.coils, c.address, c.quantity)
        [] c.fc = function_code.read_discrete_inputs     -> Present(m.inputs, c.address, c.quantity)
        [] c.fc = function_code.read_holding_registers   -> Present(m.holding, c.address, c.size \div 2)
        [] c.fc = function_code.read_input_registers     -> Present(m.input, c.address, c.size \div 2)
        [] c.fc = function_code.write_single_coil        -> Present(m.coils, c.address, 1)
        [] c.fc = function_code.write_single_register    -> Present(m.holding, c.address, 1)
        [] c.fc = function_code.write_multiple_coils     -> Present(m.coils, c.address, n)
        [] c.fc = function_code.write_multiple_registers -> Present(m.holding, c.address, n)
        [] c.fc = function_code.read_write_multiple_registers ->
             Present(m.holding, c.address, c.size \div 2) /\ Present(m.holding, c.waddress, n)

\* The memory once the call has taken effect.
Effect(m, c) ==
  CASE c.fc \in {function_code.write_single_coil, function_code.write_multiple_coils} ->
         [m EXCEPT !.coils = Store(@, c.address, c.values)]
    [] c.fc \in {function_code.write_single_register, function_code.write_multiple_registers} ->
         [m EXCEPT !.holding = Store(@, c.address, c.values)]
    [] c.fc = function_code.read_write_multiple_registers ->
         [m EXCEPT !.holding = Store(@, c.waddress, c.values)]
    [] OTHER -> m

\* What the call's out span holds afterwards, given the memory after its effect.
Content(m, c) ==
  LET Regs(table) == LET words == Slice(table, c.address, c.size \div 2)
                     IN  IF c.words THEN words ELSE WordBytes(words)
  IN  CASE c.fc = function_code.read_coils             -> Pack(Slice(m.coils, c.address, c.quantity))
        [] c.fc = function_code.read_discrete_inputs   -> Pack(Slice(m.inputs, c.address, c.quantity))
        [] c.fc = function_code.read_input_registers   -> Regs(m.input)
        [] c.fc \in {function_code.read_holding_registers,
                     function_code.read_write_multiple_registers} -> Regs(m.holding)
        [] OTHER -> <<>>

\* The bytes of a reply that carries out the call.
ReplySize(c) ==
  CASE c.fc \in {function_code.read_coils, function_code.read_discrete_inputs} ->
         2 + (c.quantity + 7) \div 8
    [] c.fc \in {function_code.read_holding_registers, function_code.read_input_registers,
                 function_code.read_write_multiple_registers} -> 2 + 2 * (c.size \div 2)
    [] OTHER -> 5

--------------------------------------------------------------------------------
(* What the device makes of a request it received, in terms of the PDU alone.   *)

Refusal(m, r, code) == [mem |-> m, pdu |-> WriteException(r.fc, code)]

Serve(m, r) ==
  LET a == r.words[1]
      n == r.words[2]
      Read(table, bytes) == IF Present(table, a, n)
                            THEN [mem |-> m, pdu |-> WriteValues(r.fc, bytes)]
                            ELSE Refusal(m, r, modbus_exception_code.illegal_data_address)
      Write(table, m2)   == IF Present(table, a, n)
                            THEN [mem |-> m2, pdu |-> WriteEcho(r.fc, a, n)]
                            ELSE Refusal(m, r, modbus_exception_code.illegal_data_address)
      Write1(table, m2)  == IF Present(table, a, 1)
                            THEN [mem |-> m2, pdu |-> WriteEcho(r.fc, a, n)]
                            ELSE Refusal(m, r, modbus_exception_code.illegal_data_address)
  IN  CASE r.fc = function_code.read_coils -> Read(m.coils, Pack(Slice(m.coils, a, n)))
        [] r.fc = function_code.read_discrete_inputs -> Read(m.inputs, Pack(Slice(m.inputs, a, n)))
        [] r.fc = function_code.read_holding_registers -> Read(m.holding, WordBytes(Slice(m.holding, a, n)))
        [] r.fc = function_code.read_input_registers -> Read(m.input, WordBytes(Slice(m.input, a, n)))
        [] r.fc = function_code.write_single_coil ->
             Write1(m.coils, [m EXCEPT !.coils = Store(@, a, <<IF n = 65280 THEN 1 ELSE 0>>)])
        [] r.fc = function_code.write_single_register ->
             Write1(m.holding, [m EXCEPT !.holding = Store(@, a, <<n>>)])
        [] r.fc = function_code.write_multiple_coils ->
             Write(m.coils, [m EXCEPT !.coils = Store(@, a, Unpack(r.values, n))])
        [] r.fc = function_code.write_multiple_registers ->
             Write(m.holding, [m EXCEPT !.holding = Store(@, a, BytesWords(r.values))])
        [] r.fc = function_code.read_write_multiple_registers ->
             LET m2 == [m EXCEPT !.holding = Store(@, r.words[3], BytesWords(r.values))]
             IN  IF Present(m.holding, a, n) /\ Present(m.holding, r.words[3], r.words[4])
                 THEN [mem |-> m2, pdu |-> WriteValues(r.fc, WordBytes(Slice(m2.holding, a, n)))]
                 ELSE Refusal(m, r, modbus_exception_code.illegal_data_address)
================================================================================
