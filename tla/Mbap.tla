---------------------------------- MODULE Mbap ----------------------------------
(* The header of Modbus/TCP, mbap_header of include/mothbus/adu/tcp.h.          *)
EXTENDS Pdu

header_size  == 7
max_adu_size == 260
m_protocol   == 0

\* The bytes that write_request and write_response put into the message buffer: the length
\* field counts the unit id and the PDU.
Frame(tid, unit, pdu) ==
  WordBytes(<<tid, m_protocol, u16(Len(pdu) + 1)>>) \o <<unit>> \o pdu

\* The four fields of a header, read from its seven bytes.
Header(s) ==
  [transaction_id |-> make_uint16(s[1], s[2]), protocol |-> make_uint16(s[3], s[4]),
   length |-> make_uint16(s[5], s[6]), unit_id |-> s[7]]

\* Faulty variant: the client's limit on the server's side.
is_valid_length_255(length) == length >= 2 /\ length + (header_size - 1) <= 255

\* The server's check of the length field.
is_valid_length(length) == length >= 2 /\ length + (header_size - 1) <= max_adu_size

\* Faulty variant: the transaction id is not compared.
HeaderErrorAnyTid(h, tid, slave) ==
  IF h.protocol # m_protocol THEN modbus_exception_code.illegal_protocol
  ELSE IF h.unit_id # slave THEN modbus_exception_code.slave_id_invalid
  ELSE IF h.length + 6 > 255 \/ h.length <= 1 THEN modbus_exception_code.invalid_response
  ELSE modbus_exception_code.success

\* The client's checks on the header of a reply, in the order of read_response.
HeaderError(h, tid, slave) ==
  IF h.transaction_id # tid THEN modbus_exception_code.transaction_id_invalid
  ELSE IF h.protocol # m_protocol THEN modbus_exception_code.illegal_protocol
  ELSE IF h.unit_id # slave THEN modbus_exception_code.slave_id_invalid
  ELSE IF h.length + 6 > 255 \/ h.length <= 1 THEN modbus_exception_code.invalid_response
  ELSE modbus_exception_code.success
================================================================================
