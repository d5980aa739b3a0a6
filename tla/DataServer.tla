------------------------------- MODULE DataServer -------------------------------
(* The servers written with coroutines:                                         *)
(* examples/tcpserver_coroutine_with_data.cpp, whose second thread posts new    *)
(* register values to the io_context, and examples/tcpserver_coroutine.cpp,     *)
(* which has no registers and answers with zeros (HasData = FALSE).             *)
(*                                                                              *)
(* One thread runs the io_context: the sessions, the listener and the posted    *)
(* handlers take turns at every co_await, in any order.  A write of a response  *)
(* does not wait, and its failure is not noticed.                               *)
EXTENDS Mbap

CONSTANTS HasData,   \* which of the two programs
          NRegisters,  \* s_holding_registers.size(), 200 in the code
          MaxTicks,  \* rounds of the second thread, 500 in the code
          Conn,      \* the connections that clients may open
          Frames,    \* what clients may send: whole frames, or headers that claim less than a PDU
          MaxSent    \* bound on the frames sent on a connection

message_buffer_size == 320

ASSUME SizesTyped == HasData \in BOOLEAN /\ {NRegisters, MaxTicks, MaxSent} \subseteq Nat /\ NRegisters > 0
                     /\ MaxTicks <= 65536
ASSUME FramesTyped ==
  \A f \in Frames :
    /\ f \in Seq(Byte) /\ header_size <= Len(f) /\ Len(f) <= message_buffer_size
    /\ Len(f) = IF Header(f).length < 2 THEN header_size ELSE header_size - 1 + Header(f).length

VARIABLES
  s_holding_registers, posted,   \* the registers, and the posted handlers that have not run
  i,                             \* the second thread's counter
  main,                          \* "run" in io_context.run, "join" after stop, "ended"
  listening,                     \* the listener coroutine is alive
  stage,                         \* per connection: "new", "header", "body" (its co_await), "closed"
  header,                        \* ... the fields parsed from the header
  out,                           \* ... the responses written, each as its bytes
  in, gone, sent                 \* ... unread bytes, the client has left, history of its frames

data    == <<s_holding_registers, posted>>
session == <<stage, header, out>>
client  == <<in, gone, sent>>
vars    == <<data, i, main, listening, session, client>>

Addresses == 0 .. NRegisters - 1

Init ==
  /\ s_holding_registers = [a \in Addresses |-> 0]
  /\ posted = <<>> /\ i = 0
  /\ main = "run" /\ listening = TRUE
  /\ stage  = [c \in Conn |-> "new"]
  /\ header = [c \in Conn |-> Header(<<0, 0, 0, 0, 0, 0, 0>>)]
  /\ out    = [c \in Conn |-> <<>>]
  /\ in     = [c \in Conn |-> <<>>]
  /\ gone   = [c \in Conn |-> FALSE]
  /\ sent   = [c \in Conn |-> <<>>]

--------------------------------------------------------------------------------
(* The sessions: handle_message.                                                *)

\* The registers in the byte order of the wire.
memcpy_msb(src) == WordBytes(src)

\* Faulty variant: the last register is out of reach.
reqest_handler_short(req) ==
  LET a == req.words[1]
      n == req.words[2]
  IN  IF req.fc # function_code.read_holding_registers
      THEN WriteException(req.fc, modbus_exception_code.illegal_function)
      ELSE IF ~ (1 <= n /\ n <= 125)
      THEN WriteException(req.fc, modbus_exception_code.illegal_data_value)
      ELSE IF HasData /\ a + n >= NRegisters
      THEN WriteException(req.fc, modbus_exception_code.illegal_data_address)
      ELSE WriteValues(req.fc, memcpy_msb([k \in 1 .. n |->
                                 IF HasData THEN s_holding_registers[a + k - 1] ELSE 0]))

\* The PDU of the response, for a request that parse_body could read.
reqest_handler(req) ==
  LET a == req.words[1]
      n == req.words[2]
  IN  IF req.fc # function_code.read_holding_registers
      THEN WriteException(req.fc, modbus_exception_code.illegal_function)
      ELSE IF ~ (1 <= n /\ n <= 125)
      THEN WriteException(req.fc, modbus_exception_code.illegal_data_value)
      ELSE IF HasData /\ a + n > NRegisters
      THEN WriteException(req.fc, modbus_exception_code.illegal_data_address)
      ELSE WriteValues(req.fc, memcpy_msb([k \in 1 .. n |->
                                 IF HasData THEN s_holding_registers[a + k - 1] ELSE 0]))

write_response(c, h, pdu) ==
  out' = [out EXCEPT ![c] = Append(@, Frame(h.transaction_id, h.unit_id, pdu))]

write_exception_response(c, h, fc, ec) == write_response(c, h, WriteException(fc, ec))

\* The condition as the code has it: the negation does not reach the second comparison.
Refused(length) == ~ (2 <= length) /\ length <= 254

\* listener: a socket is accepted and its session spawned.
Accept(c) ==
  /\ main = "run" /\ listening /\ stage[c] = "new"
  /\ stage' = [stage EXCEPT ![c] = "header"]
  /\ UNCHANGED <<data, i, main, listening, header, out, client>>

\* async_accept throws out of the listener, which is detached.
AcceptFails ==
  /\ main = "run" /\ listening
  /\ listening' = FALSE
  /\ UNCHANGED <<data, i, main, session, client>>

\* From the first co_await: a length that is refused is answered with an exception response to
\* function 0, and the next header is waited for.
ParseHeader(c) ==
  /\ main = "run" /\ stage[c] = "header" /\ Len(in[c]) >= header_size
  /\ in' = [in EXCEPT ![c] = Drop(@, header_size)]
  /\ header' = [header EXCEPT ![c] = Header(in[c])]
  /\ \/ /\ Refused(header'[c].length)
        /\ write_exception_response(c, header'[c], 0, modbus_exception_code.request_too_big)
        /\ UNCHANGED stage
     \/ /\ ~ Refused(header'[c].length)
        /\ stage' = [stage EXCEPT ![c] = "body"]
        /\ UNCHANGED out
  /\ UNCHANGED <<data, i, main, listening, gone, sent>>

\* Faulty variant: the unit id, already read, is waited for again.
ParseBodyLong(c) ==
  /\ main = "run" /\ stage[c] = "body" /\ Len(in[c]) >= header[c].length
  /\ in' = [in EXCEPT ![c] = Drop(@, header[c].length - 1)]
  /\ LET r == ReadReq(Take(in[c], header[c].length - 1))
     IN  \/ /\ r.ec # modbus_exception_code.success
            /\ stage' = [stage EXCEPT ![c] = "closed"]
            /\ UNCHANGED out
         \/ /\ r.ec = modbus_exception_code.success
            /\ stage' = [stage EXCEPT ![c] = "header"]
            /\ write_response(c, header[c], reqest_handler(r.req))
  /\ UNCHANGED <<data, i, main, listening, header, gone, sent>>

\* From the second co_await: parse_body, and the handler.
ParseBody(c) ==
  /\ main = "run" /\ stage[c] = "body" /\ Len(in[c]) >= header[c].length - 1
  /\ in' = [in EXCEPT ![c] = Drop(@, header[c].length - 1)]
  /\ LET r == ReadReq(Take(in[c], header[c].length - 1))
     IN  \/ /\ r.ec # modbus_exception_code.success
            /\ stage' = [stage EXCEPT ![c] = "closed"]
            /\ UNCHANGED out
         \/ /\ r.ec = modbus_exception_code.success
            /\ stage' = [stage EXCEPT ![c] = "header"]
            /\ write_response(c, header[c], reqest_handler(r.req))
  /\ UNCHANGED <<data, i, main, listening, header, gone, sent>>

\* async_read throws out of the session: the client is gone and the bytes are not complete.
ReadFails(c) ==
  /\ main = "run" /\ gone[c]
  /\ \/ stage[c] = "header" /\ Len(in[c]) < header_size
     \/ stage[c] = "body" /\ Len(in[c]) < header[c].length - 1
  /\ stage' = [stage EXCEPT ![c] = "closed"]
  /\ in' = [in EXCEPT ![c] = <<>>]
  /\ UNCHANGED <<data, i, main, listening, header, out, gone, sent>>

--------------------------------------------------------------------------------
(* The second thread, the posted handler, and the end of the program.           *)

\* Faulty variant: one round more than the bound.
TickOnceMore ==
  /\ HasData /\ i <= MaxTicks
  /\ i' = i + 1
  /\ posted' = Append(posted, i)
  /\ UNCHANGED <<s_holding_registers, main, listening, session, client>>

\* One round of the second thread; it goes on when the io_context is stopped.
Tick ==
  /\ HasData /\ i < MaxTicks
  /\ i' = i + 1
  /\ posted' = Append(posted, i)
  /\ UNCHANGED <<s_holding_registers, main, listening, session, client>>

\* Faulty variant: the loop ends one register early.
RunPostedShort ==
  /\ main = "run" /\ posted # <<>>
  /\ s_holding_registers' =
       [a \in Addresses |-> IF a < NRegisters - 1 THEN u16(Head(posted)) ELSE s_holding_registers[a]]
  /\ posted' = Tail(posted)
  /\ UNCHANGED <<i, main, listening, session, client>>

\* Faulty variant: the handlers run last in, first out.
RunPostedNewest ==
  /\ main = "run" /\ posted # <<>>
  /\ s_holding_registers' = [a \in Addresses |-> u16(posted[Len(posted)])]
  /\ posted' = Take(posted, Len(posted) - 1)
  /\ UNCHANGED <<i, main, listening, session, client>>

\* The posted handler: every register gets the value.
RunPosted ==
  /\ main = "run" /\ posted # <<>>
  /\ s_holding_registers' = [a \in Addresses |-> u16(Head(posted))]
  /\ posted' = Tail(posted)
  /\ UNCHANGED <<i, main, listening, session, client>>

\* SIGINT or SIGTERM: io_context.stop(), after which run() returns.
Signal ==
  /\ main = "run"
  /\ main' = "join"
  /\ UNCHANGED <<data, i, listening, session, client>>

\* Faulty variant: the program waits for the posted handlers too.
JoinDrained ==
  /\ main = "join" /\ posted = <<>> /\ (~ HasData \/ i = MaxTicks)
  /\ main' = "ended"
  /\ UNCHANGED <<data, i, listening, session, client>>

\* t.join(), and the end of main.
Join ==
  /\ main = "join" /\ (~ HasData \/ i = MaxTicks)
  /\ main' = "ended"
  /\ UNCHANGED <<data, i, listening, session, client>>

--------------------------------------------------------------------------------
(* The clients.                                                                 *)

ClientSends(c) ==
  /\ ~ gone[c] /\ Len(sent[c]) < MaxSent
  /\ \E f \in Frames : /\ in' = [in EXCEPT ![c] = @ \o f]
                       /\ sent' = [sent EXCEPT ![c] = Append(@, f)]
  /\ UNCHANGED <<data, i, main, listening, session, gone>>

\* What the client sent last may not have got through.
ClientCloses(c) ==
  /\ ~ gone[c]
  /\ gone' = [gone EXCEPT ![c] = TRUE]
  /\ \E n \in {0, 1} : n <= Len(in[c]) /\ in' = [in EXCEPT ![c] = Take(@, Len(@) - n)]
  /\ UNCHANGED <<data, i, main, listening, session, sent>>

Serving(c) == ParseHeader(c) \/ ParseBody(c) \/ ReadFails(c)

Next ==
  \/ AcceptFails \/ Tick \/ RunPosted \/ Signal \/ Join
  \/ \E c \in Conn : \/ Accept(c) \/ ParseHeader(c) \/ ParseBody(c) \/ ReadFails(c)
                     \/ ClientSends(c) \/ ClientCloses(c)

Spec == Init /\ [][Next]_vars

\* The io_context runs every session that is ready, and the second thread's sleeps end.
FairSpec ==
  /\ Spec
  /\ WF_vars(Tick) /\ WF_vars(Join)
  /\ \A c \in Conn : WF_vars(Serving(c))

--------------------------------------------------------------------------------
(* Properties.                                                                  *)

\* Every variable keeps its type, at the widths of the code.
TypeOK ==
  /\ s_holding_registers \in [Addresses -> U16]
  /\ posted \in Seq(Nat) /\ i \in 0 .. MaxTicks
  /\ main \in {"run", "join", "ended"} /\ listening \in BOOLEAN
  /\ stage  \in [Conn -> {"new", "header", "body", "closed"}]
  /\ header \in [Conn -> [transaction_id : U16, protocol : U16, length : U16, unit_id : Byte]]
  /\ out    \in [Conn -> Seq(Seq(Byte))]
  /\ in     \in [Conn -> Seq(Byte)]
  /\ gone   \in [Conn -> BOOLEAN]
  /\ sent   \in [Conn -> Seq(Frames)]

\* What Modbus has a device say to the frame f, as an error code.
Expected(f) ==
  LET r == ReadReq(Drop(f, header_size)).req
  IN  IF Len(f) = header_size THEN modbus_exception_code.request_too_big
      ELSE IF r.fc # function_code.read_holding_registers
      THEN modbus_exception_code.illegal_function
      ELSE IF r.words[2] \notin 1 .. 125 THEN modbus_exception_code.illegal_data_value
      ELSE IF HasData /\ ~ (r.words[1] .. r.words[1] + r.words[2] - 1 \subseteq Addresses)
      THEN modbus_exception_code.illegal_data_address
      ELSE modbus_exception_code.success

\* The k-th response on a connection is one that the library's own client takes for the answer to
\* the k-th frame: the header passes its checks, the PDU reads as the outcome that the request
\* deserves, and a success has the number of bytes asked for.
Understood ==
  \A c \in Conn : \A k \in 1 .. Len(out[c]) :
    LET f    == sent[c][k]
        size == IF Expected(f) # modbus_exception_code.success THEN 0
                ELSE 2 * ReadReq(Drop(f, header_size)).req.words[2]
        r    == ReadResp(function_code.read_holding_registers, size, Drop(out[c][k], header_size))
    IN  /\ HeaderError(Header(out[c][k]), Header(f).transaction_id, Header(f).unit_id)
             = modbus_exception_code.success
        /\ r.ec = Expected(f) /\ Len(r.values) = size

\* The words of a response; none, if it is an exception.
Words(reply) == IF reply[header_size + 1] >= 128 THEN <<>> ELSE BytesWords(Drop(reply, header_size + 2))

\* A response never mixes the registers of two updates.
NotTorn ==
  \A c \in Conn : \A k \in 1 .. Len(out[c]) :
    LET words == Words(out[c][k]) IN \A m \in 1 .. Len(words) : words[m] = words[1]

\* Time does not run backwards: the registers never hold less than a client has been told
\* already, on whichever connection, so no later response shows an older value.
NeverBack ==
  \A c \in Conn : \A k \in 1 .. Len(out[c]) :
    LET words == Words(out[c][k])
    IN  \A m \in 1 .. Len(words), a \in Addresses : words[m] <= s_holding_registers[a]

\* Every request on an accepted connection is answered, or the session or the program ends.
Answered ==
  \A c \in Conn : \A n \in 1 .. MaxSent :
    (stage[c] # "new" /\ Len(sent[c]) = n)
      ~> (Len(out[c]) >= n \/ stage[c] = "closed" \/ main # "run")

\* The program ends after a signal, though handlers that will never run are still posted.
Ends == main = "join" ~> main = "ended"
================================================================================
