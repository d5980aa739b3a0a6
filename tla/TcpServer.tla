------------------------------- MODULE TcpServer -------------------------------
(* The server's side of tcp::stream (adu/tcp.h) under the sessions of           *)
(* examples/tcpserver.cpp.  A session is a chain of callbacks: async_read of    *)
(* seven bytes, parse_header, async_read of the body, parse_body, the handler,  *)
(* which writes the response and starts over.  The operation carries its state  *)
(* from one callback to the next; the only thread runs the callbacks one at a   *)
(* time, in any order between the connections.                                  *)
(*                                                                              *)
(* The example handles reads of holding registers and not_implemented; clients  *)
(* send no other class of request here.                                         *)
EXTENDS Mbap

CONSTANTS Conn,      \* the connections that clients may open
          Frames,    \* what clients may send: each a whole frame, its length field right or refused
          MaxSent    \* bound on the frames sent on a connection

ASSUME FramesTyped ==
  \A f \in Frames :
    /\ f \in Seq(Byte) /\ Len(f) >= header_size
    /\ is_valid_length(Header(f).length) => Len(f) = header_size - 1 + Header(f).length
ASSUME MaxSentTyped == MaxSent \in Nat

VARIABLES
  accepting,   \* the acceptor has an async_accept under way
  stage,       \* per connection: "new", what async_read waits for ("header", "body"), "closed"
  op,          \* ... the fields of its request_read_op
  in,          \* ... bytes from the client that are not read yet
  gone,        \* ... the client has closed its end
  out,         \* ... the responses written, each as its bytes
  sent         \* ... history: the frames that the client sent

session == <<stage, op, out>>
client  == <<in, gone, sent>>
vars    == <<accepting, session, client>>

NoRequest == [transaction_id |-> 0, length |-> 0, slave |-> 0]

Init ==
  /\ accepting = TRUE
  /\ stage = [c \in Conn |-> "new"]
  /\ op    = [c \in Conn |-> NoRequest]
  /\ in    = [c \in Conn |-> <<>>]
  /\ gone  = [c \in Conn |-> FALSE]
  /\ out   = [c \in Conn |-> <<>>]
  /\ sent  = [c \in Conn |-> <<>>]

--------------------------------------------------------------------------------
(* The sessions.                                                                *)

\* req_handler: the PDU of the response.  The registers exist at address 100 only, on unit 255;
\* how many of them are asked for is not looked at.
Handle(slave, req) ==
  IF req = not_implemented
  THEN WriteException(function_code.read_holding_registers, modbus_exception_code.illegal_function)
  ELSE IF slave # 255
  THEN WriteException(function_code.read_holding_registers, modbus_exception_code.gateway_path_unavailable)
  ELSE IF req.words[1] = 100
  THEN WriteValues(function_code.read_holding_registers, [k \in 1 .. 2 * req.words[2] |-> 0])
  ELSE WriteException(function_code.read_holding_registers, modbus_exception_code.illegal_data_address)

\* server::accept: a connection is set up, and the next one is waited for.
Accept(c) ==
  /\ accepting /\ stage[c] = "new"
  /\ stage' = [stage EXCEPT ![c] = "header"]
  /\ UNCHANGED <<accepting, op, out, client>>

\* An error ends accepting for good; the connections there are go on.
AcceptFails ==
  /\ accepting
  /\ accepting' = FALSE
  /\ UNCHANGED <<session, client>>

\* Faulty variant: the fields of the operation outlive the request.
ParseHeaderKeepsFields(c) ==
  /\ stage[c] = "header" /\ Len(in[c]) >= header_size
  /\ in' = [in EXCEPT ![c] = Drop(@, header_size)]
  /\ LET h == Header(in[c])
     IN  \/ /\ ~ is_valid_length(h.length)
            /\ stage' = [stage EXCEPT ![c] = "closed"]
            /\ UNCHANGED op
         \/ /\ is_valid_length(h.length)
            /\ stage' = [stage EXCEPT ![c] = "body"]
            /\ op' = [op EXCEPT ![c] =
                        IF @ # NoRequest THEN [@ EXCEPT !.length = h.length]
                        ELSE [transaction_id |-> h.transaction_id, length |-> h.length,
                              slave |-> h.unit_id]]
  /\ UNCHANGED <<accepting, out, gone, sent>>

\* request_read_op::parse_header.  On a length that it refuses the callback gets request_too_big,
\* and the session ends with the last reference to the connection.
ParseHeader(c) ==
  /\ stage[c] = "header" /\ Len(in[c]) >= header_size
  /\ in' = [in EXCEPT ![c] = Drop(@, header_size)]
  /\ LET h == Header(in[c])
     IN  \/ /\ ~ is_valid_length(h.length)
            /\ stage' = [stage EXCEPT ![c] = "closed"]
            /\ UNCHANGED op
         \/ /\ is_valid_length(h.length)
            /\ stage' = [stage EXCEPT ![c] = "body"]
            /\ op' = [op EXCEPT ![c] = [transaction_id |-> h.transaction_id,
                                        length |-> h.length, slave |-> h.unit_id]]
  /\ UNCHANGED <<accepting, out, gone, sent>>

\* request_read_op::parse_body, then the callback: an error ends the session; otherwise the
\* handler writes a response, whose failure nobody notices, and the next request is waited for.
ParseBody(c) ==
  /\ stage[c] = "body" /\ Len(in[c]) >= op[c].length - 1
  /\ in' = [in EXCEPT ![c] = Drop(@, op[c].length - 1)]
  /\ LET r == ReadReq(Take(in[c], op[c].length - 1))
     IN  \/ /\ r.ec # modbus_exception_code.success
            /\ stage' = [stage EXCEPT ![c] = "closed"]
            /\ UNCHANGED out
         \/ /\ r.ec = modbus_exception_code.success
            /\ stage' = [stage EXCEPT ![c] = "header"]
            /\ out' = [out EXCEPT ![c] =
                         Append(@, Frame(op[c].transaction_id, op[c].slave, Handle(op[c].slave, r.req)))]
  /\ UNCHANGED <<accepting, op, gone, sent>>

\* async_read ends with an error: the client is gone and the bytes will never be complete.
ReadFails(c) ==
  /\ gone[c]
  /\ \/ stage[c] = "header" /\ Len(in[c]) < header_size
     \/ stage[c] = "body" /\ Len(in[c]) < op[c].length - 1
  /\ stage' = [stage EXCEPT ![c] = "closed"]
  /\ in' = [in EXCEPT ![c] = <<>>]
  /\ UNCHANGED <<accepting, op, out, gone, sent>>

--------------------------------------------------------------------------------
(* The clients: requests may be sent without waiting for the answers.           *)

ClientSends(c) ==
  /\ ~ gone[c] /\ Len(sent[c]) < MaxSent
  /\ \E f \in Frames : /\ in' = [in EXCEPT ![c] = @ \o f]
                       /\ sent' = [sent EXCEPT ![c] = Append(@, f)]
  /\ UNCHANGED <<accepting, session, gone>>

\* What the client sent last may not have got through.
ClientCloses(c) ==
  /\ ~ gone[c]
  /\ gone' = [gone EXCEPT ![c] = TRUE]
  /\ \E n \in {0, 1} : n <= Len(in[c]) /\ in' = [in EXCEPT ![c] = Take(@, Len(@) - n)]
  /\ UNCHANGED <<accepting, session, sent>>

Next ==
  \/ AcceptFails
  \/ \E c \in Conn : \/ Accept(c) \/ ParseHeader(c) \/ ParseBody(c) \/ ReadFails(c)
                     \/ ClientSends(c) \/ ClientCloses(c)

Spec == Init /\ [][Next]_vars

--------------------------------------------------------------------------------
(* Properties.                                                                  *)

\* Every variable keeps its type, at the widths of the code.
TypeOK ==
  /\ accepting \in BOOLEAN
  /\ stage \in [Conn -> {"new", "header", "body", "closed"}]
  /\ op    \in [Conn -> [transaction_id : U16, length : U16, slave : Byte]]
  /\ in    \in [Conn -> Seq(Byte)]
  /\ gone  \in [Conn -> BOOLEAN]
  /\ out   \in [Conn -> Seq(Seq(Byte))]
  /\ sent  \in [Conn -> Seq(Frames)]

\* The response to the frame f, taken as a whole: the fields of its header, the request in it.
Response(f) ==
  Frame(Header(f).transaction_id, Header(f).unit_id,
        Handle(Header(f).unit_id, ReadReq(Drop(f, header_size)).req))

\* The k-th response on a connection answers the k-th frame that its client sent, with that
\* frame's transaction id and unit id, however the requests were pipelined and interleaved: the
\* session never loses the place where a frame begins.
InOrder ==
  \A c \in Conn : \A k \in 1 .. Len(out[c]) : out[c][k] = Response(sent[c][k])

\* A request that is worth an answer: a frame of the size it claims, no longer than an ADU may
\* be, with a PDU that can be read.
Readable(f) ==
  /\ Len(f) = header_size - 1 + Header(f).length
  /\ header_size < Len(f) /\ Len(f) <= max_adu_size
  /\ ReadReq(Drop(f, header_size)).ec = modbus_exception_code.success

\* A session is closed only for a reason: the client has left, or the frame after the last one
\* answered cannot be read.
ClosedForCause ==
  \A c \in Conn : stage[c] = "closed" =>
    \/ gone[c]
    \/ /\ Len(out[c]) < Len(sent[c])
       /\ ~ Readable(sent[c][Len(out[c]) + 1])
================================================================================
