------------------------------- MODULE TcpSystem -------------------------------
(* tcp_master and the server of examples/tcpserver_coroutine_with_data.cpp on   *)
(* one connection: TcpMaster with a session of DataServer in the place of its   *)
(* device.  Each step is a step of one of the two, or of both when bytes pass   *)
(* from one to the other.  The server answers broadcasts, and its registers     *)
(* change while requests and replies are on their way.                          *)
EXTENDS TcpMaster

CONSTANTS NRegisters, MaxTicks, conn

ASSUME ServerSizes == {NRegisters, MaxTicks} \subseteq Nat /\ NRegisters > 0 /\ MaxTicks <= 65536

VARIABLES s_holding_registers, posted, i, main, listening,
          stage, header, out, in, gone, sent,
          asked   \* history: the value of the registers when the last call was made

\* What the master can send.
Requests ==
  {Frame(u16(StartTid + n), c.slave, WriteReq(RequestOf(c))) : n \in 0 .. MaxCalls, c \in Calls}

D == INSTANCE DataServer WITH HasData <- TRUE, Conn <- {conn}, Frames <- Requests, MaxSent <- MaxCalls

server     == <<s_holding_registers, posted, i, main, listening, stage, header, out, in, gone, sent>>
systemVars == <<vars, server, asked>>

SystemInit == Init /\ D!Init /\ asked = 0

\* A call of the master: its request goes to the socket of the session.
Ask ==
  \E c \in Calls :
    /\ CallOf(c)
    /\ asked' = s_holding_registers[0]
    /\ IF open
       THEN /\ D!ClientSends(conn)
            /\ sent'[conn] = Append(sent[conn], toSlave'[Len(toSlave')].bytes)
       ELSE UNCHANGED server

\* The master alone: it reads what has come, or an exception ends its call.
Read ==
  /\ ReadHeader \/ ReadBody \/ ReadThrows
  /\ UNCHANGED <<server, asked>>

CallFails ==
  /\ \E c \in Calls : CallThrows(c)
  /\ UNCHANGED <<server, asked>>

\* A step of the session; the response it writes, if any, goes to the master, and is noted for
\* the call whose request it answers.
Serves ==
  /\ D!Serving(conn)
  /\ IF open /\ Len(out'[conn]) > Len(out[conn])
     THEN LET e        == Head(toSlave)
              response == out'[conn][Len(out'[conn])]
          IN  /\ fromSlave' = fromSlave \o response
              /\ toSlave' = Tail(toSlave)
              /\ Note(e, Return(e.call, ReadResp(e.call.fc, e.call.size, Drop(response, header_size))))
     ELSE UNCHANGED <<fromSlave, toSlave, answer>>
  /\ UNCHANGED <<pc, call, stream, open, mem, ret, made, asked>>

\* The server's other work.
Works ==
  /\ D!Accept(conn) \/ D!Tick \/ D!RunPosted \/ D!Join
  /\ UNCHANGED <<vars, asked>>

\* The signal that stops the server, and the failure of its listener.
Stops ==
  /\ D!Signal \/ D!AcceptFails
  /\ UNCHANGED <<vars, asked>>

\* The sockets go with the program; those that were never accepted, with the acceptor.
Abandoned == main = "ended" \/ (~ listening /\ stage[conn] = "new")

\* The connection is lost, for both.
Disconnects ==
  /\ Abandoned
  /\ PeerCloses
  /\ D!ClientCloses(conn)
  /\ UNCHANGED asked

SystemNext == Ask \/ Read \/ CallFails \/ Serves \/ Works \/ Stops \/ Disconnects

SystemSpec == SystemInit /\ [][SystemNext]_systemVars

--------------------------------------------------------------------------------
(* Properties.                                                                  *)

\* A read that reports success shows the registers as they were when it was called or later:
\* the answers to broadcasts shift every reply after them in the stream, and no earlier reply is
\* taken for this call's.
Fresh ==
  (pc = "idle" /\ made > 0 /\ call.slave # 0 /\ ret.ec = modbus_exception_code.success) =>
    LET shown == IF call.words THEN ret.out ELSE BytesWords(ret.out)
    IN  \A k \in 1 .. Len(shown) : shown[k] >= asked
================================================================================
