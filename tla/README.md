# A verification of mothbus

mothbus is a header-only C++ library for Modbus: a codec for protocol data units (PDU), a master
(client) over TCP or RTU, and the stream of a TCP server, with three example servers. This
directory holds TLA+ modules that model it, TLC configurations that check them, and TLAPS proofs.
Paths below are relative to the repository root; `pdu.h` stands for `include/mothbus/pdu.h`, and
so on.

The code at this commit does not compile as it stands: `parse_header` (`adu/tcp.h:48-66`) uses a
member that does not exist and returns an undeclared name, a parenthesis is missing at
`adu/tcp.h:127`, `examples/tcpserver.cpp:41` names a namespace `moethbus`, and
`examples/tcpserver_coroutine_with_data.cpp` uses an undeclared `slave` (53) and
`s_main_thread_id` (142) and compares where it means to assign (132). The models take what these
lines evidently mean.

## Inventory

| component | state | operations | talks to |
|---|---|---|---|
| PDU codec: `pdu.h`, `pdu/*.h`, `error.h` | none | `read`/`write` of nine request and nine response classes, exceptions, the request variant | the buffer |
| master calls: `adu/master.h` | the stream it owns | nine functions, the register reads in two overloads | `write_request`, `read_response` of either stream |
| TCP client stream: `adu/tcp.h:19-39, 93-157` | transaction counter, a 320-byte message buffer | `write_request`, `read_response` | asio's blocking `write` and `read` |
| TCP server stream: `adu/tcp.h:48-79, 161-252` | the same, and the read operation under way | `async_read_request`, `parse_header`, `parse_body`, `write_response` | asio's `async_read`, the user's callback |
| RTU client stream: `adu/rtu.h`, `adu/crc.h` | message buffer, two timeouts | `write_request`, `read_response`, `receive_response`, `read_byte_with_timeout`, `CRC16` | an `io_context` that it runs itself, the serial port, a timer |
| ADU buffer: `adu/buffer.h` | three cursors into the message buffer | `put`, `get`, `prepare`, `commit`, `data`, `consume` | codec and streams |
| `examples/tcpserver.cpp` | an acceptor, a read operation per connection | accept, read, handle, write, in callbacks of one thread | TCP server stream |
| `examples/tcpserver_coroutine.cpp`, `..._with_data.cpp` | a listener, a coroutine per connection; 200 registers and a second thread that posts updates of them | the same as coroutines of one thread; signals, stop, join | TCP server stream |
| `examples/tcpclient.cpp` | none | one read of one register | TCP client stream |

A call of the master is synchronous: it encodes a request, writes the frame, blocks for the
reply, checks it, decodes it. What is hard to get right:

* Over TCP there is nothing but lengths to find a frame with. A call that returns early, or takes
  one byte too many or too few, breaks every later call (`adu/tcp.h:138-151`).
* A broadcast (unit id 0) is not waited for, so requests pile up, and a peer that answers it
  puts a reply into the stream that nobody reads (`adu/tcp.h:120`). The example servers do answer.
* The connection may die between any two steps, the device having acted or not.
* Over RTU a frame ends where no byte comes for a while, nothing names the request that a reply
  answers, and what the reader found is dropped: only the checksum decides (`adu/rtu.h:84-109`).
* The RTU stream races a read of one byte against a timer; each handler cancels the other
  operation, possibly too late (`adu/rtu.h:125-137`).
* A stream has one array for all its messages; only three cursors, none of them compared with
  its size, separate a message from the remains of the last one (`adu/buffer.h`).
* The servers' sessions are chains of callbacks that carry their state along, interleaved with
  each other and with handlers that another thread posts.
* Sizes at their limits: counts are one byte, lengths two, the transaction counter wraps, coils
  are packed in groups of eight with an incomplete last group, and the two ends disagree on how
  long a frame may be: 260 bytes in `is_valid_length`, 255 in `read_response`.

The correctness properties follow: the readers undo the writers; a truncated PDU is never a
success; between two calls the stream, or the line, is empty; a call returns what the device did
for this very call; every call comes back; no byte of the serial line is lost; the k-th response
of a session answers the k-th request; no response mixes two updates of the registers.
`PROJECT.json` lists the hazards with the line where each bites and the property that covers it.

## Modules

| module | models | how it corresponds to the code |
|---|---|---|
| `Pdu` | `pdu.h`, `pdu/*.h`, `error.h` | one definition per request and response class, giving its layout; `WriteReq`, `ReadReq` and `ReadResp` for the `write` and `read` overloads; `Reading` is what a reader leaves behind: error, count, bytes in the caller's span |
| `Master` | `adu/master.h` | one operator per function for the request it builds; `Return` for its tail after `read_response`; `Documented` for its comments and assertions |
| `Mbap` | `mbap_header` | `Frame` writes and `Header` reads the seven bytes; `HeaderError` is the client's check of them, `is_valid_length` the server's |
| `Crc` | `adu/crc.h`, the frame of `adu/rtu.h` | the two tables, `CrcStep` for a turn of the loop, `RtuFrame` for the bytes on the line |
| `SlaveMemory` | external | the device: four tables, what a call means for them (`Valid`, `Effect`, `Content`), and what it makes of a request PDU (`Serve`). The first speaks of arguments, the second of bytes: that they agree is what the checks show |
| `ModbusMemory` | abstract specification | calls acting on the device's tables, no bytes: each call at most once, in order, returning what was done for it. Both masters implement it |
| `TcpMaster` | client side of `adu/tcp.h` | `CallOf` is `write_request` and the broadcast return of `read_response`; `ReadHeader` and `ReadBody` are its two blocking reads with all that follows each; `CallThrows`, `ReadThrows` are asio's exceptions. `SlaveServes`, `SlaveRefuses`, `PeerCloses` are external |
| `RtuByteRead` | `read_byte_with_timeout` | `Start` up to `run()`, the two lambdas `ReadHandler` and `TimerHandler`, `Return`; asio's operations as small automata |
| `RtuMaster` | the rest of `adu/rtu.h` | `CallOf` is `write_request` and the broadcast return; `ResponseTimeout`, `FirstByte`, `NextByte`, `EndOfFrame` are the outcomes of the byte reads of `receive_response`, the last with all that follows the loop. The line may be late, noisy, or lose requests (`Faults`) |
| `TcpServer` | `request_read_op`, `async_read_request`, `write_response`, `examples/tcpserver.cpp` | `ParseHeader` and `ParseBody` are the two callbacks of a read; the second runs the handler and starts over. `Accept`, `AcceptFails` are the acceptor |
| `DataServer` | both coroutine servers | `ParseHeader` and `ParseBody` run from one `co_await` to the next; `Tick` is a round of the second thread, `RunPosted` the handler it posts, `Signal` and `Join` the end of the program. `HasData` chooses the program |
| `TcpSystem` | the composition | `TcpMaster` with a session of `DataServer` in the place of its device: bytes that one side writes arrive at the other in the same step |
| `AduBuffer` | `adu/buffer.h` | the array and the cursors; `new_buffer` for the objects that the streams make, `send_rtu` and `send_tcp` for how they commit |
| `Codec` | the codec, both directions | a PDU is written, then cut or followed by a byte, or replaced by a shorter list, and read |
| `SampleCalls`, `MC...` | | calls, frames and tables for TLC |
| `WireLemmas` | | what the codec and the device do for every request and reply, where the frames of a client lie in the stream a server reads, and what a loop over the bytes of a message goes through |
| `...Proofs` | | the theorems of the module named; those of `TcpSystem` are at the end of `TcpMasterProofs`, on whose lemmas they rest |

The stream from the device is a sequence of bytes, because frame boundaries are what is at
stake; the stream to the device is a sequence of frames, because a server reads each by its
length (`RequestFits`, and `InOrder` for servers that read bytes), with the call each carries as a
history variable. The modules other than `AduBuffer` take a message for a sequence of bytes, which
is what `AduBuffer` shows of the cursors. `RtuMaster` takes a read of a byte for one step, which
is what `RtuByteRead` shows: it returns the next byte of the line or takes nothing.

Undefined values are a choice: the two checksum bytes of `adu/rtu.h:99` that are compared without
having been received may have any value (`Outcomes`). Operators whose comment says "faulty
variant" are versions of the next definition with a fault that a property must catch;
`PROJECT.json` lists which. No specification uses them.

## Runs

| run | configuration | checks | shows |
|---|---|---|---|
| `tcp_master` | `MCTcpMaster.cfg` | `TypeOK`, `InSync`, `Honest`, `Implements`, `CallReturns` | three calls out of ten (every function, both overloads, addresses past the end, a broadcast) on a device that refuses at will and a connection that dies at any byte; the counter starts at 65534, so it wraps |
| `tcp_system` | `MCTcpSystem.cfg` | `NoFalseSuccess`, `Fresh` | master and data server: answered broadcasts shift the stream, the registers change; no call takes another's answer for its own, and no read is older than its call |
| `codec` | `MCCodec.cfg` | `RequestReadBack`, `RequestFits`, `ReplyReadBack`, `SpanFilled`, `TableIsRemainder` | every function at the ends of its documented range and at the edges of a byte, every prefix of every PDU, shorter lists; the checksum of each against its definition, every entry of the tables used |
| `rtu_byte_read` | `MCRtuByteRead.cfg` | `TypeOK`, `NoByteLost`, `CallReturns` | five calls, four bytes, every order of handlers |
| `rtu_master` | `MCRtuMaster.cfg` | `TypeOK`, `Drained`, `Honest`, `WithinBuffer`, `Implements` | three calls out of eleven on a prompt line, among them the longest reply |
| `rtu_faults` | `MCRtuMasterFaults.cfg` | `NoFalseSuccess`, `CallReturns` | late replies, a flipped bit, lost requests, refusals, for the tables of the instance |
| `tcp_server` | `MCTcpServer.cfg` | `TypeOK`, `InOrder`, `ClosedForCause` | two connections that pipeline two frames each, good, unreadable or of a refused length, and leave in the middle of one |
| `data_server` | `MCDataServer.cfg` | `TypeOK`, `Understood`, `NotTorn`, `NeverBack`, `Answered`, `Ends` | a session with pipelined requests at the ends of every range, two updates of the registers, a signal at any moment |
| `adu_buffer` | `MCAduBuffer.cfg` | `TypeOK`, `InBounds`, `SentAsPut`, `GotAsReceived`, `RefusedAtEnd` | messages of every length up to the capacity, in the same array |
| `register_value` | `MCTcpMasterRegister.cfg` | `Honest`, violated | finding 1 |
| `reply_length` | `MCTcpMasterLength.cfg` | `Honest`, violated | finding 2 |
| `rtu_refused` | `MCRtuMasterRefused.cfg` | `ExceptionReported`, violated | finding 3 |

Bounds. `MaxCalls = 3` lets a broadcast and a normal request be on their way together and be
followed by one more call, which is what it takes for a leftover to be misread. `tcp_system` has
five: the answer to a read of six registers is as long as three headers, so three calls after an
answered broadcast fail and the next finds the stream at the start of a frame again, which
answers an earlier call. Only the transaction id tells it apart. `rtu_faults` has two calls and one
flipped bit: a call and the leftovers of the one before; the calls go to units whose id is
their function code, so that a shifted frame looks like a frame. Two updates are needed in
`data_server` and `tcp_system` because the first one posts the value 0 that the registers have. Two
frames for each connection are enough for a session to lose its place; the second connection of
`tcp_server` (under symmetry) brings in the interleaving. Two registers and ten coils are enough
for ranges that overlap, end at the table's edge, pass it, and cross a byte; `rtu_master` has 125
registers, the longest read. `adu_buffer` has eight places, one more than the header of the TCP
stream, and messages that fill them. Deadlock is not checked where the clients, the application or
the line stop at a bound or the program ends; in `adu_buffer` it is.

What the properties leave out, because the code does not give it:

* `Honest`, `InSync` and `Implements` of `tcp_master` hold for calls that avoid findings 1 and 2
  and spans of another size than the reply (below), and for a device that leaves broadcasts
  unanswered. Otherwise later calls fail with `transaction_id_invalid`, or another error of the
  header, until the connection is replaced. `NoFalseSuccess` and `Fresh` are what remains, as
  statements about five calls: a counter that has gone round all 65536 values could meet an old id.
* `Drained`, `WithinBuffer`, `Honest` and `Implements` of `rtu_master` hold on a line where a reply
  comes before the timeout that waits for it. With late replies none of them does: nothing clears
  the line before a request, and replies that pile up on it are collected by one call, past the
  end of the buffer.
* `NoFalseSuccess` of `rtu_faults` speaks of calls that no other reply crossed, that waited for the
  whole of their own, and that the device did not refuse (finding 3). With noise it depends on what
  the tables hold (the observation on `adu/rtu.h:98`).
* `Understood` is checked for quantities whose response passes the client's check of 255 bytes
  (up to 123 registers), and for the program with registers; the server without them is covered by
  the proofs only, where `HasData` is free.
* Frames in `DataServer` fit its 320 bytes (`FramesTyped`).

Fairness. `tcp_master` assumes that a blocked read returns when its bytes are there (asio's
contract), and that the device keeps serving. Without the second a call may block for ever, since
`adu/tcp.h` sets no timeout. `rtu_byte_read` assumes that time passes and that `run()` runs
queued handlers; it does not assume that a byte arrives or that the port fails. `rtu_faults` has one
condition, that the application's thread takes its next step, which `rtu_byte_read` justifies, and
assumes nothing of the device. `data_server` assumes that the `io_context` runs a session that is
ready, that the sleeps of the second thread end, and that `join` returns once it has ended;
nothing is assumed of the clients, the listener or the posted handlers. The other runs are about
safety only.

## Findings

1. `pdu/resp_writing_single_register.h:33` accepts 0x0000 and 0xFF00 only, the values of a coil.
   `write_single_register` of any other value is carried out and then reported as
   `illegal_data_value`; `adu/master.h:187` documents no restriction.
2. `adu/tcp.h:147` refuses replies with `length + 6 > 255`. `adu/master.h:230` documents reads of
   up to 0x7D registers; with 124 or 125 the device acts, the call returns `invalid_response`
   and the body stays in the stream.
3. `adu/rtu.h:95` drops what reading the response returned. An exception response with a correct
   checksum, which `pdu.h:170` marks as an exception, ends as a success of the call. (For the same
   reason `write_single_register` does not fail over RTU as in finding 1.)

Observations that follow from the definitions and have no run of their own:

* `adu/master.h:58` wants `byte_count == out.size()`, where `adu/master.h:39` and the assertion
  at line 46 allow a larger span.
* `adu/master.h:249`: 0x17 reads into a vector whose size is not compared with the byte count; a
  shorter list is a success with zeros in the missing places. `SpanFilled` covers the other reads.
* `pdu.h:175`: an exception response with code 0 becomes the error code that means success.
* `adu/rtu.h:71`: after a timeout the late reply is taken for the answer to the next call, which
  may report success before the device has seen its request.
* `adu/rtu.h:98`: the checksum is looked for where the reader stopped, not at the end of what came.
  A flipped top bit of the function code makes the reader stop after the byte count, as after an
  exception; the first register is then compared with the checksum of three bytes. If it holds that
  number (unit 3, one register, 0x6131), the call is a success with a zero. TLC finds this in an
  instance with that register and one flipped bit.
* `examples/tcpserver.cpp:18`: the visitor's answer to `not_implemented` is never given, because
  `pdu.h:94` makes an unknown function code an error of the read, which closes the connection.
* `examples/tcpserver.cpp:41`: the size of a response is what the client asks for; from 126
  registers on it exceeds `max_adu_size`, from 128 on its byte count wraps.
* `examples/tcpserver_coroutine_with_data.cpp:84` and `examples/tcpserver_coroutine.cpp:78`: the
  negation reaches only the first comparison, so that no length is too large, and a body of more
  than 313 bytes is read past the 320 bytes of the vector.
* `adu/buffer.h:50`: `commit` after sending moves the output cursor to twice the length of the
  message; nobody uses it again. `consume` is never called.

## Proofs

All proofs are checked by TLAPS, for every value of the constants under the named assumptions
of the modules. None bounds a table, a list, the number of calls, of connections or of requests;
`CallsDocumented` restricts calls to what `adu/master.h` documents. A theorem that needs more says
so as a hypothesis (`ASSUME`), and each hypothesis stands for something without which the code does
not have the property:

| hypothesis | asks | without it |
|---|---|---|
| `Hypotheses` (`TcpMasterProofs`) | broadcasts are not answered; no reply exceeds 248 bytes | the stream loses step: `tcp_system`; finding 2 |
| `HonestHypotheses` (`TcpMasterProofs`) | besides, spans as long as the bits read, and values of 0x06 that the reader accepts | the call reports an error for what was done: `adu/master.h:58`; finding 1 |
| `PromptLine` | no reply is late, no bit flips; requests may be lost | leftovers stay on the line and pile up in the buffer |
| `HonestHypotheses` (`RtuMasterProofs`) | no faults, no refusals, a device that has what is asked for, spans as long as the bits | an exception is a success: finding 3 |
| `"noise" \notin Faults` | no bit flips; late replies, lost requests and refusals are allowed | a flipped bit moves the place of the checksum: `adu/rtu.h:98` above |
| `Readable` (`CodecProofs`) | as `HonestHypotheses` of TCP asks of calls | findings |
| `ShortReads` (`DataServerProofs`) | no successful request for more than 123 registers | the library's client refuses the response: finding 2 seen from the server. The first attempt at the proof failed there, and TLC confirms it |
| `Hypothesis` (`TcpSystem`) | no broadcasts, which this server answers; no read of more than 123 registers | the stream loses step: `tcp_system`; finding 2 |

`MCTcpMaster`, `MCRtuMaster`, `MCCodec` and `MCDataServer` are instances that satisfy them,
`MCRtuMasterFaults` without noise the weakest one, and `MCTcpSystem` with calls to units other than 0
the one of `TcpSystem`, on which TLC confirms its inductive invariant as well.

* `WireLemmas!RequestArrives`: reading a well-formed request of which all bytes arrived gives it
  back, whatever follows; reading less of it is an error. It rests on lemmas about words and bytes
  (`WordParts`, `WordsReadBack`) and on where each part of a written request lies
  (`WriteReqParts`). `RequestOfWellFormed` adds that every documented call builds such a request.
* `WireLemmas!ReplyIsReadBack`: the same for replies, and what they mean. For every call and memory
  the bytes that `Serve` sends are read as `Outcome`, which speaks of tables and arguments only; the
  reader stops at the last byte of the PDU (which over RTU is where the checksum is looked for);
  and where the code refuses what it need not, it never reports success. `ServeMeaning` holds the
  argument: a reply is a list of bytes, an echo of two words, or an exception.
* `CodecProofs`: `RequestReadBack`, `RequestFits`, `SpanFilled` without, `ReplyReadBack` under
  `Readable`; `Codec` has hardly any state, so that the two theorems above are all it takes.
* `CodecProofs!CrcIsRemainder`, `TableIsRemainderTheorem`: for every message of any length, `CRC16`
  with its tables is the remainder computed bit by bit. The model cuts the loop in halves, for
  TLC; `CrcLoopIs` of `WireLemmas` relates it to the sequence of its turns (`Turns`), and an
  induction over the turns, put as the least turn after which something goes wrong
  (`LeastNumber`), does the rest. One turn is eight shifts of the register: `HiTable` and
  `LoTable` state the 512 entries as functions of the bits that fall out, `EightBits` computes the
  same bits by shifting.
* `CodecProofs!OneByteTells`, `ChangedFrameTells`: a change of one byte, to whatever value, changes the
  checksum of a message, and a frame in which one byte changed, in the message or the checksum,
  is not a frame. A turn of the loop keeps two registers apart, and two bytes (`TurnTells`),
  because no entry of `auchCRCLo` occurs twice (`LoTableTells`): the two loops differ from the
  changed byte on. This says what the checksum is worth where it is looked for in its place; the
  master may look elsewhere (`adu/rtu.h:98`).
* `TcpMasterProofs!TypeOKTheorem`: `Spec => []TypeOK`. `TypeOK` is not inductive. The device
  reads its request out of a frame, so the proof needs `WireOK` (each frame is that of the call
  it is filed under) and the codec theorem; the body is a part of the stream only because its
  length was checked, which is `BodyOK`.
* `TcpMasterProofs!InSyncTheorem` under `Hypotheses`. `InSync` speaks only of the moments between
  calls; `Sync` says where the one unanswered request can be in between. Either it is the last of
  the requests on their way, behind broadcasts only, and the stream is empty (`Waiting`), or no
  request is left and the stream holds exactly its reply (`Answered`), or the header is read and
  exactly the body is left.
* `TcpMasterProofs!NoFalseSuccessTheorem` under `Hypotheses`, `HonestTheorem` and
  `ImplementsTheorem` under `HonestHypotheses`. `Sync` says that a reply is in the stream but not
  which. `Told` carries along what the device did when it sent it: the bytes left are a part, from
  the start, of a frame whose PDU is read as `answer` (`Meant`, `Part`); a part, because a
  connection that dies takes the end of the frame with it. `Right` is what `Meant` asks of a call:
  the outcome itself, or for a call that the code refuses on its own, no success. The refinement
  takes each action to one action of `ModbusMemory`, but for `ReadHeader`, which stutters.
* `RtuMasterProofs!DrainedTheorem`, `WithinBufferTheorem` under `PromptLine`. `Waiting` says that
  the request the application waits for is the only one that will be answered and the last on its
  way; `Sizes` bounds what is on the line and in the buffer by the 255 bytes of the longest reply
  to a documented call.
* `RtuMasterProofs!TypeOKTheorem`, on every line and without a hypothesis. That what is on the line is
  bytes rests on the checksum being two of them (`CrcType`, from the same induction) and on a flipped
  bit leaving a byte.
* `RtuMasterProofs!HonestTheorem`, `ImplementsTheorem` under `HonestHypotheses`. As over TCP, with
  `MeantFrame`: what is in the buffer and on the line, put together, is the frame of the reply
  that tells what the device did. Since the reader's error is dropped, this holds for every
  value of 0x06.
* `RtuMasterProofs!NoFalseSuccessTheorem`, on a line without noise. Late replies break `Waiting`,
  `Sizes` and `Drained`. What is left is `Alone`: as long as the call is clean (nothing was due when
  it started), no request but its own will be answered, and what comes is the frame of its answer.
  A call that starts clean establishes this whatever came before; one that stops waiting
  with something due is not clean any more.
* `RtuByteReadProofs!NoByteLostTheorem`, `TypeOKTheorem`. `Handshake` is the strengthening:
  the buffer holds a byte only between the completion of a read and the return of the call that
  reports it, and no operation outlives its call.
* `TcpServerProofs`: all three properties of `TcpServer`, for every number of connections and
  frames. `InOrder` alone says nothing of a session in the middle of a frame. `Orderly` places the
  unread bytes of a session among the frames its client sent (`Placed`): they start at the frame
  after the last one answered, or, with a header read, behind its header, and they run to the
  end of what was sent, or short of it if the client left. The stream lemmas of `WireLemmas`
  (`StreamRead`, `StreamDone`, `StreamSent`, `StreamLost`) say how each step moves that place.
* `DataServerProofs!TypeOKTheorem`, `UnderstoodTheorem` (under `ShortReads`): from the same placing
  of bytes, with coroutines in the place of callbacks; `Meets` relates a response to its request.
* `DataServerProofs!NotTornTheorem`, `NeverBackTheorem`: for any number of registers, connections
  and requests, and up to 65536 updates. `Updates`: all registers hold one value, no later than any
  update still posted, and the updates are posted in ascending order; `Replies`: each response tells
  nothing, or one value that the registers have reached. What a response tells is read back from
  its bytes (`ValuesTold`).
* `TcpMasterProofs!FreshTheorem`, `SystemHonestTheorem` under `Hypothesis`: for any number of calls and
  registers, up to 65536 updates, and a server that is stopped or whose listener fails at any
  moment. Neither property is inductive, since each speaks of the moment a call has returned.
  `SystemInv` has three parts. `Registers`: all registers hold one value, the posted updates come
  in ascending order behind it (`InTurn`, which `DataServerProofs` uses too), and the value has not
  gone back since the last call. `Shapes`: types. `Exchange` follows the one request that is under
  way: `Quiet` between calls, nothing is in either direction and the server has answered all it was
  sent; `Unserved`, the request lies in front of the session, whole or behind its header, and nothing
  comes back; else what comes back is the rest of a response (`Part`) that is `Apt`: the frame of
  this call's transaction, read as `answer`, whose registers are none older than the call
  (`Recent`). The step that makes a response apt is `HandlerAnswers`: what the handler writes is an
  exception or the registers as they are.
* `AduBufferProofs`: all five properties of `AduBuffer`, for every capacity and every size of
  message up to it. `Cursors` ties the cursors to the length of what was put, received and given
  out; `Holds` ties the array to the message, `Given` what was given out to its beginning.

Only model-checked:

* liveness (`CallReturns`, `Answered`, `Ends`), out of the prover's reach;
* `NoFalseSuccess` of `rtu_faults` with noise. It is not true of every table (the observation on
  `adu/rtu.h:98`), so it holds for the instance only; without noise it is proved, and
  `ChangedFrameTells` is what the checksum adds;
* `NoFalseSuccess` and `Fresh` where broadcasts are answered (`tcp_system`). There a call may read
  the registers of an old response as a header, so that both depend on what the registers hold and
  on how many calls are made, and hold for the instance only.

## Not modelled, and the plan

The state-changing operations of the library and of the example servers are modelled, and every
invariant and refinement that a run checks is proved under the hypotheses above. Left in
the plan: shorter proofs where the two servers, and the composition with one of them, argue alike.

Left out: the request classes for which `examples/tcpserver.cpp` has no handler (its visitor does
not compile for them); command line, name lookup and output of the example client; the texts of
the error category; logging; build files; the tests, which were read for what the code is meant to
do; and the thread-safety of a master shared by several threads, which the library does not offer.
