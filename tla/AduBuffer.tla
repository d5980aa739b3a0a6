------------------------------- MODULE AduBuffer -------------------------------
(* adu::buffer (include/mothbus/adu/buffer.h): three cursors over the message   *)
(* buffer of a stream.  A stream has one array for everything it sends and      *)
(* receives; each message gets new cursors, over the bytes of the ones before.  *)
(* The other modules take a message for a sequence of bytes: this one shows     *)
(* that the array and the cursors amount to that.                               *)
EXTENDS Pdu

CONSTANTS Capacity,    \* message_buffer.size(), 320 in both streams
          MaxMessage,  \* the longest message, 260 bytes at most
          Values       \* the bytes that are put and received

ASSUME CapacityTyped ==
  Capacity \in Nat /\ MaxMessage \in Nat /\ 7 <= MaxMessage /\ MaxMessage <= Capacity
ASSUME ValuesTyped == Values \subseteq Byte

VARIABLES
  message_buffer,                        \* the array of the stream
  input_start, input_end, output_start,  \* the cursors of the current buffer object
  use,       \* what the object is used for: "put", "sent", "get"
  msg,       \* history: the bytes put, or received, since the object was made
  got,       \* the bytes that get() gave out since then
  refused,   \* the last get() returned an error
  wire       \* the bytes of data(), when it was last called

vars == <<message_buffer, input_start, input_end, output_start, use, msg, got, refused, wire>>

Places == 0 .. Capacity - 1

Init ==
  /\ message_buffer = [k \in Places |-> 0]
  /\ input_start = 0 /\ input_end = 0 /\ output_start = 0
  /\ use = "put" /\ msg = <<>> /\ got = <<>> /\ refused = FALSE /\ wire = <<>>

--------------------------------------------------------------------------------
\* Faulty variant: a new object goes on where the last one stopped.
new_buffer_kept(u) ==
  /\ use' = u /\ msg' = <<>> /\ got' = <<>> /\ refused' = FALSE /\ wire' = <<>>
  /\ UNCHANGED <<message_buffer, input_start, input_end, output_start>>

\* adu::buffer sink(m_message_buffer), adu::buffer source(m_message_buffer)
new_buffer(u) ==
  /\ input_start' = 0 /\ input_end' = 0 /\ output_start' = 0
  /\ use' = u /\ msg' = <<>> /\ got' = <<>> /\ refused' = FALSE /\ wire' = <<>>
  /\ UNCHANGED message_buffer

put(v) ==
  /\ use = "put" /\ Len(msg) < MaxMessage
  /\ message_buffer' = [message_buffer EXCEPT ![output_start] = v]
  /\ output_start' = output_start + 1
  /\ msg' = Append(msg, v)
  /\ UNCHANGED <<input_start, input_end, use, got, refused, wire>>

\* The bytes of data(), once commit(n) has moved the end of the input by n.
Data(buffer, n) == [k \in 1 .. (input_end + n) - input_start |-> buffer[input_start + k - 1]]

\* commit(index) and data(), with which every message is sent: the cursor for output moves too,
\* by as much again, and is not used any more.
send(buffer, index) ==
  /\ input_end' = input_end + index
  /\ output_start' = output_start + index
  /\ wire' = Data(buffer, index)
  /\ use' = "sent"
  /\ UNCHANGED <<input_start, got, refused>>

\* The end of rtu::stream::write_request.
send_rtu ==
  /\ use = "put" /\ msg # <<>>
  /\ send(message_buffer, output_start)
  /\ UNCHANGED <<message_buffer, msg>>

\* Faulty variant: the length is put behind the place that was left for it.
send_tcp_shifted ==
  LET length  == WordBytes(<<u16(output_start - 6)>>)
      patched == [message_buffer EXCEPT ![5] = length[1], ![6] = length[2]]
  IN  /\ use = "put" /\ Len(msg) >= 7
      /\ send(patched, output_start)
      /\ message_buffer' = patched
      /\ msg' = [msg EXCEPT ![5] = length[1], ![6] = length[2]]

\* The end of tcp::stream::write_request and write_response: the length goes to its place.
send_tcp ==
  LET length  == WordBytes(<<u16(output_start - 6)>>)
      patched == [message_buffer EXCEPT ![4] = length[1], ![5] = length[2]]
  IN  /\ use = "put" /\ Len(msg) >= 7
      /\ send(patched, output_start)
      /\ message_buffer' = patched
      /\ msg' = [msg EXCEPT ![5] = length[1], ![6] = length[2]]

\* Faulty variant: the checksum is left out of what is committed.
receive_less_crc(s) ==
  /\ use = "get" /\ Len(msg) + Len(s) <= MaxMessage
  /\ message_buffer' = [k \in Places |->
                          IF k \in output_start .. output_start + Len(s) - 1
                          THEN s[k - output_start + 1] ELSE message_buffer[k]]
  /\ input_end' = input_end + Len(s) - 2
  /\ output_start' = output_start + Len(s) - 2
  /\ msg' = msg \o s
  /\ refused' = FALSE
  /\ UNCHANGED <<input_start, use, got, wire>>

\* prepare(n), a read of n bytes into it, and commit(n)
receive(s) ==
  /\ use = "get" /\ Len(msg) + Len(s) <= MaxMessage
  /\ message_buffer' = [k \in Places |->
                          IF k \in output_start .. output_start + Len(s) - 1
                          THEN s[k - output_start + 1] ELSE message_buffer[k]]
  /\ input_end' = input_end + Len(s)
  /\ output_start' = output_start + Len(s)
  /\ msg' = msg \o s
  /\ refused' = FALSE
  /\ UNCHANGED <<input_start, use, got, wire>>

\* Faulty variant: one byte more than was received.
get_past_end ==
  /\ use = "get" /\ input_start < Capacity
  /\ IF input_start >= input_end + 1
     THEN refused' = TRUE /\ UNCHANGED <<input_start, got>>
     ELSE /\ got' = Append(got, message_buffer[input_start])
          /\ input_start' = input_start + 1
          /\ refused' = FALSE
  /\ UNCHANGED <<message_buffer, input_end, output_start, use, msg, wire>>

\* Faulty variant: the last byte is never given out.
get_all_but_last ==
  /\ use = "get"
  /\ IF input_start + 1 >= input_end
     THEN refused' = TRUE /\ UNCHANGED <<input_start, got>>
     ELSE /\ got' = Append(got, message_buffer[input_start])
          /\ input_start' = input_start + 1
          /\ refused' = FALSE
  /\ UNCHANGED <<message_buffer, input_end, output_start, use, msg, wire>>

get ==
  /\ use = "get"
  /\ IF input_start >= input_end
     THEN refused' = TRUE /\ UNCHANGED <<input_start, got>>
     ELSE /\ got' = Append(got, message_buffer[input_start])
          /\ input_start' = input_start + 1
          /\ refused' = FALSE
  /\ UNCHANGED <<message_buffer, input_end, output_start, use, msg, wire>>

Next ==
  \/ \E u \in {"put", "get"} : new_buffer(u)
  \/ \E v \in Values : put(v)
  \/ send_rtu \/ send_tcp \/ get
  \/ \E n \in 1 .. MaxMessage : \E s \in [1 .. n -> Values] : receive(s)

Spec == Init /\ [][Next]_vars

--------------------------------------------------------------------------------
(* Properties.                                                                  *)

\* Every variable keeps its type.
TypeOK ==
  /\ message_buffer \in [Places -> Byte]
  /\ input_start \in Nat /\ input_end \in Nat /\ output_start \in Nat
  /\ use \in {"put", "sent", "get"}
  /\ msg \in Seq(Byte) /\ got \in Seq(Byte) /\ wire \in Seq(Byte)
  /\ refused \in BOOLEAN

\* While a message is written or received, no cursor leaves the array: put(), prepare() and
\* commit() do not look, so it takes the sizes of the messages.
InBounds == use # "sent" => output_start <= Capacity /\ input_end <= output_start

\* What is sent is the message that was put, its length in place: nothing that an earlier message
\* left in the array, and nothing of the buffer object's own making.
SentAsPut == use = "sent" => wire = msg

\* get() gives out what was received for this message, from its first byte and in order.
GotAsReceived == Len(got) <= Len(msg) /\ got = SubSeq(msg, 1, Len(got))

\* get() refuses only when everything received has been given out.
RefusedAtEnd == refused => got = msg
================================================================================
