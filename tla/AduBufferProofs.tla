---------------------------- MODULE AduBufferProofs ----------------------------
(* The properties of AduBuffer, for every capacity and every length of message. *)
EXTENDS AduBuffer, TLAPS

\* The cursors count what was put, received and given out.
Cursors ==
  /\ Len(msg) <= MaxMessage
  /\ use = "put" => input_start = 0 /\ input_end = 0 /\ output_start = Len(msg)
  /\ use = "get" => input_start = Len(got) /\ input_end = Len(msg) /\ output_start = Len(msg)

\* The array holds the message from its first place on, until it is sent.
Holds == use # "sent" => \A k \in 1 .. Len(msg) : message_buffer[k - 1] = msg[k]

\* What was given out is the beginning of the message, all of it after a refusal.
Given ==
  /\ use # "get" => got = <<>> /\ ~ refused
  /\ Len(got) <= Len(msg) /\ \A k \in 1 .. Len(got) : got[k] = msg[k]
  /\ refused => Len(got) = Len(msg)

Inv == TypeOK /\ Cursors /\ Holds /\ Given /\ SentAsPut

\* Two sequences with the same elements are the same.
LEMMA SameBytes ==
  ASSUME NEW a \in Seq(Byte), NEW b \in Seq(Byte), Len(a) = Len(b),
         \A k \in 1 .. Len(a) : a[k] = b[k]
  PROVE  a = b
  BY SMTT(30)

\* The places of a concatenation.
LEMMA ConcatBytes ==
  ASSUME NEW a \in Seq(Byte), NEW b \in Seq(Byte)
  PROVE  /\ a \o b \in Seq(Byte) /\ Len(a) \in Nat /\ Len(a \o b) = Len(a) + Len(b)
         /\ \A k \in 1 .. Len(a) : (a \o b)[k] = a[k]
         /\ \A k \in Len(a) + 1 .. Len(a) + Len(b) : (a \o b)[k] = b[k - Len(a)]
<1>1. a \o b \in Seq(Byte) /\ Len(a) \in Nat /\ Len(a \o b) = Len(a) + Len(b)
  OBVIOUS
<1>2. \A k \in 1 .. Len(a) : (a \o b)[k] = a[k]
  OBVIOUS
<1>3. \A k \in Len(a) + 1 .. Len(a) + Len(b) : (a \o b)[k] = b[k - Len(a)]
  OBVIOUS
<1> QED
  BY <1>1, <1>2, <1>3

\* The bytes of a length field.
LEMMA LengthBytes ==
  ASSUME NEW n \in Nat, n >= 6
  PROVE  /\ Len(WordBytes(<<u16(n - 6)>>)) = 2
         /\ WordBytes(<<u16(n - 6)>>)[1] \in Byte /\ WordBytes(<<u16(n - 6)>>)[2] \in Byte
<1> DEFINE w == u16(n - 6)
<1>1. w \in Nat /\ w < 65536
  BY DEF u16
<1> HIDE DEF w
<1>2. <<w>> \in Seq(Nat) /\ Len(<<w>>) = 1 /\ <<w>>[1] = w
  BY <1>1
<1>3. w \div 256 \in Byte /\ w % 256 \in Byte
  BY <1>1 DEF Byte
<1>4. WordBytes(<<w>>) = [i \in 1 .. 2 |-> IF i % 2 = 1 THEN w \div 256 ELSE w % 256]
  <2>1. \A i \in 1 .. 2 : /\ i % 2 = 1 => (i + 1) \div 2 = 1
                          /\ i % 2 # 1 => i \div 2 = 1
    OBVIOUS
  <2> QED
    BY <1>2, <2>1 DEF WordBytes
<1>5. WordBytes(<<w>>)[1] = w \div 256 /\ WordBytes(<<w>>)[2] = w % 256
  BY <1>4
<1>6. Len(WordBytes(<<w>>)) = 2
  BY <1>4
<1> QED
  BY <1>3, <1>5, <1>6 DEF w

\* The first buffer object is empty.
LEMMA InitInv == Init => Inv
<1> SUFFICES ASSUME Init PROVE Inv
  OBVIOUS
<1>1. <<>> \in Seq(Byte) /\ Len(<<>>) = 0 /\ 0 \in Byte
  BY DEF Byte
<1>2. refused \in BOOLEAN
  BY Zenon DEF Init
<1>3. TypeOK
  BY <1>1, <1>2 DEF Init, TypeOK
<1>4. Cursors /\ Holds /\ SentAsPut
  BY <1>1, CapacityTyped DEF Init, Cursors, Holds, SentAsPut
<1>5. Given
  BY <1>1 DEF Init, Given
<1> QED
  BY <1>3, <1>4, <1>5 DEF Inv

\* A new object starts with an empty message.
LEMMA NewInv ==
  ASSUME Inv, NEW u \in {"put", "get"}, new_buffer(u)
  PROVE  Inv'
<1>1. <<>> \in Seq(Byte) /\ Len(<<>>) = 0
  OBVIOUS
<1>2. refused' \in BOOLEAN
  BY Zenon DEF new_buffer
<1>3. TypeOK'
  BY <1>1, <1>2 DEF Inv, TypeOK, new_buffer
<1>4. Cursors' /\ Holds' /\ SentAsPut' /\ Given'
  BY <1>1, CapacityTyped DEF new_buffer, Cursors, Holds, SentAsPut, Given
<1> QED
  BY <1>3, <1>4 DEF Inv

\* A byte that is put is the next one of the message.
LEMMA PutInv ==
  ASSUME Inv, NEW v \in Values, put(v)
  PROVE  Inv'
<1>0. /\ use = "put" /\ use' = "put" /\ Len(msg) < MaxMessage /\ v \in Byte
      /\ msg \in Seq(Byte) /\ msg' = Append(msg, v) /\ got' = got /\ refused' = refused
      /\ output_start = Len(msg) /\ output_start' = output_start + 1
      /\ input_start = 0 /\ input_start' = 0 /\ input_end = 0 /\ input_end' = 0
      /\ message_buffer' = [message_buffer EXCEPT ![Len(msg)] = v]
      /\ message_buffer \in [Places -> Byte]
  BY ValuesTyped DEF Inv, TypeOK, Cursors, put
<1>1. Len(msg) \in Nat /\ Len(msg') = Len(msg) + 1 /\ msg' \in Seq(Byte) /\ Len(msg) \in Places
  BY <1>0, CapacityTyped DEF Places
<1>2. TypeOK'
  BY <1>0, <1>1 DEF Inv, TypeOK, put
<1>3. Cursors'
  BY <1>0, <1>1, CapacityTyped DEF Cursors
<1>4. Holds'
  <2> SUFFICES ASSUME NEW k \in 1 .. Len(msg') PROVE message_buffer'[k - 1] = msg'[k]
    BY DEF Holds
  <2>1. CASE k = Len(msg')
    BY <1>0, <1>1, <2>1
  <2>2. CASE k # Len(msg')
    <3>1. k \in 1 .. Len(msg) /\ k - 1 # Len(msg) /\ k - 1 \in Places
      BY <1>0, <1>1, <2>2, CapacityTyped DEF Places
    <3>2. message_buffer[k - 1] = msg[k]
      BY <1>0, <3>1 DEF Inv, Holds
    <3>3. msg'[k] = msg[k]
      BY <1>0, <1>1, <3>1
    <3> QED
      BY <1>0, <3>1, <3>2, <3>3
  <2> QED
    BY <2>1, <2>2
<1>5. got = <<>> /\ ~ refused
  BY <1>0 DEF Inv, Given
<1>6. Given' /\ SentAsPut'
  BY <1>0, <1>1, <1>5 DEF Given, SentAsPut
<1> QED
  BY <1>2, <1>3, <1>4, <1>6 DEF Inv

\* Sending from an array that holds m makes m of the bytes on the wire.
LEMMA SendInv ==
  ASSUME Inv, use = "put", NEW m \in Seq(Byte), Len(m) = Len(msg), NEW b \in [Places -> Byte],
         \A k \in 1 .. Len(m) : b[k - 1] = m[k],
         send(b, output_start), message_buffer' = b, msg' = m
  PROVE  Inv'
<1>0. /\ Len(msg) \in Nat /\ Len(msg) <= MaxMessage /\ use' = "sent" /\ got' = <<>> /\ ~ refused'
      /\ input_start = 0 /\ input_end = 0 /\ output_start = Len(msg) /\ wire' = Data(b, Len(msg))
      /\ input_start' = 0 /\ input_end' = Len(msg) /\ output_start' = Len(msg) + Len(msg)
      /\ refused' = refused
  <2>1. /\ Len(msg) \in Nat /\ Len(msg) <= MaxMessage
        /\ input_start = 0 /\ input_end = 0 /\ output_start = Len(msg)
    BY DEF Inv, TypeOK, Cursors
  <2>2. got = <<>> /\ ~ refused
    BY DEF Inv, Given
  <2>3. /\ input_end' = input_end + output_start /\ output_start' = output_start + output_start
        /\ wire' = Data(b, output_start) /\ use' = "sent" /\ input_start' = input_start
        /\ got' = got /\ refused' = refused
    BY DEF send
  <2>4. ~ refused'
    BY <2>2, <2>3, Zenon
  <2>5. /\ use' = "sent" /\ got' = <<>> /\ refused' = refused /\ wire' = Data(b, Len(msg))
    BY <2>1, <2>2, <2>3, Zenon
  <2>6. input_start' = 0 /\ input_end' = Len(msg) /\ output_start' = Len(msg) + Len(msg)
    BY ONLY <2>1, <2>3
  <2> QED
    BY ONLY <2>1, <2>4, <2>5, <2>6, Zenon
<1>1. wire' = [k \in 1 .. Len(m) |-> b[k - 1]]
  BY <1>0 DEF Data
<1>2. wire' \in Seq(Byte) /\ Len(wire') = Len(m)
  <2>1. \A k \in 1 .. Len(m) : b[k - 1] \in Byte
    BY <1>0
  <2> QED
    BY <1>0, <1>1, <2>1
<1>3. wire' = m
  <2>1. \A k \in 1 .. Len(m) : wire'[k] = m[k]
    BY <1>1
  <2> QED
    BY <1>2, <2>1, SameBytes
<1>4. refused' \in BOOLEAN
  BY <1>0, Zenon DEF Inv, TypeOK
<1>5. TypeOK'
  BY <1>0, <1>2, <1>4 DEF TypeOK
<1>6. Cursors' /\ Holds' /\ SentAsPut'
  BY <1>0, <1>3 DEF Cursors, Holds, SentAsPut
<1>7. Given'
  BY <1>0 DEF Given
<1> QED
  BY <1>5, <1>6, <1>7 DEF Inv

\* Both streams send the message that was put.
LEMMA SendRtuInv == ASSUME Inv, send_rtu PROVE Inv'
<1>1. /\ use = "put" /\ msg \in Seq(Byte) /\ message_buffer \in [Places -> Byte]
      /\ \A k \in 1 .. Len(msg) : message_buffer[k - 1] = msg[k]
      /\ send(message_buffer, output_start) /\ message_buffer' = message_buffer /\ msg' = msg
  BY DEF Inv, TypeOK, Holds, send_rtu
<1> QED
  BY ONLY Inv, <1>1, SendInv

LEMMA SendTcpInv == ASSUME Inv, send_tcp PROVE Inv'
<1> DEFINE length == WordBytes(<<u16(output_start - 6)>>)
           b == [message_buffer EXCEPT ![4] = length[1], ![5] = length[2]]
           m == [msg EXCEPT ![5] = length[1], ![6] = length[2]]
<1>0. /\ use = "put" /\ Len(msg) >= 7 /\ send(b, output_start) /\ message_buffer' = b /\ msg' = m
  BY DEF send_tcp
<1>1. /\ msg \in Seq(Byte) /\ message_buffer \in [Places -> Byte] /\ output_start = Len(msg)
      /\ Len(msg) <= MaxMessage /\ Len(msg) \in Nat
      /\ \A k \in 1 .. Len(msg) : message_buffer[k - 1] = msg[k]
  BY <1>0 DEF Inv, TypeOK, Holds, Cursors
<1>2. length[1] \in Byte /\ length[2] \in Byte
  BY <1>0, <1>1, LengthBytes
<1> HIDE DEF length
<1>3. m \in Seq(Byte) /\ Len(m) = Len(msg)
  BY <1>0, <1>1, <1>2
<1>4. b \in [Places -> Byte]
  BY <1>1, <1>2
<1>5. \A k \in 1 .. Len(m) : b[k - 1] = m[k]
  <2> TAKE k \in 1 .. Len(m)
  <2>1. k \in 1 .. Len(msg) /\ k - 1 \in Places /\ 4 \in Places /\ 5 \in Places
    BY <1>0, <1>1, <1>3, CapacityTyped DEF Places
  <2>2. message_buffer[k - 1] = msg[k]
    BY <1>1, <2>1
  <2>3. CASE k = 5
    BY <1>1, <2>1, <2>3
  <2>4. CASE k = 6
    BY <1>1, <2>1, <2>4
  <2>5. CASE k # 5 /\ k # 6
    <3>1. k - 1 # 4 /\ k - 1 # 5
      BY <2>1, <2>5
    <3> QED
      BY <1>1, <2>1, <2>2, <2>5, <3>1
  <2> QED
    BY <2>3, <2>4, <2>5
<1> HIDE DEF b, m
<1> QED
  BY ONLY Inv, <1>0, <1>3, <1>4, <1>5, SendInv

\* What is received goes behind what was received before.
LEMMA ReceiveInv ==
  ASSUME Inv, NEW n \in 1 .. MaxMessage, NEW s \in [1 .. n -> Values], receive(s)
  PROVE  Inv'
<1>1. s \in Seq(Byte) /\ Len(s) = n /\ n \in Nat
  BY ValuesTyped, CapacityTyped
<1>0. /\ use = "get" /\ use' = "get" /\ Len(msg) + n <= MaxMessage
      /\ msg \in Seq(Byte) /\ msg' = msg \o s /\ got' = got /\ ~ refused'
      /\ output_start = Len(msg) /\ output_start' = Len(msg) + n
      /\ input_start = Len(got) /\ input_start' = input_start
      /\ input_end = Len(msg) /\ input_end' = Len(msg) + n
      /\ message_buffer \in [Places -> Byte]
      /\ message_buffer' = [k \in Places |-> IF k \in Len(msg) .. Len(msg) + n - 1
                                             THEN s[k - Len(msg) + 1] ELSE message_buffer[k]]
  BY <1>1 DEF Inv, TypeOK, Cursors, receive
<1>2. /\ Len(msg) \in Nat /\ Len(msg') = Len(msg) + n /\ msg' \in Seq(Byte)
      /\ \A k \in 1 .. Len(msg) : msg'[k] = msg[k]
      /\ \A k \in Len(msg) + 1 .. Len(msg) + n : msg'[k] = s[k - Len(msg)]
  BY ONLY <1>0, <1>1, ConcatBytes, ZenonT(60)
<1>3. message_buffer' \in [Places -> Byte]
  <2>1. \A k \in Places : k \in Len(msg) .. Len(msg) + n - 1 => s[k - Len(msg) + 1] \in Byte
    BY <1>1, <1>2 DEF Places
  <2> QED
    BY <1>0, <2>1
<1>4. refused' \in BOOLEAN
  BY Zenon DEF receive
<1>5. TypeOK'
  BY <1>0, <1>1, <1>2, <1>3, <1>4 DEF Inv, TypeOK, receive
<1>6. Cursors'
  BY <1>0, <1>2 DEF Cursors
<1>7. Holds'
  <2> SUFFICES ASSUME NEW k \in 1 .. Len(msg') PROVE message_buffer'[k - 1] = msg'[k]
    BY DEF Holds
  <2>1. k - 1 \in Places
    BY <1>0, <1>1, <1>2, CapacityTyped DEF Places
  <2>2. CASE k <= Len(msg)
    <3>1. k \in 1 .. Len(msg) /\ k - 1 \notin Len(msg) .. Len(msg) + n - 1
      BY <1>1, <1>2, <2>2
    <3>2. message_buffer[k - 1] = msg[k]
      BY <1>0, <3>1 DEF Inv, Holds
    <3> QED
      BY <1>0, <1>2, <2>1, <3>1, <3>2
  <2>3. CASE k > Len(msg)
    <3>1. /\ k \in Len(msg) + 1 .. Len(msg) + n /\ k - 1 \in Len(msg) .. Len(msg) + n - 1
          /\ (k - 1) - Len(msg) + 1 = k - Len(msg)
      BY <1>1, <1>2, <2>3
    <3> QED
      BY <1>0, <1>2, <2>1, <3>1
  <2> QED
    BY <1>2, <2>2, <2>3
<1>8. Given' /\ SentAsPut'
  <2>1. got \in Seq(Byte) /\ Len(got) <= Len(msg) /\ \A k \in 1 .. Len(got) : got[k] = msg[k]
    BY DEF Inv, TypeOK, Given
  <2>2. \A k \in 1 .. Len(got) : k \in 1 .. Len(msg)
    BY <1>2, <2>1
  <2> QED
    BY <1>0, <1>1, <1>2, <2>1, <2>2 DEF Given, SentAsPut
<1> QED
  BY <1>5, <1>6, <1>7, <1>8 DEF Inv

\* What get() gives out is the next byte of the message.
LEMMA GetInv == ASSUME Inv, get PROVE Inv'
<1>0. /\ use = "get" /\ use' = "get" /\ msg \in Seq(Byte) /\ msg' = msg /\ got \in Seq(Byte)
      /\ output_start' = output_start /\ input_end' = input_end /\ wire' = wire
      /\ message_buffer \in [Places -> Byte] /\ message_buffer' = message_buffer
      /\ output_start = Len(msg) /\ input_start = Len(got) /\ input_end = Len(msg)
      /\ Len(msg) <= MaxMessage /\ Len(msg) \in Nat /\ Len(got) \in Nat
      /\ Len(got) <= Len(msg) /\ \A k \in 1 .. Len(got) : got[k] = msg[k]
      /\ \A k \in 1 .. Len(msg) : message_buffer[k - 1] = msg[k]
  BY DEF Inv, TypeOK, Cursors, Holds, Given, get
<1>1. Holds' /\ SentAsPut'
  BY <1>0 DEF Holds, SentAsPut
<1>2. CASE input_start >= input_end
  <2>1. refused' /\ refused' \in BOOLEAN
    BY <1>2, Zenon DEF get
  <2>2. input_start' = input_start /\ got' = got
    BY <1>2 DEF get
  <2>3. TypeOK'
    BY <1>0, <2>1, <2>2 DEF Inv, TypeOK
  <2>4. Cursors' /\ Given'
    BY <1>0, <1>2, <2>2 DEF Cursors, Given
  <2> QED
    BY <1>1, <2>3, <2>4 DEF Inv
<1>3. CASE ~ (input_start >= input_end)
  <2>1. ~ refused' /\ refused' \in BOOLEAN
    BY <1>3, Zenon DEF get
  <2>2. input_start' = input_start + 1 /\ got' = Append(got, message_buffer[input_start])
    BY <1>3 DEF get
  <2>3. Len(got) + 1 \in 1 .. Len(msg) /\ Len(got) \in Places
    BY <1>0, <1>3, CapacityTyped DEF Places
  <2>4. message_buffer[input_start] = msg[Len(got) + 1] /\ message_buffer[input_start] \in Byte
    BY <1>0, <2>3
  <2>5. /\ got' \in Seq(Byte) /\ Len(got') = Len(got) + 1
        /\ \A k \in 1 .. Len(got') : got'[k] = msg[k]
    BY <1>0, <2>2, <2>4
  <2>6. TypeOK'
    BY <1>0, <2>1, <2>2, <2>5 DEF Inv, TypeOK
  <2>7. Cursors' /\ Given'
    BY <1>0, <2>1, <2>2, <2>3, <2>5 DEF Cursors, Given
  <2> QED
    BY <1>1, <2>6, <2>7 DEF Inv
<1> QED
  BY <1>2, <1>3

\* Each operation keeps the invariant.
LEMMA NextInv == Inv /\ [Next]_vars => Inv'
<1> SUFFICES ASSUME Inv, [Next]_vars PROVE Inv'
  OBVIOUS
<1>1. CASE \E u \in {"put", "get"} : new_buffer(u)
  BY <1>1, NewInv
<1>2. CASE \E v \in Values : put(v)
  BY <1>2, PutInv
<1>3. CASE send_rtu
  BY <1>3, SendRtuInv
<1>4. CASE send_tcp
  BY <1>4, SendTcpInv
<1>5. CASE get
  BY <1>5, GetInv
<1>6. CASE \E n \in 1 .. MaxMessage : \E s \in [1 .. n -> Values] : receive(s)
  BY <1>6, ReceiveInv
<1>7. CASE UNCHANGED vars
  BY <1>7 DEF vars, Inv, TypeOK, Cursors, Holds, Given, SentAsPut
<1> QED
  BY <1>1, <1>2, <1>3, <1>4, <1>5, <1>6, <1>7 DEF Next

--------------------------------------------------------------------------------
\* No operation of a stream on its message buffer leaves the array, for every size of message that
\* the array was made for.
THEOREM InBoundsTheorem == Spec => []InBounds
<1>1. Inv => InBounds
  BY CapacityTyped DEF Inv, TypeOK, Cursors, InBounds
<1> QED
  BY InitInv, NextInv, <1>1, PTL DEF Spec

\* What a stream sends is what was put for this message, with the length patched in, whatever the
\* array held before.
THEOREM SentAsPutTheorem == Spec => []SentAsPut
<1>1. Inv => SentAsPut
  BY DEF Inv
<1> QED
  BY InitInv, NextInv, <1>1, PTL DEF Spec

\* What the invariant says of a message that is read.
LEMMA InvGot == Inv => GotAsReceived /\ RefusedAtEnd
<1> SUFFICES ASSUME Inv PROVE GotAsReceived /\ RefusedAtEnd
  OBVIOUS
<1>1. /\ msg \in Seq(Byte) /\ got \in Seq(Byte) /\ Len(got) <= Len(msg) /\ Len(got) \in Nat
      /\ \A k \in 1 .. Len(got) : got[k] = msg[k]
      /\ refused => Len(got) = Len(msg)
  BY DEF Inv, TypeOK, Given
<1>2. got = SubSeq(msg, 1, Len(got))
  <2>1. /\ SubSeq(msg, 1, Len(got)) \in Seq(Byte) /\ Len(SubSeq(msg, 1, Len(got))) = Len(got)
        /\ \A k \in 1 .. Len(got) : SubSeq(msg, 1, Len(got))[k] = msg[k]
    BY <1>1
  <2> QED
    BY <1>1, <2>1, SameBytes
<1>3. refused => got = msg
  BY <1>1, SameBytes
<1> QED
  BY <1>1, <1>2, <1>3 DEF GotAsReceived, RefusedAtEnd

\* What get() gives out is what was received for this message, in order: a reader never sees a byte
\* that an earlier message left in the array.
THEOREM GotAsReceivedTheorem == Spec => []GotAsReceived
  BY InitInv, NextInv, InvGot, PTL DEF Spec

\* get() refuses a byte only when every byte of the message has been given out.
THEOREM RefusedAtEndTheorem == Spec => []RefusedAtEnd
  BY InitInv, NextInv, InvGot, PTL DEF Spec

\* Every place of the array holds a byte and every cursor is a natural number after any sequence of
\* the operations of buffer, for every capacity.
THEOREM TypeOKTheorem == Spec => []TypeOK
<1>1. Inv => TypeOK
  BY DEF Inv
<1> QED
  BY InitInv, NextInv, <1>1, PTL DEF Spec
================================================================================
