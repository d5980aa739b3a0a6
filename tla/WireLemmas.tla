------------------------------- MODULE WireLemmas -------------------------------
(* Facts about the codec, for every call, every table and every part of a PDU   *)
(* that arrives: what is written is bytes; a request that was written is read   *)
(* back, and the device does what the call means; a reply that was written is   *)
(* read back as what the device did.  Behind them, where the frames of a client *)
(* lie in the stream that a server reads, the updates of the second thread of a *)
(* server, and the turns of the loop of CRC16.                                  *)
EXTENDS SlaveMemory, Mbap, Crc, TLAPS, WellFoundedInduction

\* A word is made of two bytes, and two bytes make a word.
LEMMA WordParts ==
  ASSUME NEW x \in U16
  PROVE  x \div 256 \in Byte /\ x % 256 \in Byte /\ make_uint16(x \div 256, x % 256) = x
  BY DEF U16, Byte, make_uint16

\* Two bytes make a uint16_t.
LEMMA MakeWord ==
  ASSUME NEW x \in Byte, NEW y \in Byte
  PROVE  make_uint16(x, y) \in U16
<1>1. x \in Int /\ y \in Int /\ 0 <= x /\ x <= 255 /\ 0 <= y /\ y <= 255
  BY DEF Byte
<1>2. x * 256 + y \in Int /\ 0 <= x * 256 + y /\ x * 256 + y <= 65535
  BY ONLY <1>1
<1>3. x * 256 + y \in U16
  BY ONLY <1>2 DEF U16
<1> QED
  BY ONLY <1>3 DEF make_uint16

\* A cast keeps what fits.
LEMMA Casts ==
  ASSUME NEW n \in Nat
  PROVE  /\ u8(n) \in Byte /\ u16(n) \in U16
         /\ n < 256 => u8(n) = n
         /\ n < 65536 => u16(n) = n
  BY DEF u8, u16, Byte, U16

\* The bytes that q coils are packed into, and when their number fits the count byte.
LEMMA Groups ==
  ASSUME NEW q \in Nat, q >= 1
  PROVE  (q - 1) \div 8 + 1 \in Nat /\ (q < 2041 => (q - 1) \div 8 + 1 < 256)
  OBVIOUS

\* The bytes of q registers fit the count byte, and are whole pairs.
LEMMA Doubles ==
  ASSUME NEW q \in Nat, q < 128
  PROVE  q * 2 \in Nat /\ q * 2 < 256 /\ (q * 2) % 2 = 0
  OBVIOUS

\* Words become twice as many bytes, and those bytes become the words again.
LEMMA WordBytesType ==
  ASSUME NEW w \in Seq(U16)
  PROVE  /\ WordBytes(w) \in Seq(Byte) /\ Len(WordBytes(w)) = 2 * Len(w)
         /\ \A i \in 1 .. Len(w) : /\ WordBytes(w)[2 * i - 1] = w[i] \div 256
                                   /\ WordBytes(w)[2 * i] = w[i] % 256
<1>1. \A i \in 1 .. Len(w) : w[i] \div 256 \in Byte /\ w[i] % 256 \in Byte
  BY WordParts
<1> DEFINE B == [i \in 1 .. 2 * Len(w) |->
                   IF i % 2 = 1 THEN w[(i + 1) \div 2] \div 256 ELSE w[i \div 2] % 256]
<1>2. ASSUME NEW i \in 1 .. 2 * Len(w)
      PROVE  B[i] \in Byte
  <2>1. CASE i % 2 = 1
    <3>1. (i + 1) \div 2 \in 1 .. Len(w)
      BY <2>1
    <3>2. B[i] = w[(i + 1) \div 2] \div 256
      BY <2>1
    <3> QED
      BY ONLY <1>1, <3>1, <3>2
  <2>2. CASE i % 2 # 1
    <3>1. i \div 2 \in 1 .. Len(w)
      BY <2>2
    <3>2. B[i] = w[i \div 2] % 256
      BY <2>2
    <3> QED
      BY ONLY <1>1, <3>1, <3>2
  <2> QED
    BY <2>1, <2>2
<1>3. B \in Seq(Byte) /\ Len(B) = 2 * Len(w)
  BY <1>2
<1>4. ASSUME NEW i \in 1 .. Len(w)
      PROVE  B[2 * i - 1] = w[i] \div 256 /\ B[2 * i] = w[i] % 256
  OBVIOUS
<1> QED
  BY <1>3, <1>4 DEF WordBytes

\* What is read pair by pair is a sequence of uint16_t.
LEMMA BytesWordsType ==
  ASSUME NEW b \in Seq(Byte)
  PROVE  BytesWords(b) \in Seq(U16) /\ Len(BytesWords(b)) = Len(b) \div 2
<1>2. ASSUME NEW i \in 1 .. Len(b) \div 2
      PROVE  make_uint16(b[2 * i - 1], b[2 * i]) \in U16
  <2>1. b[2 * i - 1] \in Byte /\ b[2 * i] \in Byte
    <3>1. 2 * i - 1 \in 1 .. Len(b) /\ 2 * i \in 1 .. Len(b)
      OBVIOUS
    <3> QED
      BY <3>1
  <2> QED
    BY ONLY <2>1, MakeWord
<1> QED
  BY <1>2 DEF BytesWords

\* The words that writer::write wrote are the words that read gives back.
LEMMA WordsReadBack ==
  ASSUME NEW w \in Seq(U16)
  PROVE  BytesWords(WordBytes(w)) = w
<1>2. ASSUME NEW i \in 1 .. Len(w)
      PROVE  make_uint16(WordBytes(w)[2 * i - 1], WordBytes(w)[2 * i]) = w[i]
  <2>1. w[i] \in U16
    OBVIOUS
  <2>2. WordBytes(w)[2 * i - 1] = w[i] \div 256 /\ WordBytes(w)[2 * i] = w[i] % 256
    BY WordBytesType
  <2> QED
    BY ONLY <2>1, <2>2, WordParts
<1>3. Len(WordBytes(w)) \div 2 = Len(w)
  BY WordBytesType
<1> QED
  BY <1>2, <1>3 DEF BytesWords

--------------------------------------------------------------------------------
\* Where the elements of two written parts end up in the buffer.
LEMMA ConcatAt ==
  ASSUME NEW s \in Seq(Byte), NEW t \in Seq(Byte)
  PROVE  /\ s \o t \in Seq(Byte) /\ Len(s \o t) = Len(s) + Len(t)
         /\ \A i \in 1 .. Len(s) : (s \o t)[i] = s[i]
         /\ \A i \in 1 .. Len(t) : (s \o t)[i + Len(s)] = t[i]
  OBVIOUS

\* An element of a sequence.
LEMMA ElementOf ==
  ASSUME NEW S, NEW s \in Seq(S), NEW i \in 1 .. Len(s)
  PROVE  s[i] \in S
  OBVIOUS

\* A sequence whose last elements are those of v ends in v.
LEMMA EndOf ==
  ASSUME NEW s \in Seq(Byte), NEW v \in Seq(Byte), NEW k \in Nat, Len(s) = k + Len(v),
         \A i \in 1 .. Len(v) : s[i + k] = v[i]
  PROVE  SubSeq(s, k + 1, Len(s)) = v
  OBVIOUS

\* Parts of a byte stream are byte streams.
LEMMA PartsOfBytes ==
  ASSUME NEW s \in Seq(Byte), NEW k \in Nat, k <= Len(s)
  PROVE  /\ Drop(s, k) \in Seq(Byte) /\ Len(Drop(s, k)) = Len(s) - k
         /\ Take(s, k) \in Seq(Byte) /\ Len(Take(s, k)) = k
<1>1. Len(s) \in Nat
  OBVIOUS
<1>2. \A i \in 1 .. Len(s) : s[i] \in Byte
  OBVIOUS
<1>3. /\ SubSeq(s, k + 1, Len(s)) \in Seq(Byte)
      /\ Len(SubSeq(s, k + 1, Len(s))) = Len(s) - k
  BY <1>1, <1>2
<1>4. SubSeq(s, 1, k) \in Seq(Byte) /\ Len(SubSeq(s, 1, k)) = k
  BY <1>1, <1>2
<1> QED
  BY <1>3, <1>4 DEF Drop, Take

\* A frame carries its header and its PDU, and nothing else.
LEMMA FrameParts ==
  ASSUME NEW tid \in U16, NEW unit \in Byte, NEW pdu \in Seq(Byte), Len(pdu) < 65535
  PROVE  /\ Frame(tid, unit, pdu) \in Seq(Byte)
         /\ Len(Frame(tid, unit, pdu)) = header_size + Len(pdu)
         /\ Header(Frame(tid, unit, pdu)) = [transaction_id |-> tid, protocol |-> m_protocol,
                                             length |-> Len(pdu) + 1, unit_id |-> unit]
         /\ Drop(Frame(tid, unit, pdu), header_size) = pdu
<1> DEFINE w == <<tid, m_protocol, u16(Len(pdu) + 1)>>
           h == WordBytes(w)
           f == h \o <<unit>> \o pdu
<1>1. u16(Len(pdu) + 1) = Len(pdu) + 1 /\ u16(Len(pdu) + 1) \in U16 /\ m_protocol \in U16
  BY DEF u16, U16, m_protocol
<1>2. w \in Seq(U16) /\ Len(w) = 3 /\ w[1] = tid /\ w[2] = m_protocol /\ w[3] = Len(pdu) + 1
  BY <1>1
<1>3. /\ h \in Seq(Byte) /\ Len(h) = 6
      /\ h[1] = w[1] \div 256 /\ h[2] = w[1] % 256
      /\ h[3] = w[2] \div 256 /\ h[4] = w[2] % 256
      /\ h[5] = w[3] \div 256 /\ h[6] = w[3] % 256
  <2> HIDE DEF w, h
  <2>1. /\ WordBytes(w) \in Seq(Byte) /\ Len(WordBytes(w)) = 2 * Len(w)
        /\ \A i \in 1 .. Len(w) : /\ WordBytes(w)[2 * i - 1] = w[i] \div 256
                                  /\ WordBytes(w)[2 * i] = w[i] % 256
    BY ONLY <1>2, WordBytesType
  <2>2. 1 \in 1 .. Len(w) /\ 2 \in 1 .. Len(w) /\ 3 \in 1 .. Len(w)
    BY ONLY <1>2
  <2>3. WordBytes(w)[2 * 1 - 1] = w[1] \div 256 /\ WordBytes(w)[2 * 1] = w[1] % 256
    BY ONLY <2>1, <2>2
  <2>4. WordBytes(w)[2 * 2 - 1] = w[2] \div 256 /\ WordBytes(w)[2 * 2] = w[2] % 256
    BY ONLY <2>1, <2>2
  <2>5. WordBytes(w)[2 * 3 - 1] = w[3] \div 256 /\ WordBytes(w)[2 * 3] = w[3] % 256
    BY ONLY <2>1, <2>2
  <2> QED
    BY ONLY <1>2, <2>1, <2>3, <2>4, <2>5 DEF h
<1>4. Frame(tid, unit, pdu) = f
  BY DEF Frame
<1> HIDE DEF h, w
<1>5. /\ f \in Seq(Byte) /\ Len(f) = 7 + Len(pdu)
      /\ f[1] = h[1] /\ f[2] = h[2] /\ f[3] = h[3] /\ f[4] = h[4] /\ f[5] = h[5] /\ f[6] = h[6]
      /\ f[7] = unit
      /\ \A i \in 1 .. Len(pdu) : f[i + 7] = pdu[i]
  <2> DEFINE u == <<unit>>
             g == h \o u
             e == g \o pdu
  <2>1. u \in Seq(Byte) /\ Len(u) = 1 /\ u[1] = unit
    OBVIOUS
  <2> HIDE DEF u
  <2>0. h \in Seq(Byte) /\ u \in Seq(Byte)
    BY ONLY <1>3, <2>1
  <2>2. /\ g \in Seq(Byte) /\ Len(g) = Len(h) + Len(u)
        /\ \A i \in 1 .. Len(h) : g[i] = h[i]
        /\ \A i \in 1 .. Len(u) : g[i + Len(h)] = u[i]
    BY ONLY <2>0, ConcatAt, Zenon
  <2> HIDE DEF g
  <2>3. Len(g) = 7 /\ (\A i \in 1 .. 6 : g[i] = h[i]) /\ g[7] = unit
    <3>1. 1 \in 1 .. Len(u) /\ 1 + Len(h) = 7
      BY ONLY <1>3, <2>1
    <3> QED
      BY ONLY <1>3, <2>1, <2>2, <3>1
  <2>4. /\ e \in Seq(Byte) /\ Len(e) = Len(g) + Len(pdu)
        /\ \A i \in 1 .. Len(g) : e[i] = g[i]
        /\ \A i \in 1 .. Len(pdu) : e[i + Len(g)] = pdu[i]
    BY ONLY <2>2, pdu \in Seq(Byte), ConcatAt, Zenon
  <2> HIDE DEF e
  <2>5. e = f
    BY DEF e, g, u
  <2> HIDE DEF f
  <2> QED
    BY ONLY <2>3, <2>4, <2>5
<1>6. /\ make_uint16(f[1], f[2]) = tid /\ make_uint16(f[3], f[4]) = m_protocol
      /\ make_uint16(f[5], f[6]) = Len(pdu) + 1
  BY ONLY <1>1, <1>2, <1>3, <1>5, tid \in U16, WordParts, SMTT(40)
<1>7. SubSeq(f, 8, Len(f)) = pdu
  <2> HIDE DEF f
  <2> QED
    BY <1>5
<1> HIDE DEF f
<1> QED
  BY <1>4, <1>5, <1>6, <1>7 DEF Header, Drop, header_size

\* No two classes of requests have the same function code.
LEMMA ReqClassOf ==
  ASSUME NEW l \in pdu_req
  PROVE  ReqClass(l.fc) = l
<1> USE DEF pdu_req, function_code, read_coils_pdu_req, read_discrete_inputs_pdu_req,
      read_holding_pdu_req, read_input_pdu_req, write_single_coil_pdu_req,
      write_single_register_pdu_req, write_multiple_coils_pdu_req,
      write_multiple_registers_pdu_req, read_write_multiple_registers_pdu_req
<1>1. \A k \in pdu_req : k.fc = l.fc => k = l
  OBVIOUS
<1> HIDE DEF pdu_req
<1> QED
  BY <1>1 DEF ReqClass

\* The numbers that describe a request class.
LEMMA ReqClassFacts ==
  ASSUME NEW l \in pdu_req
  PROVE  l.fc \in Byte /\ l.fc < 128 /\ l.words \in {2, 4} /\ l.unit \in {0, 1, 2}
  BY DEF Byte, pdu_req, function_code, read_coils_pdu_req, read_discrete_inputs_pdu_req,
      read_holding_pdu_req, read_input_pdu_req, write_single_coil_pdu_req,
      write_single_register_pdu_req, write_multiple_coils_pdu_req,
      write_multiple_registers_pdu_req, read_write_multiple_registers_pdu_req

\* The fields fit the class: as many words, and as many bytes as the count byte says.
WellFormed(l, words, byte_count, values) ==
  /\ words \in Seq(U16) /\ Len(words) = l.words
  /\ byte_count \in Byte /\ values \in Seq(Byte)
  /\ l.unit = 0 => byte_count = 0 /\ values = <<>>
  /\ l.unit # 0 => Len(values) = byte_count /\ byte_count % l.unit = 0

\* The bytes of a request: its code, its words, its count and its list.
LEMMA WriteReqParts ==
  ASSUME NEW l \in pdu_req, NEW words, NEW byte_count, NEW values,
         WellFormed(l, words, byte_count, values),
         NEW s, s = WriteReq(Request(l, words, byte_count, values))
  PROVE  /\ s \in Seq(Byte) /\ s[1] = l.fc
         /\ Len(s) = 1 + 2 * l.words + (IF l.unit = 0 THEN 0 ELSE 1 + byte_count)
         /\ \A i \in 1 .. 2 * l.words : s[i + 1] = WordBytes(words)[i]
         /\ l.unit # 0 => s[1 + 2 * l.words + 1] = byte_count
         /\ \A i \in 1 .. Len(values) : s[i + (1 + 2 * l.words + 1)] = values[i]
<1> DEFINE a == <<l.fc>>
           b == WordBytes(words)
           n == <<byte_count>>
           t == IF l.unit = 0 THEN <<>> ELSE n \o values
           ab == a \o b
           e == ab \o t
<1>0. s = e
  BY ReqClassOf DEF WriteReq, Request
<1>1. a \in Seq(Byte) /\ Len(a) = 1 /\ a[1] = l.fc
  BY ReqClassFacts
<1>2. b \in Seq(Byte) /\ Len(b) = 2 * l.words
  BY WordBytesType DEF WellFormed
<1>3. l.words \in Nat /\ byte_count \in Nat /\ values \in Seq(Byte)
  BY ReqClassFacts DEF WellFormed, Byte
<1>4. /\ t \in Seq(Byte) /\ Len(t) = IF l.unit = 0 THEN 0 ELSE 1 + byte_count
      /\ l.unit # 0 => t[1] = byte_count
      /\ \A i \in 1 .. Len(values) : t[i + 1] = values[i] /\ i + 1 \in 1 .. Len(t)
  <2>1. CASE l.unit = 0
    <3>1. t = <<>> /\ values = <<>>
      BY <2>1 DEF WellFormed
    <3> QED
      BY ONLY <2>1, <3>1
  <2>2. CASE l.unit # 0
    <3>1. n \in Seq(Byte) /\ Len(n) = 1 /\ n[1] = byte_count
      BY DEF WellFormed
    <3>2. t = n \o values /\ Len(values) = byte_count
      BY <2>2 DEF WellFormed
    <3> HIDE DEF n, t
    <3>3. /\ t \in Seq(Byte) /\ Len(t) = Len(n) + Len(values)
          /\ \A i \in 1 .. Len(n) : t[i] = n[i]
          /\ \A i \in 1 .. Len(values) : t[i + Len(n)] = values[i]
      BY ONLY <1>3, <3>1, <3>2, ConcatAt, Zenon
    <3> QED
      BY ONLY <1>3, <2>2, <3>1, <3>2, <3>3
  <2> QED
    BY ONLY <2>1, <2>2
<1> HIDE DEF a, b, t
<1>5. /\ ab \in Seq(Byte) /\ Len(ab) = Len(a) + Len(b)
      /\ \A i \in 1 .. Len(a) : ab[i] = a[i]
      /\ \A i \in 1 .. Len(b) : ab[i + Len(a)] = b[i]
  BY ONLY <1>1, <1>2, ConcatAt, Zenon
<1> HIDE DEF ab
<1>6. /\ e \in Seq(Byte) /\ Len(e) = Len(ab) + Len(t)
      /\ \A i \in 1 .. Len(ab) : e[i] = ab[i]
      /\ \A i \in 1 .. Len(t) : e[i + Len(ab)] = t[i]
  BY ONLY <1>4, <1>5, ConcatAt, Zenon
<1> HIDE DEF e
<1> DEFINE W == 2 * l.words
<1>7. W \in Nat /\ Len(ab) = 1 + W /\ Len(b) = W
  BY ONLY <1>1, <1>2, <1>3, <1>5
<1> HIDE DEF W
<1>8. e[1] = l.fc
  <2>1. 1 \in 1 .. Len(a) /\ 1 \in 1 .. Len(ab)
    BY ONLY <1>1, <1>7
  <2> QED
    BY ONLY <1>1, <1>5, <1>6, <2>1
<1>9. ASSUME NEW i \in 1 .. W PROVE e[i + 1] = b[i]
  <2>1. i \in 1 .. Len(b) /\ i + Len(a) = i + 1 /\ i + 1 \in 1 .. Len(ab)
    BY ONLY <1>1, <1>7, <1>9
  <2> QED
    BY ONLY <1>5, <1>6, <2>1
<1>10. l.unit # 0 => e[1 + W + 1] = byte_count
  <2>1. l.unit # 0 => 1 \in 1 .. Len(t)
    BY ONLY <1>3, <1>4
  <2>2. 1 + Len(ab) = 1 + W + 1
    BY ONLY <1>7
  <2> QED
    BY ONLY <1>4, <1>6, <2>1, <2>2
<1>11. ASSUME NEW i \in 1 .. Len(values) PROVE e[i + (1 + W + 1)] = values[i]
  <2>1. i \in Nat
    BY ONLY <1>3, <1>11
  <2>2. t[i + 1] = values[i] /\ i + 1 \in 1 .. Len(t)
    BY ONLY <1>4, <1>11
  <2>3. (i + 1) + Len(ab) = i + (1 + W + 1)
    BY ONLY <1>7, <2>1
  <2> QED
    BY ONLY <1>6, <2>2, <2>3
<1>12. Len(e) = 1 + W + (IF l.unit = 0 THEN 0 ELSE 1 + byte_count)
  BY ONLY <1>4, <1>6, <1>7
<1> QED
  BY ONLY <1>0, <1>6, <1>8, <1>9, <1>10, <1>11, <1>12 DEF b, W

\* What arrived of the bytes p: a part of them from their start, or all of them and more.
Arrived(s, p) == (\E S : s \in Seq(S)) /\ \A k \in 1 .. Len(p) : k <= Len(s) => s[k] = p[k]

\* A request of which all bytes arrived, whatever follows them, is read back as it was: the
\* server's variant gets the class of the code, and no byte is taken for another field.  A
\* request of which less arrived is an error, and the variant keeps its value.
THEOREM RequestArrives ==
  ASSUME NEW l \in pdu_req, NEW words, NEW byte_count, NEW values,
         WellFormed(l, words, byte_count, values),
         NEW p, p = WriteReq(Request(l, words, byte_count, values)), NEW s, Arrived(s, p)
  PROVE  /\ Len(s) >= Len(p) =>
              ReadReq(s) = [ec |-> modbus_exception_code.success, kept |-> FALSE,
                            req |-> Request(l, words, byte_count, values)]
         /\ Len(s) < Len(p) => ReadReq(s).ec # modbus_exception_code.success /\ ReadReq(s).kept
<1> DEFINE fixed == 1 + 2 * l.words
           size == fixed + (IF l.unit = 0 THEN 0 ELSE 1 + byte_count)
           Failed == [ec |-> modbus_exception_code.too_many_bytes_received,
                      kept |-> TRUE, req |-> not_implemented]
<1>1. /\ p \in Seq(Byte) /\ p[1] = l.fc
      /\ Len(p) = size
      /\ \A i \in 1 .. 2 * l.words : p[i + 1] = WordBytes(words)[i]
      /\ l.unit # 0 => p[fixed + 1] = byte_count
      /\ \A i \in 1 .. Len(values) : p[i + (fixed + 1)] = values[i]
  BY WriteReqParts
<1>2. /\ l.words \in Nat /\ byte_count \in Nat /\ l.unit \in {0, 1, 2} /\ l.words \in {2, 4}
      /\ words \in Seq(U16) /\ Len(words) = l.words
      /\ l.unit = 0 => byte_count = 0 /\ values = <<>>
      /\ l.unit # 0 => Len(values) = byte_count /\ byte_count % l.unit = 0
      /\ values \in Seq(Byte)
  BY ReqClassFacts DEF WellFormed, Byte
<1>s. PICK S : s \in Seq(S)
  BY DEF Arrived
<1>3. s \in Seq(S) /\ Len(s) \in Nat /\ \A k \in 1 .. Len(p) : k <= Len(s) => s[k] = p[k]
  BY <1>s DEF Arrived
<1>4. /\ fixed \in Nat /\ fixed >= 5 /\ fixed - 1 = 2 * l.words
      /\ size \in Nat /\ fixed <= size
      /\ l.unit = 0 => size = fixed
      /\ l.unit # 0 => size = fixed + 1 + byte_count
  <2>1. 2 * l.words \in {4, 8}
    BY ONLY <1>2
  <2> DEFINE w == 2 * l.words
  <2> HIDE DEF w
  <2>2. fixed = 1 + w /\ w \in {4, 8}
    BY ONLY <2>1 DEF w
  <2>3. fixed \in Nat /\ fixed >= 5 /\ fixed - 1 = w
    <3> HIDE DEF fixed
    <3> QED
      BY ONLY <2>2
  <2> HIDE DEF fixed
  <2>4. /\ size \in Nat /\ fixed <= size
        /\ l.unit = 0 => size = fixed
        /\ l.unit # 0 => size = fixed + 1 + byte_count
    BY ONLY <1>2, <2>3
  <2> QED
    BY ONLY <2>3, <2>4 DEF w
<1> DEFINE b == WordBytes(words)
<1>5. b \in Seq(Byte) /\ Len(b) = 2 * l.words
  BY ONLY <1>2, WordBytesType
<1>6. l.unit # 0 => l.unit * (byte_count \div l.unit) = byte_count
  <2>1. CASE l.unit = 1
    BY ONLY <1>2, <2>1
  <2>2. CASE l.unit = 2
    BY ONLY <1>2, <2>2
  <2> QED
    BY ONLY <1>2, <2>1, <2>2
<1>7. BytesWords(b) = words
  BY ONLY <1>2, WordsReadBack
<1> DEFINE u == l.unit
           x == Request(l, words, byte_count, values)
<1>8. ReqClass(l.fc) = l /\ l \in pdu_req
  BY ReqClassOf
<1>9. /\ l.unit = 0 => ReqSize(l, s) = fixed
      /\ l.unit # 0 => ReqSize(l, s) = fixed + 1 + (IF Len(s) > fixed THEN l.unit * (s[fixed + 1] \div l.unit) ELSE 0)
  BY ONLY Zenon DEF ReqSize
<1> HIDE DEF fixed, size, b
<1>10. Len(s) >= 1 => s[1] = l.fc
  BY ONLY <1>1, <1>3, <1>4
<1>11. l.unit # 0 /\ Len(s) > fixed => s[fixed + 1] = byte_count
  <2>1. l.unit # 0 /\ Len(s) > fixed => fixed + 1 \in 1 .. Len(p) /\ fixed + 1 <= Len(s)
    BY ONLY <1>1, <1>2, <1>3, <1>4
  <2> QED
    BY ONLY <1>1, <1>3, <2>1
<1>12. s # <<>> => ~ (\A k \in pdu_req : k.fc # s[1]) /\ ReqClass(s[1]) = l
  <2>1. s # <<>> => s[1] = l.fc
    BY ONLY <1>3, <1>10
  <2> QED
    BY ONLY <1>8, <2>1
<1>13. CASE Len(s) < Len(p)
  <2>1. ~ (Len(s) >= Len(p))
    BY ONLY <1>1, <1>3, <1>4, <1>13
  <2>2. s # <<>> => Len(s) < ReqSize(l, s)
    <3>1. CASE l.unit = 0
      BY ONLY <1>1, <1>4, <1>9, <1>13, <3>1
    <3>2. CASE l.unit # 0 /\ Len(s) > fixed
      BY ONLY <1>1, <1>4, <1>6, <1>9, <1>11, <1>13, <3>2
    <3>3. CASE l.unit # 0 /\ ~ (Len(s) > fixed)
      BY ONLY <1>3, <1>4, <1>9, <3>3
    <3> QED
      BY ONLY <3>1, <3>2, <3>3
  <2>3. s # <<>> => ReadReq(s) = Failed
    BY ONLY <1>12, <2>2, Zenon DEF ReadReq
  <2>4. s = <<>> => ReadReq(s) = Failed
    BY ONLY Zenon DEF ReadReq
  <2>5. Failed.ec # modbus_exception_code.success /\ Failed.kept
    BY ONLY DEF modbus_exception_code
  <2> QED
    BY ONLY <2>1, <2>3, <2>4, <2>5
<1>14. CASE ~ (Len(s) < Len(p))
  <2>1. s # <<>> /\ Len(s) >= size /\ ReqSize(l, s) = size /\ ~ (Len(s) < ReqSize(l, s))
    <3>1. s # <<>> /\ Len(s) >= size /\ Len(s) >= fixed
      BY ONLY <1>1, <1>3, <1>4, <1>14
    <3>2. l.unit = 0 => ReqSize(l, s) = size
      BY ONLY <1>4, <1>9
    <3>3. l.unit # 0 => Len(s) > fixed
      BY ONLY <1>2, <1>3, <1>4, <3>1
    <3>4. l.unit # 0 => ReqSize(l, s) = size
      BY ONLY <1>4, <1>6, <1>9, <1>11, <3>3
    <3> QED
      BY ONLY <1>3, <1>4, <3>1, <3>2, <3>4
  <2>2. SubSeq(s, 2, fixed) = b
    <3>1. \A i \in 1 .. 2 * l.words : p[i + 1] = b[i]
      BY ONLY <1>1 DEF b
    <3>2. \A i \in 1 .. fixed - 1 : s[i + 1] = b[i]
      BY ONLY <1>1, <1>3, <1>4, <2>1, <3>1
    <3> QED
      BY ONLY <1>3, <1>4, <1>5, <2>1, <3>2
  <2>3. SubSeq(s, fixed + 2, size) = values
    <3>1. CASE l.unit = 0
      BY ONLY <1>2, <1>3, <1>4, <3>1
    <3>2. CASE l.unit # 0
      <4>1. size = fixed + 1 + Len(values) /\ Len(values) \in Nat
        BY ONLY <1>2, <1>4, <3>2
      <4>2. \A i \in 1 .. Len(values) : s[i + (fixed + 1)] = values[i]
        <5> SUFFICES ASSUME NEW i \in 1 .. Len(values) PROVE s[i + (fixed + 1)] = values[i]
          OBVIOUS
        <5>1. i + (fixed + 1) \in 1 .. Len(p) /\ i + (fixed + 1) <= Len(s)
          BY ONLY <1>1, <1>3, <1>4, <2>1, <4>1, i \in 1 .. Len(values)
        <5>2. p[i + (fixed + 1)] = values[i]
          BY ONLY <1>1, i \in 1 .. Len(values)
        <5> QED
          BY ONLY <1>3, <5>1, <5>2
      <4> QED
        BY ONLY <1>2, <1>3, <1>4, <2>1, <4>1, <4>2
    <3> QED
      BY ONLY <3>1, <3>2
  <2>4. (IF l.unit = 0 THEN 0 ELSE s[fixed + 1]) = byte_count
    <3>1. l.unit # 0 => Len(s) > fixed
      BY ONLY <1>2, <1>3, <1>4, <2>1
    <3> QED
      BY ONLY <1>2, <1>11, <3>1
  <2>5. BytesWords(SubSeq(s, 2, 1 + 2 * l.words)) = words
    BY ONLY <1>7, <2>2 DEF fixed
  <2>6. SubSeq(s, 1 + 2 * l.words + 2, ReqSize(l, s)) = values
    BY ONLY <2>1, <2>3 DEF fixed
  <2>7. (IF l.unit = 0 THEN 0 ELSE s[1 + 2 * l.words + 1]) = byte_count
    BY ONLY <2>4 DEF fixed
  <2>8. ReadReq(s) = [ec |-> modbus_exception_code.success, kept |-> FALSE,
                      req |-> Request(l, words, byte_count, values)]
    BY ONLY <1>12, <2>1, <2>5, <2>6, <2>7, Zenon DEF ReadReq
  <2> QED
    BY ONLY <1>14, <2>8
<1> QED
  BY ONLY <1>13, <1>14

\* A request that was written is read back as it was.
LEMMA RequestIsReadBack ==
  ASSUME NEW l \in pdu_req, NEW words, NEW byte_count, NEW values,
         WellFormed(l, words, byte_count, values)
  PROVE  ReadReq(WriteReq(Request(l, words, byte_count, values))) =
           [ec |-> modbus_exception_code.success, kept |-> FALSE,
            req |-> Request(l, words, byte_count, values)]
<1> DEFINE p == WriteReq(Request(l, words, byte_count, values))
<1>1. p \in Seq(Byte)
  BY WriteReqParts
<1>2. Arrived(p, p) /\ Len(p) >= Len(p)
  <2> HIDE DEF p
  <2> QED
    BY ONLY <1>1 DEF Arrived
<1> QED
  BY <1>2, RequestArrives

--------------------------------------------------------------------------------
\* Packed coils are bytes, one for every eight coils begun.
LEMMA PackCoilsType ==
  ASSUME NEW v \in Seq(U16), Len(v) >= 1
  PROVE  PackCoils(v) \in Seq(Byte) /\ Len(PackCoils(v)) = (Len(v) - 1) \div 8 + 1
<1> DEFINE Coil(k) == IF k <= Len(v) THEN v[k] ELSE 0
           Group(k) == u8(Coil(k + 1) + 2 * Coil(k + 2) + 4 * Coil(k + 3) + 8 * Coil(k + 4)
                + 16 * Coil(k + 5) + 32 * Coil(k + 6) + 64 * Coil(k + 7) + 128 * Coil(k + 8))
           len == (Len(v) - 1) \div 8 + 1
<1>1. ASSUME NEW k \in Nat PROVE Coil(k + 1) \in Nat
  BY DEF U16
<1>2. ASSUME NEW i \in 1 .. len PROVE Group(8 * (i - 1)) \in Byte
  <2> DEFINE k == 8 * (i - 1)
  <2>0. k \in Nat
    OBVIOUS
  <2> HIDE DEF k
  <2>1. /\ k + 1 \in Nat /\ k + 2 \in Nat /\ k + 3 \in Nat /\ k + 4 \in Nat
        /\ k + 5 \in Nat /\ k + 6 \in Nat /\ k + 7 \in Nat
        /\ k + 2 = (k + 1) + 1 /\ k + 3 = (k + 2) + 1 /\ k + 4 = (k + 3) + 1
        /\ k + 5 = (k + 4) + 1 /\ k + 6 = (k + 5) + 1 /\ k + 7 = (k + 6) + 1
        /\ k + 8 = (k + 7) + 1
    BY ONLY <2>0
  <2> HIDE DEF Coil
  <2>2. /\ Coil(k + 1) \in Nat /\ Coil(k + 2) \in Nat /\ Coil(k + 3) \in Nat /\ Coil(k + 4) \in Nat
        /\ Coil(k + 5) \in Nat /\ Coil(k + 6) \in Nat /\ Coil(k + 7) \in Nat /\ Coil(k + 8) \in Nat
    BY ONLY <1>1, <2>0, <2>1
  <2>3. Group(k) \in Byte
    <3>1. ASSUME NEW a \in Nat, NEW b \in Nat, NEW n \in Nat PROVE a + n * b \in Nat
      OBVIOUS
    <3>2. Coil(k + 1) + 2 * Coil(k + 2) + 4 * Coil(k + 3) + 8 * Coil(k + 4)
            + 16 * Coil(k + 5) + 32 * Coil(k + 6) + 64 * Coil(k + 7) + 128 * Coil(k + 8) \in Nat
      BY ONLY <2>2, <3>1, ZenonT(60)
    <3> QED
      BY ONLY <3>2, Casts
  <2> QED
    BY ONLY <2>3 DEF k
<1>3. len \in Nat
  OBVIOUS
<1>4. PackCoils(v) = [i \in 1 .. len |-> Group(8 * (i - 1))]
  BY DEF PackCoils
<1> HIDE DEF Group, len
<1>5. [i \in 1 .. len |-> Group(8 * (i - 1))] \in Seq(Byte) /\ Len([i \in 1 .. len |-> Group(8 * (i - 1))]) = len
  BY ONLY <1>2, <1>3
<1> QED
  BY ONLY <1>4, <1>5 DEF len

\* The request of a documented call fits its class.
LEMMA RequestOfWellFormed ==
  ASSUME NEW c \in Call, Documented(c)
  PROVE  \E l \in pdu_req :
           /\ l.fc = c.fc
           /\ RequestOf(c) = Request(l, RequestOf(c).words, RequestOf(c).byte_count, RequestOf(c).values)
           /\ WellFormed(l, RequestOf(c).words, RequestOf(c).byte_count, RequestOf(c).values)
<1> DEFINE Good(r, l) == /\ l.fc = c.fc /\ l \in pdu_req
                         /\ r = Request(l, r.words, r.byte_count, r.values)
                         /\ WellFormed(l, r.words, r.byte_count, r.values)
<1>1. /\ c.address \in U16 /\ c.quantity \in U16 /\ c.waddress \in U16
      /\ c.values \in Seq(U16) /\ c.size \in Nat /\ c.fc \in {l.fc : l \in pdu_req}
  BY DEF Call
<1>2. u16(c.size \div 2) \in U16 /\ u16(Len(c.values)) \in U16
  <2>1. c.size \div 2 \in Nat /\ Len(c.values) \in Nat
    BY ONLY <1>1
  <2> QED
    BY ONLY <2>1, Casts
<1>3. c.fc \in {1, 2, 3, 4, 5, 6, 15, 16, 23}
  BY <1>1 DEF pdu_req, function_code, read_coils_pdu_req, read_discrete_inputs_pdu_req,
      read_holding_pdu_req, read_input_pdu_req, write_single_coil_pdu_req,
      write_single_register_pdu_req, write_multiple_coils_pdu_req,
      write_multiple_registers_pdu_req, read_write_multiple_registers_pdu_req
<1>4. 0 \in Byte /\ <<>> \in Seq(Byte)
  BY DEF Byte
<1>5. ASSUME NEW l \in pdu_req, l.fc = c.fc, NEW w, NEW n, NEW v, WellFormed(l, w, n, v),
             RequestOf(c) = Request(l, w, n, v)
      PROVE  Good(RequestOf(c), l)
  BY <1>5 DEF Request
<1>6. ASSUME NEW l, l.words = 2, l.unit = 0, NEW a \in U16, NEW b \in U16
      PROVE  WellFormed(l, <<a, b>>, 0, <<>>)
  BY <1>4, <1>6 DEF WellFormed
<1> USE DEF function_code
<1>7. CASE c.fc = 1
  <2>1. RequestOf(c) = Request(read_coils_pdu_req, <<c.address, c.quantity>>, 0, <<>>)
    BY <1>7 DEF RequestOf, read_coils
  <2>3. read_coils_pdu_req \in pdu_req /\ read_coils_pdu_req.fc = 1
        /\ read_coils_pdu_req.words = 2 /\ read_coils_pdu_req.unit = 0
    BY DEF read_coils_pdu_req, pdu_req
  <2> HIDE DEF Good
  <2>4. Good(RequestOf(c), read_coils_pdu_req)
    BY ONLY <1>1, <1>2, <1>5, <1>6, <1>7, <2>1, <2>3, SMTT(30)
  <2> QED
    BY ONLY <2>4 DEF Good
<1>8. CASE c.fc = 2
  <2>1. RequestOf(c) = Request(read_discrete_inputs_pdu_req, <<c.address, c.quantity>>, 0, <<>>)
    BY <1>8 DEF RequestOf, read_discrete_inputs
  <2>3. read_discrete_inputs_pdu_req \in pdu_req /\ read_discrete_inputs_pdu_req.fc = 2
        /\ read_discrete_inputs_pdu_req.words = 2 /\ read_discrete_inputs_pdu_req.unit = 0
    BY DEF read_discrete_inputs_pdu_req, pdu_req
  <2> HIDE DEF Good
  <2>4. Good(RequestOf(c), read_discrete_inputs_pdu_req)
    BY ONLY <1>1, <1>2, <1>5, <1>6, <1>8, <2>1, <2>3, SMTT(30)
  <2> QED
    BY ONLY <2>4 DEF Good
<1>9. CASE c.fc = 3
  <2>1. RequestOf(c) = Request(read_holding_pdu_req, <<c.address, u16(c.size \div 2)>>, 0, <<>>)
    BY <1>9 DEF RequestOf, read_registers
  <2>3. read_holding_pdu_req \in pdu_req /\ read_holding_pdu_req.fc = 3
        /\ read_holding_pdu_req.words = 2 /\ read_holding_pdu_req.unit = 0
    BY DEF read_holding_pdu_req, pdu_req
  <2> HIDE DEF Good
  <2>4. Good(RequestOf(c), read_holding_pdu_req)
    BY ONLY <1>1, <1>2, <1>5, <1>6, <1>9, <2>1, <2>3, SMTT(30)
  <2> QED
    BY ONLY <2>4 DEF Good
<1>10. CASE c.fc = 4
  <2>1. RequestOf(c) = Request(read_input_pdu_req, <<c.address, u16(c.size \div 2)>>, 0, <<>>)
    BY <1>10 DEF RequestOf, read_input_registers
  <2>3. read_input_pdu_req \in pdu_req /\ read_input_pdu_req.fc = 4
        /\ read_input_pdu_req.words = 2 /\ read_input_pdu_req.unit = 0
    BY DEF read_input_pdu_req, pdu_req
  <2> HIDE DEF Good
  <2>4. Good(RequestOf(c), read_input_pdu_req)
    BY ONLY <1>1, <1>2, <1>5, <1>6, <1>10, <2>1, <2>3, SMTT(30)
  <2> QED
    BY ONLY <2>4 DEF Good
<1>11. CASE c.fc = 5
  <2>1. RequestOf(c) = Request(write_single_coil_pdu_req, <<c.address, IF c.values[1] # 0 THEN 65280 ELSE 0>>, 0, <<>>)
    BY <1>11 DEF RequestOf, write_single_coil
  <2>2. (IF c.values[1] # 0 THEN 65280 ELSE 0) \in U16
    BY DEF U16
  <2>3. write_single_coil_pdu_req \in pdu_req /\ write_single_coil_pdu_req.fc = 5
        /\ write_single_coil_pdu_req.words = 2 /\ write_single_coil_pdu_req.unit = 0
    BY DEF write_single_coil_pdu_req, pdu_req
  <2> HIDE DEF Good
  <2>4. Good(RequestOf(c), write_single_coil_pdu_req)
    BY ONLY <1>1, <2>2, <1>5, <1>6, <1>11, <2>1, <2>3, SMTT(30)
  <2> QED
    BY ONLY <2>4 DEF Good
<1>12. CASE c.fc = 6
  <2>1. RequestOf(c) = Request(write_single_register_pdu_req, <<c.address, c.values[1]>>, 0, <<>>)
    BY <1>12 DEF RequestOf, write_single_register
  <2>2. c.values[1] \in U16
    <3>1. Len(c.values) = 1
      BY <1>12 DEF Documented
    <3> QED
      BY ONLY <1>1, <3>1
  <2>3. write_single_register_pdu_req \in pdu_req /\ write_single_register_pdu_req.fc = 6
        /\ write_single_register_pdu_req.words = 2 /\ write_single_register_pdu_req.unit = 0
    BY DEF write_single_register_pdu_req, pdu_req
  <2> HIDE DEF Good
  <2>4. Good(RequestOf(c), write_single_register_pdu_req)
    BY ONLY <1>1, <2>2, <1>5, <1>6, <1>12, <2>1, <2>3, SMTT(30)
  <2> QED
    BY ONLY <2>4 DEF Good
<1>13. CASE c.fc = 15
  <2>1. Len(c.values) \in Nat /\ 1 <= Len(c.values) /\ Len(c.values) < 2041 /\ Len(c.values) < 65536
    BY <1>1, <1>13 DEF Documented
  <2>2. u16(Len(c.values)) = Len(c.values)
    BY ONLY <2>1, Casts
  <2> DEFINE n == (Len(c.values) - 1) \div 8 + 1
  <2>3. u8(n) = n /\ n \in Byte
    <3> DEFINE q == Len(c.values)
    <3>0. q \in Nat /\ q >= 1 /\ q < 2041
      BY ONLY <2>1
    <3> HIDE DEF q
    <3>1. (q - 1) \div 8 + 1 \in Nat /\ (q - 1) \div 8 + 1 < 256
      BY ONLY <3>0, Groups
    <3>2. n = (q - 1) \div 8 + 1
      BY DEF q
    <3> HIDE DEF n
    <3> QED
      BY ONLY <3>1, <3>2, Casts
  <2>4. PackCoils(c.values) \in Seq(Byte) /\ Len(PackCoils(c.values)) = n
    <3> DEFINE v == c.values
    <3>1. v \in Seq(U16) /\ Len(v) >= 1
      BY ONLY <1>1, <2>1
    <3> HIDE DEF v
    <3>2. PackCoils(v) \in Seq(Byte) /\ Len(PackCoils(v)) = (Len(v) - 1) \div 8 + 1
      BY ONLY <3>1, PackCoilsType
    <3> QED
      BY ONLY <3>2 DEF v
  <2>5. RequestOf(c) = Request(write_multiple_coils_pdu_req, <<c.address, u16(Len(c.values))>>,
                               n, PackCoils(c.values))
    <3>1. RequestOf(c) = write_multiple_coils(c)
      BY <1>13 DEF RequestOf
    <3> QED
      BY ONLY <2>2, <2>3, <3>1, Zenon DEF write_multiple_coils
  <2> HIDE DEF n
  <2>6. write_multiple_coils_pdu_req \in pdu_req /\ write_multiple_coils_pdu_req.fc = 15
        /\ write_multiple_coils_pdu_req.words = 2 /\ write_multiple_coils_pdu_req.unit = 1
    BY DEF write_multiple_coils_pdu_req, pdu_req
  <2>7. n % 1 = 0
    BY ONLY <2>3 DEF Byte
  <2>8. WellFormed(write_multiple_coils_pdu_req, <<c.address, u16(Len(c.values))>>,
                   n, PackCoils(c.values))
    BY ONLY <1>1, <1>2, <2>3, <2>4, <2>6, <2>7 DEF WellFormed
  <2> HIDE DEF Good
  <2>9. Good(RequestOf(c), write_multiple_coils_pdu_req)
    BY ONLY <1>5, <1>13, <2>5, <2>6, <2>8
  <2> QED
    BY ONLY <2>9 DEF Good
<1>14. CASE c.fc = 16
  <2>1. Len(c.values) \in Nat /\ 1 <= Len(c.values) /\ Len(c.values) < 128 /\ Len(c.values) < 65536
    BY <1>1, <1>14 DEF Documented
  <2>2. u16(Len(c.values)) = Len(c.values)
    BY ONLY <2>1, Casts
  <2> DEFINE n == Len(c.values) * 2
  <2>3. u8(n) = n /\ n \in Byte /\ n % 2 = 0
    <3> DEFINE q == Len(c.values)
    <3>1. q \in Nat /\ q < 128
      BY ONLY <2>1
    <3> HIDE DEF q
    <3>2. q * 2 \in Nat /\ q * 2 < 256 /\ (q * 2) % 2 = 0
      BY ONLY <3>1, Doubles
    <3>3. n = q * 2
      BY DEF q
    <3> HIDE DEF n
    <3> QED
      BY ONLY <3>2, <3>3, Casts
  <2>4. WordBytes(c.values) \in Seq(Byte) /\ Len(WordBytes(c.values)) = n
    BY <1>1, <2>1, WordBytesType
  <2>5. RequestOf(c) = Request(write_multiple_registers_pdu_req, <<c.address, u16(Len(c.values))>>,
                               n, WordBytes(c.values))
    BY <1>14, <2>2, <2>3 DEF RequestOf, write_multiple_registers
  <2> HIDE DEF n
  <2>6. write_multiple_registers_pdu_req \in pdu_req /\ write_multiple_registers_pdu_req.fc = 16
        /\ write_multiple_registers_pdu_req.words = 2 /\ write_multiple_registers_pdu_req.unit = 2
    BY DEF write_multiple_registers_pdu_req, pdu_req
  <2>8. WellFormed(write_multiple_registers_pdu_req, <<c.address, u16(Len(c.values))>>,
                   n, WordBytes(c.values))
    BY ONLY <1>1, <1>2, <2>3, <2>4, <2>6 DEF WellFormed
  <2> HIDE DEF Good
  <2>9. Good(RequestOf(c), write_multiple_registers_pdu_req)
    BY ONLY <1>5, <1>14, <2>5, <2>6, <2>8
  <2> QED
    BY ONLY <2>9 DEF Good
<1>15. CASE c.fc = 23
  <2>1. Len(c.values) \in Nat /\ 1 <= Len(c.values) /\ Len(c.values) < 128 /\ Len(c.values) < 65536
    BY <1>1, <1>15 DEF Documented
  <2>2. u16(Len(c.values)) = Len(c.values)
    BY ONLY <2>1, Casts
  <2> DEFINE n == Len(c.values) * 2
             w == <<c.address, u16(c.size \div 2), c.waddress, u16(Len(c.values))>>
  <2>3. u8(n) = n /\ n \in Byte /\ n % 2 = 0
    <3> DEFINE q == Len(c.values)
    <3>1. q \in Nat /\ q < 128
      BY ONLY <2>1
    <3> HIDE DEF q
    <3>2. q * 2 \in Nat /\ q * 2 < 256 /\ (q * 2) % 2 = 0
      BY ONLY <3>1, Doubles
    <3>3. n = q * 2
      BY DEF q
    <3> HIDE DEF n
    <3> QED
      BY ONLY <3>2, <3>3, Casts
  <2>4. WordBytes(c.values) \in Seq(Byte) /\ Len(WordBytes(c.values)) = n
    BY <1>1, <2>1, WordBytesType
  <2>5. RequestOf(c) = Request(read_write_multiple_registers_pdu_req, w, n, WordBytes(c.values))
    BY <1>15, <2>2, <2>3 DEF RequestOf, read_write_multiple_registers
  <2>6. w \in Seq(U16) /\ Len(w) = 4
    BY ONLY <1>1, <1>2
  <2> HIDE DEF n, w
  <2>7. read_write_multiple_registers_pdu_req \in pdu_req /\ read_write_multiple_registers_pdu_req.fc = 23
        /\ read_write_multiple_registers_pdu_req.words = 4 /\ read_write_multiple_registers_pdu_req.unit = 2
    BY DEF read_write_multiple_registers_pdu_req, pdu_req
  <2>8. WellFormed(read_write_multiple_registers_pdu_req, w, n, WordBytes(c.values))
    BY ONLY <2>3, <2>4, <2>6, <2>7 DEF WellFormed
  <2> HIDE DEF Good
  <2>9. Good(RequestOf(c), read_write_multiple_registers_pdu_req)
    BY ONLY <1>5, <1>15, <2>5, <2>7, <2>8
  <2> QED
    BY ONLY <2>9 DEF Good
<1> QED
  BY ONLY <1>3, <1>7, <1>8, <1>9, <1>10, <1>11, <1>12, <1>13, <1>14, <1>15

--------------------------------------------------------------------------------
(* The device.                                                                  *)

\* Consecutive entries of a table form a sequence of its values.
LEMMA SliceType ==
  ASSUME NEW S, NEW N \in Nat, NEW table \in [0 .. N - 1 -> S], NEW a \in Nat, NEW n \in Nat,
         Present(table, a, n)
  PROVE  Slice(table, a, n) \in Seq(S) /\ Len(Slice(table, a, n)) = n
<1>1. ASSUME NEW k \in 1 .. n PROVE table[a + k - 1] \in S
  <2>1. k - 1 \in 0 .. n - 1 /\ a + (k - 1) = a + k - 1
    OBVIOUS
  <2>2. a + (k - 1) \in DOMAIN table
    BY <2>1 DEF Present
  <2> QED
    BY <2>1, <2>2
<1> QED
  BY <1>1 DEF Slice

\* Writing values into a table leaves it a table.
LEMMA StoreType ==
  ASSUME NEW S, NEW D \in SUBSET Int, NEW table \in [D -> S], NEW a \in Nat, NEW v \in Seq(S)
  PROVE  Store(table, a, v) \in [D -> S]
<1>1. ASSUME NEW k \in D, k \in a .. a + Len(v) - 1 PROVE v[k - a + 1] \in S
  <2>1. k - a + 1 \in 1 .. Len(v)
    BY <1>1
  <2> QED
    BY <2>1
<1> QED
  BY <1>1 DEF Store

\* The bits taken from packed bytes are bits.
LEMMA UnpackType ==
  ASSUME NEW b \in Seq(Byte), NEW n \in Nat, n >= 1, Len(b) = (n - 1) \div 8 + 1
  PROVE  Unpack(b, n) \in Seq({0, 1}) /\ Len(Unpack(b, n)) = n
<1>1. ASSUME NEW x \in Byte, NEW w \in {1, 2, 4, 8, 16, 32, 64, 128}
      PROVE  (x \div w) % 2 \in {0, 1}
  BY DEF Byte
<1>2. ASSUME NEW k \in 1 .. n PROVE BitOf(b, k) \in {0, 1}
  <2>1. (k - 1) \div 8 + 1 \in 1 .. Len(b)
    OBVIOUS
  <2>2. ((k - 1) % 8) + 1 \in 1 .. 8
    OBVIOUS
  <2>3. Weight[((k - 1) % 8) + 1] \in {1, 2, 4, 8, 16, 32, 64, 128}
    BY <2>2 DEF Weight
  <2>4. b[(k - 1) \div 8 + 1] \in Byte
    BY <2>1
  <2> QED
    BY ONLY <1>1, <2>3, <2>4 DEF BitOf
<1> QED
  BY <1>2 DEF Unpack

\* Packed bits are bytes, eight bits in each.
LEMMA PackType ==
  ASSUME NEW bits \in Seq({0, 1})
  PROVE  Pack(bits) \in Seq(Byte) /\ Len(Pack(bits)) = (Len(bits) + 7) \div 8
<1> DEFINE Place(k) == IF k <= Len(bits) THEN bits[k] ELSE 0
           Group(k) == Place(k + 1) + 2 * Place(k + 2) + 4 * Place(k + 3) + 8 * Place(k + 4)
             + 16 * Place(k + 5) + 32 * Place(k + 6) + 64 * Place(k + 7) + 128 * Place(k + 8)
           len == (Len(bits) + 7) \div 8
<1>1. ASSUME NEW k \in Nat PROVE Place(k + 1) \in {0, 1}
  OBVIOUS
<1>2. ASSUME NEW i \in 1 .. len PROVE Group(8 * (i - 1)) \in Byte
  <2> DEFINE k == 8 * (i - 1)
  <2>0. k \in Nat
    OBVIOUS
  <2> HIDE DEF k
  <2>1. /\ k + 1 \in Nat /\ k + 2 \in Nat /\ k + 3 \in Nat /\ k + 4 \in Nat
        /\ k + 5 \in Nat /\ k + 6 \in Nat /\ k + 7 \in Nat
        /\ k + 2 = (k + 1) + 1 /\ k + 3 = (k + 2) + 1 /\ k + 4 = (k + 3) + 1
        /\ k + 5 = (k + 4) + 1 /\ k + 6 = (k + 5) + 1 /\ k + 7 = (k + 6) + 1
        /\ k + 8 = (k + 7) + 1
    BY ONLY <2>0
  <2> HIDE DEF Place
  <2>2. /\ Place(k + 1) \in {0, 1} /\ Place(k + 2) \in {0, 1} /\ Place(k + 3) \in {0, 1}
        /\ Place(k + 4) \in {0, 1} /\ Place(k + 5) \in {0, 1} /\ Place(k + 6) \in {0, 1}
        /\ Place(k + 7) \in {0, 1} /\ Place(k + 8) \in {0, 1}
    BY ONLY <1>1, <2>0, <2>1
  <2>4. Group(k) \in Byte
    <3> DEFINE a == Place(k + 1)
               b == Place(k + 2)
               c == Place(k + 3)
               d == Place(k + 4)
               e == Place(k + 5)
               f == Place(k + 6)
               g == Place(k + 7)
               h == Place(k + 8)
    <3>1. /\ a \in {0, 1} /\ b \in {0, 1} /\ c \in {0, 1} /\ d \in {0, 1}
          /\ e \in {0, 1} /\ f \in {0, 1} /\ g \in {0, 1} /\ h \in {0, 1}
      BY ONLY <2>2
    <3>2. Group(k) = a + 2 * b + 4 * c + 8 * d + 16 * e + 32 * f + 64 * g + 128 * h
      OBVIOUS
    <3> HIDE DEF a, b, c, d, e, f, g, h, Group
    <3>3. a + 2 * b + 4 * c + 8 * d + 16 * e + 32 * f + 64 * g + 128 * h \in Byte
      BY ONLY <3>1 DEF Byte
    <3> QED
      BY ONLY <3>2, <3>3
  <2> QED
    BY ONLY <2>4 DEF k
<1>3. len \in Nat
  OBVIOUS
<1>4. Pack(bits) = [i \in 1 .. len |-> Group(8 * (i - 1))]
  BY DEF Pack
<1> HIDE DEF Group, len
<1>5. [i \in 1 .. len |-> Group(8 * (i - 1))] \in Seq(Byte) /\ Len([i \in 1 .. len |-> Group(8 * (i - 1))]) = len
  BY ONLY <1>2, <1>3
<1> QED
  BY ONLY <1>4, <1>5 DEF len

\* Each shape of reply is a PDU of its size.
LEMMA WriteValuesType ==
  ASSUME NEW fc \in Byte, NEW v \in Seq(Byte)
  PROVE  WriteValues(fc, v) \in Seq(Byte) /\ Len(WriteValues(fc, v)) = 2 + Len(v)
<1> DEFINE h == <<fc, u8(Len(v))>>
<1>1. h \in Seq(Byte) /\ Len(h) = 2
  BY Casts
<1> HIDE DEF h
<1> DEFINE e == h \o v
<1>2. e \in Seq(Byte) /\ Len(e) = Len(h) + Len(v)
  BY ONLY <1>1, v \in Seq(Byte), ConcatAt, Zenon
<1>3. WriteValues(fc, v) = e
  BY DEF WriteValues, h
<1> HIDE DEF e
<1> QED
  BY ONLY <1>1, <1>2, <1>3

\* The bytes of an echo.
LEMMA WriteEchoType ==
  ASSUME NEW fc \in Byte, NEW a \in U16, NEW b \in U16
  PROVE  WriteEcho(fc, a, b) \in Seq(Byte) /\ Len(WriteEcho(fc, a, b)) = 5
<1> DEFINE w == <<a, b>>
           t == WordBytes(w)
           h == <<fc>>
<1>1. w \in Seq(U16) /\ Len(w) = 2
  OBVIOUS
<1> HIDE DEF w
<1>2. t \in Seq(Byte) /\ Len(t) = 2 * Len(w)
  BY ONLY <1>1, WordBytesType
<1>3. h \in Seq(Byte) /\ Len(h) = 1
  OBVIOUS
<1> HIDE DEF t, h
<1> DEFINE e == h \o t
<1>4. e \in Seq(Byte) /\ Len(e) = Len(h) + Len(t)
  BY ONLY <1>2, <1>3, ConcatAt, Zenon
<1>5. WriteEcho(fc, a, b) = e
  BY DEF WriteEcho, w, t, h
<1> HIDE DEF e
<1> QED
  BY ONLY <1>1, <1>2, <1>3, <1>4, <1>5

\* The bytes of an exception response.
LEMMA WriteExceptionType ==
  ASSUME NEW fc \in Byte, NEW code \in Nat
  PROVE  WriteException(fc, code) \in Seq(Byte) /\ Len(WriteException(fc, code)) = 2
<1>1. (IF fc < 128 THEN fc + 128 ELSE fc) \in Byte
  BY DEF Byte
<1> QED
  BY <1>1, Casts DEF WriteException

\* Writing coils leaves a memory.
LEMMA WriteCoils ==
  ASSUME NEW m \in Memory, NEW a \in Nat, NEW v \in Seq({0, 1})
  PROVE  [m EXCEPT !.coils = Store(@, a, v)] \in Memory
<1>1. 0 .. NCoils - 1 \in SUBSET Int /\ m.coils \in [0 .. NCoils - 1 -> {0, 1}]
  BY TableSizes DEF Memory
<1>2. Store(m.coils, a, v) \in [0 .. NCoils - 1 -> {0, 1}]
  BY ONLY <1>1, a \in Nat, v \in Seq({0, 1}), StoreType
<1> QED
  BY <1>2 DEF Memory

\* Writing holding registers leaves a memory.
LEMMA WriteHolding ==
  ASSUME NEW m \in Memory, NEW a \in Nat, NEW v \in Seq(U16)
  PROVE  [m EXCEPT !.holding = Store(@, a, v)] \in Memory
<1>1. 0 .. NRegs - 1 \in SUBSET Int /\ m.holding \in [0 .. NRegs - 1 -> U16]
  BY TableSizes DEF Memory
<1>2. Store(m.holding, a, v) \in [0 .. NRegs - 1 -> U16]
  BY ONLY <1>1, a \in Nat, v \in Seq(U16), StoreType
<1> QED
  BY <1>2 DEF Memory

\* The device's memory afterwards, and a PDU of at most `max' bytes.
IsReply(rep, max) ==
  /\ rep.mem \in Memory
  /\ rep.pdu \in Seq(Byte) /\ 2 <= Len(rep.pdu) /\ Len(rep.pdu) <= max

\* A refusal is a reply of two bytes.
LEMMA RefusalType ==
  ASSUME NEW m \in Memory, NEW r, r.fc \in Byte, NEW code \in Nat, NEW max \in Nat, 2 <= max
  PROVE  IsReply(Refusal(m, r, code), max)
<1> DEFINE p == WriteException(r.fc, code)
<1>1. p \in Seq(Byte) /\ Len(p) = 2
  BY ONLY r.fc \in Byte, code \in Nat, WriteExceptionType
<1>2. Refusal(m, r, code).mem = m /\ Refusal(m, r, code).pdu = p
  BY DEF Refusal
<1> HIDE DEF p
<1>3. 2 <= Len(p) /\ Len(p) <= max
  BY ONLY <1>1, max \in Nat, 2 <= max
<1> QED
  BY ONLY <1>1, <1>2, <1>3, m \in Memory, Zenon DEF IsReply

\* The reply to a read of coils or inputs.
LEMMA BitsReply ==
  ASSUME NEW m \in Memory, NEW table \in [0 .. NCoils - 1 -> {0, 1}], NEW fc \in Byte,
         NEW a \in Nat, NEW n \in Nat, Present(table, a, n)
  PROVE  IsReply([mem |-> m, pdu |-> WriteValues(fc, Pack(Slice(table, a, n)))], 2 + (n + 7) \div 8)
<1> DEFINE s == Slice(table, a, n)
           b == Pack(s)
           p == WriteValues(fc, b)
<1>1. s \in Seq({0, 1}) /\ Len(s) = n
  BY TableSizes, SliceType
<1> HIDE DEF s
<1>2. b \in Seq(Byte) /\ Len(b) = (n + 7) \div 8
  BY ONLY <1>1, PackType
<1> HIDE DEF b
<1>3. p \in Seq(Byte) /\ Len(p) = 2 + Len(b)
  BY ONLY <1>2, fc \in Byte, WriteValuesType
<1> HIDE DEF p
<1>4. IsReply([mem |-> m, pdu |-> p], 2 + (n + 7) \div 8)
  BY ONLY <1>2, <1>3, m \in Memory, n \in Nat DEF IsReply
<1> QED
  BY ONLY <1>4 DEF s, b, p

\* The reply to a read of registers.
LEMMA RegsReply ==
  ASSUME NEW m \in Memory, NEW table \in [0 .. NRegs - 1 -> U16], NEW fc \in Byte,
         NEW a \in Nat, NEW n \in Nat, Present(table, a, n)
  PROVE  IsReply([mem |-> m, pdu |-> WriteValues(fc, WordBytes(Slice(table, a, n)))], 2 + 2 * n)
<1> DEFINE s == Slice(table, a, n)
           b == WordBytes(s)
           p == WriteValues(fc, b)
<1>1. s \in Seq(U16) /\ Len(s) = n
  BY TableSizes, SliceType, ZenonT(60)
<1> HIDE DEF s
<1>2. b \in Seq(Byte) /\ Len(b) = 2 * Len(s)
  BY ONLY <1>1, WordBytesType
<1> HIDE DEF b
<1>3. p \in Seq(Byte) /\ Len(p) = 2 + Len(b)
  BY ONLY <1>2, fc \in Byte, WriteValuesType
<1> HIDE DEF p
<1>4. IsReply([mem |-> m, pdu |-> p], 2 + 2 * n)
  BY ONLY <1>1, <1>2, <1>3, m \in Memory, n \in Nat DEF IsReply
<1> QED
  BY ONLY <1>4 DEF s, b, p

\* The reply to a write.
LEMMA EchoReply ==
  ASSUME NEW m \in Memory, NEW fc \in Byte, NEW a \in U16, NEW b \in U16
  PROVE  IsReply([mem |-> m, pdu |-> WriteEcho(fc, a, b)], 5)
<1> DEFINE p == WriteEcho(fc, a, b)
<1>1. p \in Seq(Byte) /\ Len(p) = 5
  BY ONLY fc \in Byte, a \in U16, b \in U16, WriteEchoType
<1> HIDE DEF p
<1>2. 2 <= Len(p) /\ Len(p) <= 5
  BY ONLY <1>1
<1>3. IsReply([mem |-> m, pdu |-> p], 5)
  BY ONLY <1>1, <1>2, m \in Memory, Zenon DEF IsReply
<1> QED
  BY ONLY <1>3 DEF p

\* The device answers the request of a documented call with a PDU, of the size the call asks for
\* at most, and keeps its tables well-typed.
LEMMA ServeType ==
  ASSUME NEW m \in Memory, NEW c \in Call, Documented(c)
  PROVE  IsReply(Serve(m, RequestOf(c)), ReplySize(c))
<1> DEFINE r == RequestOf(c)
           a == c.address
           q == c.size \div 2
<1> USE DEF function_code
<1>1. /\ a \in U16 /\ c.quantity \in U16 /\ c.waddress \in U16
      /\ c.values \in Seq(U16) /\ c.size \in Nat /\ q \in Nat /\ c.fc \in {l.fc : l \in pdu_req}
      /\ a \in Nat /\ c.waddress \in Nat /\ c.quantity \in Nat
  BY DEF Call, U16
<1>2. c.fc \in {1, 2, 3, 4, 5, 6, 15, 16, 23}
  BY <1>1 DEF pdu_req, read_coils_pdu_req, read_discrete_inputs_pdu_req,
      read_holding_pdu_req, read_input_pdu_req, write_single_coil_pdu_req,
      write_single_register_pdu_req, write_multiple_coils_pdu_req,
      write_multiple_registers_pdu_req, read_write_multiple_registers_pdu_req
<1>3. c.fc \in Byte
  BY ONLY <1>2 DEF Byte
<1>4. /\ m.coils \in [0 .. NCoils - 1 -> {0, 1}] /\ m.inputs \in [0 .. NCoils - 1 -> {0, 1}]
      /\ m.holding \in [0 .. NRegs - 1 -> U16] /\ m.input \in [0 .. NRegs - 1 -> U16]
  BY DEF Memory
<1>5. ASSUME NEW max \in Nat, 2 <= max, r.fc = c.fc
      PROVE  IsReply(Refusal(m, r, modbus_exception_code.illegal_data_address), max)
  <2>1. modbus_exception_code.illegal_data_address \in Nat
    BY DEF modbus_exception_code
  <2> HIDE DEF r
  <2> QED
    BY ONLY <1>3, <1>5, <2>1, m \in Memory, RefusalType
<1>6. c.fc \in {3, 4, 23} => u16(q) = q
  <2>1. c.fc \in {3, 4, 23} => q <= 125
    <3>1. c.fc = 3 => q <= 125
      BY DEF Documented
    <3>2. c.fc = 4 => q <= 125
      BY DEF Documented
    <3>3. c.fc = 23 => q <= 125
      BY DEF Documented
    <3> QED
      BY ONLY <3>1, <3>2, <3>3
  <2> HIDE DEF q
  <2> QED
    BY ONLY <1>1, <2>1, Casts
<1>7. CASE c.fc = 1
  <2>1. r.fc = 1 /\ r.words[1] = a /\ r.words[2] = c.quantity
    BY <1>7 DEF RequestOf, read_coils, Request, read_coils_pdu_req
  <2>2. ReplySize(c) = 2 + (c.quantity + 7) \div 8 /\ ReplySize(c) \in Nat /\ 2 <= ReplySize(c)
    BY <1>1, <1>7, SMTT(60) DEF ReplySize
  <2> HIDE DEF r, a
  <2>3. Serve(m, r) = IF Present(m.coils, a, c.quantity)
                      THEN [mem |-> m, pdu |-> WriteValues(1, Pack(Slice(m.coils, a, c.quantity)))]
                      ELSE Refusal(m, r, modbus_exception_code.illegal_data_address)
    BY <2>1 DEF Serve
  <2>4. CASE Present(m.coils, a, c.quantity)
    BY ONLY <1>1, <1>3, <1>4, <1>7, <2>2, <2>3, <2>4, m \in Memory, BitsReply, SMTT(60) DEF r
  <2>5. CASE ~ Present(m.coils, a, c.quantity)
    BY ONLY <1>5, <1>7, <2>1, <2>2, <2>3, <2>5 DEF r
  <2> QED
    BY ONLY <2>4, <2>5
<1>8. CASE c.fc = 2
  <2>1. r.fc = 2 /\ r.words[1] = a /\ r.words[2] = c.quantity
    BY <1>8 DEF RequestOf, read_discrete_inputs, Request, read_discrete_inputs_pdu_req
  <2>2. ReplySize(c) = 2 + (c.quantity + 7) \div 8 /\ ReplySize(c) \in Nat /\ 2 <= ReplySize(c)
    BY <1>1, <1>8, SMTT(60) DEF ReplySize
  <2> HIDE DEF r, a
  <2>3. Serve(m, r) = IF Present(m.inputs, a, c.quantity)
                      THEN [mem |-> m, pdu |-> WriteValues(2, Pack(Slice(m.inputs, a, c.quantity)))]
                      ELSE Refusal(m, r, modbus_exception_code.illegal_data_address)
    BY <2>1 DEF Serve
  <2>4. CASE Present(m.inputs, a, c.quantity)
    BY ONLY <1>1, <1>3, <1>4, <1>8, <2>2, <2>3, <2>4, m \in Memory, BitsReply, SMTT(60) DEF r
  <2>5. CASE ~ Present(m.inputs, a, c.quantity)
    BY ONLY <1>5, <1>8, <2>1, <2>2, <2>3, <2>5 DEF r
  <2> QED
    BY ONLY <2>4, <2>5
<1>9. CASE c.fc = 3
  <2>0. u16(q) = q
    BY ONLY <1>1, <1>6, <1>9
  <2>1. r.fc = 3 /\ r.words[1] = a /\ r.words[2] = q
    BY <1>9, <2>0 DEF RequestOf, read_registers, Request, read_holding_pdu_req
  <2>2. ReplySize(c) = 2 + 2 * q /\ ReplySize(c) \in Nat /\ 2 <= ReplySize(c)
    BY <1>1, <1>9, SMTT(60) DEF ReplySize
  <2> HIDE DEF r, a, q
  <2>3. Serve(m, r) = IF Present(m.holding, a, q)
                      THEN [mem |-> m, pdu |-> WriteValues(3, WordBytes(Slice(m.holding, a, q)))]
                      ELSE Refusal(m, r, modbus_exception_code.illegal_data_address)
    BY <2>1 DEF Serve
  <2>4. CASE Present(m.holding, a, q)
    BY ONLY <1>1, <1>3, <1>4, <1>9, <2>2, <2>3, <2>4, m \in Memory, RegsReply DEF r
  <2>5. CASE ~ Present(m.holding, a, q)
    BY ONLY <1>5, <1>9, <2>1, <2>2, <2>3, <2>5 DEF r
  <2> QED
    BY ONLY <2>4, <2>5
<1>10. CASE c.fc = 4
  <2>0. u16(q) = q
    BY ONLY <1>1, <1>6, <1>10
  <2>1. r.fc = 4 /\ r.words[1] = a /\ r.words[2] = q
    BY <1>10, <2>0 DEF RequestOf, read_input_registers, Request, read_input_pdu_req
  <2>2. ReplySize(c) = 2 + 2 * q /\ ReplySize(c) \in Nat /\ 2 <= ReplySize(c)
    BY <1>1, <1>10, SMTT(60) DEF ReplySize
  <2> HIDE DEF r, a, q
  <2>3. Serve(m, r) = IF Present(m.input, a, q)
                      THEN [mem |-> m, pdu |-> WriteValues(4, WordBytes(Slice(m.input, a, q)))]
                      ELSE Refusal(m, r, modbus_exception_code.illegal_data_address)
    BY <2>1 DEF Serve
  <2>4. CASE Present(m.input, a, q)
    BY ONLY <1>1, <1>3, <1>4, <1>10, <2>2, <2>3, <2>4, m \in Memory, RegsReply DEF r
  <2>5. CASE ~ Present(m.input, a, q)
    BY ONLY <1>5, <1>10, <2>1, <2>2, <2>3, <2>5 DEF r
  <2> QED
    BY ONLY <2>4, <2>5
<1>11. CASE c.fc = 5
  <2> DEFINE b == IF c.values[1] # 0 THEN 65280 ELSE 0
             m2 == [m EXCEPT !.coils = Store(@, a, <<IF b = 65280 THEN 1 ELSE 0>>)]
  <2>0. b \in U16
    BY DEF U16
  <2>1. r.fc = 5 /\ r.words[1] = a /\ r.words[2] = b
    BY <1>11 DEF RequestOf, write_single_coil, Request, write_single_coil_pdu_req
  <2>2. ReplySize(c) = 5
    BY <1>11 DEF ReplySize
  <2>3. m2 \in Memory
    <3> DEFINE v == <<IF b = 65280 THEN 1 ELSE 0>>
    <3> HIDE DEF b
    <3>1. v \in Seq({0, 1})
      OBVIOUS
    <3> HIDE DEF v
    <3>2. [m EXCEPT !.coils = Store(@, a, v)] \in Memory
      BY ONLY <1>1, <3>1, m \in Memory, WriteCoils
    <3> QED
      BY ONLY <3>2 DEF v
  <2> HIDE DEF a, b
  <2>4. Serve(m, r) = IF Present(m.coils, a, 1)
                      THEN [mem |-> m2, pdu |-> WriteEcho(5, a, b)]
                      ELSE Refusal(m, r, modbus_exception_code.illegal_data_address)
    <3> HIDE DEF r
    <3> QED
      BY <2>1 DEF Serve
  <2> HIDE DEF m2, r
  <2>5. CASE Present(m.coils, a, 1)
    BY ONLY <1>1, <1>3, <1>11, <2>0, <2>2, <2>3, <2>4, <2>5, EchoReply DEF r
  <2>6. CASE ~ Present(m.coils, a, 1)
    BY ONLY <1>5, <1>11, <2>1, <2>2, <2>4, <2>6 DEF r
  <2> QED
    BY ONLY <2>5, <2>6
<1>12. CASE c.fc = 6
  <2> DEFINE b == c.values[1]
             m2 == [m EXCEPT !.holding = Store(@, a, <<b>>)]
  <2>0. b \in U16
    <3>1. Len(c.values) = 1
      BY <1>12 DEF Documented
    <3> QED
      BY ONLY <1>1, <3>1
  <2>1. r.fc = 6 /\ r.words[1] = a /\ r.words[2] = b
    BY <1>12 DEF RequestOf, write_single_register, Request, write_single_register_pdu_req
  <2>2. ReplySize(c) = 5
    BY <1>12 DEF ReplySize
  <2>3. m2 \in Memory
    <3> DEFINE v == <<b>>
    <3> HIDE DEF b
    <3>1. v \in Seq(U16)
      BY <2>0
    <3> HIDE DEF v
    <3>2. [m EXCEPT !.holding = Store(@, a, v)] \in Memory
      BY ONLY <1>1, <3>1, m \in Memory, WriteHolding
    <3> QED
      BY ONLY <3>2 DEF v
  <2> HIDE DEF a, b
  <2>4. Serve(m, r) = IF Present(m.holding, a, 1)
                      THEN [mem |-> m2, pdu |-> WriteEcho(6, a, b)]
                      ELSE Refusal(m, r, modbus_exception_code.illegal_data_address)
    <3> HIDE DEF r
    <3> QED
      BY <2>1 DEF Serve
  <2> HIDE DEF m2, r
  <2>5. CASE Present(m.holding, a, 1)
    BY ONLY <1>1, <1>3, <1>12, <2>0, <2>2, <2>3, <2>4, <2>5, EchoReply DEF r
  <2>6. CASE ~ Present(m.holding, a, 1)
    BY ONLY <1>5, <1>12, <2>1, <2>2, <2>4, <2>6 DEF r
  <2> QED
    BY ONLY <2>5, <2>6
<1>13. CASE c.fc = 15
  <2> DEFINE b == u16(Len(c.values))
             m2 == [m EXCEPT !.coils = Store(@, a, Unpack(PackCoils(c.values), b))]
  <2>0. b \in U16
    <3>1. Len(c.values) \in Nat
      BY ONLY <1>1
    <3> QED
      BY ONLY <3>1, Casts
  <2>1. r.fc = 15 /\ r.words[1] = a /\ r.words[2] = b /\ r.values = PackCoils(c.values)
    BY <1>13 DEF RequestOf, write_multiple_coils, Request, write_multiple_coils_pdu_req
  <2>2. ReplySize(c) = 5
    BY <1>13 DEF ReplySize
  <2>3. m2 \in Memory
    <3> DEFINE w == c.values
               v == Unpack(PackCoils(w), b)
    <3>1. w \in Seq(U16) /\ Len(w) \in Nat /\ Len(w) >= 1 /\ Len(w) < 65536
      BY <1>1, <1>13 DEF Documented
    <3> HIDE DEF w
    <3>2. b = Len(w)
      BY ONLY <3>1, Casts DEF w
    <3> HIDE DEF b
    <3>3. PackCoils(w) \in Seq(Byte) /\ Len(PackCoils(w)) = (b - 1) \div 8 + 1
      BY ONLY <3>1, <3>2, PackCoilsType
    <3>4. v \in Seq({0, 1})
      BY ONLY <3>1, <3>2, <3>3, UnpackType
    <3> HIDE DEF v
    <3>5. [m EXCEPT !.coils = Store(@, a, v)] \in Memory
      BY ONLY <1>1, <3>4, m \in Memory, WriteCoils
    <3> QED
      BY ONLY <3>5 DEF v, w
  <2> HIDE DEF a, b
  <2>4. Serve(m, r) = IF Present(m.coils, a, b)
                      THEN [mem |-> m2, pdu |-> WriteEcho(15, a, b)]
                      ELSE Refusal(m, r, modbus_exception_code.illegal_data_address)
    <3> HIDE DEF r
    <3> QED
      BY <2>1 DEF Serve
  <2> HIDE DEF m2, r
  <2>5. CASE Present(m.coils, a, b)
    BY ONLY <1>1, <1>3, <1>13, <2>0, <2>2, <2>3, <2>4, <2>5, EchoReply DEF r
  <2>6. CASE ~ Present(m.coils, a, b)
    BY ONLY <1>5, <1>13, <2>1, <2>2, <2>4, <2>6 DEF r
  <2> QED
    BY ONLY <2>5, <2>6
<1>14. CASE c.fc = 16
  <2> DEFINE b == u16(Len(c.values))
             m2 == [m EXCEPT !.holding = Store(@, a, BytesWords(WordBytes(c.values)))]
  <2>0. b \in U16
    <3>1. Len(c.values) \in Nat
      BY ONLY <1>1
    <3> QED
      BY ONLY <3>1, Casts
  <2>1. r.fc = 16 /\ r.words[1] = a /\ r.words[2] = b /\ r.values = WordBytes(c.values)
    BY <1>14 DEF RequestOf, write_multiple_registers, Request, write_multiple_registers_pdu_req
  <2>2. ReplySize(c) = 5
    BY <1>14 DEF ReplySize
  <2>3. m2 \in Memory
    <3> DEFINE v == BytesWords(WordBytes(c.values))
    <3>1. v \in Seq(U16)
      BY ONLY <1>1, WordsReadBack
    <3> HIDE DEF v
    <3>2. [m EXCEPT !.holding = Store(@, a, v)] \in Memory
      BY ONLY <1>1, <3>1, m \in Memory, WriteHolding
    <3> QED
      BY ONLY <3>2 DEF v
  <2> HIDE DEF a, b
  <2>4. Serve(m, r) = IF Present(m.holding, a, b)
                      THEN [mem |-> m2, pdu |-> WriteEcho(16, a, b)]
                      ELSE Refusal(m, r, modbus_exception_code.illegal_data_address)
    <3> HIDE DEF r
    <3> QED
      BY <2>1 DEF Serve
  <2> HIDE DEF m2, r
  <2>5. CASE Present(m.holding, a, b)
    BY ONLY <1>1, <1>3, <1>14, <2>0, <2>2, <2>3, <2>4, <2>5, EchoReply DEF r
  <2>6. CASE ~ Present(m.holding, a, b)
    BY ONLY <1>5, <1>14, <2>1, <2>2, <2>4, <2>6 DEF r
  <2> QED
    BY ONLY <2>5, <2>6
<1>15. CASE c.fc = 23
  <2> DEFINE b == c.waddress
             n == u16(Len(c.values))
             m2 == [m EXCEPT !.holding = Store(@, b, BytesWords(WordBytes(c.values)))]
  <2>0. u16(q) = q
    BY ONLY <1>1, <1>6, <1>15
  <2>1. r.fc = 23 /\ r.words[1] = a /\ r.words[2] = q /\ r.words[3] = b /\ r.words[4] = n
        /\ r.values = WordBytes(c.values)
    BY <1>15, <2>0 DEF RequestOf, read_write_multiple_registers, Request,
        read_write_multiple_registers_pdu_req
  <2>2. ReplySize(c) = 2 + 2 * q /\ ReplySize(c) \in Nat /\ 2 <= ReplySize(c)
    BY <1>1, <1>15, SMTT(60) DEF ReplySize
  <2>3. m2 \in Memory
    <3> DEFINE v == BytesWords(WordBytes(c.values))
    <3>1. v \in Seq(U16)
      BY ONLY <1>1, WordsReadBack
    <3> HIDE DEF v
    <3>2. [m EXCEPT !.holding = Store(@, b, v)] \in Memory
      BY ONLY <1>1, <3>1, m \in Memory, WriteHolding
    <3> QED
      BY ONLY <3>2 DEF v
  <2>4. m2.holding \in [0 .. NRegs - 1 -> U16] /\ DOMAIN m2.holding = DOMAIN m.holding
    BY ONLY <1>4, <2>3 DEF Memory
  <2> HIDE DEF r, a, q, b, n
  <2>5. Serve(m, r) = IF Present(m.holding, a, q) /\ Present(m.holding, b, n)
                      THEN [mem |-> m2, pdu |-> WriteValues(23, WordBytes(Slice(m2.holding, a, q)))]
                      ELSE Refusal(m, r, modbus_exception_code.illegal_data_address)
    BY <2>1 DEF Serve
  <2> HIDE DEF m2
  <2>6. CASE Present(m.holding, a, q) /\ Present(m.holding, b, n)
    <3>1. Present(m2.holding, a, q)
      BY ONLY <2>4, <2>6 DEF Present
    <3> QED
      BY ONLY <1>1, <1>3, <1>15, <2>2, <2>3, <2>4, <2>5, <2>6, <3>1, RegsReply DEF r
  <2>7. CASE ~ (Present(m.holding, a, q) /\ Present(m.holding, b, n))
    BY ONLY <1>5, <1>15, <2>1, <2>2, <2>5, <2>7 DEF r
  <2> QED
    BY ONLY <2>6, <2>7
<1> QED
  BY ONLY <1>2, <1>7, <1>8, <1>9, <1>10, <1>11, <1>12, <1>13, <1>14, <1>15

--------------------------------------------------------------------------------
(* What a call hands back, whatever bytes arrived.                              *)

\* The bytes that an overload with span<byte> stores are words too.
LEMMA BytesAreWords ==
  ASSUME NEW s \in Seq(Byte)
  PROVE  s \in Seq(U16)
<1>1. \A i \in 1 .. Len(s) : s[i] \in U16
  BY DEF Byte, U16
<1> QED
  BY <1>1

\* An error of one byte, a count and the bytes stored.
IsReading(r) == r.ec \in Byte /\ r.byte_count \in Nat /\ r.values \in Seq(Byte)

\* A Reading made of well-typed parts.
LEMMA ReadingType ==
  ASSUME NEW ec \in Byte, NEW n \in Nat, NEW v \in Seq(Byte), NEW used
  PROVE  IsReading(Reading(ec, n, v, used))
  BY DEF IsReading, Reading

\* Whatever bytes arrive, read(pdu_resp) ends in an error code and bytes for the caller's span.
LEMMA ReadRespType ==
  ASSUME NEW fc, NEW size \in Nat, NEW s \in Seq(Byte)
  PROVE  IsReading(ReadResp(fc, size, s))
<1> USE DEF modbus_exception_code
<1>1. /\ modbus_exception_code.too_many_bytes_received \in Byte
      /\ modbus_exception_code.illegal_data_value \in Byte
      /\ modbus_exception_code.invalid_response \in Byte
      /\ modbus_exception_code.success \in Byte
  BY DEF Byte
<1>2. u8(size) \in Nat /\ <<>> \in Seq(Byte) /\ 0 \in Nat
  BY Casts DEF Byte
<1> HIDE DEF modbus_exception_code
<1>3. Len(s) >= 2 => s[2] \in Byte /\ s[2] \in Nat
  BY DEF Byte
<1>4. Drop(s, 2) \in Seq(Byte) /\ (Len(s) >= 2 + s[2] /\ Len(s) >= 2 => SubSeq(s, 3, 2 + s[2]) \in Seq(Byte))
  BY <1>3 DEF Drop
<1>5. ~ (Len(s) < 2) => s[2] \in Byte /\ s[2] \in Nat
  BY ONLY <1>3, s \in Seq(Byte)
<1>6. IsReading(ReadValues(size, s))
  <2>1. CASE Len(s) < 2
    BY ONLY <1>1, <1>2, <2>1, ReadingType DEF ReadValues
  <2>2. CASE ~ (Len(s) < 2) /\ s[2] > size
    <3>1. ReadValues(size, s) = Reading(modbus_exception_code.too_many_bytes_received, s[2], <<>>, 2)
      BY ONLY <2>2, Zenon DEF ReadValues
    <3> QED
      BY ONLY <1>1, <1>2, <1>5, <2>2, <3>1, ReadingType
  <2>3. CASE ~ (Len(s) < 2) /\ ~ (s[2] > size) /\ Len(s) < 2 + s[2]
    <3>1. ReadValues(size, s) = Reading(modbus_exception_code.too_many_bytes_received, s[2],
                                        Drop(s, 2), Len(s))
      BY ONLY <2>3, Zenon DEF ReadValues
    <3> QED
      BY ONLY <1>1, <1>4, <1>5, <2>3, <3>1, ReadingType
  <2>4. CASE ~ (Len(s) < 2) /\ ~ (s[2] > size) /\ ~ (Len(s) < 2 + s[2])
    <3>1. ReadValues(size, s) = Reading(modbus_exception_code.success, s[2],
                                        SubSeq(s, 3, 2 + s[2]), 2 + s[2])
      BY ONLY <2>4, Zenon DEF ReadValues
    <3>2. SubSeq(s, 3, 2 + s[2]) \in Seq(Byte)
      BY ONLY <1>4, <1>5, <2>4, s \in Seq(Byte)
    <3> QED
      BY ONLY <1>1, <1>5, <2>4, <3>1, <3>2, ReadingType
  <2> QED
    BY ONLY <2>1, <2>2, <2>3, <2>4
<1>7. IsReading(ReadEcho(RespClass(fc).kind, s))
  <2> DEFINE P == Len(s) < 5
             Q == RespClass(fc).kind = "onoff" /\ make_uint16(s[4], s[5]) \notin {0, 65280}
             A == Reading(modbus_exception_code.too_many_bytes_received, 0, <<>>, Len(s))
             B == Reading(modbus_exception_code.illegal_data_value, 0, <<>>, 5)
             C == Reading(modbus_exception_code.success, 0, <<>>, 5)
  <2>1. IsReading(A) /\ IsReading(B) /\ IsReading(C)
    BY ONLY <1>1, <1>2, ReadingType
  <2>2. ReadEcho(RespClass(fc).kind, s) = IF P THEN A ELSE IF Q THEN B ELSE C
    BY DEF ReadEcho
  <2> HIDE DEF P, Q, A, B, C
  <2> QED
    BY ONLY <2>1, <2>2
<1>8. CASE s = <<>>
  BY ONLY <1>1, <1>2, <1>8, ReadingType DEF ReadResp
<1>9. CASE s # <<>> /\ s[1] >= 128
  <2>1. CASE Len(s) < 2
    BY ONLY <1>1, <1>2, <1>9, <2>1, ReadingType DEF ReadResp
  <2>2. CASE ~ (Len(s) < 2)
    <3>1. ReadResp(fc, size, s) = Reading(s[2], u8(size), <<>>, 2)
      BY ONLY <1>9, <2>2, Zenon DEF ReadResp
    <3> QED
      BY ONLY <1>2, <1>5, <2>2, <3>1, ReadingType
  <2> QED
    BY ONLY <2>1, <2>2
<1>10. CASE s # <<>> /\ ~ (s[1] >= 128)
  BY ONLY <1>1, <1>2, <1>6, <1>10, <1>7, ReadingType DEF ReadResp
<1> QED
  BY ONLY <1>8, <1>9, <1>10

\* An outcome: an error of one byte, and words.
IsOutcome(o) == o.ec \in Byte /\ o.out \in Seq(U16) /\ o = [ec |-> o.ec, out |-> o.out]

\* Whatever read_response produced, the call returns an error code and words.
LEMMA ReturnType ==
  ASSUME NEW c \in Call, NEW r, IsReading(r)
  PROVE  IsOutcome(Return(c, r))
<1> DEFINE ec == IF r.ec = modbus_exception_code.success /\ SizeChecked(c.fc) /\ r.byte_count # c.size
                 THEN modbus_exception_code.invalid_response ELSE r.ec
           padded == [i \in 1 .. c.size |-> IF i <= Len(r.values) THEN r.values[i] ELSE 0]
           out == IF ~ c.words THEN r.values
                  ELSE IF ec # modbus_exception_code.success THEN <<>>
                  ELSE BytesWords(padded)
<1>1. c.size \in Nat /\ r.ec \in Byte /\ r.values \in Seq(Byte)
  BY DEF Call, IsReading
<1>2. modbus_exception_code.invalid_response \in Byte
  BY DEF modbus_exception_code, Byte
<1>3. ec \in Byte
  BY ONLY <1>1, <1>2
<1>4. \A i \in 1 .. c.size : (IF i <= Len(r.values) THEN r.values[i] ELSE 0) \in Byte
  BY <1>1 DEF Byte
<1>5. padded \in Seq(Byte)
  BY ONLY <1>1, <1>4
<1> HIDE DEF padded, ec
<1>6. BytesWords(padded) \in Seq(U16)
  BY ONLY <1>5, BytesWordsType
<1>7. r.values \in Seq(U16) /\ <<>> \in Seq(U16)
  BY ONLY <1>1, BytesAreWords
<1>8. out \in Seq(U16)
  BY ONLY <1>6, <1>7
<1>9. Return(c, r) = [ec |-> ec, out |-> out]
  BY DEF Return, ec, padded
<1> HIDE DEF out
<1> QED
  BY ONLY <1>3, <1>8, <1>9 DEF IsOutcome

\* A valid call leaves well-typed tables behind, and finds words in them.
LEMMA EffectType ==
  ASSUME NEW m \in Memory, NEW c \in Call, Documented(c)
  PROVE  Effect(m, c) \in Memory
<1> USE DEF function_code
<1>1. c.address \in Nat /\ c.waddress \in Nat /\ c.values \in Seq(U16)
  BY DEF Call, U16
<1>2. CASE c.fc \in {5, 15}
  <2>1. \A i \in 1 .. Len(c.values) : c.values[i] \in {0, 1}
    <3>1. c.fc = 5 => \A i \in 1 .. Len(c.values) : c.values[i] \in {0, 1}
      BY <1>1 DEF Documented
    <3>2. c.fc = 15 => \A i \in 1 .. Len(c.values) : c.values[i] \in {0, 1}
      BY <1>1 DEF Documented
    <3> QED
      BY ONLY <1>2, <3>1, <3>2
  <2> DEFINE v == c.values
  <2>2. v \in Seq({0, 1})
    BY ONLY <1>1, <2>1
  <2>3. Effect(m, c) = [m EXCEPT !.coils = Store(@, c.address, v)]
    BY <1>2 DEF Effect
  <2> HIDE DEF v
  <2> QED
    BY ONLY <1>1, <2>2, <2>3, m \in Memory, WriteCoils
<1>3. CASE c.fc \in {6, 16}
  <2>1. Effect(m, c) = [m EXCEPT !.holding = Store(@, c.address, c.values)]
    BY <1>3 DEF Effect
  <2> QED
    BY ONLY <1>1, <2>1, m \in Memory, WriteHolding
<1>4. CASE c.fc = 23
  <2>1. Effect(m, c) = [m EXCEPT !.holding = Store(@, c.waddress, c.values)]
    BY <1>4 DEF Effect
  <2> QED
    BY ONLY <1>1, <2>1, m \in Memory, WriteHolding
<1>5. CASE c.fc \notin {5, 6, 15, 16, 23}
  <2>1. Effect(m, c) = m
    BY <1>5 DEF Effect
  <2> QED
    BY ONLY <2>1, m \in Memory
<1> QED
  BY ONLY <1>2, <1>3, <1>4, <1>5

\* What a valid call is to return is a sequence of words.
LEMMA ContentType ==
  ASSUME NEW m \in Memory, NEW c \in Call, Documented(c), Valid(m, c)
  PROVE  Content(Effect(m, c), c) \in Seq(U16)
<1> DEFINE a == c.address
           q == c.size \div 2
           e == Effect(m, c)
<1> USE DEF function_code
<1>1. a \in Nat /\ q \in Nat /\ c.quantity \in Nat
  BY DEF Call, U16
<1>2. /\ e \in Memory
      /\ e.coils \in [0 .. NCoils - 1 -> {0, 1}] /\ e.inputs \in [0 .. NCoils - 1 -> {0, 1}]
      /\ e.holding \in [0 .. NRegs - 1 -> U16] /\ e.input \in [0 .. NRegs - 1 -> U16]
  <2>1. e \in Memory
    BY EffectType
  <2> HIDE DEF e
  <2> QED
    BY ONLY <2>1 DEF Memory
<1>3. /\ DOMAIN e.coils = DOMAIN m.coils /\ DOMAIN e.inputs = DOMAIN m.inputs
      /\ DOMAIN e.holding = DOMAIN m.holding /\ DOMAIN e.input = DOMAIN m.input
  <2> HIDE DEF e
  <2> QED
    BY ONLY <1>2, m \in Memory DEF Memory
<1>4. ASSUME NEW table \in [0 .. NCoils - 1 -> {0, 1}], Present(table, a, c.quantity)
      PROVE  Pack(Slice(table, a, c.quantity)) \in Seq(U16)
  <2> DEFINE s == Slice(table, a, c.quantity)
  <2>1. s \in Seq({0, 1})
    BY ONLY <1>1, <1>4, TableSizes, SliceType
  <2> HIDE DEF s
  <2>2. Pack(s) \in Seq(Byte)
    BY ONLY <2>1, PackType
  <2>3. Pack(s) \in Seq(U16)
    BY ONLY <2>2, BytesAreWords
  <2> QED
    BY ONLY <2>3 DEF s
<1> DEFINE Regs(table) == LET words == Slice(table, a, q)
                          IN  IF c.words THEN words ELSE WordBytes(words)
<1>5. ASSUME NEW table \in [0 .. NRegs - 1 -> U16], Present(table, a, q)
      PROVE  Regs(table) \in Seq(U16)
  <2> DEFINE s == Slice(table, a, q)
  <2>1. s \in Seq(U16)
    BY ONLY <1>1, <1>5, TableSizes, SliceType
  <2> HIDE DEF s
  <2>2. WordBytes(s) \in Seq(U16)
    <3>1. WordBytes(s) \in Seq(Byte)
      BY ONLY <2>1, WordBytesType
    <3> QED
      BY ONLY <3>1, BytesAreWords
  <2>3. (IF c.words THEN s ELSE WordBytes(s)) \in Seq(U16)
    BY ONLY <2>1, <2>2
  <2> QED
    BY ONLY <2>3 DEF s
<1>6. CASE c.fc = 1
  <2>1. Present(e.coils, a, c.quantity)
    BY <1>3, <1>6 DEF Valid, Present
  <2>2. Content(e, c) = Pack(Slice(e.coils, a, c.quantity))
    BY <1>6 DEF Content
  <2> HIDE DEF e
  <2> QED
    BY ONLY <1>2, <1>4, <2>1, <2>2 DEF e
<1>7. CASE c.fc = 2
  <2>1. Present(e.inputs, a, c.quantity)
    BY <1>3, <1>7 DEF Valid, Present
  <2>2. Content(e, c) = Pack(Slice(e.inputs, a, c.quantity))
    BY <1>7 DEF Content
  <2> HIDE DEF e
  <2> QED
    BY ONLY <1>2, <1>4, <2>1, <2>2 DEF e
<1>8. CASE c.fc \in {3, 23}
  <2>1. Present(e.holding, a, q)
    <3>1. Present(m.holding, a, q)
      <4>1. c.fc = 3 => Present(m.holding, a, q)
        BY DEF Valid
      <4>2. c.fc = 23 => Present(m.holding, a, q)
        BY DEF Valid
      <4> QED
        BY ONLY <1>8, <4>1, <4>2
    <3> HIDE DEF e
    <3> QED
      BY ONLY <1>3, <3>1 DEF Present
  <2>2. Content(e, c) = Regs(e.holding)
    BY <1>8 DEF Content
  <2> HIDE DEF e, Regs
  <2> QED
    BY ONLY <1>2, <1>5, <2>1, <2>2 DEF e
<1>9. CASE c.fc = 4
  <2>1. Present(e.input, a, q)
    BY <1>3, <1>9 DEF Valid, Present
  <2>2. Content(e, c) = Regs(e.input)
    BY <1>9 DEF Content
  <2> HIDE DEF e, Regs
  <2> QED
    BY ONLY <1>2, <1>5, <2>1, <2>2 DEF e
<1>10. CASE c.fc \notin {1, 2, 3, 4, 23}
  <2>1. Content(e, c) = <<>>
    BY <1>10 DEF Content
  <2> HIDE DEF e
  <2> QED
    BY ONLY <2>1 DEF e
<1> QED
  BY ONLY <1>6, <1>7, <1>8, <1>9, <1>10

\* The request of a call as bytes, and what the device reads from its frame.
LEMMA DocumentedBytes ==
  ASSUME NEW c \in Call, Documented(c)
  PROVE  /\ WriteReq(RequestOf(c)) \in Seq(Byte) /\ Len(WriteReq(RequestOf(c))) < 65535
         /\ ReadReq(WriteReq(RequestOf(c))).req = RequestOf(c)
         /\ RequestOf(c).fc \in Byte
<1> DEFINE r == RequestOf(c)
<1>1. c \in Call /\ Documented(c)
  OBVIOUS
<1>2. PICK l \in pdu_req : /\ l.fc = c.fc
                           /\ r = Request(l, r.words, r.byte_count, r.values)
                           /\ WellFormed(l, r.words, r.byte_count, r.values)
  BY ONLY <1>1, RequestOfWellFormed
<1> DEFINE w == r.words
           n == r.byte_count
           v == r.values
           s == WriteReq(Request(l, w, n, v))
<1> HIDE DEF r, w, n, v
<1>3. WellFormed(l, w, n, v) /\ r = Request(l, w, n, v)
  BY ONLY <1>2 DEF w, n, v
<1>4. /\ s \in Seq(Byte)
      /\ Len(s) = 1 + 2 * l.words + (IF l.unit = 0 THEN 0 ELSE 1 + n)
  BY ONLY <1>3, WriteReqParts
<1>5. l.words \in {2, 4} /\ l.fc \in Byte
  BY ONLY ReqClassFacts
<1>6. n \in Byte
  BY ONLY <1>3 DEF WellFormed
<1>7. ReadReq(s).req = r
  <2>1. ReadReq(s) = [ec |-> modbus_exception_code.success, kept |-> FALSE,
                      req |-> Request(l, w, n, v)]
    BY ONLY <1>3, RequestIsReadBack
  <2> QED
    BY ONLY <1>3, <2>1
<1>8. s = WriteReq(r)
  BY ONLY <1>3
<1>9. r.fc = l.fc
  BY ONLY <1>3 DEF Request
<1> HIDE DEF s
<1>10. Len(s) < 65535
  <2>1. n \in Nat /\ n < 256
    BY ONLY <1>6 DEF Byte
  <2> DEFINE t == IF l.unit = 0 THEN 0 ELSE 1 + n
             k == 2 * l.words
  <2>2. t \in Nat /\ t < 257
    BY ONLY <2>1
  <2>3. k \in Nat /\ k <= 8
    BY ONLY <1>5
  <2>4. Len(s) = 1 + k + t
    BY ONLY <1>4
  <2> HIDE DEF t, k
  <2> QED
    BY ONLY <2>2, <2>3, <2>4
<1> QED
  BY ONLY <1>4, <1>5, <1>7, <1>8, <1>9, <1>10 DEF r

\* The longest reply to a documented call leaves room for a unit id and a checksum.
LEMMA ReplySizeBound ==
  ASSUME NEW c \in Call, Documented(c)
  PROVE  ReplySize(c) \in Nat /\ 2 <= ReplySize(c) /\ ReplySize(c) <= 252
<1>1. c.quantity \in U16 /\ c.size \in Nat
  BY DEF Call
<1>2. c.fc = 1 => c.quantity <= 2000
  BY DEF Documented, function_code
<1>6. c.fc = 2 => c.quantity <= 2000
  BY DEF Documented, function_code
<1>3. c.fc = 3 => c.size \div 2 <= 125
  BY DEF Documented, function_code
<1>4. c.fc = 4 => c.size \div 2 <= 125
  BY DEF Documented, function_code
<1>5. c.fc = 23 => c.size \div 2 <= 125
  BY DEF Documented, function_code
<1> QED
  BY ONLY <1>1, <1>2, <1>3, <1>4, <1>5, <1>6 DEF ReplySize, function_code, U16

--------------------------------------------------------------------------------
\* No two classes of responses have the same function code.
LEMMA RespClassOf ==
  ASSUME NEW l \in pdu_resp
  PROVE  RespClass(l.fc) = l
<1> USE DEF pdu_resp, function_code, read_coils_pdu_resp, read_discrete_inputs_pdu_resp,
      read_holding_pdu_resp, read_input_pdu_resp, read_write_multiple_registers_pdu_resp,
      write_single_coil_pdu_resp, write_single_register_pdu_resp,
      write_multiple_coils_pdu_resp, write_multiple_registers_pdu_resp
<1>1. \A k \in pdu_resp : k.fc = l.fc => k = l
  OBVIOUS
<1> HIDE DEF pdu_resp
<1> QED
  BY <1>1 DEF RespClass

\* How the response to each function is laid out.
LEMMA RespKinds ==
  /\ \A fc \in {1, 2, 3, 4, 23} : RespClass(fc).kind = "values"
  /\ \A fc \in {5, 6} : RespClass(fc).kind = "onoff"
  /\ \A fc \in {15, 16} : RespClass(fc).kind = "echo"
<1> USE DEF pdu_resp, function_code, read_coils_pdu_resp, read_discrete_inputs_pdu_resp,
      read_holding_pdu_resp, read_input_pdu_resp, read_write_multiple_registers_pdu_resp,
      write_single_coil_pdu_resp, write_single_register_pdu_resp,
      write_multiple_coils_pdu_resp, write_multiple_registers_pdu_resp
<1>1. /\ \A fc \in {1, 2, 3, 4, 23} : \E l \in pdu_resp : l.fc = fc /\ l.kind = "values"
      /\ \A fc \in {5, 6} : \E l \in pdu_resp : l.fc = fc /\ l.kind = "onoff"
      /\ \A fc \in {15, 16} : \E l \in pdu_resp : l.fc = fc /\ l.kind = "echo"
  OBVIOUS
<1> HIDE DEF pdu_resp
<1> QED
  BY <1>1, RespClassOf

\* The bytes of a list response, and what read(X_pdu_resp) makes of what arrived of them.
LEMMA ListReadBack ==
  ASSUME NEW fc \in {1, 2, 3, 4, 23}, NEW v \in Seq(Byte), Len(v) < 256,
         NEW size \in Nat, Len(v) <= size, NEW s, Arrived(s, WriteValues(fc, v))
  PROVE  /\ Len(s) >= 2 + Len(v) =>
              ReadResp(fc, size, s) = Reading(modbus_exception_code.success, Len(v), v, 2 + Len(v))
         /\ Len(s) < 2 + Len(v) => ReadResp(fc, size, s).ec = modbus_exception_code.too_many_bytes_received
<1> DEFINE h == <<fc, u8(Len(v))>>
           p == WriteValues(fc, v)
           n == Len(v)
           TooMany == modbus_exception_code.too_many_bytes_received
<1>0. n \in Nat /\ n < 256 /\ n <= size /\ u8(n) = n /\ v \in Seq(Byte)
  BY Casts
<1>1. h \in Seq(Byte) /\ Len(h) = 2 /\ h[1] = fc /\ h[2] = n
  BY <1>0, Casts DEF Byte
<1>2. p = h \o v
  BY DEF WriteValues
<1> HIDE DEF h, p
<1>3. /\ p \in Seq(Byte) /\ Len(p) = Len(h) + Len(v)
      /\ \A i \in 1 .. Len(h) : p[i] = h[i]
      /\ \A i \in 1 .. Len(v) : p[i + Len(h)] = v[i]
  <2> DEFINE e == h \o v
  <2>1. /\ e \in Seq(Byte) /\ Len(e) = Len(h) + Len(v)
        /\ \A i \in 1 .. Len(h) : e[i] = h[i]
        /\ \A i \in 1 .. Len(v) : e[i + Len(h)] = v[i]
    BY ONLY <1>0, <1>1, ConcatAt, Zenon
  <2> QED
    BY ONLY <1>2, <2>1, Zenon
<1>s. PICK S : s \in Seq(S)
  BY DEF Arrived
<1>4. s \in Seq(S) /\ Len(s) \in Nat /\ \A k \in 1 .. 2 + n : k <= Len(s) => s[k] = p[k]
  BY <1>1, <1>3, <1>s DEF Arrived, p
<1>5. /\ Len(s) >= 1 => s[1] = fc
      /\ Len(s) >= 2 => s[2] = n
      /\ \A i \in 1 .. n : i + 2 <= Len(s) => s[i + 2] = v[i]
  <2>1. p[1] = fc /\ p[2] = n /\ \A i \in 1 .. n : p[i + 2] = v[i]
    BY ONLY <1>1, <1>3
  <2>2. 1 \in 1 .. 2 + n /\ 2 \in 1 .. 2 + n /\ \A i \in 1 .. n : i + 2 \in 1 .. 2 + n
    BY ONLY <1>0
  <2> QED
    BY ONLY <1>4, <2>1, <2>2
<1>6. fc < 128 /\ RespClass(fc).kind = "values"
  BY RespKinds
<1> DEFINE ec(r) == r.ec
<1>7. CASE Len(s) < 2
  <2>1. Len(s) < 2 + n /\ ~ (Len(s) >= 2 + n)
    BY ONLY <1>0, <1>4, <1>7
  <2>2. ReadValues(size, s) = Reading(TooMany, u8(size), <<>>, 1)
    BY ONLY <1>7 DEF ReadValues
  <2>3. s # <<>> => ~ (s[1] >= 128) /\ s[1] = fc
    BY ONLY <1>4, <1>5, <1>6, fc \in {1, 2, 3, 4, 23}
  <2>4. s # <<>> => ReadResp(fc, size, s) = Reading(TooMany, u8(size), <<>>, 1)
    BY ONLY <1>6, <2>2, <2>3, Zenon DEF ReadResp
  <2>5. s = <<>> => ReadResp(fc, size, s) = Reading(TooMany, u8(size), <<>>, 0)
    BY ONLY Zenon DEF ReadResp
  <2> QED
    BY ONLY <2>1, <2>4, <2>5 DEF Reading
<1>8. CASE ~ (Len(s) < 2)
  <2>1. s # <<>> /\ ~ (s[1] >= 128) /\ s[1] = fc /\ s[2] = n
    BY ONLY <1>4, <1>5, <1>6, <1>8, fc \in {1, 2, 3, 4, 23}
  <2>2. ReadResp(fc, size, s) = ReadValues(size, s)
    BY ONLY <1>6, <2>1, Zenon DEF ReadResp
  <2>3. ~ (s[2] > size)
    BY ONLY <1>0, <2>1, size \in Nat
  <2>4. CASE Len(s) < 2 + n
    <3>1. ReadValues(size, s) = Reading(TooMany, n, Drop(s, 2), Len(s))
      BY ONLY <1>8, <2>1, <2>3, <2>4, Zenon DEF ReadValues
    <3>2. ~ (Len(s) >= 2 + n)
      BY ONLY <1>0, <1>4, <2>4
    <3> QED
      BY ONLY <2>2, <3>1, <3>2, <2>4 DEF Reading
  <2>5. CASE ~ (Len(s) < 2 + n)
    <3>1. ReadValues(size, s) = Reading(modbus_exception_code.success, n, SubSeq(s, 3, 2 + n), 2 + n)
      BY ONLY <1>8, <2>1, <2>3, <2>5, Zenon DEF ReadValues
    <3>2. SubSeq(s, 3, 2 + n) = v
      BY ONLY <1>0, <1>4, <1>5, <2>5
    <3> QED
      BY ONLY <2>2, <2>5, <3>1, <3>2
  <2> QED
    BY ONLY <2>4, <2>5
<1> QED
  BY ONLY <1>7, <1>8

\* What read(X_pdu_resp) makes of what arrived of an echo.  The two classes that restrict the
\* value refuse it after they have read it.
LEMMA EchoReadBack ==
  ASSUME NEW fc \in {5, 6, 15, 16}, NEW a \in U16, NEW b \in U16, NEW size \in Nat,
         NEW s, Arrived(s, WriteEcho(fc, a, b))
  PROVE  /\ Len(s) >= 5 =>
              ReadResp(fc, size, s) =
                Reading(IF fc \in {5, 6} /\ b \notin {0, 65280}
                        THEN modbus_exception_code.illegal_data_value
                        ELSE modbus_exception_code.success, 0, <<>>, 5)
         /\ Len(s) < 5 => ReadResp(fc, size, s).ec = modbus_exception_code.too_many_bytes_received
<1> DEFINE w == <<a, b>>
           t == WordBytes(w)
           h == <<fc>>
           p == WriteEcho(fc, a, b)
           TooMany == modbus_exception_code.too_many_bytes_received
<1>1. w \in Seq(U16) /\ Len(w) = 2 /\ w[1] = a /\ w[2] = b
  OBVIOUS
<1>2. h \in Seq(Byte) /\ Len(h) = 1 /\ h[1] = fc
  BY DEF Byte
<1>3. p = h \o t
  BY DEF WriteEcho
<1> HIDE DEF w, h, p
<1>4. t \in Seq(Byte) /\ Len(t) = 4 /\ t[3] = b \div 256 /\ t[4] = b % 256
  <2>1. /\ WordBytes(w) \in Seq(Byte) /\ Len(WordBytes(w)) = 2 * Len(w)
        /\ \A i \in 1 .. Len(w) : /\ WordBytes(w)[2 * i - 1] = w[i] \div 256
                                  /\ WordBytes(w)[2 * i] = w[i] % 256
    BY ONLY <1>1, WordBytesType
  <2>2. 2 \in 1 .. Len(w)
    BY ONLY <1>1
  <2>3. WordBytes(w)[2 * 2 - 1] = w[2] \div 256 /\ WordBytes(w)[2 * 2] = w[2] % 256
    BY ONLY <2>1, <2>2
  <2> QED
    BY ONLY <1>1, <2>1, <2>3
<1> HIDE DEF t
<1>5. /\ p \in Seq(Byte) /\ Len(p) = Len(h) + Len(t)
      /\ \A i \in 1 .. Len(h) : p[i] = h[i]
      /\ \A i \in 1 .. Len(t) : p[i + Len(h)] = t[i]
  <2> DEFINE e == h \o t
  <2>0. h \in Seq(Byte) /\ t \in Seq(Byte)
    BY ONLY <1>2, <1>4
  <2>1. /\ e \in Seq(Byte) /\ Len(e) = Len(h) + Len(t)
        /\ \A i \in 1 .. Len(h) : e[i] = h[i]
        /\ \A i \in 1 .. Len(t) : e[i + Len(h)] = t[i]
    BY ONLY <2>0, ConcatAt
  <2> HIDE DEF e
  <2>2. p = e
    BY ONLY <1>3 DEF e
  <2> QED
    BY ONLY <2>1, <2>2, Zenon
<1>s. PICK S : s \in Seq(S)
  BY DEF Arrived
<1>6. s \in Seq(S) /\ Len(s) \in Nat /\ \A k \in 1 .. 5 : k <= Len(s) => s[k] = p[k]
  BY <1>2, <1>4, <1>5, <1>s DEF Arrived, p
<1>7. Len(p) = 5 /\ p[1] = fc /\ p[4] = b \div 256 /\ p[5] = b % 256
  <2>1. 1 \in 1 .. Len(h) /\ 3 \in 1 .. Len(t) /\ 4 \in 1 .. Len(t) /\ 3 + Len(h) = 4 /\ 4 + Len(h) = 5
    BY ONLY <1>2, <1>4
  <2> QED
    BY ONLY <1>2, <1>4, <1>5, <2>1
<1>8. fc < 128 /\ RespClass(fc).kind # "values"
      /\ (RespClass(fc).kind = "onoff" <=> fc \in {5, 6})
  BY RespKinds
<1>9. Len(s) >= 1 => s[1] = fc
  BY ONLY <1>6, <1>7
<1>10. s # <<>> => ReadResp(fc, size, s) = ReadEcho(RespClass(fc).kind, s)
  <2>1. s # <<>> => ~ (s[1] >= 128) /\ s[1] = fc
    BY ONLY <1>6, <1>8, <1>9, fc \in {5, 6, 15, 16}
  <2> QED
    BY ONLY <1>8, <2>1, Zenon DEF ReadResp
<1>11. CASE Len(s) < 5
  <2>1. ~ (Len(s) >= 5)
    BY ONLY <1>6, <1>11
  <2>2. ReadEcho(RespClass(fc).kind, s) = Reading(TooMany, 0, <<>>, Len(s))
    BY ONLY <1>11 DEF ReadEcho
  <2>3. s = <<>> => ReadResp(fc, size, s) = Reading(TooMany, u8(size), <<>>, 0)
    BY ONLY Zenon DEF ReadResp
  <2> QED
    BY ONLY <1>10, <2>1, <2>2, <2>3 DEF Reading
<1>12. CASE ~ (Len(s) < 5)
  <2>1. s # <<>> /\ s[4] = b \div 256 /\ s[5] = b % 256
    BY ONLY <1>6, <1>7, <1>12
  <2>2. make_uint16(s[4], s[5]) = b
    BY ONLY <2>1, b \in U16, WordParts
  <2> DEFINE Bad == fc \in {5, 6} /\ b \notin {0, 65280}
             ec == IF Bad THEN modbus_exception_code.illegal_data_value
                   ELSE modbus_exception_code.success
  <2>3. Bad <=> RespClass(fc).kind = "onoff" /\ make_uint16(s[4], s[5]) \notin {0, 65280}
    BY ONLY <1>8, <2>2
  <2> HIDE DEF Bad
  <2>4. CASE Bad
    <3>1. ReadEcho(RespClass(fc).kind, s) = Reading(modbus_exception_code.illegal_data_value, 0, <<>>, 5)
      BY ONLY <1>12, <2>3, <2>4 DEF ReadEcho
    <3>2. ReadResp(fc, size, s) = Reading(ec, 0, <<>>, 5)
      BY ONLY <1>10, <2>1, <2>4, <3>1
    <3> QED
      BY ONLY <1>12, <3>2 DEF Bad
  <2>5. CASE ~ Bad
    <3>1. ReadEcho(RespClass(fc).kind, s) = Reading(modbus_exception_code.success, 0, <<>>, 5)
      BY ONLY <1>12, <2>3, <2>5 DEF ReadEcho
    <3>2. ReadResp(fc, size, s) = Reading(ec, 0, <<>>, 5)
      BY ONLY <1>10, <2>1, <2>5, <3>1
    <3> QED
      BY ONLY <1>12, <3>2 DEF Bad
  <2> QED
    BY ONLY <2>4, <2>5
<1> QED
  BY ONLY <1>11, <1>12

\* What read(pdu_resp) makes of what arrived of an exception response, whatever was asked for.
LEMMA ExceptionReadBack ==
  ASSUME NEW fc \in Byte, NEW code \in Byte, NEW size \in Nat,
         NEW s, Arrived(s, WriteException(fc, code)), NEW asked
  PROVE  /\ Len(s) >= 2 => ReadResp(asked, size, s) = Reading(code, u8(size), <<>>, 2)
         /\ Len(s) < 2 => ReadResp(asked, size, s).ec = modbus_exception_code.too_many_bytes_received
<1> DEFINE p == WriteException(fc, code)
           TooMany == modbus_exception_code.too_many_bytes_received
<1>1. Len(p) = 2 /\ p[1] >= 128 /\ p[2] = code
  <2>1. code \in Nat /\ code < 256
    BY DEF Byte
  <2>2. u8(code) = code
    BY ONLY <2>1, Casts
  <2>3. (IF fc < 128 THEN fc + 128 ELSE fc) >= 128
    BY DEF Byte
  <2> QED
    BY ONLY <2>2, <2>3 DEF WriteException
<1> HIDE DEF p
<1>s. PICK S : s \in Seq(S)
  BY DEF Arrived
<1>2. s \in Seq(S) /\ Len(s) \in Nat /\ \A k \in 1 .. Len(p) : k <= Len(s) => s[k] = p[k]
  BY <1>s DEF Arrived, p
<1>3. (Len(s) >= 1 => s[1] >= 128) /\ (Len(s) >= 2 => s[2] = code)
  BY ONLY <1>1, <1>2
<1>4. s # <<>> <=> Len(s) >= 1
  BY ONLY <1>2
<1>5. CASE Len(s) < 2
  <2>1. ~ (Len(s) >= 2)
    BY ONLY <1>2, <1>5
  <2>2. s # <<>> => ReadResp(asked, size, s) = Reading(TooMany, u8(size), <<>>, 1)
    BY ONLY <1>3, <1>4, <1>5, Zenon DEF ReadResp
  <2>3. s = <<>> => ReadResp(asked, size, s) = Reading(TooMany, u8(size), <<>>, 0)
    BY ONLY Zenon DEF ReadResp
  <2> QED
    BY ONLY <2>1, <2>2, <2>3 DEF Reading
<1>6. CASE ~ (Len(s) < 2)
  <2>1. s # <<>> /\ s[1] >= 128 /\ s[2] = code
    BY ONLY <1>2, <1>3, <1>4, <1>6
  <2>2. ReadResp(asked, size, s) = Reading(s[2], u8(size), <<>>, 2)
    BY ONLY <1>6, <2>1, Zenon DEF ReadResp
  <2> QED
    BY ONLY <1>6, <2>1, <2>2
<1> QED
  BY ONLY <1>5, <1>6

--------------------------------------------------------------------------------
\* A sequence padded to its own length is itself.
LEMMA PaddedIsSame ==
  ASSUME NEW v \in Seq(Byte), NEW n, n = Len(v)
  PROVE  [i \in 1 .. n |-> IF i <= Len(v) THEN v[i] ELSE 0] = v
  OBVIOUS

\* The tail of a call that read a list which fills its span.
LEMMA ReturnList ==
  ASSUME NEW c \in Call, NEW v \in Seq(Byte), Len(v) = c.size, NEW used
  PROVE  Return(c, Reading(modbus_exception_code.success, Len(v), v, used)) =
           [ec |-> modbus_exception_code.success, out |-> IF c.words THEN BytesWords(v) ELSE v]
<1> DEFINE r == Reading(modbus_exception_code.success, Len(v), v, used)
           padded == [i \in 1 .. c.size |-> IF i <= Len(v) THEN v[i] ELSE 0]
<1>1. r.ec = modbus_exception_code.success /\ r.byte_count = c.size /\ r.values = v
  BY DEF Reading
<1>2. padded = v
  BY PaddedIsSame
<1> HIDE DEF r, padded
<1>3. Return(c, r) = [ec |-> modbus_exception_code.success,
                      out |-> IF ~ c.words THEN v ELSE BytesWords(padded)]
  BY ONLY <1>1, Zenon DEF Return, padded
<1>4. (IF ~ c.words THEN v ELSE BytesWords(padded)) = IF c.words THEN BytesWords(v) ELSE v
  BY ONLY <1>2, Zenon
<1>5. Return(c, r) = [ec |-> modbus_exception_code.success, out |-> IF c.words THEN BytesWords(v) ELSE v]
  BY ONLY <1>3, <1>4
<1> QED
  BY ONLY <1>5 DEF r

\* The tail of a call whose reader failed before it stored anything: the error is handed on.
LEMMA ReturnError ==
  ASSUME NEW c, NEW code, NEW n, NEW used, code # modbus_exception_code.success
  PROVE  Return(c, Reading(code, n, <<>>, used)) = [ec |-> code, out |-> <<>>]
<1> DEFINE r == Reading(code, n, <<>>, used)
<1>1. r.ec = code /\ r.values = <<>>
  BY DEF Reading
<1> HIDE DEF r
<1>2. Return(c, r) = [ec |-> code, out |-> <<>>]
  BY ONLY <1>1, code # modbus_exception_code.success, Zenon DEF Return
<1> QED
  BY ONLY <1>2 DEF r

\* The tail of a call that has no span: there is no size to compare, and nothing to convert.
LEMMA ReturnNothing ==
  ASSUME NEW c, NEW code, NEW n, NEW used, ~ SizeChecked(c.fc), ~ c.words
  PROVE  Return(c, Reading(code, n, <<>>, used)) = [ec |-> code, out |-> <<>>]
<1> DEFINE r == Reading(code, n, <<>>, used)
<1>1. r.ec = code /\ r.values = <<>>
  BY DEF Reading
<1> HIDE DEF r
<1>2. Return(c, r) = [ec |-> code, out |-> <<>>]
  BY ONLY <1>1, ~ SizeChecked(c.fc), ~ c.words, Zenon DEF Return
<1> QED
  BY ONLY <1>2 DEF r

--------------------------------------------------------------------------------
\* The device finds in the packed bytes the coils that the packing loop of write_multiple_coils
\* was given, in their order.
LEMMA CoilsReadBack ==
  ASSUME NEW v \in Seq(U16), Len(v) >= 1, \A k \in 1 .. Len(v) : v[k] \in {0, 1}
  PROVE  Unpack(PackCoils(v), Len(v)) = v
<1> DEFINE Coil(k) == IF k <= Len(v) THEN v[k] ELSE 0
           Sum(k) == Coil(k + 1) + 2 * Coil(k + 2) + 4 * Coil(k + 3) + 8 * Coil(k + 4)
                + 16 * Coil(k + 5) + 32 * Coil(k + 6) + 64 * Coil(k + 7) + 128 * Coil(k + 8)
           len == (Len(v) - 1) \div 8 + 1
           b == PackCoils(v)
<1>1. ASSUME NEW k \in Nat PROVE Coil(k + 1) \in {0, 1}
  OBVIOUS
<1>2. b = [i \in 1 .. len |-> u8(Sum(8 * (i - 1)))]
  BY DEF PackCoils
<1> HIDE DEF b
<1>3. ASSUME NEW k \in Nat
      PROVE  /\ u8(Sum(k)) = Sum(k)
             /\ \A j \in 1 .. 8 : (Sum(k) \div Weight[j]) % 2 = Coil(k + j)
  <2>1. /\ k + 1 \in Nat /\ k + 2 \in Nat /\ k + 3 \in Nat /\ k + 4 \in Nat
        /\ k + 5 \in Nat /\ k + 6 \in Nat /\ k + 7 \in Nat
        /\ k + 2 = (k + 1) + 1 /\ k + 3 = (k + 2) + 1 /\ k + 4 = (k + 3) + 1
        /\ k + 5 = (k + 4) + 1 /\ k + 6 = (k + 5) + 1 /\ k + 7 = (k + 6) + 1
        /\ k + 8 = (k + 7) + 1
    OBVIOUS
  <2> DEFINE x == Sum(k)
  <2>2. x = Sum(k)
    OBVIOUS
  <2> HIDE DEF Coil, x
  <2>3. /\ Coil(k + 1) \in {0, 1} /\ Coil(k + 2) \in {0, 1} /\ Coil(k + 3) \in {0, 1}
        /\ Coil(k + 4) \in {0, 1} /\ Coil(k + 5) \in {0, 1} /\ Coil(k + 6) \in {0, 1}
        /\ Coil(k + 7) \in {0, 1} /\ Coil(k + 8) \in {0, 1}
    BY ONLY <1>1, <1>3, <2>1
  <2>4. /\ x \in Nat /\ x < 256
        /\ (x \div 1) % 2 = Coil(k + 1) /\ (x \div 2) % 2 = Coil(k + 2)
        /\ (x \div 4) % 2 = Coil(k + 3) /\ (x \div 8) % 2 = Coil(k + 4)
        /\ (x \div 16) % 2 = Coil(k + 5) /\ (x \div 32) % 2 = Coil(k + 6)
        /\ (x \div 64) % 2 = Coil(k + 7) /\ (x \div 128) % 2 = Coil(k + 8)
    <3> DEFINE c1 == Coil(k + 1)
               c2 == Coil(k + 2)
               c3 == Coil(k + 3)
               c4 == Coil(k + 4)
               c5 == Coil(k + 5)
               c6 == Coil(k + 6)
               c7 == Coil(k + 7)
               c8 == Coil(k + 8)
    <3>1. /\ c1 \in 0 .. 1 /\ c2 \in 0 .. 1 /\ c3 \in 0 .. 1 /\ c4 \in 0 .. 1
          /\ c5 \in 0 .. 1 /\ c6 \in 0 .. 1 /\ c7 \in 0 .. 1 /\ c8 \in 0 .. 1
          /\ x = c1 + 2 * c2 + 4 * c3 + 8 * c4 + 16 * c5 + 32 * c6 + 64 * c7 + 128 * c8
      BY ONLY <2>2, <2>3
    <3> HIDE DEF c1, c2, c3, c4, c5, c6, c7, c8
    <3>2. /\ x \in Nat /\ x < 256
          /\ (x \div 1) % 2 = c1 /\ (x \div 2) % 2 = c2 /\ (x \div 4) % 2 = c3
          /\ (x \div 8) % 2 = c4 /\ (x \div 16) % 2 = c5 /\ (x \div 32) % 2 = c6
          /\ (x \div 64) % 2 = c7 /\ (x \div 128) % 2 = c8
      BY ONLY <3>1
    <3> QED
      BY ONLY <3>2 DEF c1, c2, c3, c4, c5, c6, c7, c8
  <2>5. u8(x) = x
    <3>1. x \in Nat /\ x < 256
      BY ONLY <2>4, Zenon
    <3> QED
      BY ONLY <3>1, Casts
  <2>6. ASSUME NEW j \in 1 .. 8 PROVE (x \div Weight[j]) % 2 = Coil(k + j)
    <3>1. j \in {1, 2, 3, 4, 5, 6, 7, 8}
      OBVIOUS
    <3>2. /\ Weight[1] = 1 /\ Weight[2] = 2 /\ Weight[3] = 4 /\ Weight[4] = 8
          /\ Weight[5] = 16 /\ Weight[6] = 32 /\ Weight[7] = 64 /\ Weight[8] = 128
      BY ONLY DEF Weight
    <3> HIDE DEF Coil, x
    <3>3. CASE j = 1
      <4>1. (x \div 1) % 2 = Coil(k + 1) /\ Weight[1] = 1
        BY ONLY <2>4, <3>2, Zenon
      <4> QED
        BY ONLY <3>3, <4>1, Zenon
    <3>4. CASE j = 2
      <4>1. (x \div 2) % 2 = Coil(k + 2) /\ Weight[2] = 2
        BY ONLY <2>4, <3>2, Zenon
      <4> QED
        BY ONLY <3>4, <4>1, Zenon
    <3>5. CASE j = 3
      <4>1. (x \div 4) % 2 = Coil(k + 3) /\ Weight[3] = 4
        BY ONLY <2>4, <3>2, Zenon
      <4> QED
        BY ONLY <3>5, <4>1, Zenon
    <3>6. CASE j = 4
      <4>1. (x \div 8) % 2 = Coil(k + 4) /\ Weight[4] = 8
        BY ONLY <2>4, <3>2, Zenon
      <4> QED
        BY ONLY <3>6, <4>1, Zenon
    <3>7. CASE j = 5
      <4>1. (x \div 16) % 2 = Coil(k + 5) /\ Weight[5] = 16
        BY ONLY <2>4, <3>2, Zenon
      <4> QED
        BY ONLY <3>7, <4>1, Zenon
    <3>8. CASE j = 6
      <4>1. (x \div 32) % 2 = Coil(k + 6) /\ Weight[6] = 32
        BY ONLY <2>4, <3>2, Zenon
      <4> QED
        BY ONLY <3>8, <4>1, Zenon
    <3>9. CASE j = 7
      <4>1. (x \div 64) % 2 = Coil(k + 7) /\ Weight[7] = 64
        BY ONLY <2>4, <3>2, Zenon
      <4> QED
        BY ONLY <3>9, <4>1, Zenon
    <3>10. CASE j = 8
      <4>1. (x \div 128) % 2 = Coil(k + 8) /\ Weight[8] = 128
        BY ONLY <2>4, <3>2, Zenon
      <4> QED
        BY ONLY <3>10, <4>1, Zenon
    <3> QED
      BY ONLY <3>1, <3>3, <3>4, <3>5, <3>6, <3>7, <3>8, <3>9, <3>10
  <2> QED
    BY ONLY <2>2, <2>5, <2>6
<1>4. ASSUME NEW k \in 1 .. Len(v) PROVE BitOf(b, k) = v[k]
  <2> DEFINE i == (k - 1) \div 8 + 1
             j == ((k - 1) % 8) + 1
             n == 8 * (i - 1)
  <2>1. i \in 1 .. len /\ j \in 1 .. 8 /\ n \in Nat /\ n + j = k
    OBVIOUS
  <2>2. k <= Len(v)
    OBVIOUS
  <2>3. BitOf(b, k) = (b[i] \div Weight[j]) % 2
    BY ONLY DEF BitOf
  <2> HIDE DEF i, j, len
  <2>4. b[i] = u8(Sum(n))
    BY ONLY <1>2, <2>1
  <2> HIDE DEF n, Sum
  <2>5. BitOf(b, k) = Coil(k)
    <3> HIDE DEF Coil
    <3> QED
      BY ONLY <1>3, <2>1, <2>3, <2>4
  <2> QED
    BY ONLY <2>2, <2>5
<1>5. Unpack(b, Len(v)) = [k \in 1 .. Len(v) |-> v[k]]
  BY ONLY <1>4 DEF Unpack
<1>6. [k \in 1 .. Len(v) |-> v[k]] = v
  OBVIOUS
<1> QED
  BY ONLY <1>5, <1>6 DEF b
--------------------------------------------------------------------------------
(* What the device does for a call, and what the call makes of the reply.       *)

\* The span of a read of bits is as long as the bits need.  The code's comparison of the count
\* with out.size() refuses the reply otherwise, although master.h asks for `at least'.
SpanIsSnug(c) ==
  c.fc \in {function_code.read_coils, function_code.read_discrete_inputs} =>
    c.size = (c.quantity - 1) \div 8 + 1

\* The value written to a register is one that the reader of the 0x06 response accepts.
EchoIsAccepted(c) == c.fc = function_code.write_single_register => c.values[1] \in {0, 65280}

\* A reply that carries out the call with a list of bytes: what the call is to return.
IsListReply(m, c, rep) ==
  \E v \in Seq(Byte) :
    /\ Len(v) < 256 /\ Len(v) <= c.size /\ (SpanIsSnug(c) => Len(v) = c.size)
    /\ rep.mem = Effect(m, c) /\ rep.pdu = WriteValues(c.fc, v)
    /\ Content(Effect(m, c), c) = IF c.words THEN BytesWords(v) ELSE v

\* A reply that carries out the call with the echo of two words.
IsEchoReply(m, c, rep) ==
  \E a, b \in U16 :
    /\ rep.mem = Effect(m, c) /\ rep.pdu = WriteEcho(c.fc, a, b)
    /\ c.fc = 5 => b \in {0, 65280}
    /\ c.fc = 6 => b = c.values[1]
    /\ Content(Effect(m, c), c) = <<>>

\* The reply to a valid read of coils or inputs.
LEMMA BitsMeaning ==
  ASSUME NEW m \in Memory, NEW c \in Call, Documented(c), c.fc \in {1, 2},
         NEW table \in [0 .. NCoils - 1 -> {0, 1}], Present(table, c.address, c.quantity),
         Effect(m, c) = m, Content(m, c) = Pack(Slice(table, c.address, c.quantity)), ~ c.words,
         NEW rep, rep = [mem |-> m, pdu |-> WriteValues(c.fc, Pack(Slice(table, c.address, c.quantity)))]
  PROVE  IsListReply(m, c, rep)
<1> DEFINE s == Slice(table, c.address, c.quantity)
           v == Pack(s)
           q == c.quantity
<1>1. c.address \in Nat /\ q \in Nat /\ c.size \in Nat
  BY DEF Call, U16
<1>2. 1 <= q /\ q <= 2000 /\ (q - 1) \div 8 + 1 <= c.size
  <2>1. c.fc = 1 => 1 <= q /\ q <= 2000 /\ (q - 1) \div 8 + 1 <= c.size
    BY DEF Documented, function_code
  <2>2. c.fc = 2 => 1 <= q /\ q <= 2000 /\ (q - 1) \div 8 + 1 <= c.size
    BY DEF Documented, function_code
  <2> QED
    BY ONLY <2>1, <2>2, c.fc \in {1, 2}
<1>3. s \in Seq({0, 1}) /\ Len(s) = q
  <2>1. PICK N \in Nat : N = NCoils
    BY TableSizes
  <2>2. PICK S : S = {0, 1}
    OBVIOUS
  <2>3. table \in [0 .. N - 1 -> S] /\ Present(table, c.address, q)
    BY ONLY <2>1, <2>2, table \in [0 .. NCoils - 1 -> {0, 1}], Present(table, c.address, c.quantity), Zenon
  <2>4. PICK a \in Nat, n \in Nat : a = c.address /\ n = c.quantity
    BY ONLY <1>1
  <2>5. Present(table, a, n)
    BY ONLY <2>3, <2>4, Zenon
  <2>6. Slice(table, a, n) \in Seq(S) /\ Len(Slice(table, a, n)) = n
    BY ONLY <2>3, <2>5, N \in Nat, a \in Nat, n \in Nat, SliceType
  <2> QED
    BY ONLY <2>2, <2>4, <2>6, Zenon
<1> HIDE DEF s
<1>4. v \in Seq(Byte) /\ Len(v) = (q + 7) \div 8
  BY ONLY <1>3, PackType
<1> HIDE DEF v
<1>5. SpanIsSnug(c) => c.size = (q - 1) \div 8 + 1
  BY DEF SpanIsSnug, function_code
<1> HIDE DEF q
<1>6. Len(v) < 256 /\ Len(v) <= c.size /\ (SpanIsSnug(c) => Len(v) = c.size)
  <2>1. (q + 7) \div 8 = (q - 1) \div 8 + 1 /\ (q - 1) \div 8 + 1 < 256
    BY ONLY <1>1, <1>2
  <2> QED
    BY ONLY <1>2, <1>4, <1>5, <2>1
<1>7. rep.mem = Effect(m, c) /\ rep.pdu = WriteValues(c.fc, v) /\ Content(Effect(m, c), c) = v
  BY DEF v, s
<1> QED
  BY ONLY <1>4, <1>6, <1>7, ~ c.words, Zenon DEF IsListReply

\* The reply to a valid read of registers, after the write that 0x17 makes before it.
LEMMA RegsMeaning ==
  ASSUME NEW m \in Memory, NEW c \in Call, Documented(c), c.fc \in {3, 4, 23},
         NEW table \in [0 .. NRegs - 1 -> U16], NEW q, q = c.size \div 2, Present(table, c.address, q),
         Content(Effect(m, c), c) = IF c.words THEN Slice(table, c.address, q)
                                    ELSE WordBytes(Slice(table, c.address, q)),
         NEW rep,
         rep = [mem |-> Effect(m, c), pdu |-> WriteValues(c.fc, WordBytes(Slice(table, c.address, q)))]
  PROVE  IsListReply(m, c, rep)
<1> DEFINE s == Slice(table, c.address, q)
           v == WordBytes(s)
<1>1. c.address \in Nat /\ q \in Nat /\ c.size \in Nat
  BY DEF Call, U16
<1>2. q <= 125 /\ c.size = 2 * q
  <2>1. c.size % 2 = 0 /\ c.size \div 2 <= 125
    <3>1. c.fc = 3 => c.size % 2 = 0 /\ c.size \div 2 <= 125
      BY DEF Documented, function_code
    <3>2. c.fc = 4 => c.size % 2 = 0 /\ c.size \div 2 <= 125
      BY DEF Documented, function_code
    <3>3. c.fc = 23 => c.size % 2 = 0 /\ c.size \div 2 <= 125
      BY DEF Documented, function_code
    <3> QED
      BY ONLY <3>1, <3>2, <3>3, c.fc \in {3, 4, 23}
  <2> QED
    BY ONLY <1>1, <2>1, q = c.size \div 2
<1>3. s \in Seq(U16) /\ Len(s) = q
  <2>1. PICK N \in Nat : N = NRegs
    BY TableSizes
  <2>2. table \in [0 .. N - 1 -> U16]
    BY ONLY <2>1, table \in [0 .. NRegs - 1 -> U16], Zenon
  <2> QED
    BY ONLY <1>1, <2>2, N \in Nat, Present(table, c.address, q), SliceType, SMTT(30)
<1> HIDE DEF s
<1>4. v \in Seq(Byte) /\ Len(v) = 2 * Len(s) /\ BytesWords(v) = s
  BY ONLY <1>3, WordBytesType, WordsReadBack
<1>5. rep.mem = Effect(m, c) /\ rep.pdu = WriteValues(c.fc, v)
      /\ Content(Effect(m, c), c) = IF c.words THEN s ELSE v
  BY DEF s
<1> HIDE DEF v
<1>6. Len(v) < 256 /\ Len(v) <= c.size /\ Len(v) = c.size
  BY ONLY <1>1, <1>2, <1>3, <1>4
<1> QED
  BY ONLY <1>4, <1>5, <1>6, Zenon DEF IsListReply

\* The device does for the request of a documented call what the call means, or refuses it.
LEMMA ServeMeaning ==
  ASSUME NEW m \in Memory, NEW c \in Call, Documented(c), NEW rep, rep = Serve(m, RequestOf(c))
  PROVE  /\ Valid(m, c) /\ c.fc \in {1, 2, 3, 4, 23} => IsListReply(m, c, rep)
         /\ Valid(m, c) /\ c.fc \in {5, 6, 15, 16} => IsEchoReply(m, c, rep)
         /\ ~ Valid(m, c) => /\ rep.mem = m
                             /\ rep.pdu = WriteException(c.fc, modbus_exception_code.illegal_data_address)
         /\ c.fc \in {1, 2, 3, 4, 5, 6, 15, 16, 23}
<1> DEFINE r == RequestOf(c)
           a == c.address
           q == c.size \div 2
           n == Len(c.values)
           Refused == [mem |-> m, pdu |-> WriteException(c.fc, modbus_exception_code.illegal_data_address)]
<1> USE DEF function_code
<1>1. /\ a \in U16 /\ c.quantity \in U16 /\ c.waddress \in U16
      /\ c.values \in Seq(U16) /\ c.size \in Nat /\ q \in Nat /\ c.fc \in {l.fc : l \in pdu_req}
      /\ a \in Nat /\ c.waddress \in Nat /\ c.quantity \in Nat /\ n \in Nat
  BY DEF Call, U16
<1>2. c.fc \in {1, 2, 3, 4, 5, 6, 15, 16, 23}
  BY <1>1 DEF pdu_req, read_coils_pdu_req, read_discrete_inputs_pdu_req,
      read_holding_pdu_req, read_input_pdu_req, write_single_coil_pdu_req,
      write_single_register_pdu_req, write_multiple_coils_pdu_req,
      write_multiple_registers_pdu_req, read_write_multiple_registers_pdu_req
<1>3. /\ m.coils \in [0 .. NCoils - 1 -> {0, 1}] /\ m.inputs \in [0 .. NCoils - 1 -> {0, 1}]
      /\ m.holding \in [0 .. NRegs - 1 -> U16] /\ m.input \in [0 .. NRegs - 1 -> U16]
  BY DEF Memory
<1>4. c.fc \in {3, 4, 23} => u16(q) = q
  <2>1. c.fc \in {3, 4, 23} => q <= 125
    <3>1. c.fc = 3 => q <= 125
      BY DEF Documented
    <3>2. c.fc = 4 => q <= 125
      BY DEF Documented
    <3>3. c.fc = 23 => q <= 125
      BY DEF Documented
    <3> QED
      BY ONLY <3>1, <3>2, <3>3
  <2> HIDE DEF q
  <2> QED
    BY ONLY <1>1, <2>1, Casts
<1>5. c.fc \in {15, 16, 23} => u16(n) = n /\ n >= 1
  <2>1. c.fc \in {15, 16, 23} => n <= 1968 /\ n >= 1
    <3>1. c.fc = 15 => n <= 1968 /\ n >= 1
      BY DEF Documented
    <3>2. c.fc = 16 => n <= 1968 /\ n >= 1
      BY DEF Documented
    <3>3. c.fc = 23 => n <= 1968 /\ n >= 1
      BY DEF Documented
    <3> QED
      BY ONLY <3>1, <3>2, <3>3
  <2> HIDE DEF n
  <2> QED
    BY ONLY <1>1, <2>1, Casts
<1>6. CASE c.fc = 1
  <2>1. r.fc = 1 /\ r.words[1] = a /\ r.words[2] = c.quantity /\ ~ c.words
    BY <1>6 DEF RequestOf, read_coils, Request, read_coils_pdu_req, Documented
  <2>2. /\ Valid(m, c) <=> Present(m.coils, a, c.quantity)
        /\ Effect(m, c) = m /\ Content(m, c) = Pack(Slice(m.coils, a, c.quantity))
    BY <1>6 DEF Valid, Effect, Content
  <2>3. rep = IF Present(m.coils, a, c.quantity)
              THEN [mem |-> m, pdu |-> WriteValues(1, Pack(Slice(m.coils, a, c.quantity)))]
              ELSE Refused
    <3> HIDE DEF r
    <3> QED
      BY <1>6, <2>1 DEF Serve, Refusal, r
  <2>4. Valid(m, c) => IsListReply(m, c, rep)
    <3> HIDE DEF a
    <3> QED
      BY ONLY <1>3, <1>6, <2>1, <2>2, <2>3, m \in Memory, c \in Call, Documented(c), BitsMeaning DEF a
  <2> QED
    BY ONLY <1>6, <2>2, <2>3, <2>4
<1>7. CASE c.fc = 2
  <2>1. r.fc = 2 /\ r.words[1] = a /\ r.words[2] = c.quantity /\ ~ c.words
    BY <1>7 DEF RequestOf, read_discrete_inputs, Request, read_discrete_inputs_pdu_req, Documented
  <2>2. /\ Valid(m, c) <=> Present(m.inputs, a, c.quantity)
        /\ Effect(m, c) = m /\ Content(m, c) = Pack(Slice(m.inputs, a, c.quantity))
    BY <1>7 DEF Valid, Effect, Content
  <2>3. rep = IF Present(m.inputs, a, c.quantity)
              THEN [mem |-> m, pdu |-> WriteValues(2, Pack(Slice(m.inputs, a, c.quantity)))]
              ELSE Refused
    <3> HIDE DEF r
    <3> QED
      BY <1>7, <2>1 DEF Serve, Refusal, r
  <2>4. Valid(m, c) => IsListReply(m, c, rep)
    <3> HIDE DEF a
    <3> QED
      BY ONLY <1>3, <1>7, <2>1, <2>2, <2>3, m \in Memory, c \in Call, Documented(c), BitsMeaning DEF a
  <2> QED
    BY ONLY <1>7, <2>2, <2>3, <2>4
<1>8. CASE c.fc = 3
  <2>1. r.fc = 3 /\ r.words[1] = a /\ r.words[2] = q
    BY <1>4, <1>8 DEF RequestOf, read_registers, Request, read_holding_pdu_req
  <2>2. /\ Valid(m, c) <=> Present(m.holding, a, q)
        /\ Effect(m, c) = m
        /\ Content(m, c) = IF c.words THEN Slice(m.holding, a, q) ELSE WordBytes(Slice(m.holding, a, q))
    BY <1>8 DEF Valid, Effect, Content
  <2>3. rep = IF Present(m.holding, a, q)
              THEN [mem |-> m, pdu |-> WriteValues(3, WordBytes(Slice(m.holding, a, q)))]
              ELSE Refused
    <3> HIDE DEF r, q
    <3> QED
      BY <1>8, <2>1 DEF Serve, Refusal, r
  <2>4. Valid(m, c) => IsListReply(m, c, rep)
    <3>1. q = c.size \div 2
      OBVIOUS
    <3> HIDE DEF a, q
    <3> QED
      BY ONLY <1>3, <1>8, <2>2, <2>3, <3>1, m \in Memory, c \in Call, Documented(c), RegsMeaning DEF a
  <2> QED
    BY ONLY <1>8, <2>2, <2>3, <2>4
<1>9. CASE c.fc = 4
  <2>1. r.fc = 4 /\ r.words[1] = a /\ r.words[2] = q
    BY <1>4, <1>9 DEF RequestOf, read_input_registers, Request, read_input_pdu_req
  <2>2. /\ Valid(m, c) <=> Present(m.input, a, q)
        /\ Effect(m, c) = m
        /\ Content(m, c) = IF c.words THEN Slice(m.input, a, q) ELSE WordBytes(Slice(m.input, a, q))
    BY <1>9 DEF Valid, Effect, Content
  <2>3. rep = IF Present(m.input, a, q)
              THEN [mem |-> m, pdu |-> WriteValues(4, WordBytes(Slice(m.input, a, q)))]
              ELSE Refused
    <3> HIDE DEF r, q
    <3> QED
      BY <1>9, <2>1 DEF Serve, Refusal, r
  <2>4. Valid(m, c) => IsListReply(m, c, rep)
    <3>1. q = c.size \div 2
      OBVIOUS
    <3> HIDE DEF a, q
    <3> QED
      BY ONLY <1>3, <1>9, <2>2, <2>3, <3>1, m \in Memory, c \in Call, Documented(c), RegsMeaning DEF a
  <2> QED
    BY ONLY <1>9, <2>2, <2>3, <2>4
<1>10. CASE c.fc = 5
  <2> DEFINE b == IF c.values[1] # 0 THEN 65280 ELSE 0
             bit == IF b = 65280 THEN 1 ELSE 0
  <2>1. r.fc = 5 /\ r.words[1] = a /\ r.words[2] = b
    BY <1>10 DEF RequestOf, write_single_coil, Request, write_single_coil_pdu_req
  <2>2. /\ Valid(m, c) <=> Present(m.coils, a, 1)
        /\ Effect(m, c) = [m EXCEPT !.coils = Store(@, a, c.values)]
        /\ Content(Effect(m, c), c) = <<>>
    BY <1>10 DEF Valid, Effect, Content
  <2>3. <<bit>> = c.values
    <3>1. Len(c.values) = 1 /\ c.values[1] \in {0, 1}
      BY <1>10 DEF Documented
    <3>2. bit = c.values[1]
      BY ONLY <3>1
    <3> HIDE DEF bit
    <3> QED
      BY ONLY <1>1, <3>1, <3>2
  <2>4. b \in U16 /\ b \in {0, 65280}
    BY DEF U16
  <2> HIDE DEF r, b, a
  <2>5. rep = IF Present(m.coils, a, 1)
              THEN [mem |-> [m EXCEPT !.coils = Store(@, a, <<bit>>)], pdu |-> WriteEcho(5, a, b)]
              ELSE Refused
    BY <1>10, <2>1 DEF Serve, Refusal, r
  <2> HIDE DEF bit
  <2>6. Present(m.coils, a, 1) => rep = [mem |-> Effect(m, c), pdu |-> WriteEcho(5, a, b)]
    BY ONLY <2>2, <2>3, <2>5
  <2>7. Valid(m, c) => IsEchoReply(m, c, rep)
    BY ONLY <1>1, <1>10, <2>2, <2>4, <2>6 DEF IsEchoReply
  <2> QED
    BY ONLY <1>10, <2>2, <2>5, <2>7
<1>11. CASE c.fc = 6
  <2> DEFINE b == c.values[1]
  <2>1. r.fc = 6 /\ r.words[1] = a /\ r.words[2] = b
    BY <1>11 DEF RequestOf, write_single_register, Request, write_single_register_pdu_req
  <2>2. /\ Valid(m, c) <=> Present(m.holding, a, 1)
        /\ Effect(m, c) = [m EXCEPT !.holding = Store(@, a, c.values)]
        /\ Content(Effect(m, c), c) = <<>>
    BY <1>11 DEF Valid, Effect, Content
  <2>3. <<b>> = c.values /\ b \in U16 /\ b = c.values[1]
    <3>1. Len(c.values) = 1
      BY <1>11 DEF Documented
    <3> QED
      BY ONLY <1>1, <3>1
  <2> HIDE DEF r, b, a
  <2>5. rep = IF Present(m.holding, a, 1)
              THEN [mem |-> [m EXCEPT !.holding = Store(@, a, <<b>>)], pdu |-> WriteEcho(6, a, b)]
              ELSE Refused
    BY <1>11, <2>1 DEF Serve, Refusal, r
  <2>6. Present(m.holding, a, 1) => rep = [mem |-> Effect(m, c), pdu |-> WriteEcho(6, a, b)]
    BY ONLY <2>2, <2>3, <2>5
  <2>7. Valid(m, c) => IsEchoReply(m, c, rep)
    BY ONLY <1>1, <1>11, <2>2, <2>3, <2>6 DEF IsEchoReply
  <2> QED
    BY ONLY <1>11, <2>2, <2>5, <2>7
<1>12. CASE c.fc = 15
  <2> DEFINE v == PackCoils(c.values)
             u == Unpack(v, n)
  <2>1. r.fc = 15 /\ r.words[1] = a /\ r.words[2] = n /\ r.values = v
    <3>1. r = write_multiple_coils(c)
      BY <1>12 DEF RequestOf
    <3>2. write_multiple_coils(c).words = <<a, n>> /\ write_multiple_coils(c).values = v
          /\ write_multiple_coils(c).fc = 15
      BY <1>5, <1>12 DEF write_multiple_coils, Request, write_multiple_coils_pdu_req
    <3> QED
      BY ONLY <3>1, <3>2
  <2>2. /\ Valid(m, c) <=> Present(m.coils, a, n)
        /\ Effect(m, c) = [m EXCEPT !.coils = Store(@, a, c.values)]
        /\ Content(Effect(m, c), c) = <<>>
    BY <1>12 DEF Valid, Effect, Content
  <2>3. u = c.values
    <3>1. \A i \in 1 .. n : c.values[i] \in {0, 1}
      BY <1>12 DEF Documented
    <3>2. n >= 1
      BY ONLY <1>5, <1>12
    <3> DEFINE w == c.values
    <3>3. w \in Seq(U16) /\ Len(w) >= 1 /\ \A i \in 1 .. Len(w) : w[i] \in {0, 1}
      BY ONLY <1>1, <3>1, <3>2
    <3> HIDE DEF w
    <3>4. Unpack(PackCoils(w), Len(w)) = w
      BY ONLY <3>3, CoilsReadBack
    <3> QED
      BY ONLY <3>4 DEF w
  <2>4. n \in U16
    BY ONLY <1>1, <1>5, <1>12, Casts
  <2> HIDE DEF r, v, n, a
  <2>5. rep = IF Present(m.coils, a, n)
              THEN [mem |-> [m EXCEPT !.coils = Store(@, a, u)], pdu |-> WriteEcho(15, a, n)]
              ELSE Refused
    BY <1>12, <2>1 DEF Serve, Refusal, r
  <2> HIDE DEF u
  <2>6. Present(m.coils, a, n) => rep = [mem |-> Effect(m, c), pdu |-> WriteEcho(15, a, n)]
    BY ONLY <2>2, <2>3, <2>5
  <2>7. Valid(m, c) => IsEchoReply(m, c, rep)
    BY ONLY <1>1, <1>12, <2>2, <2>4, <2>6 DEF IsEchoReply
  <2> QED
    BY ONLY <1>12, <2>2, <2>5, <2>7
<1>13. CASE c.fc = 16
  <2> DEFINE v == WordBytes(c.values)
             u == BytesWords(v)
  <2>1. r.fc = 16 /\ r.words[1] = a /\ r.words[2] = n /\ r.values = v
    BY <1>5, <1>13 DEF RequestOf, write_multiple_registers, Request, write_multiple_registers_pdu_req
  <2>2. /\ Valid(m, c) <=> Present(m.holding, a, n)
        /\ Effect(m, c) = [m EXCEPT !.holding = Store(@, a, c.values)]
        /\ Content(Effect(m, c), c) = <<>>
    BY <1>13 DEF Valid, Effect, Content
  <2>3. u = c.values
    BY ONLY <1>1, WordsReadBack
  <2>4. n \in U16
    BY ONLY <1>1, <1>5, <1>13, Casts
  <2> HIDE DEF r, v, n, a
  <2>5. rep = IF Present(m.holding, a, n)
              THEN [mem |-> [m EXCEPT !.holding = Store(@, a, u)], pdu |-> WriteEcho(16, a, n)]
              ELSE Refused
    BY <1>13, <2>1 DEF Serve, Refusal, r
  <2> HIDE DEF u
  <2>6. Present(m.holding, a, n) => rep = [mem |-> Effect(m, c), pdu |-> WriteEcho(16, a, n)]
    BY ONLY <2>2, <2>3, <2>5
  <2>7. Valid(m, c) => IsEchoReply(m, c, rep)
    BY ONLY <1>1, <1>13, <2>2, <2>4, <2>6 DEF IsEchoReply
  <2> QED
    BY ONLY <1>13, <2>2, <2>5, <2>7
<1>14. CASE c.fc = 23
  <2> DEFINE b == c.waddress
             v == WordBytes(c.values)
             u == BytesWords(v)
             m2 == [m EXCEPT !.holding = Store(@, b, u)]
  <2>1. r.fc = 23 /\ r.words[1] = a /\ r.words[2] = q /\ r.words[3] = b /\ r.words[4] = n
        /\ r.values = v
    BY <1>4, <1>5, <1>14 DEF RequestOf, read_write_multiple_registers, Request,
        read_write_multiple_registers_pdu_req
  <2>2. u = c.values
    BY ONLY <1>1, WordsReadBack
  <2>3. /\ Valid(m, c) <=> Present(m.holding, a, q) /\ Present(m.holding, b, n)
        /\ Effect(m, c) = m2
        /\ Content(m2, c) = IF c.words THEN Slice(m2.holding, a, q) ELSE WordBytes(Slice(m2.holding, a, q))
    <3>1. Effect(m, c) = [m EXCEPT !.holding = Store(@, b, c.values)]
      BY <1>14 DEF Effect
    <3>2. Effect(m, c) = m2
      <4> HIDE DEF u
      <4> QED
        BY ONLY <2>2, <3>1
    <3>3. Valid(m, c) <=> Present(m.holding, a, q) /\ Present(m.holding, b, n)
      BY <1>14 DEF Valid
    <3> HIDE DEF m2
    <3>4. Content(m2, c) = IF c.words THEN Slice(m2.holding, a, q) ELSE WordBytes(Slice(m2.holding, a, q))
      BY <1>14 DEF Content
    <3> QED
      BY ONLY <3>2, <3>3, <3>4
  <2>4. m2.holding \in [0 .. NRegs - 1 -> U16] /\ DOMAIN m2.holding = DOMAIN m.holding
    <3>1. m2 \in Memory
      <4> HIDE DEF m2
      <4> QED
        BY ONLY <2>3, m \in Memory, c \in Call, Documented(c), EffectType
    <3> HIDE DEF m2
    <3> QED
      BY ONLY <1>3, <3>1 DEF Memory
  <2> HIDE DEF r, v, u
  <2>5. rep = IF Present(m.holding, a, q) /\ Present(m.holding, b, n)
              THEN [mem |-> m2, pdu |-> WriteValues(23, WordBytes(Slice(m2.holding, a, q)))]
              ELSE Refused
    <3> HIDE DEF a, b, q, n
    <3> QED
      BY <1>14, <2>1 DEF Serve, Refusal, r, u
  <2> HIDE DEF m2
  <2>6. Valid(m, c) => IsListReply(m, c, rep)
    <3>1. q = c.size \div 2
      OBVIOUS
    <3> HIDE DEF a, q, b, n
    <3>2. Valid(m, c) => Present(m2.holding, a, q)
      BY ONLY <2>3, <2>4 DEF Present
    <3>3. /\ Content(Effect(m, c), c) = IF c.words THEN Slice(m2.holding, a, q)
                                        ELSE WordBytes(Slice(m2.holding, a, q))
          /\ Valid(m, c) => rep = [mem |-> Effect(m, c),
                                   pdu |-> WriteValues(c.fc, WordBytes(Slice(m2.holding, a, q)))]
      BY ONLY <1>14, <2>3, <2>5
    <3> QED
      BY ONLY <1>14, <2>4, <3>1, <3>2, <3>3, m \in Memory, c \in Call, Documented(c), RegsMeaning DEF a
  <2> QED
    BY ONLY <1>14, <2>3, <2>5, <2>6
<1> QED
  BY ONLY <1>2, <1>6, <1>7, <1>8, <1>9, <1>10, <1>11, <1>12, <1>13, <1>14

--------------------------------------------------------------------------------
\* What the call is to return, if the device takes it up in the memory m.
Outcome(m, c) ==
  IF Valid(m, c)
  THEN [ec |-> modbus_exception_code.success, out |-> Content(Effect(m, c), c)]
  ELSE [ec |-> modbus_exception_code.illegal_data_address, out |-> <<>>]

\* The reading r once the result of the checksum has replaced its error, as over a serial line.
Overridden(r) == [r EXCEPT !.ec = modbus_exception_code.success]

\* A write has no span.
LEMMA WritesStoreNothing ==
  ASSUME NEW c \in Call, Documented(c), c.fc \in {5, 6, 15, 16}
  PROVE  ~ SizeChecked(c.fc) /\ ~ c.words /\ c.size = 0
<1> USE DEF function_code
<1>1. c.fc = 5 => ~ c.words /\ c.size = 0
  BY DEF Documented
<1>2. c.fc = 6 => ~ c.words /\ c.size = 0
  BY DEF Documented
<1>3. c.fc = 15 => ~ c.words /\ c.size = 0
  BY DEF Documented
<1>4. c.fc = 16 => ~ c.words /\ c.size = 0
  BY DEF Documented
<1>5. ~ SizeChecked(c.fc)
  BY DEF SizeChecked
<1> QED
  BY ONLY <1>1, <1>2, <1>3, <1>4, <1>5, c.fc \in {5, 6, 15, 16}

\* An error of the reader is an error of the call.
LEMMA ErrorIsKept ==
  ASSUME NEW c, NEW r, r.ec # modbus_exception_code.success
  PROVE  Return(c, r).ec = r.ec
  BY Zenon DEF Return

\* A list of another length than the span is refused by the comparison with out.size().
LEMMA ReturnOther ==
  ASSUME NEW c \in Call, SizeChecked(c.fc), NEW v, Len(v) # c.size, NEW n
  PROVE  Return(c, Reading(modbus_exception_code.success, Len(v), v, n)).ec =
           modbus_exception_code.invalid_response
  BY Zenon DEF Return, Reading

\* Whatever the documented call and the tables of the device: the device acts as the call says
\* or refuses it, and a call that finds the whole reply, whatever bytes follow it, consumes just
\* the reply and returns what the device did, unless it returns one of the two errors of its own,
\* for a span that is too long or a register's value; a call that finds less of it gets an error.
\* Over a serial line, where the checksum overrides the reader's error, a valid call returns the
\* same.
THEOREM ReplyIsReadBack ==
  ASSUME NEW m \in Memory, NEW c \in Call, Documented(c),
         NEW p, p = Serve(m, RequestOf(c)).pdu, NEW s, Arrived(s, p),
         NEW r, r = ReadResp(c.fc, c.size, s)
  PROVE  /\ Serve(m, RequestOf(c)).mem = IF Valid(m, c) THEN Effect(m, c) ELSE m
         /\ Len(s) >= Len(p) => r.used = Len(p)
         /\ Len(s) >= Len(p) /\ SpanIsSnug(c) /\ EchoIsAccepted(c) => Return(c, r) = Outcome(m, c)
         /\ Len(s) >= Len(p) /\ SpanIsSnug(c) /\ Valid(m, c) =>
              Return(c, Overridden(r)) = Outcome(m, c)
         /\ Len(s) >= Len(p) /\ Return(c, r).ec = modbus_exception_code.success =>
              Return(c, r) = Outcome(m, c)
         /\ Len(s) >= Len(p) /\ Valid(m, c)
              /\ Return(c, Overridden(r)).ec = modbus_exception_code.success =>
              Return(c, Overridden(r)) = Outcome(m, c)
         /\ Len(s) < Len(p) => r.ec # modbus_exception_code.success
<1> DEFINE rep == Serve(m, RequestOf(c))
           OK == modbus_exception_code.success
           Bad == modbus_exception_code.illegal_data_address
<1>1. /\ Valid(m, c) /\ c.fc \in {1, 2, 3, 4, 23} => IsListReply(m, c, rep)
      /\ Valid(m, c) /\ c.fc \in {5, 6, 15, 16} => IsEchoReply(m, c, rep)
      /\ ~ Valid(m, c) => rep.mem = m /\ rep.pdu = WriteException(c.fc, Bad)
      /\ c.fc \in {1, 2, 3, 4, 5, 6, 15, 16, 23}
  BY ONLY m \in Memory, c \in Call, Documented(c), ServeMeaning
<1>2. p = rep.pdu
  OBVIOUS
<1> HIDE DEF rep
<1>s. PICK S : s \in Seq(S)
  BY DEF Arrived
<1>3. /\ c.size \in Nat /\ c.fc \in Byte /\ Bad \in Byte /\ Bad # OK /\ OK = 0
      /\ modbus_exception_code.too_many_bytes_received # OK
      /\ Len(s) \in Nat
  <2>1. c.size \in Nat
    BY DEF Call
  <2>2. c.fc \in Byte
    BY ONLY <1>1 DEF Byte
  <2>3. /\ Bad \in Byte /\ Bad # OK /\ OK = 0
        /\ modbus_exception_code.too_many_bytes_received # OK
    BY ONLY DEF Byte, modbus_exception_code
  <2>4. Len(s) \in Nat
    BY ONLY <1>s
  <2> QED
    BY ONLY <2>1, <2>2, <2>3, <2>4, Zenon
<1>4. CASE Valid(m, c) /\ c.fc \in {1, 2, 3, 4, 23}
  <2>1. PICK v \in Seq(Byte) :
          /\ Len(v) < 256 /\ Len(v) <= c.size /\ (SpanIsSnug(c) => Len(v) = c.size)
          /\ rep.mem = Effect(m, c) /\ rep.pdu = WriteValues(c.fc, v)
          /\ Content(Effect(m, c), c) = IF c.words THEN BytesWords(v) ELSE v
    BY ONLY <1>1, <1>4 DEF IsListReply
  <2>2. /\ p = WriteValues(c.fc, v)
        /\ Outcome(m, c) = [ec |-> OK, out |-> IF c.words THEN BytesWords(v) ELSE v]
    BY <1>2, <1>4, <2>1 DEF Outcome
  <2>3. Len(p) = 2 + Len(v)
    BY ONLY <1>3, <2>2, WriteValuesType
  <2>4. /\ Len(s) >= 2 + Len(v) => r = Reading(OK, Len(v), v, 2 + Len(v))
        /\ Len(s) < 2 + Len(v) => r.ec = modbus_exception_code.too_many_bytes_received
    BY ONLY <1>3, <1>4, <2>1, <2>2, Arrived(s, p), r = ReadResp(c.fc, c.size, s), ListReadBack
  <2>5. Len(v) = c.size => Return(c, Reading(OK, Len(v), v, 2 + Len(v))) = Outcome(m, c)
    BY ONLY <2>2, c \in Call, ReturnList
  <2>8. SizeChecked(c.fc) \/ SpanIsSnug(c)
    BY ONLY <1>4 DEF SizeChecked, SpanIsSnug, function_code
  <2>9. Return(c, Reading(OK, Len(v), v, 2 + Len(v))).ec = OK => Len(v) = c.size
    <3>1. modbus_exception_code.invalid_response # OK
      BY ONLY DEF modbus_exception_code
    <3>2. SpanIsSnug(c) => Len(v) = c.size
      BY ONLY <2>1
    <3>3. SizeChecked(c.fc) /\ Len(v) # c.size =>
            Return(c, Reading(OK, Len(v), v, 2 + Len(v))).ec = modbus_exception_code.invalid_response
      BY ONLY c \in Call, ReturnOther
    <3> QED
      BY ONLY <2>8, <3>1, <3>2, <3>3
  <2>6. Reading(OK, Len(v), v, 2 + Len(v)).used = 2 + Len(v)
        /\ Overridden(Reading(OK, Len(v), v, 2 + Len(v))) = Reading(OK, Len(v), v, 2 + Len(v))
    BY ONLY DEF Reading, Overridden
  <2>7. rep.mem = IF Valid(m, c) THEN Effect(m, c) ELSE m
    BY ONLY <1>4, <2>1
  <2> QED
    BY ONLY <1>3, <2>1, <2>3, <2>4, <2>5, <2>6, <2>7, <2>9 DEF rep
<1>5. CASE Valid(m, c) /\ c.fc \in {5, 6, 15, 16}
  <2>1. PICK a, b \in U16 :
          /\ rep.mem = Effect(m, c) /\ rep.pdu = WriteEcho(c.fc, a, b)
          /\ c.fc = 5 => b \in {0, 65280}
          /\ c.fc = 6 => b = c.values[1]
          /\ Content(Effect(m, c), c) = <<>>
    BY ONLY <1>1, <1>5 DEF IsEchoReply
  <2>2. p = WriteEcho(c.fc, a, b) /\ Outcome(m, c) = [ec |-> OK, out |-> <<>>]
    BY <1>2, <1>5, <2>1 DEF Outcome
  <2>3. Len(p) = 5
    BY ONLY <1>3, <2>1, <2>2, WriteEchoType
  <2> DEFINE ec == IF c.fc \in {5, 6} /\ b \notin {0, 65280}
                   THEN modbus_exception_code.illegal_data_value ELSE OK
  <2>4. /\ Len(s) >= 5 => r = Reading(ec, 0, <<>>, 5)
        /\ Len(s) < 5 => r.ec = modbus_exception_code.too_many_bytes_received
    BY ONLY <1>3, <1>5, <2>1, <2>2, Arrived(s, p), r = ReadResp(c.fc, c.size, s), EchoReadBack
  <2>5. EchoIsAccepted(c) => ec = OK
    BY ONLY <2>1 DEF EchoIsAccepted, function_code
  <2> HIDE DEF ec
  <2>6. Return(c, Reading(OK, 0, <<>>, 5)) = Outcome(m, c)
    <3>1. ~ SizeChecked(c.fc) /\ ~ c.words
      BY ONLY <1>5, c \in Call, Documented(c), WritesStoreNothing
    <3>2. Return(c, Reading(OK, 0, <<>>, 5)) = [ec |-> OK, out |-> <<>>]
      BY ONLY <3>1, ReturnNothing
    <3> QED
      BY ONLY <2>2, <3>2
  <2>7. Reading(ec, 0, <<>>, 5).used = 5
        /\ Overridden(Reading(ec, 0, <<>>, 5)) = Reading(OK, 0, <<>>, 5)
    BY ONLY DEF Reading, Overridden
  <2>8. rep.mem = IF Valid(m, c) THEN Effect(m, c) ELSE m
    BY ONLY <1>5, <2>1
  <2>9. Return(c, Reading(ec, 0, <<>>, 5)).ec = OK => ec = OK
    <3>1. Reading(ec, 0, <<>>, 5).ec = ec
      BY ONLY DEF Reading
    <3> QED
      BY ONLY <3>1, ErrorIsKept
  <2> QED
    BY ONLY <1>3, <2>3, <2>4, <2>5, <2>6, <2>7, <2>8, <2>9 DEF rep
<1>6. CASE ~ Valid(m, c)
  <2>1. p = WriteException(c.fc, Bad) /\ Outcome(m, c) = [ec |-> Bad, out |-> <<>>] /\ rep.mem = m
    BY <1>1, <1>2, <1>6 DEF Outcome
  <2>2. Len(p) = 2
    <3>1. Bad \in Nat
      BY ONLY <1>3 DEF Byte
    <3> QED
      BY ONLY <1>3, <2>1, <3>1, WriteExceptionType
  <2>3. /\ Len(s) >= 2 => r = Reading(Bad, u8(c.size), <<>>, 2)
        /\ Len(s) < 2 => r.ec = modbus_exception_code.too_many_bytes_received
    BY ONLY <1>3, <2>1, Arrived(s, p), r = ReadResp(c.fc, c.size, s), ExceptionReadBack
  <2>4. Return(c, Reading(Bad, u8(c.size), <<>>, 2)) = Outcome(m, c)
    <3>1. Return(c, Reading(Bad, u8(c.size), <<>>, 2)) = [ec |-> Bad, out |-> <<>>]
      BY ONLY <1>3, ReturnError
    <3> QED
      BY ONLY <2>1, <3>1
  <2>5. Reading(Bad, u8(c.size), <<>>, 2).used = 2
    BY ONLY DEF Reading
  <2> QED
    BY ONLY <1>3, <1>6, <2>1, <2>2, <2>3, <2>4, <2>5 DEF rep
<1> QED
  BY ONLY <1>1, <1>4, <1>5, <1>6

\* A refusal reaches the application as its exception code, with nothing stored.
LEMMA RefusalIsReadBack ==
  ASSUME NEW m, NEW c \in Call, NEW q, q.fc \in Byte,
         NEW code \in Byte, code # modbus_exception_code.success,
         NEW p, p = Refusal(m, q, code).pdu
  PROVE  Return(c, ReadResp(c.fc, c.size, p)) = [ec |-> code, out |-> <<>>]
<1>1. code \in Byte /\ code \in Nat /\ code # modbus_exception_code.success /\ c.size \in Nat
  BY DEF Byte, modbus_exception_code, Call
<1>2. p = WriteException(q.fc, code)
  BY DEF Refusal
<1>3. p \in Seq(Byte) /\ Len(p) = 2
  BY ONLY <1>1, <1>2, q.fc \in Byte, WriteExceptionType
<1>4. Arrived(p, p)
  BY ONLY <1>3 DEF Arrived
<1>5. Len(p) >= 2
  BY ONLY <1>3
<1>6. ReadResp(c.fc, c.size, p) = Reading(code, u8(c.size), <<>>, 2)
  <2>1. PICK fc \in Byte : fc = q.fc
    BY ONLY q.fc \in Byte
  <2>2. Arrived(p, WriteException(fc, code))
    BY ONLY <1>2, <1>4, <2>1, Zenon
  <2> QED
    BY ONLY <1>1, <1>5, <2>2, fc \in Byte, ExceptionReadBack, SMTT(30)
<1>7. Return(c, Reading(code, u8(c.size), <<>>, 2)) = [ec |-> code, out |-> <<>>]
  BY ONLY <1>1, ReturnError
<1> QED
  BY ONLY <1>6, <1>7

--------------------------------------------------------------------------------
(* The refinement mapping of the masters: frames on their way to the device,    *)
(* seen as calls.                                                               *)

\* The calls that the device has not taken up, as the abstract specification sees them.
Pending(t) == [i \in 1 .. Len(t) |-> [n |-> t[i].n, call |-> t[i].call]]

\* What it keeps of the frames in E.
Listed(E) == {[n |-> e.n, call |-> e.call] : e \in E}

\* One entry for each frame.
LEMMA PendingType ==
  ASSUME NEW E, NEW t \in Seq(E)
  PROVE  /\ Pending(t) \in Seq(Listed(E)) /\ Len(Pending(t)) = Len(t)
         /\ \A i \in 1 .. Len(t) : Pending(t)[i] = [n |-> t[i].n, call |-> t[i].call]
<1>1. \A i \in 1 .. Len(t) : [n |-> t[i].n, call |-> t[i].call] \in Listed(E)
  <2>1. \A e \in E : [n |-> e.n, call |-> e.call] \in Listed(E)
    BY DEF Listed
  <2> QED
    BY <2>1
<1>2. Len(t) \in Nat
  OBVIOUS
<1> QED
  BY ONLY <1>1, <1>2 DEF Pending

\* Two sequences with the same elements are the same.
LEMMA SameSeq ==
  ASSUME NEW R, NEW s \in Seq(R), NEW t \in Seq(R), Len(s) = Len(t),
         \A i \in 1 .. Len(s) : s[i] = t[i]
  PROVE  s = t
  OBVIOUS

\* A call that is sent becomes pending.
LEMMA PendingAppend ==
  ASSUME NEW E, NEW t \in Seq(E), NEW e \in E
  PROVE  Pending(Append(t, e)) = Append(Pending(t), [n |-> e.n, call |-> e.call])
<1> DEFINE k == Len(t)
           T == Append(t, e)
           P == Pending(t)
           R == Listed(E)
           f == [n |-> e.n, call |-> e.call]
<1>1. k \in Nat /\ T \in Seq(E) /\ Len(T) = k + 1 /\ T[k + 1] = e /\ \A i \in 1 .. k : T[i] = t[i]
  OBVIOUS
<1>2. P \in Seq(R) /\ Len(P) = k /\ \A i \in 1 .. k : P[i] = [n |-> t[i].n, call |-> t[i].call]
  BY PendingType
<1>3. f \in R
  BY DEF Listed
<1> HIDE DEF P, R, f
<1> DEFINE A == Append(P, f)
<1>4. A \in Seq(R) /\ Len(A) = k + 1 /\ A[k + 1] = f /\ \A i \in 1 .. k : A[i] = P[i]
  BY ONLY <1>1, <1>2, <1>3
<1> HIDE DEF T, A
<1> DEFINE B == Pending(T)
<1>5. B \in Seq(R) /\ Len(B) = k + 1 /\ \A i \in 1 .. k + 1 : B[i] = [n |-> T[i].n, call |-> T[i].call]
  BY ONLY <1>1, PendingType DEF R
<1> HIDE DEF B
<1>6. ASSUME NEW i \in 1 .. k + 1 PROVE B[i] = A[i]
  <2>1. CASE i = k + 1
    BY ONLY <1>1, <1>4, <1>5, <2>1 DEF f
  <2>2. CASE i # k + 1
    <3>1. i \in 1 .. k
      BY ONLY <1>1, <2>2, i \in 1 .. k + 1
    <3> QED
      BY ONLY <1>1, <1>2, <1>4, <1>5, <3>1, i \in 1 .. k + 1
  <2> QED
    BY ONLY <2>1, <2>2
<1>7. B = A
  BY ONLY <1>4, <1>5, <1>6, SameSeq
<1> QED
  BY ONLY <1>7 DEF A, B, T, P, f

\* The call that the device takes up is the first one pending.
LEMMA PendingTail ==
  ASSUME NEW E, NEW t \in Seq(E), t # <<>>
  PROVE  /\ Pending(t) # <<>>
         /\ Head(Pending(t)) = [n |-> Head(t).n, call |-> Head(t).call]
         /\ Pending(Tail(t)) = Tail(Pending(t))
<1> DEFINE k == Len(t)
           T == Tail(t)
           P == Pending(t)
           R == Listed(E)
<1>1. /\ k \in Nat /\ k >= 1 /\ T \in Seq(E) /\ Len(T) = k - 1 /\ Head(t) = t[1]
      /\ \A i \in 1 .. k - 1 : T[i] = t[i + 1]
  OBVIOUS
<1>2. P \in Seq(R) /\ Len(P) = k /\ \A i \in 1 .. k : P[i] = [n |-> t[i].n, call |-> t[i].call]
  BY PendingType
<1> HIDE DEF P, R, T
<1> DEFINE A == Tail(P)
           B == Pending(T)
<1>3. P # <<>> /\ Head(P) = P[1]
  BY ONLY <1>1, <1>2
<1>4. A \in Seq(R) /\ Len(A) = k - 1 /\ \A i \in 1 .. k - 1 : A[i] = P[i + 1]
  BY ONLY <1>1, <1>2, <1>3
<1>5. B \in Seq(R) /\ Len(B) = k - 1 /\ \A i \in 1 .. k - 1 : B[i] = [n |-> T[i].n, call |-> T[i].call]
  <2>1. T \in Seq(E)
    BY ONLY <1>1
  <2>2. B \in Seq(R) /\ Len(B) = Len(T) /\ \A i \in 1 .. Len(T) : B[i] = [n |-> T[i].n, call |-> T[i].call]
    BY ONLY <2>1, PendingType, Zenon DEF R
  <2>3. Len(T) = k - 1
    BY ONLY <1>1
  <2> QED
    BY ONLY <2>2, <2>3, Zenon
<1> HIDE DEF A, B
<1>6. ASSUME NEW i \in 1 .. k - 1 PROVE B[i] = A[i]
  <2>1. i + 1 \in 1 .. k
    BY ONLY <1>1, i \in 1 .. k - 1
  <2>2. B[i] = [n |-> T[i].n, call |-> T[i].call] /\ T[i] = t[i + 1] /\ A[i] = P[i + 1]
    BY ONLY <1>1, <1>4, <1>5, i \in 1 .. k - 1, Zenon
  <2>3. P[i + 1] = [n |-> t[i + 1].n, call |-> t[i + 1].call]
    BY ONLY <1>2, <2>1, Zenon
  <2> QED
    BY ONLY <2>2, <2>3, Zenon
<1>7. B = A
  BY ONLY <1>4, <1>5, <1>6, SameSeq
<1>8. 1 \in 1 .. k
  BY ONLY <1>1
<1>9. Head(P) = [n |-> Head(t).n, call |-> Head(t).call]
  BY ONLY <1>1, <1>2, <1>3, <1>8
<1> QED
  BY ONLY <1>3, <1>7, <1>9 DEF A, B, T, P

--------------------------------------------------------------------------------
(* The stream of a client that sends one frame after the other, and how far the *)
(* server has read it.                                                          *)

\* The frames fs, one behind the other, are the bytes full; the k-th begins behind at[k].
Laid(full, at, fs) ==
  /\ at \in [1 .. Len(fs) + 1 -> Nat] /\ at[1] = 0
  /\ \A k \in 1 .. Len(fs) : at[k + 1] = at[k] + Len(fs[k])
  /\ full \in Seq(Byte) /\ Len(full) = at[Len(fs) + 1]
  /\ \A k \in 1 .. Len(fs) + 1 : at[k] <= Len(full)
  /\ \A k \in 1 .. Len(fs) : \A j \in 1 .. Len(fs[k]) : full[at[k] + j] = fs[k][j]

\* The bytes s are those behind the first pos: all of them, unless the client has left.
Ahead(s, full, pos, left) ==
  /\ pos + Len(s) <= Len(full)
  /\ ~ left => pos + Len(s) = Len(full)
  /\ \A j \in 1 .. Len(s) : s[j] = full[pos + j]

\* Every frame that may be sent is bytes.
Bytewise(F) == \A f \in F : f \in Seq(Byte)

\* The bytes s are what is to be read when n of the frames fs, and off bytes of the next one,
\* have been read.
Placed(s, left, n, off, fs) ==
  \E full, at : /\ Laid(full, at, fs) /\ n \in 0 .. Len(fs)
                /\ Ahead(s, full, at[n + 1] + off, left)

\* What is known of the places where the frames begin.
LEMMA LaidAt ==
  ASSUME NEW F, NEW fs \in Seq(F), NEW full, NEW at, Laid(full, at, fs), NEW n \in 0 .. Len(fs)
  PROVE  /\ at[n + 1] \in Nat /\ n \in Nat /\ Len(fs) \in Nat /\ full \in Seq(Byte) /\ Len(full) \in Nat
         /\ n + 1 \in 1 .. Len(fs) + 1
         /\ n < Len(fs) => n + 1 \in 1 .. Len(fs)
<1>1. /\ at \in [1 .. Len(fs) + 1 -> Nat] /\ full \in Seq(Byte) /\ Len(full) \in Nat /\ Len(fs) \in Nat
  BY DEF Laid
<1>2. n + 1 \in 1 .. Len(fs) + 1 /\ n \in Nat /\ (n < Len(fs) => n + 1 \in 1 .. Len(fs))
  BY ONLY <1>1, n \in 0 .. Len(fs)
<1>3. at[n + 1] \in Nat
  BY ONLY <1>1, <1>2
<1> QED
  BY ONLY <1>1, <1>2, <1>3

\* A new connection.
LEMMA StreamEmpty == Placed(<<>>, FALSE, 0, 0, <<>>)
<1> DEFINE at == [k \in 1 .. 1 |-> 0]
<1>1. Len(<<>>) = 0 /\ <<>> \in Seq(Byte)
  OBVIOUS
<1>2. Laid(<<>>, at, <<>>)
  BY <1>1 DEF Laid
<1>3. Ahead(<<>>, <<>>, at[0 + 1] + 0, FALSE)
  BY <1>1 DEF Ahead
<1>4. 0 \in 0 .. Len(<<>>)
  BY <1>1
<1> HIDE DEF at
<1> QED
  BY <1>2, <1>3, <1>4 DEF Placed

\* A frame goes behind the others.
LEMMA StreamSent ==
  ASSUME NEW F, Bytewise(F), NEW s \in Seq(Byte), NEW n, NEW off \in Nat,
         NEW fs \in Seq(F), NEW f \in F, Placed(s, FALSE, n, off, fs)
  PROVE  Placed(s \o f, FALSE, n, off, Append(fs, f))
<1>1. PICK full, at :
        Laid(full, at, fs) /\ n \in 0 .. Len(fs) /\ Ahead(s, full, at[n + 1] + off, FALSE)
  BY DEF Placed
<1> DEFINE m == Len(fs)
           gs == Append(fs, f)
           all == full \o f
           on == [k \in 1 .. m + 2 |-> IF k <= m + 1 THEN at[k] ELSE Len(full) + Len(f)]
           t == s \o f
<1>2. /\ at \in [1 .. m + 1 -> Nat] /\ at[1] = 0
      /\ \A k \in 1 .. m : at[k + 1] = at[k] + Len(fs[k])
      /\ full \in Seq(Byte) /\ Len(full) = at[m + 1]
      /\ \A k \in 1 .. m + 1 : at[k] <= Len(full)
      /\ \A k \in 1 .. m : \A j \in 1 .. Len(fs[k]) : full[at[k] + j] = fs[k][j]
  BY <1>1 DEF Laid
<1>3. /\ f \in Seq(Byte) /\ Len(f) \in Nat /\ m \in Nat /\ Len(full) \in Nat /\ Len(s) \in Nat
      /\ \A k \in 1 .. m : fs[k] \in Seq(Byte) /\ Len(fs[k]) \in Nat
  <2>1. \A k \in 1 .. m : fs[k] \in F
    OBVIOUS
  <2>2. f \in Seq(Byte) /\ \A k \in 1 .. m : fs[k] \in Seq(Byte)
    BY <2>1 DEF Bytewise
  <2> QED
    BY <1>2, <2>2
<1>4. /\ gs \in Seq(F) /\ Len(gs) = m + 1 /\ gs[m + 1] = f /\ \A k \in 1 .. m : gs[k] = fs[k]
  OBVIOUS
<1>5. /\ all \in Seq(Byte) /\ Len(all) = Len(full) + Len(f)
      /\ \A i \in 1 .. Len(full) : all[i] = full[i]
      /\ \A i \in 1 .. Len(f) : all[i + Len(full)] = f[i]
  BY ONLY <1>2, <1>3, ConcatAt
<1>6. /\ t \in Seq(Byte) /\ Len(t) = Len(s) + Len(f)
      /\ \A i \in 1 .. Len(s) : t[i] = s[i]
      /\ \A i \in 1 .. Len(f) : t[i + Len(s)] = f[i]
  BY ONLY <1>3, s \in Seq(Byte), ConcatAt
<1> HIDE DEF m, gs, all, t
<1>7. /\ on \in [1 .. m + 2 -> Nat] /\ on[m + 2] = Len(full) + Len(f)
      /\ \A k \in 1 .. m + 1 : on[k] = at[k] /\ at[k] \in Nat
  BY ONLY <1>2, <1>3
<1> HIDE DEF on
<1>8. Laid(all, on, gs)
  <2>1. on \in [1 .. Len(gs) + 1 -> Nat] /\ on[1] = 0 /\ Len(all) = on[Len(gs) + 1]
    <3>1. Len(gs) + 1 = m + 2 /\ 1 \in 1 .. m + 1
      BY ONLY <1>3, <1>4
    <3> QED
      BY ONLY <1>2, <1>5, <1>7, <3>1
  <2>2. ASSUME NEW k \in 1 .. Len(gs) PROVE on[k + 1] = on[k] + Len(gs[k])
    <3>1. CASE k = m + 1
      <4>1. k + 1 = m + 2 /\ k \in 1 .. m + 1
        BY ONLY <1>3, <3>1
      <4> QED
        BY ONLY <1>2, <1>4, <1>7, <3>1, <4>1
    <3>2. CASE k # m + 1
      <4>1. k \in 1 .. m /\ k \in 1 .. m + 1 /\ k + 1 \in 1 .. m + 1
        BY ONLY <1>3, <1>4, <3>2, k \in 1 .. Len(gs)
      <4> QED
        BY ONLY <1>2, <1>4, <1>7, <4>1
    <3> QED
      BY ONLY <3>1, <3>2
  <2>3. ASSUME NEW k \in 1 .. Len(gs) + 1 PROVE on[k] <= Len(all)
    <3>1. CASE k = m + 2
      BY ONLY <1>3, <1>5, <1>7, <3>1
    <3>2. CASE k # m + 2
      <4>1. k \in 1 .. m + 1
        BY ONLY <1>3, <1>4, <3>2, k \in 1 .. Len(gs) + 1
      <4>2. on[k] = at[k] /\ at[k] \in Nat /\ at[k] <= Len(full)
        BY ONLY <1>2, <1>7, <4>1
      <4> QED
        BY ONLY <1>3, <1>5, <4>2
    <3> QED
      BY ONLY <3>1, <3>2
  <2>4. ASSUME NEW k \in 1 .. Len(gs), NEW j \in 1 .. Len(gs[k]) PROVE all[on[k] + j] = gs[k][j]
    <3>1. CASE k = m + 1
      <4>1. gs[k] = f /\ on[k] = Len(full)
        <5>1. k \in 1 .. m + 1
          BY ONLY <1>3, <3>1
        <5> QED
          BY ONLY <1>2, <1>4, <1>7, <3>1, <5>1
      <4>2. j \in 1 .. Len(f) /\ on[k] + j = j + Len(full)
        BY ONLY <1>3, <4>1, j \in 1 .. Len(gs[k])
      <4> QED
        BY ONLY <1>5, <4>1, <4>2
    <3>2. CASE k # m + 1
      <4>1. k \in 1 .. m /\ k \in 1 .. m + 1 /\ k + 1 \in 1 .. m + 1
        BY ONLY <1>3, <1>4, <3>2, k \in 1 .. Len(gs)
      <4>2. gs[k] = fs[k] /\ on[k] = at[k] /\ at[k] \in Nat /\ Len(fs[k]) \in Nat
        BY ONLY <1>3, <1>4, <1>7, <4>1
      <4>3. at[k] + Len(fs[k]) <= Len(full)
        BY ONLY <1>2, <4>1
      <4>4. at[k] + j \in 1 .. Len(full) /\ j \in 1 .. Len(fs[k])
        <5>1. j \in 1 .. Len(fs[k])
          BY ONLY <4>2, j \in 1 .. Len(gs[k]), Zenon
        <5>2. Len(full) \in Nat
          BY ONLY <1>3
        <5> QED
          BY ONLY <4>2, <4>3, <5>1, <5>2
      <4> QED
        BY ONLY <1>2, <1>5, <4>1, <4>2, <4>4
    <3> QED
      BY ONLY <3>1, <3>2
  <2> QED
    BY ONLY <1>5, <2>1, <2>2, <2>3, <2>4 DEF Laid
<1>9. ASSUME NEW pos \in Nat, Ahead(s, full, pos, FALSE) PROVE Ahead(t, all, pos, FALSE)
  <2>1. pos + Len(s) = Len(full) /\ \A j \in 1 .. Len(s) : s[j] = full[pos + j]
    BY ONLY <1>9 DEF Ahead
  <2>0. /\ pos + Len(s) = Len(full) /\ Len(full) \in Nat /\ Len(s) \in Nat /\ Len(f) \in Nat
        /\ Len(all) = Len(full) + Len(f) /\ Len(t) = Len(s) + Len(f)
    BY ONLY <1>3, <1>5, <1>6, <2>1
  <2>2. ASSUME NEW j \in 1 .. Len(t) PROVE t[j] = all[pos + j]
    <3>1. CASE j <= Len(s)
      <4>1. j \in 1 .. Len(s) /\ pos + j \in 1 .. Len(full)
        BY ONLY <1>3, <1>6, <2>1, <3>1, pos \in Nat, j \in 1 .. Len(t)
      <4> QED
        BY ONLY <1>5, <1>6, <2>1, <4>1
    <3>2. CASE ~ (j <= Len(s))
      <4>1. PICK i \in 1 .. Len(f) : j = i + Len(s)
        <5>1. j - Len(s) \in 1 .. Len(f) /\ j = (j - Len(s)) + Len(s)
          BY ONLY <1>3, <1>6, <3>2, j \in 1 .. Len(t)
        <5> QED
          BY ONLY <5>1
      <4>2. pos + j = i + Len(full)
        <5>1. i \in Nat
          BY ONLY <2>0, i \in 1 .. Len(f)
        <5>2. j = i + Len(s)
          BY ONLY <4>1
        <5>3. \A x, y, z \in Nat : x + (y + z) = y + (x + z)
          OBVIOUS
        <5>4. pos + (i + Len(s)) = i + (pos + Len(s))
          BY ONLY <2>0, <5>1, <5>3, pos \in Nat
        <5> QED
          BY ONLY <2>0, <5>2, <5>4
      <4> QED
        BY ONLY <1>5, <1>6, <4>1, <4>2
    <3> QED
      BY ONLY <3>1, <3>2
  <2>3. pos + Len(t) = Len(all)
    BY ONLY <2>0, pos \in Nat
  <2> QED
    BY ONLY <1>5, <2>2, <2>3 DEF Ahead
<1>10. n \in 0 .. Len(gs) /\ on[n + 1] = at[n + 1] /\ at[n + 1] + off \in Nat
  <2>1. n \in 0 .. m
    BY ONLY <1>1 DEF m
  <2>2. n \in 0 .. Len(gs) /\ n + 1 \in 1 .. m + 1
    BY ONLY <1>3, <1>4, <2>1
  <2>3. on[n + 1] = at[n + 1] /\ at[n + 1] \in Nat
    BY ONLY <1>7, <2>2
  <2> QED
    BY ONLY <2>2, <2>3, off \in Nat
<1>11. Ahead(t, all, on[n + 1] + off, FALSE)
  BY ONLY <1>1, <1>9, <1>10
<1>12. Placed(t, FALSE, n, off, gs)
  BY ONLY <1>8, <1>10, <1>11 DEF Placed
<1> QED
  BY ONLY <1>12 DEF t, gs

\* What the client sent last may be lost when it leaves.
LEMMA StreamLost ==
  ASSUME NEW F, NEW s \in Seq(Byte), NEW left, NEW n, NEW off \in Nat, NEW fs \in Seq(F),
         NEW i \in Nat, i <= Len(s), Placed(s, left, n, off, fs)
  PROVE  Placed(Take(s, i), TRUE, n, off, fs)
<1> DEFINE t == SubSeq(s, 1, i)
<1>1. t \in Seq(Byte) /\ Len(t) = i /\ Len(s) \in Nat /\ \A j \in 1 .. i : t[j] = s[j] /\ j \in 1 .. Len(s)
  OBVIOUS
<1> HIDE DEF t
<1>2. PICK full, at :
        Laid(full, at, fs) /\ n \in 0 .. Len(fs) /\ Ahead(s, full, at[n + 1] + off, left)
  BY DEF Placed
<1> DEFINE pos == at[n + 1] + off
<1>3. pos \in Nat /\ Len(full) \in Nat
  <2>1. at[n + 1] \in Nat /\ Len(full) \in Nat
    BY ONLY <1>2, LaidAt, fs \in Seq(F)
  <2> QED
    BY ONLY <2>1, off \in Nat
<1>4. pos + Len(s) <= Len(full) /\ \A j \in 1 .. Len(s) : s[j] = full[pos + j]
  BY ONLY <1>2 DEF Ahead
<1> HIDE DEF pos
<1>5. pos + Len(t) <= Len(full)
  BY ONLY <1>1, <1>3, <1>4, i \in Nat, i <= Len(s)
<1>6. Ahead(t, full, pos, TRUE)
  BY ONLY <1>1, <1>4, <1>5 DEF Ahead
<1>7. Placed(t, TRUE, n, off, fs)
  BY ONLY <1>2, <1>6 DEF Placed, pos
<1> QED
  BY ONLY <1>7 DEF Take, t

\* What is left behind the first i bytes of what is ahead.
LEMMA AheadDrop ==
  ASSUME NEW s \in Seq(Byte), NEW full \in Seq(Byte), NEW pos \in Nat, NEW left, NEW i \in Nat,
         i <= Len(s), Ahead(s, full, pos, left)
  PROVE  Ahead(Drop(s, i), full, pos + i, left) /\ Drop(s, i) \in Seq(Byte)
<1> DEFINE t == SubSeq(s, i + 1, Len(s))
<1>1. /\ pos + Len(s) <= Len(full) /\ (~ left => pos + Len(s) = Len(full))
      /\ \A j \in 1 .. Len(s) : s[j] = full[pos + j]
  BY DEF Ahead
<1>2. Len(s) \in Nat /\ Len(full) \in Nat
  OBVIOUS
<1>3. t \in Seq(Byte) /\ Len(t) = Len(s) - i /\ \A j \in 1 .. Len(s) - i : t[j] = s[i + j]
  <2>1. t \in Seq(Byte) /\ Len(t) = Len(s) - i
    <3>1. Drop(s, i) \in Seq(Byte) /\ Len(Drop(s, i)) = Len(s) - i
      BY PartsOfBytes
    <3> QED
      BY ONLY <3>1 DEF Drop
  <2>2. ASSUME NEW j \in 1 .. Len(s) - i PROVE t[j] = s[i + j]
    <3>1. t[j] = s[(i + 1) + j - 1] /\ (i + 1) + j - 1 = i + j
      BY ONLY <1>2, s \in Seq(Byte), i \in Nat, i <= Len(s), j \in 1 .. Len(s) - i
    <3> HIDE DEF t
    <3> QED
      BY ONLY <3>1
  <2> QED
    BY ONLY <2>1, <2>2
<1> HIDE DEF t
<1>4. ASSUME NEW j \in 1 .. Len(t) PROVE t[j] = full[(pos + i) + j]
  <2>1. j \in 1 .. Len(s) - i /\ i + j \in 1 .. Len(s) /\ j \in Nat
    BY ONLY <1>2, <1>3, i \in Nat, i <= Len(s), j \in 1 .. Len(t)
  <2>2. pos + (i + j) = (pos + i) + j
    BY ONLY <2>1, pos \in Nat, i \in Nat
  <2> QED
    BY ONLY <1>1, <1>3, <2>1, <2>2
<1>5. (pos + i) + Len(t) = pos + Len(s)
  BY ONLY <1>2, <1>3, pos \in Nat, i \in Nat
<1>6. Ahead(t, full, pos + i, left)
  BY ONLY <1>1, <1>4, <1>5 DEF Ahead
<1> QED
  BY ONLY <1>3, <1>6 DEF Drop, t

\* Bytes at the start of a frame belong to a frame that was sent.
LEMMA StreamGoesOn ==
  ASSUME NEW F, NEW s \in Seq(Byte), NEW left, NEW n, NEW fs \in Seq(F),
         Len(s) > 0, Placed(s, left, n, 0, fs)
  PROVE  n \in Nat /\ n < Len(fs) /\ fs[n + 1] \in F
<1>1. PICK full, at :
        Laid(full, at, fs) /\ n \in 0 .. Len(fs) /\ Ahead(s, full, at[n + 1] + 0, left)
  BY DEF Placed
<1>2. at[n + 1] \in Nat /\ n \in Nat /\ Len(fs) \in Nat /\ Len(full) \in Nat
      /\ (n < Len(fs) => n + 1 \in 1 .. Len(fs))
  BY ONLY <1>1, LaidAt, fs \in Seq(F)
<1>3. at[n + 1] + 0 + Len(s) <= Len(full) /\ Len(s) \in Nat /\ Len(full) = at[Len(fs) + 1]
  BY <1>1 DEF Ahead, Laid
<1>4. n # Len(fs)
  BY ONLY <1>2, <1>3, Len(s) > 0
<1>5. n < Len(fs)
  BY ONLY <1>1, <1>2, <1>4
<1> QED
  BY ONLY <1>2, <1>5, fs \in Seq(F)

\* The next i bytes are those of the frame behind its first off, and the rest is still to be read.
Reads(s, left, n, off, fs, i) ==
  /\ Drop(s, i) \in Seq(Byte) /\ Placed(Drop(s, i), left, n, off + i, fs)
  /\ \A j \in 1 .. i : s[j] = fs[n + 1][off + j]
  /\ off + i = Len(fs[n + 1]) => Take(s, i) = Drop(fs[n + 1], off)

\* A read of i bytes inside a frame takes them from it.
LEMMA StreamRead ==
  ASSUME NEW F, Bytewise(F), NEW s \in Seq(Byte), NEW left, NEW n, NEW off \in Nat,
         NEW fs \in Seq(F), NEW i \in Nat, i <= Len(s), n < Len(fs), off + i <= Len(fs[n + 1]),
         Placed(s, left, n, off, fs)
  PROVE  Reads(s, left, n, off, fs, i)
<1>1. PICK full, at :
        Laid(full, at, fs) /\ n \in 0 .. Len(fs) /\ Ahead(s, full, at[n + 1] + off, left)
  BY DEF Placed
<1>2. /\ at[n + 1] \in Nat /\ n \in Nat /\ Len(fs) \in Nat /\ full \in Seq(Byte) /\ Len(full) \in Nat
      /\ n + 1 \in 1 .. Len(fs)
  BY ONLY <1>1, LaidAt, fs \in Seq(F), n < Len(fs)
<1>f. fs[n + 1] \in F
  BY ONLY <1>2, fs \in Seq(F)
<1> DEFINE f == fs[n + 1]
           pos == at[n + 1] + off
<1>3. f \in Seq(Byte) /\ Len(f) \in Nat /\ off + i <= Len(f)
  <2>1. f \in Seq(Byte)
    BY <1>f DEF Bytewise
  <2> QED
    BY <2>1
<1>4. /\ \A j \in 1 .. Len(f) : full[at[n + 1] + j] = f[j]
      /\ \A j \in 1 .. Len(s) : s[j] = full[pos + j]
  BY ONLY <1>1, <1>2 DEF Laid, Ahead
<1>5. pos \in Nat
  BY ONLY <1>2, off \in Nat
<1>6. Ahead(Drop(s, i), full, pos + i, left) /\ Drop(s, i) \in Seq(Byte)
  <2> HIDE DEF pos
  <2>1. Ahead(s, full, pos, left)
    BY ONLY <1>1 DEF pos
  <2> QED
    BY ONLY <1>2, <1>5, <2>1, s \in Seq(Byte), i \in Nat, i <= Len(s), AheadDrop
<1>7. pos + i = at[n + 1] + (off + i)
  BY ONLY <1>2, off \in Nat, i \in Nat
<1>8. Placed(Drop(s, i), left, n, off + i, fs)
  <2> HIDE DEF pos
  <2>1. Ahead(Drop(s, i), full, at[n + 1] + (off + i), left)
    BY ONLY <1>6, <1>7
  <2> QED
    BY ONLY <1>1, <2>1 DEF Placed
<1> HIDE DEF f
<1>9. ASSUME NEW j \in 1 .. i PROVE s[j] = f[off + j]
  <2>1. j \in 1 .. Len(s) /\ off + j \in 1 .. Len(f)
    BY ONLY <1>3, j \in 1 .. i, s \in Seq(Byte), i \in Nat, i <= Len(s), off \in Nat
  <2>2. s[j] = full[pos + j] /\ full[at[n + 1] + (off + j)] = f[off + j]
    BY ONLY <1>4, <2>1
  <2>3. pos + j = at[n + 1] + (off + j)
    BY ONLY <1>2, off \in Nat, j \in 1 .. i, i \in Nat
  <2> QED
    BY ONLY <2>2, <2>3
<1> HIDE DEF pos
<1>10. ASSUME off + i = Len(f) PROVE Take(s, i) = Drop(f, off)
  <2> DEFINE a == SubSeq(s, 1, i)
             b == SubSeq(f, off + 1, Len(f))
  <2>1. a \in Seq(Byte) /\ Len(a) = i /\ \A j \in 1 .. i : a[j] = s[j]
    BY ONLY s \in Seq(Byte), i \in Nat, i <= Len(s)
  <2>2. b \in Seq(Byte) /\ Len(b) = i
    <3>1. off <= Len(f)
      BY ONLY <1>3, off \in Nat, i \in Nat
    <3>2. Drop(f, off) \in Seq(Byte) /\ Len(Drop(f, off)) = Len(f) - off
      BY ONLY <1>3, <3>1, off \in Nat, PartsOfBytes
    <3>3. Len(f) - off = i
      BY ONLY <1>3, <1>10, off \in Nat, i \in Nat
    <3> QED
      BY ONLY <3>2, <3>3 DEF Drop
  <2>3. ASSUME NEW j \in 1 .. i PROVE b[j] = f[off + j]
    <3>1. b[j] = f[(off + 1) + j - 1] /\ (off + 1) + j - 1 = off + j
      BY ONLY <1>3, <1>10, off \in Nat, i \in Nat, j \in 1 .. i
    <3> HIDE DEF b
    <3> QED
      BY ONLY <3>1
  <2>4. Take(s, i) = a
    BY ONLY DEF Take
  <2>5. Drop(f, off) = b
    BY ONLY DEF Drop
  <2> HIDE DEF a, b
  <2>6. a = b
    BY ONLY <1>9, <2>1, <2>2, <2>3, i \in Nat, SMTT(40)
  <2> QED
    BY ONLY <2>4, <2>5, <2>6
<1> QED
  BY ONLY <1>6, <1>8, <1>9, <1>10 DEF Reads, f

\* Behind the last byte of a frame the next one begins.
LEMMA StreamDone ==
  ASSUME NEW F, NEW s, NEW left, NEW n, NEW off, NEW fs \in Seq(F), n < Len(fs),
         off = Len(fs[n + 1]), Placed(s, left, n, off, fs)
  PROVE  Placed(s, left, n + 1, 0, fs)
<1>1. PICK full, at :
        Laid(full, at, fs) /\ n \in 0 .. Len(fs) /\ Ahead(s, full, at[n + 1] + off, left)
  BY DEF Placed
<1>2. /\ n \in Nat /\ Len(fs) \in Nat /\ n + 1 \in 1 .. Len(fs)
  BY ONLY <1>1, LaidAt, fs \in Seq(F), n < Len(fs)
<1>3. n + 1 \in 0 .. Len(fs)
  BY ONLY <1>2
<1>4. at[(n + 1) + 1] \in Nat
  BY ONLY <1>1, <1>3, LaidAt, fs \in Seq(F)
<1>5. at[(n + 1) + 1] = at[n + 1] + Len(fs[n + 1])
  BY ONLY <1>1, <1>2 DEF Laid
<1>6. at[(n + 1) + 1] + 0 = at[n + 1] + off
  BY ONLY <1>4, <1>5, off = Len(fs[n + 1])
<1> QED
  BY ONLY <1>1, <1>3, <1>6 DEF Placed

\* The header is the first seven bytes.
LEMMA SameHeader ==
  ASSUME NEW s, NEW f, \A j \in 1 .. 7 : s[j] = f[0 + j] PROVE Header(s) = Header(f)
<1>1. /\ s[1] = f[1] /\ s[2] = f[2] /\ s[3] = f[3] /\ s[4] = f[4]
      /\ s[5] = f[5] /\ s[6] = f[6] /\ s[7] = f[7]
  OBVIOUS
<1> QED
  BY ONLY <1>1, Zenon DEF Header

\* Seven bytes make a header with fields of the right width.
LEMMA HeaderFields ==
  ASSUME NEW s \in Seq(Byte), Len(s) >= header_size
  PROVE  Header(s) \in [transaction_id : U16, protocol : U16, length : U16, unit_id : Byte]
<1>1. /\ s[1] \in Byte /\ s[2] \in Byte /\ s[3] \in Byte /\ s[4] \in Byte
      /\ s[5] \in Byte /\ s[6] \in Byte /\ s[7] \in Byte
  BY DEF header_size
<1>2. /\ make_uint16(s[1], s[2]) \in U16 /\ make_uint16(s[3], s[4]) \in U16
      /\ make_uint16(s[5], s[6]) \in U16
  BY ONLY <1>1, MakeWord
<1> QED
  BY ONLY <1>1, <1>2 DEF Header

--------------------------------------------------------------------------------
(* The second thread of the server with registers: the values that it has       *)
(* posted, the next one, and the one that the registers hold.                   *)

\* The posted values ascend, from the value that the registers hold up to the counter.
InTurn(value, posted, next) ==
  /\ value \in Nat /\ next \in Nat /\ value <= next /\ posted \in Seq(Nat)
  /\ \A k \in 1 .. Len(posted) : value <= posted[k] /\ posted[k] < next
  /\ \A j, k \in 1 .. Len(posted) : j <= k => posted[j] <= posted[k]

\* A round of the second thread posts a later value than all before.
LEMMA TurnPosted ==
  ASSUME NEW value, NEW posted, NEW next, InTurn(value, posted, next)
  PROVE  InTurn(value, Append(posted, next), next + 1)
<1> DEFINE p == Append(posted, next)
           n == Len(posted)
<1>1. /\ value \in Nat /\ next \in Nat /\ value <= next /\ posted \in Seq(Nat)
      /\ \A k \in 1 .. n : value <= posted[k] /\ posted[k] < next
      /\ \A j, k \in 1 .. n : j <= k => posted[j] <= posted[k]
  BY DEF InTurn
<1>2. /\ p \in Seq(Nat) /\ Len(p) = n + 1 /\ n \in Nat /\ p[n + 1] = next
      /\ \A k \in 1 .. n : p[k] = posted[k] /\ posted[k] \in Nat
  BY ONLY <1>1
<1> HIDE DEF p, n
<1>3. ASSUME NEW k \in 1 .. Len(p)
      PROVE  value <= p[k] /\ p[k] < next + 1 /\ p[k] \in Nat
  <2>1. k = n + 1 \/ k \in 1 .. n
    BY ONLY <1>2, <1>3
  <2>2. CASE k = n + 1
    BY ONLY <1>1, <1>2, <2>2
  <2>3. CASE k \in 1 .. n
    <3>1. p[k] = posted[k] /\ posted[k] \in Nat /\ value <= posted[k] /\ posted[k] < next
      BY ONLY <1>1, <1>2, <2>3
    <3> QED
      BY ONLY <1>1, <3>1
  <2> QED
    BY ONLY <2>1, <2>2, <2>3
<1>4. ASSUME NEW j \in 1 .. Len(p), NEW k \in 1 .. Len(p), j <= k
      PROVE  p[j] <= p[k]
  <2>1. k = n + 1 \/ (j \in 1 .. n /\ k \in 1 .. n)
    BY ONLY <1>2, <1>4
  <2>2. p[j] < next + 1 /\ p[j] \in Nat
    BY ONLY <1>3, <1>4
  <2> QED
    BY ONLY <1>1, <1>2, <1>4, <2>1, <2>2
<1>5. InTurn(value, p, next + 1)
  BY ONLY <1>1, <1>2, <1>3, <1>4 DEF InTurn
<1> QED
  BY ONLY <1>5 DEF p

\* The handler that runs next has a value no earlier than the one of the registers, and no later
\* than those of the handlers after it.
LEMMA TurnRun ==
  ASSUME NEW value, NEW posted, NEW next, InTurn(value, posted, next), posted # <<>>
  PROVE  /\ Head(posted) \in Nat /\ value <= Head(posted) /\ Head(posted) < next
         /\ InTurn(Head(posted), Tail(posted), next)
<1> DEFINE p == Tail(posted)
           v == Head(posted)
           n == Len(posted)
<1>1. /\ value \in Nat /\ next \in Nat /\ value <= next /\ posted \in Seq(Nat)
      /\ \A k \in 1 .. n : value <= posted[k] /\ posted[k] < next
      /\ \A j, k \in 1 .. n : j <= k => posted[j] <= posted[k]
  BY DEF InTurn
<1>2. /\ v = posted[1] /\ v \in Nat /\ 1 \in 1 .. n /\ p \in Seq(Nat) /\ Len(p) = n - 1 /\ n \in Nat
      /\ \A k \in 1 .. n - 1 : p[k] = posted[k + 1] /\ k + 1 \in 1 .. n
  BY ONLY <1>1, posted # <<>>
<1> HIDE DEF p, v, n
<1>3. value <= v /\ v < next
  BY ONLY <1>1, <1>2
<1>4. ASSUME NEW k \in 1 .. Len(p)
      PROVE  v <= p[k] /\ p[k] < next
  <2>1. k + 1 \in 1 .. n /\ p[k] = posted[k + 1] /\ 1 <= k + 1
    BY ONLY <1>2, <1>4
  <2> QED
    BY ONLY <1>1, <1>2, <2>1
<1>5. ASSUME NEW j \in 1 .. Len(p), NEW k \in 1 .. Len(p), j <= k
      PROVE  p[j] <= p[k]
  <2>1. /\ k + 1 \in 1 .. n /\ p[k] = posted[k + 1] /\ j + 1 \in 1 .. n /\ p[j] = posted[j + 1]
        /\ j + 1 <= k + 1
    BY ONLY <1>2, <1>5
  <2> QED
    BY ONLY <1>1, <2>1
<1>6. v <= next
  BY ONLY <1>1, <1>2, <1>3
<1>7. InTurn(v, p, next)
  BY ONLY <1>1, <1>2, <1>4, <1>5, <1>6 DEF InTurn
<1> QED
  BY ONLY <1>2, <1>3, <1>7 DEF p, v

--------------------------------------------------------------------------------
(* The loop of CRC16.  The model runs it in halves, CrcLoop; these lemmas are    *)
(* about what it goes through byte by byte, by induction: where some number of  *)
(* turns went wrong, there would be a least such number.                        *)

\* Every set of numbers that is not empty has a least one: what an induction comes down to.
LEMMA LeastNumber ==
  ASSUME NEW T, T \subseteq Nat, T # {}
  PROVE  \E m \in T : \A k \in T : m <= k
<1>1. PICK m \in T : \A k \in T : ~ (<<k, m>> \in OpToRel(<, Nat))
  BY WFMin, NatLessThanWellFounded, Zenon
<1>2. ASSUME NEW k \in T PROVE m <= k
  <2>1. ~ (<<k, m>> \in OpToRel(<, Nat))
    BY <1>1, Zenon
  <2>2. ~ (k < m)
    BY <2>1 DEF OpToRel
  <2> QED
    BY <2>2
<1> QED
  BY <1>2

\* The states that a loop goes through: n turns from state r, the first one with element number lo.
\* F[<<r, k>>] is the state after a turn with element k.
Turns(R, F, lo, r, n) ==
  {h \in [0 .. n -> R] : h[0] = r /\ \A k \in 1 .. n : h[k] = F[<<h[k - 1], lo + k - 1>>]}

\* The same loop as a recursion that cuts the elements lo .. hi in halves.
HalvesOf(R, F, g) ==
  [t \in Nat \X Nat \X R |->
     IF t[1] > t[2] THEN t[3]
     ELSE IF t[1] = t[2] THEN F[<<t[3], t[1]>>]
     ELSE g[<<(t[1] + t[2]) \div 2 + 1, t[2], g[<<t[1], (t[1] + t[2]) \div 2, t[3]>>]>>]]

InHalves(R, F, f) == f = HalvesOf(R, F, f)

\* A loop can always take its turns.
LEMMA TurnsExist ==
  ASSUME NEW R, NEW F \in [R \X Nat -> R], NEW lo \in Nat, NEW r \in R, NEW n \in Nat
  PROVE  \E h : h \in Turns(R, F, lo, r, n)
<1> DEFINE T == {m \in Nat : ~ \E h : h \in Turns(R, F, lo, r, m)}
<1>1. CASE T = {}
  <2>1. n \notin T
    BY ONLY <1>1
  <2> QED
    BY ONLY <2>1, n \in Nat
<1>2. CASE T # {}
  <2>1. PICK m \in T : \A k \in T : m <= k
    <3>1. T \subseteq Nat
      OBVIOUS
    <3> HIDE DEF T
    <3> QED
      BY <1>2, <3>1, LeastNumber
  <2>2. m \in Nat /\ ~ \E h : h \in Turns(R, F, lo, r, m)
    BY ONLY m \in T
  <2>3. m # 0
    <3>1. [k \in 0 .. 0 |-> r] \in Turns(R, F, lo, r, 0)
      BY DEF Turns
    <3> QED
      BY ONLY <2>2, <3>1
  <2>4. m - 1 \in Nat /\ m - 1 \notin T
    BY ONLY <2>1, <2>2, <2>3
  <2>5. PICK h : h \in Turns(R, F, lo, r, m - 1)
    BY ONLY <2>4
  <2>6. /\ h \in [0 .. m - 1 -> R] /\ h[0] = r
        /\ \A k \in 1 .. m - 1 : h[k] = F[<<h[k - 1], lo + k - 1>>]
    BY ONLY <2>5 DEF Turns
  <2> DEFINE g == [k \in 0 .. m |-> IF k = m THEN F[<<h[m - 1], lo + m - 1>>] ELSE h[k]]
  <2>7. F[<<h[m - 1], lo + m - 1>>] \in R
    <3>1. h[m - 1] \in R /\ lo + m - 1 \in Nat
      BY ONLY <2>4, <2>2, <2>6, lo \in Nat
    <3> QED
      BY ONLY <3>1, F \in [R \X Nat -> R]
  <2>8. g \in [0 .. m -> R]
    BY ONLY <2>2, <2>6, <2>7
  <2>9. g[0] = r
    BY ONLY <2>2, <2>3, <2>6
  <2>10. ASSUME NEW k \in 1 .. m PROVE g[k] = F[<<g[k - 1], lo + k - 1>>]
    <3>1. CASE k = m
      BY ONLY <2>2, <2>3, <3>1
    <3>2. CASE k # m
      BY ONLY <2>2, <2>6, <3>2, k \in 1 .. m
    <3> QED
      BY ONLY <3>1, <3>2
  <2>11. g \in Turns(R, F, lo, r, m)
    BY ONLY <2>8, <2>9, <2>10 DEF Turns
  <2> QED
    BY ONLY <2>2, <2>11
<1> QED
  BY ONLY <1>1, <1>2

\* It takes them in one way only.
LEMMA TurnsUnique ==
  ASSUME NEW R, NEW F, NEW lo \in Nat, NEW r, NEW n \in Nat,
         NEW g \in Turns(R, F, lo, r, n), NEW h \in Turns(R, F, lo, r, n)
  PROVE  g = h
<1> DEFINE T == {k \in 0 .. n : g[k] # h[k]}
<1>1. /\ g \in [0 .. n -> R] /\ g[0] = r /\ \A k \in 1 .. n : g[k] = F[<<g[k - 1], lo + k - 1>>]
      /\ h \in [0 .. n -> R] /\ h[0] = r /\ \A k \in 1 .. n : h[k] = F[<<h[k - 1], lo + k - 1>>]
  BY DEF Turns
<1>2. CASE T = {}
  <2>1. \A k \in 0 .. n : g[k] = h[k]
    BY ONLY <1>2
  <2> QED
    BY ONLY <1>1, <2>1
<1>3. CASE T # {}
  <2>1. T \subseteq Nat
    BY ONLY n \in Nat
  <2>2. PICK m \in T : \A k \in T : m <= k
    <3> HIDE DEF T
    <3> QED
      BY ONLY <1>3, <2>1, LeastNumber
  <2>3. m \in 0 .. n /\ g[m] # h[m]
    BY ONLY m \in T
  <2>4. m # 0
    BY ONLY <1>1, <2>3
  <2>5. m \in 1 .. n /\ m - 1 \in 0 .. n /\ ~ (m <= m - 1)
    BY ONLY <2>3, <2>4, n \in Nat
  <2>6. g[m - 1] = h[m - 1]
    BY ONLY <2>2, <2>5
  <2>7. g[m] = F[<<g[m - 1], lo + m - 1>>] /\ h[m] = F[<<h[m - 1], lo + m - 1>>]
    BY ONLY <1>1, <2>5
  <2> QED
    BY ONLY <2>3, <2>6, <2>7
<1> QED
  BY ONLY <1>2, <1>3

\* The first m turns, and the others, are turns of the same loop.
LEMMA TurnsSplit ==
  ASSUME NEW R, NEW F, NEW lo \in Nat, NEW r, NEW n \in Nat, NEW h \in Turns(R, F, lo, r, n),
         NEW m \in 0 .. n
  PROVE  /\ [k \in 0 .. m |-> h[k]] \in Turns(R, F, lo, r, m)
         /\ [k \in 0 .. n - m |-> h[k + m]] \in Turns(R, F, lo + m, h[m], n - m)
         /\ h[m] \in R /\ h[n] \in R
<1> DEFINE a == [k \in 0 .. m |-> h[k]]
           b == [k \in 0 .. n - m |-> h[k + m]]
<1>1. /\ h \in [0 .. n -> R] /\ h[0] = r /\ \A k \in 1 .. n : h[k] = F[<<h[k - 1], lo + k - 1>>]
  BY DEF Turns
<1>2. a \in [0 .. m -> R] /\ b \in [0 .. n - m -> R] /\ a[0] = r /\ b[0] = h[m]
  BY ONLY <1>1, n \in Nat, m \in 0 .. n
<1>3. ASSUME NEW k \in 1 .. m PROVE a[k] = F[<<a[k - 1], lo + k - 1>>]
  BY ONLY <1>1, n \in Nat, m \in 0 .. n, k \in 1 .. m
<1>4. ASSUME NEW k \in 1 .. n - m PROVE b[k] = F[<<b[k - 1], (lo + m) + k - 1>>]
  <2>1. k + m \in 1 .. n /\ lo + (k + m) - 1 = (lo + m) + k - 1 /\ k \in 0 .. n - m /\ k - 1 \in 0 .. n - m
        /\ (k + m) - 1 = (k - 1) + m
    BY ONLY lo \in Nat, n \in Nat, m \in 0 .. n, k \in 1 .. n - m
  <2>2. h[k + m] = F[<<h[(k + m) - 1], lo + (k + m) - 1>>]
    BY ONLY <1>1, <2>1
  <2> QED
    BY ONLY <2>1, <2>2
<1>5. h[m] \in R /\ h[n] \in R
  BY ONLY <1>1, n \in Nat, m \in 0 .. n
<1> HIDE DEF a, b
<1>6. a \in Turns(R, F, lo, r, m)
  BY ONLY <1>2, <1>3 DEF Turns
<1>7. b \in Turns(R, F, lo + m, h[m], n - m)
  BY ONLY <1>2, <1>4 DEF Turns
<1> QED
  BY ONLY <1>5, <1>6, <1>7 DEF a, b

\* What one step of the recursion does.
LEMMA HalvesStep ==
  ASSUME NEW R, NEW F, NEW g, NEW f, f = HalvesOf(R, F, g), NEW lo \in Nat, NEW hi \in Nat, NEW r \in R
  PROVE  /\ lo > hi => f[<<lo, hi, r>>] = r
         /\ lo = hi => f[<<lo, hi, r>>] = F[<<r, lo>>]
         /\ lo < hi => f[<<lo, hi, r>>]
                         = g[<<(lo + hi) \div 2 + 1, hi, g[<<lo, (lo + hi) \div 2, r>>]>>]
<1>1. PICK t : t = <<lo, hi, r>>
  OBVIOUS
<1>2. t \in Nat \X Nat \X R /\ t[1] = lo /\ t[2] = hi /\ t[3] = r
  BY <1>1
<1>3. HalvesOf(R, F, g)[t] =
        IF t[1] > t[2] THEN t[3]
        ELSE IF t[1] = t[2] THEN F[<<t[3], t[1]>>]
        ELSE g[<<(t[1] + t[2]) \div 2 + 1, t[2], g[<<t[1], (t[1] + t[2]) \div 2, t[3]>>]>>]
  BY ONLY <1>2, Zenon DEF HalvesOf
<1>4. /\ lo > hi => ~ lo = hi
      /\ lo < hi => ~ lo > hi /\ ~ lo = hi
      /\ lo = hi => ~ lo > hi
  OBVIOUS
<1> DEFINE x == HalvesOf(R, F, g)[t]
           mid == (lo + hi) \div 2
           y == g[<<mid + 1, hi, g[<<lo, mid, r>>]>>]
           z == F[<<r, lo>>]
<1>5. x = IF lo > hi THEN r ELSE IF lo = hi THEN z ELSE y
  BY ONLY <1>2, <1>3, Zenon
<1>6. x = f[<<lo, hi, r>>]
  BY ONLY <1>1, f = HalvesOf(R, F, g)
<1> HIDE DEF x, y, z
<1>7. (lo > hi => x = r) /\ (lo = hi => x = z) /\ (lo < hi => x = y)
  BY ONLY <1>4, <1>5, Zenon
<1> QED
  BY ONLY <1>6, <1>7, Zenon DEF y, z

\* Where the elements lo .. hi are cut.
LEMMA Middle ==
  ASSUME NEW lo \in Nat, NEW hi \in Nat, lo < hi, NEW n \in Nat, hi = lo + n - 1,
         NEW mid, mid = (lo + hi) \div 2, NEW m, m = mid - lo + 1
  PROVE  /\ mid \in Nat /\ m \in 1 .. n /\ m < n /\ m \in Nat /\ n - m \in Nat /\ n - m < n
         /\ mid = lo + m - 1 /\ mid + 1 = lo + m /\ hi = (lo + m) + (n - m) - 1
  OBVIOUS

\* F makes of a state and the number of an element a state.
IsStep(F, R) == F \in [R \X Nat -> R]

\* The recursion f comes to the last one of the states e.
EndsWith(f, s, w, e) == f[<<1, w, s>>] = e[w]

\* The recursion comes to the state after the turns of the loop.
LEMMA HalvesMeaning ==
  ASSUME NEW R, NEW F, IsStep(F, R), NEW f, InHalves(R, F, f),
         NEW s, s \in R, NEW w, w \in Nat, NEW e, e \in Turns(R, F, 1, s, w)
  PROVE  EndsWith(f, s, w, e)
<1>0. F \in [R \X Nat -> R]
  BY DEF IsStep
<1> SUFFICES f[<<1, w, s>>] = e[w]
  BY DEF EndsWith
<1> DEFINE Wrong(lo, hi, r, n, h) == hi = lo + n - 1 /\ h \in Turns(R, F, lo, r, n) /\ f[<<lo, hi, r>>] # h[n]
           T == {n \in Nat : \E lo \in Nat, hi \in Nat, r \in R : \E h : Wrong(lo, hi, r, n, h)}
<1>1. CASE T = {}
  <2>1. w \notin T
    BY ONLY <1>1
  <2>2. ~ Wrong(1, w, s, w, e)
    <3> HIDE DEF Wrong
    <3> QED
      BY ONLY <2>1, w \in Nat, 1 \in Nat, s \in R, Zenon
  <2>3. w = 1 + w - 1
    BY ONLY w \in Nat
  <2> QED
    BY ONLY <2>2, <2>3, e \in Turns(R, F, 1, s, w), Zenon
<1>2. CASE T # {}
  <2>1. T \subseteq Nat
    OBVIOUS
  <2>2. PICK n \in T : \A k \in T : n <= k
    <3> HIDE DEF T
    <3> QED
      BY ONLY <1>2, <2>1, LeastNumber
  <2>3. n \in Nat /\ \E lo \in Nat, hi \in Nat, r \in R : \E h : Wrong(lo, hi, r, n, h)
    BY ONLY n \in T
  <2>4. PICK lo \in Nat, hi \in Nat, r \in R : \E h : Wrong(lo, hi, r, n, h)
    BY ONLY <2>3
  <2>5. PICK h : Wrong(lo, hi, r, n, h)
    BY ONLY <2>4
  <2>6. hi = lo + n - 1 /\ h \in Turns(R, F, lo, r, n) /\ f[<<lo, hi, r>>] # h[n]
    BY ONLY <2>5
  <2>7. /\ h \in [0 .. n -> R] /\ h[0] = r /\ \A k \in 1 .. n : h[k] = F[<<h[k - 1], lo + k - 1>>]
    BY ONLY <2>6 DEF Turns
  <2>8. /\ lo > hi => f[<<lo, hi, r>>] = r
        /\ lo = hi => f[<<lo, hi, r>>] = F[<<r, lo>>]
        /\ lo < hi => f[<<lo, hi, r>>] = f[<<(lo + hi) \div 2 + 1, hi, f[<<lo, (lo + hi) \div 2, r>>]>>]
    BY ONLY InHalves(R, F, f), HalvesStep, <1>0, lo \in Nat, hi \in Nat, r \in R DEF InHalves
  <2>9. CASE lo > hi
    <3>1. n = 0
      BY ONLY <2>3, <2>6, <2>9, lo \in Nat, hi \in Nat
    <3> QED
      BY ONLY <2>6, <2>7, <2>8, <2>9, <3>1
  <2>10. CASE lo = hi
    <3>1. n = 1
      BY ONLY <2>3, <2>6, <2>10, lo \in Nat, hi \in Nat
    <3>2. h[1] = F[<<h[0], lo>>]
      BY ONLY <2>7, <3>1, lo \in Nat
    <3> QED
      BY ONLY <2>6, <2>7, <2>8, <2>10, <3>1, <3>2
  <2>11. CASE lo < hi
    <3> DEFINE mid == (lo + hi) \div 2
               m == mid - lo + 1
               a == [k \in 0 .. m |-> h[k]]
               b == [k \in 0 .. n - m |-> h[k + m]]
    <3>1. /\ mid \in Nat /\ m \in 1 .. n /\ m < n /\ m \in Nat /\ n - m \in Nat /\ n - m < n
          /\ mid = lo + m - 1 /\ mid + 1 = lo + m /\ hi = (lo + m) + (n - m) - 1
      BY ONLY <2>3, <2>6, <2>11, Middle, lo \in Nat, hi \in Nat, SMTT(40)
    <3>2. f[<<lo, hi, r>>] = f[<<mid + 1, hi, f[<<lo, mid, r>>]>>]
      BY ONLY <2>8, <2>11
    <3> HIDE DEF mid, m
    <3>3. m \in 0 .. n
      BY ONLY <3>1, <2>3
    <3>4. /\ a \in Turns(R, F, lo, r, m) /\ b \in Turns(R, F, lo + m, h[m], n - m) /\ h[m] \in R
      BY ONLY <2>3, <2>6, <3>3, TurnsSplit, <1>0, lo \in Nat
    <3>5. a[m] = h[m] /\ b[n - m] = h[n]
      <4>1. m \in 0 .. m /\ n - m \in 0 .. n - m /\ (n - m) + m = n
        BY ONLY <2>3, <3>1
      <4> QED
        BY ONLY <4>1, Zenon
    <3> HIDE DEF a, b, Wrong, T
    <3>6. m \notin T /\ n - m \notin T
      BY ONLY <2>2, <2>3, <3>1
    <3>7. ~ Wrong(lo, mid, r, m, a)
      BY ONLY <3>1, <3>6, lo \in Nat, r \in R DEF T
    <3>8. ~ Wrong(lo + m, hi, h[m], n - m, b)
      <4>1. lo + m \in Nat
        BY ONLY <3>1, lo \in Nat
      <4> QED
        BY ONLY <3>1, <3>4, <3>6, <4>1, hi \in Nat DEF T
    <3>9. f[<<lo, mid, r>>] = h[m]
      BY ONLY <3>1, <3>4, <3>5, <3>7 DEF Wrong
    <3>10. f[<<lo + m, hi, h[m]>>] = h[n]
      BY ONLY <3>1, <3>4, <3>5, <3>8 DEF Wrong
    <3> QED
      BY ONLY <2>6, <3>1, <3>2, <3>9, <3>10
  <2> QED
    BY ONLY <2>9, <2>10, <2>11, lo \in Nat, hi \in Nat
<1> QED
  BY ONLY <1>1, <1>2

\* The recursion has a solution.
LEMMA HalvesExist ==
  ASSUME NEW R, NEW F \in [R \X Nat -> R]
  PROVE  \E g : InHalves(R, F, g)
<1> DEFINE D == Nat \X Nat \X R
           n(t) == t[2] - t[1] + 1
           h(t) == CHOOSE e : e \in Turns(R, F, t[1], t[3], n(t))
           B(t) == IF t[1] > t[2] THEN t[3] ELSE h(t)[n(t)]
<1>0. PICK g : g = [t \in D |-> B(t)]
  BY Zenon
<1>1. ASSUME NEW lo \in Nat, NEW hi \in Nat, NEW r \in R, lo <= hi, NEW w \in Nat, w = hi - lo + 1,
             NEW e \in Turns(R, F, lo, r, w)
      PROVE  g[<<lo, hi, r>>] = e[w]
  <2> DEFINE d == CHOOSE x : x \in Turns(R, F, lo, r, w)
  <2>1. g[<<lo, hi, r>>] = d[w]
    BY ONLY <1>0, <1>1
  <2>2. d \in Turns(R, F, lo, r, w)
    BY ONLY e \in Turns(R, F, lo, r, w), Zenon
  <2> HIDE DEF d
  <2>3. d = e
    BY ONLY <2>2, e \in Turns(R, F, lo, r, w), TurnsUnique, lo \in Nat, w \in Nat
  <2> QED
    BY ONLY <2>1, <2>3
<1>2. ASSUME NEW lo \in Nat, NEW hi \in Nat, NEW r \in R
      PROVE  g[<<lo, hi, r>>] = HalvesOf(R, F, g)[<<lo, hi, r>>]
  <2>0. lo > hi => g[<<lo, hi, r>>] = r
    BY ONLY <1>0, lo \in Nat, hi \in Nat, r \in R
  <2>f. PICK f : f = HalvesOf(R, F, g)
    OBVIOUS
  <2> SUFFICES g[<<lo, hi, r>>] = f[<<lo, hi, r>>]
    BY <2>f
  <2>s. /\ lo > hi => f[<<lo, hi, r>>] = r
        /\ lo = hi => f[<<lo, hi, r>>] = F[<<r, lo>>]
        /\ lo < hi => f[<<lo, hi, r>>]
                        = g[<<(lo + hi) \div 2 + 1, hi, g[<<lo, (lo + hi) \div 2, r>>]>>]
    BY ONLY <2>f, HalvesStep, lo \in Nat, hi \in Nat, r \in R
  <2>1. CASE lo > hi
    BY ONLY <2>0, <2>1, <2>s, Zenon
  <2>2. CASE lo <= hi
    <3> DEFINE w == hi - lo + 1
    <3>1. w \in Nat /\ w >= 1 /\ hi = lo + w - 1 /\ w = hi - lo + 1
      BY ONLY <2>2, lo \in Nat, hi \in Nat
    <3> HIDE DEF w
    <3>2. PICK e : e \in Turns(R, F, lo, r, w)
      BY ONLY <3>1, TurnsExist, F \in [R \X Nat -> R], lo \in Nat, r \in R
    <3>3. g[<<lo, hi, r>>] = e[w]
      BY ONLY <1>1, <2>2, <3>1, <3>2, lo \in Nat, hi \in Nat, r \in R
    <3>4. /\ e \in [0 .. w -> R] /\ e[0] = r /\ \A k \in 1 .. w : e[k] = F[<<e[k - 1], lo + k - 1>>]
      BY ONLY <3>2 DEF Turns
    <3>5. CASE lo = hi
      <4>1. w = 1
        BY ONLY <3>1, <3>5, lo \in Nat
      <4>2. e[1] = F[<<r, lo>>]
        BY ONLY <3>4, <4>1, lo \in Nat
      <4> QED
        <5>1. f[<<lo, hi, r>>] = F[<<r, lo>>]
          BY ONLY <2>s, <3>5, Zenon
        <5> QED
          BY ONLY <3>3, <4>1, <4>2, <5>1, Zenon
    <3>6. CASE lo < hi
      <4> DEFINE mid == (lo + hi) \div 2
                 m == mid - lo + 1
                 a == [k \in 0 .. m |-> e[k]]
                 b == [k \in 0 .. w - m |-> e[k + m]]
      <4>1. /\ mid \in Nat /\ m \in 1 .. w /\ m < w /\ m \in Nat /\ w - m \in Nat /\ w - m < w
            /\ mid = lo + m - 1 /\ mid + 1 = lo + m /\ hi = (lo + m) + (w - m) - 1
        BY ONLY <3>1, <3>6, Middle, lo \in Nat, hi \in Nat
      <4>2. f[<<lo, hi, r>>] = g[<<mid + 1, hi, g[<<lo, mid, r>>]>>]
        BY ONLY <2>s, <3>6, Zenon
      <4> HIDE DEF mid, m
      <4>3. m \in 0 .. w
        BY ONLY <4>1, <3>1
      <4>4. /\ a \in Turns(R, F, lo, r, m) /\ b \in Turns(R, F, lo + m, e[m], w - m) /\ e[m] \in R
        BY ONLY <3>1, <3>2, <4>3, TurnsSplit, lo \in Nat
      <4>5. a[m] = e[m] /\ b[w - m] = e[w]
        BY ONLY <3>1, <4>1, <4>3
      <4> HIDE DEF a, b
      <4>6. lo <= mid /\ m = mid - lo + 1 /\ lo + m <= hi /\ w - m = hi - (lo + m) + 1 /\ lo + m \in Nat
        BY ONLY <3>1, <4>1, lo \in Nat, hi \in Nat
      <4>7. g[<<lo, mid, r>>] = e[m]
        BY ONLY <1>1, <4>1, <4>4, <4>5, <4>6, lo \in Nat, r \in R
      <4>8. g[<<lo + m, hi, e[m]>>] = e[w]
        BY ONLY <1>1, <4>1, <4>4, <4>5, <4>6, hi \in Nat
      <4> QED
        BY ONLY <3>3, <4>1, <4>2, <4>7, <4>8
    <3> QED
      BY ONLY <2>2, <3>5, <3>6, lo \in Nat, hi \in Nat
  <2> QED
    BY ONLY <2>1, <2>2, lo \in Nat, hi \in Nat
<1>3. \A t \in D : g[t] = HalvesOf(R, F, g)[t]
  <2>1. ASSUME NEW t \in D PROVE g[t] = HalvesOf(R, F, g)[t]
    <3>1. PICK lo \in Nat, hi \in Nat, r \in R : t = <<lo, hi, r>>
      OBVIOUS
    <3> QED
      BY ONLY <1>2, <3>1
  <2> QED
    BY ONLY <2>1
<1>4. g = HalvesOf(R, F, g)
  <2> DEFINE y == HalvesOf(R, F, g)
  <2>1. g = [t \in D |-> g[t]] /\ y = [t \in D |-> y[t]]
    <3> HIDE DEF B
    <3>1. g = [t \in D |-> g[t]]
      BY ONLY <1>0, Zenon
    <3>2. y = [t \in D |-> y[t]]
      BY ONLY Zenon DEF HalvesOf
    <3> QED
      BY ONLY <3>1, <3>2
  <2> HIDE DEF y
  <2>2. \A t \in D : g[t] = y[t]
    BY ONLY <1>3 DEF y
  <2>3. g = y
    BY ONLY <2>1, <2>2, Zenon
  <2> QED
    BY ONLY <2>3 DEF y
<1> QED
  BY ONLY <1>4 DEF InHalves

\* The two bytes that the loop of CRC16 carries along.
Register == [lo : Byte, hi : Byte]

\* What ^ makes of two values is a byte.
LEMMA XorType == ASSUME NEW a, NEW b PROVE Xor(a, b) \in Byte
  BY DEF Xor, Byte

\* The tables have an entry for every byte, and every entry is one.
LEMMA TablesType ==
  /\ auchCRCHi \in Seq(Byte) /\ Len(auchCRCHi) = 256
  /\ auchCRCLo \in Seq(Byte) /\ Len(auchCRCLo) = 256
<1>1. auchCRCHi \in Seq(Byte) /\ Len(auchCRCHi) = 256
  BY SMTT(30) DEF auchCRCHi, Byte
<1>2. auchCRCLo \in Seq(Byte) /\ Len(auchCRCLo) = 256
  BY SMTT(30) DEF auchCRCLo, Byte
<1> QED
  BY ONLY <1>1, <1>2

\* So a byte finds a byte there.
LEMMA TableEntry == ASSUME NEW x \in Byte PROVE auchCRCLo[x + 1] \in Byte
<1>1. PICK s \in Seq(Byte) : s = auchCRCLo /\ Len(s) = 256
  BY ONLY TablesType
<1>2. PICK k \in 1 .. 256 : k = x + 1
  BY ONLY x \in Byte DEF Byte
<1>3. k \in 1 .. Len(s)
  BY ONLY <1>1, k \in 1 .. 256
<1>4. s[k] \in Byte
  BY ONLY <1>3, s \in Seq(Byte), ElementOf, Zenon
<1> QED
  BY ONLY <1>1, <1>2, <1>4, Zenon

\* A turn of the loop leaves two bytes, whatever byte of the message it takes.
LEMMA CrcStepType == ASSUME NEW r, NEW b PROVE CrcStep(r, b) \in Register
<1>1. PICK x \in Byte : x = Xor(r.lo, b)
  BY ONLY XorType
<1>2. auchCRCLo[x + 1] \in Byte /\ Xor(r.hi, auchCRCHi[x + 1]) \in Byte
  BY ONLY TableEntry, XorType, x \in Byte
<1>3. CrcStep(r, b) = [lo |-> Xor(r.hi, auchCRCHi[x + 1]), hi |-> auchCRCLo[x + 1]]
  BY ONLY <1>1 DEF CrcStep
<1> QED
  BY ONLY <1>2, <1>3 DEF Register

\* The turns of the loop with the bytes of a message.
CrcTurn(msg) == [p \in Register \X Nat |-> CrcStep(p[1], msg[p[2]])]
CrcStart     == [lo |-> 255, hi |-> 255]

\* CRC16 returns what its loop has come to after the last byte.
LEMMA CrcLoopIs ==
  ASSUME NEW msg, Len(msg) \in Nat
  PROVE  /\ \E h : h \in Turns(Register, CrcTurn(msg), 1, CrcStart, Len(msg))
         /\ \A h \in Turns(Register, CrcTurn(msg), 1, CrcStart, Len(msg)) : CrcLoop(msg) = h[Len(msg)]
         /\ CrcTurn(msg) \in [Register \X Nat -> Register]
<1> DEFINE R == Register
           F == CrcTurn(msg)
           D == Nat \X Nat \X R
           After(g) == [t \in D |->
                          LET lo  == t[1]
                              hi  == t[2]
                              mid == (lo + hi) \div 2
                          IN  IF lo > hi THEN t[3]
                              ELSE IF lo = hi THEN CrcStep(t[3], msg[lo])
                              ELSE g[<<mid + 1, hi, g[<<lo, mid, t[3]>>]>>]]
           f == CHOOSE g : g = After(g)
<1>1. F \in [R \X Nat -> R]
  <2>1. \A p \in R \X Nat : CrcStep(p[1], msg[p[2]]) \in R
    BY ONLY CrcStepType
  <2> QED
    BY ONLY <2>1 DEF CrcTurn
<1>2. CrcStart \in R
  BY DEF CrcStart, Register, Byte
<1>3. ASSUME NEW g PROVE HalvesOf(R, F, g) = After(g)
  <2>1. ASSUME NEW t \in D PROVE F[<<t[3], t[1]>>] = CrcStep(t[3], msg[t[1]])
    <3>1. PICK p : p = <<t[3], t[1]>>
      OBVIOUS
    <3>2. p \in R \X Nat /\ p[1] = t[3] /\ p[2] = t[1]
      BY ONLY <3>1, t \in D
    <3>3. F[p] = CrcStep(p[1], msg[p[2]])
      BY ONLY <3>2, Zenon DEF CrcTurn
    <3> QED
      BY ONLY <3>1, <3>2, <3>3
  <2> HIDE DEF F, R, D
  <2> QED
    BY ONLY <2>1, Zenon DEF HalvesOf, D
<1>4. CrcLoop(msg) = f[<<1, Len(msg), CrcStart>>]
  BY ONLY DEF CrcLoop, CrcStart, Register
<1> HIDE DEF F, R, After
<1>5. \E g : g = After(g)
  <2>1. PICK g : InHalves(R, F, g)
    BY ONLY <1>1, HalvesExist
  <2>2. g = After(g)
    BY ONLY <1>3, <2>1 DEF InHalves
  <2> QED
    BY ONLY <2>2
<1>6. f = After(f)
  BY ONLY <1>5, Zenon
<1> HIDE DEF f
<1>7. InHalves(R, F, f)
  BY ONLY <1>3, <1>6 DEF InHalves
<1>8. ASSUME NEW h \in Turns(R, F, 1, CrcStart, Len(msg)) PROVE CrcLoop(msg) = h[Len(msg)]
  <2>1. PICK n \in Nat : n = Len(msg)
    BY ONLY Len(msg) \in Nat
  <2>2. n = 1 + n - 1 /\ 1 \in Nat
    BY ONLY n \in Nat
  <2>3. h \in Turns(R, F, 1, CrcStart, n)
    BY ONLY <2>1, h \in Turns(R, F, 1, CrcStart, Len(msg))
  <2>4. f[<<1, n, CrcStart>>] = h[n]
    <3>1. PICK R1, F1, f1, s1 : R1 = R /\ F1 = F /\ f1 = f /\ s1 = CrcStart
      OBVIOUS
    <3>2. IsStep(F1, R1)
      BY ONLY <1>1, <3>1, Zenon DEF IsStep
    <3>3. InHalves(R1, F1, f1)
      BY ONLY <1>7, <3>1, Zenon
    <3>4. s1 \in R1
      BY ONLY <1>2, <3>1, Zenon
    <3>5. h \in Turns(R1, F1, 1, s1, n)
      BY ONLY <2>3, <3>1, Zenon
    <3>6. EndsWith(f1, s1, n, h)
      BY ONLY <3>2, <3>3, <3>4, <3>5, n \in Nat, HalvesMeaning, Zenon
    <3>7. f1[<<1, n, s1>>] = h[n]
      BY ONLY <3>6 DEF EndsWith
    <3> QED
      BY ONLY <3>1, <3>7, Zenon
  <2> QED
    BY ONLY <1>4, <2>1, <2>4
<1>9. \E h : h \in Turns(R, F, 1, CrcStart, Len(msg))
  BY ONLY <1>1, <1>2, TurnsExist, Len(msg) \in Nat
<1> QED
  BY ONLY <1>1, <1>8, <1>9 DEF R, F

\* The checksum is a uint16_t.
LEMMA CrcType ==
  ASSUME NEW msg, Len(msg) \in Nat
  PROVE  /\ CrcLoop(msg) \in Register
         /\ CRC16(msg) \in U16
         /\ CrcBytes(CRC16(msg)) \in Seq(Byte) /\ Len(CrcBytes(CRC16(msg))) = 2
<1>1. PICK h : h \in Turns(Register, CrcTurn(msg), 1, CrcStart, Len(msg))
  BY CrcLoopIs
<1>2. CrcLoop(msg) = h[Len(msg)]
  BY ONLY <1>1, CrcLoopIs, Len(msg) \in Nat
<1>3. h \in [0 .. Len(msg) -> Register]
  BY ONLY <1>1 DEF Turns
<1>4. CrcLoop(msg) \in Register
  BY ONLY <1>2, <1>3, Len(msg) \in Nat
<1>5. PICK r \in Register : r = CrcLoop(msg)
  BY ONLY <1>4
<1>6. r.lo \in Byte /\ r.hi \in Byte
  BY ONLY r \in Register DEF Register
<1>7. CRC16(msg) = r.hi * 256 + r.lo
  BY ONLY <1>5 DEF CRC16
<1>8. PICK c : c = CRC16(msg)
  OBVIOUS
<1>9. c \in U16 /\ c % 256 \in Byte /\ c \div 256 \in Byte
  BY ONLY <1>6, <1>7, <1>8 DEF Byte, U16
<1>10. CrcBytes(c) \in Seq(Byte) /\ Len(CrcBytes(c)) = 2
  BY ONLY <1>9 DEF CrcBytes
<1> QED
  BY ONLY <1>4, <1>8, <1>9, <1>10

================================================================================
