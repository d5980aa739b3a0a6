--------------------------- MODULE RtuByteReadProofs ---------------------------
(* NoByteLost of RtuByteRead for any number of bytes and of calls.              *)
EXTENDS RtuByteRead, TLAPS

\* What NoByteLost needs to be inductive: the buffer holds a byte only while a call is under way
\* whose read succeeded, until its handler has told the call so; and no operation outlives its call.
Handshake ==
  /\ ~ running => read \in {"none", "handled"} /\ timer \in {"none", "handled"}
  /\ ~ running => slot = <<>>
  /\ read # "handled" => bytes_read = 0 \/ ~ running
  /\ read # "ok" /\ bytes_read = 0 => slot = <<>>

Inv == TypeOK /\ Handshake /\ NoByteLost

\* Moving the first element of a sequence to the end of the one before it changes nothing.
LEMMA MoveHead ==
  ASSUME NEW r \in Seq(Nat), NEW l \in Seq(Nat), l # <<>>
  PROVE  /\ Head(l) \in Nat /\ Tail(l) \in Seq(Nat)
         /\ r \o <<Head(l)>> \o Tail(l) = r \o <<>> \o l
  BY SMTT(60)

\* A byte that arrives goes behind everything else.
LEMMA AppendLast ==
  ASSUME NEW r \in Seq(Nat), NEW s \in Seq(Nat), NEW l \in Seq(Nat), NEW x \in Nat
  PROVE  r \o s \o Append(l, x) = Append(r \o s \o l, x)
  BY SMTT(60)

\* A byte that the caller commits moves from its buffer to what it has received.
LEMMA Shift ==
  ASSUME NEW r \in Seq(Nat), NEW s \in Seq(Nat), NEW l \in Seq(Nat)
  PROVE  r \o s \in Seq(Nat) /\ (r \o s) \o <<>> \o l = r \o s \o l
  BY SMTT(60)

--------------------------------------------------------------------------------
\* Before the first call nothing has arrived.
LEMMA InitInv == Init => Inv
<1> SUFFICES ASSUME Init PROVE Inv
  OBVIOUS
<1>0. <<>> \in Seq(Nat)
  OBVIOUS
<1>1. TypeOK
  <2>1. arrived \in 0 .. MaxBytes /\ calls \in 0 .. MaxReads /\ bytes_read \in {0, 1}
    BY BoundsTyped DEF Init
  <2>2. running \in BOOLEAN
    BY Zenon DEF Init
  <2> QED
    BY <1>0, <2>1, <2>2 DEF Init, TypeOK, Result
<1>2. Handshake
  BY DEF Init, Handshake
<1>3. NoByteLost
  <2>1. <<>> \o <<>> \o <<>> = <<>> /\ [k \in 1 .. 0 |-> k] = <<>>
    OBVIOUS
  <2> QED
    BY <2>1 DEF Init, NoByteLost
<1> QED
  BY <1>1, <1>2, <1>3 DEF Inv

\* Each action keeps the invariant.
LEMMA NextInv == Inv /\ [Next]_vars => Inv'
<1> SUFFICES ASSUME Inv, [Next]_vars PROVE Inv'
  OBVIOUS
<1> USE BoundsTyped DEF Inv, TypeOK, Handshake, Result
<1>1. CASE Start
  BY <1>1 DEF Start, NoByteLost
<1>2. CASE ReadCompletes
  <2>1. slot = <<>> /\ running
    BY <1>2 DEF ReadCompletes
  <2>2. Head(line) \in Nat /\ Tail(line) \in Seq(Nat)
    BY <1>2, MoveHead DEF ReadCompletes
  <2>3. NoByteLost'
    BY <1>2, <2>1, MoveHead DEF ReadCompletes, NoByteLost
  <2> QED
    BY <1>2, <2>1, <2>2, <2>3 DEF ReadCompletes
<1>3. CASE ReadFails
  BY <1>3 DEF ReadFails, NoByteLost
<1>4. CASE TimerExpires
  BY <1>4 DEF TimerExpires, NoByteLost
<1>5. CASE ReadHandler
  BY <1>5 DEF ReadHandler, NoByteLost, Cancel
<1>6. CASE TimerHandler
  BY <1>6 DEF TimerHandler, NoByteLost, Cancel
<1>7. CASE Return
  <2>0. /\ received \in Seq(Nat) /\ slot \in Seq(Nat) /\ line \in Seq(Nat)
        /\ slot' = <<>> /\ line' = line /\ arrived' = arrived
    BY <1>7 DEF Return
  <2>1. received' = received \o slot
    <3>1. CASE bytes_read = 1
      BY <1>7, <3>1 DEF Return
    <3>2. CASE bytes_read = 0
      BY <1>7, <3>2 DEF Return
    <3> QED
      BY <3>1, <3>2
  <2>2. received \o slot \in Seq(Nat) /\ (received \o slot) \o <<>> \o line = received \o slot \o line
    BY ONLY <2>0, Shift
  <2>3. NoByteLost'
    BY ONLY <2>0, <2>1, <2>2, Inv DEF NoByteLost, Inv
  <2>4. TypeOK'
    <3>1. received' \in Seq(Nat) /\ slot' \in Seq(Nat) /\ Len(slot') <= 1
      BY ONLY <2>0, <2>1, <2>2
    <3> QED
      BY <1>7, <3>1 DEF Return
  <2>5. Handshake'
    BY <1>7 DEF Return
  <2> QED
    BY <2>3, <2>4, <2>5
<1>8. CASE ByteArrives
  <2>1. line' \in Seq(Nat) /\ arrived' \in 0 .. MaxBytes
    BY <1>8 DEF ByteArrives
  <2>2. NoByteLost'
    <3>0. /\ received \in Seq(Nat) /\ slot \in Seq(Nat) /\ line \in Seq(Nat)
          /\ arrived \in Nat /\ line' = Append(line, arrived + 1)
      BY <1>8 DEF ByteArrives
    <3> HIDE DEF Inv, TypeOK, Handshake
    <3>1. received \o slot \o line' = Append(received \o slot \o line, arrived + 1)
      <4>1. arrived + 1 \in Nat
        BY ONLY <3>0
      <4>2. received \o slot \o Append(line, arrived + 1) = Append(received \o slot \o line, arrived + 1)
        BY ONLY <3>0, <4>1, AppendLast, SMTT(60)
      <4> QED
        BY ONLY <3>0, <4>2, Zenon
    <3>2. Append([k \in 1 .. arrived |-> k], arrived + 1) = [k \in 1 .. arrived + 1 |-> k]
      BY <3>0
    <3> QED
      BY <1>8, <3>1, <3>2 DEF ByteArrives, NoByteLost, Inv
  <2> QED
    BY <1>8, <2>1, <2>2 DEF ByteArrives
<1>9. CASE UNCHANGED vars
  BY <1>9 DEF vars, NoByteLost
<1> QED
  BY <1>1, <1>2, <1>3, <1>4, <1>5, <1>6, <1>7, <1>8, <1>9 DEF Next

\* The slot of a call never holds more than one byte and the two results are those of asio, for any
\* number of bytes and calls: boost::asio::read of one byte fills the one byte of read_byte_with_timeout.
THEOREM TypeOKTheorem == Spec => []TypeOK
<1>1. Inv => TypeOK
  BY DEF Inv
<1> QED
  BY InitInv, NextInv, <1>1, PTL DEF Spec

\* However the arrival of a byte, the expiry of the timer and the two handlers are ordered, every
\* byte the serial port received is delivered to receive_response once and in order, or still waits.
THEOREM NoByteLostTheorem == Spec => []NoByteLost
<1>1. Inv => NoByteLost
  BY DEF Inv
<1> QED
  BY InitInv, NextInv, <1>1, PTL DEF Spec
================================================================================
