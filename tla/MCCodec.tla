-------------------------------- MODULE MCCodec --------------------------------
(* The instance of Codec for TLC: every function at the ends of the quantities  *)
(* that master.h documents, and coils around the edges of a byte; a write of    *)
(* every low byte, whose checksums look up every entry of the two tables.       *)
EXTENDS Codec, SampleCalls

Bits(n)  == [k \in 1 .. n |-> IF k % 3 = 1 THEN 1 ELSE 0]
Words(n) == [k \in 1 .. n |-> (k * 771) % 65536]

MCCalls ==
  {ReadBits(fc, 1, a, n) : fc \in {1, 2}, a \in {0, 3}, n \in {1, 7, 8, 9, 16, 17, 1997, 2000}}
  \cup {ReadRegs(fc, 1, a, n, w) : fc \in {3, 4}, a \in {0, 1}, n \in {1, 2, 124, 125}, w \in BOOLEAN}
  \cup {Write(5, 1, a, <<b>>) : a \in {0, 1999, 2000, 65535}, b \in {0, 1}}
  \cup {Write(6, 1, a, <<v>>) : a \in {0, 124, 256}, v \in {0, 65280}}
  \cup {Write(16, 1, 1, <<v>>) : v \in 0 .. 255}
  \cup {Write(15, 1, a, Bits(n)) : a \in {0, 5}, n \in {1, 7, 8, 9, 10, 1967, 1968}}
  \cup {Write(16, 1, a, Words(n)) : a \in {0, 2, 3}, n \in {1, 2, 123}}
  \cup {ReadWrite(1, a, n, wa, Words(w)) : a \in {0, 1}, n \in {1, 125}, wa \in {0, 4}, w \in {1, 121}}
================================================================================
