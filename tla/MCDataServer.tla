------------------------------ MODULE MCDataServer ------------------------------
(* Instances of DataServer for TLC.                                             *)
EXTENDS DataServer

CONSTANT c1

ReadHolding(a, n) == <<3>> \o WordBytes(<<a, n>>)

\* A header whose length field leaves no room for a PDU.
Claiming(length) == WordBytes(<<7, m_protocol, length>>) \o <<255>>

\* The ends of the range of registers, quantities at and beyond the limits, another class, what
\* cannot be read, and a length that is refused.
MCFrames ==
  {Frame(1, 255, ReadHolding(0, NRegisters)), Frame(258, 1, ReadHolding(NRegisters - 1, 1)),
   Frame(65535, 255, ReadHolding(2, 2)), Frame(3, 255, ReadHolding(0, 0)),
   Frame(4, 255, ReadHolding(0, 126)), Frame(5, 0, <<6, 0, 1, 0, 9>>),
   Frame(6, 255, <<3, 0, 100>>), Claiming(1)}
================================================================================
