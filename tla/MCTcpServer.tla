------------------------------ MODULE MCTcpServer ------------------------------
(* Instances of TcpServer for TLC.                                              *)
EXTENDS TcpServer, TLC

CONSTANTS c1, c2

ReadHolding(a, n) == <<3>> \o WordBytes(<<a, n>>)
Padded(pdu, n)    == pdu \o [k \in 1 .. n |-> 255]

\* A header whose length field is not that of a frame.
Claiming(length) == WordBytes(<<7, m_protocol, length>>) \o <<255>>

Good    == {Frame(1, 255, ReadHolding(100, 1)), Frame(258, 255, ReadHolding(99, 2)),
            Frame(65535, 1, ReadHolding(100, 1))}
Long    == {Frame(5, 255, Padded(ReadHolding(100, 128), 244))}   \* too long for the client's check
Unread  == {Frame(6, 255, <<43, 14>>), Frame(6, 255, <<3, 0, 100>>)}
Refused == {Claiming(1), Claiming(255)}

MCFrames == Good \cup Long \cup Unread \cup Refused

MCSymmetry == Permutations({c1, c2})
================================================================================
