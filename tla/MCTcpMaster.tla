------------------------------ MODULE MCTcpMaster ------------------------------
(* Instances of TcpMaster for TLC.                                              *)
EXTENDS TcpMaster, SampleCalls

\* Every function, both overloads, the edges of the tables and one entry past them, coils that
\* cross a byte, and a broadcast.
MCCalls ==
  {ReadBits(1, 1, 0, 9), ReadBits(2, 7, 8, 2), ReadRegs(3, 1, 0, 2, FALSE),
   ReadRegs(4, 1, 1, 2, TRUE), Write(5, 1, 8, <<1>>), Write(6, 1, 1, <<65280>>),
   Write(15, 1, 0, <<1, 0, 1, 1, 0, 0, 0, 1, 1>>), Write(16, 1, 0, <<258, 65535>>),
   ReadWrite(1, 0, 2, 1, <<4660>>), Write(16, 0, 1, <<772>>)}

\* One documented call each, for the runs on what master.h documents.
RegisterCalls == {Write(6, 1, 0, <<1>>)}
LengthCalls   == {ReadWrite(1, 0, 124, 0, <<1>>)}
================================================================================
