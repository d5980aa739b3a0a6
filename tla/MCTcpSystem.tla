------------------------------ MODULE MCTcpSystem ------------------------------
(* Instances of TcpSystem for TLC.                                              *)
EXTENDS TcpSystem, SampleCalls

CONSTANT c1

\* The answer to a read of six registers is as long as three headers: three calls after a
\* broadcast, the stream is at the beginning of a frame again.
MCCalls == {ReadRegs(3, 1, 0, 6, TRUE), ReadRegs(3, 0, 0, 6, TRUE)}
================================================================================
