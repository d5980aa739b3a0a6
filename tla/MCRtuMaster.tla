------------------------------ MODULE MCRtuMaster ------------------------------
(* Instances of RtuMaster for TLC.                                              *)
EXTENDS RtuMaster, SampleCalls

\* Every function, both overloads, the longest read, a register whose value is not a coil's, a
\* broadcast; unit ids that equal a function code.
MCCalls ==
  {ReadBits(1, 1, 0, 9), ReadBits(2, 2, 8, 2), ReadRegs(3, 3, 0, 125, TRUE),
   ReadRegs(3, 3, 1, 1, FALSE), ReadRegs(4, 1, 0, 2, TRUE), Write(5, 1, 8, <<1>>),
   Write(6, 1, 1, <<4660>>), Write(15, 1, 0, <<1, 0, 1, 1, 0, 0, 0, 1, 1>>),
   Write(16, 1, 0, <<258, 65535>>), ReadWrite(1, 0, 2, 1, <<4660>>), Write(16, 0, 1, <<772>>)}

\* Calls on units whose id is their function code: a reply and the request after it look alike.
NoisyCalls == {ReadRegs(3, 3, 1, 1, TRUE), Write(16, 16, 0, <<258>>)}

\* One documented call each, for the runs on what the documentation says.
RefusedCalls == {ReadRegs(3, 1, 0, 1, TRUE)}
================================================================================
