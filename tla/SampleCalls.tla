------------------------------ MODULE SampleCalls ------------------------------
(* Calls for the instances that TLC checks: one constructor per shape of call,  *)
(* with the fields that a function does not use at rest.                        *)
EXTENDS SlaveMemory

Base(fc, slave) == [fc |-> fc, slave |-> slave, address |-> 0, quantity |-> 0, waddress |-> 0,
                    values |-> <<>>, size |-> 0, words |-> FALSE]

ReadBits(fc, slave, a, n) ==
  [Base(fc, slave) EXCEPT !.address = a, !.quantity = n, !.size = (n - 1) \div 8 + 1]
ReadRegs(fc, slave, a, n, words) ==
  [Base(fc, slave) EXCEPT !.address = a, !.size = 2 * n, !.words = words]
Write(fc, slave, a, v) == [Base(fc, slave) EXCEPT !.address = a, !.values = v]
ReadWrite(slave, a, n, wa, v) ==
  [Base(23, slave) EXCEPT !.address = a, !.size = 2 * n, !.words = TRUE,
                          !.waddress = wa, !.values = v]

\* Tables in which neighbouring entries differ.
MCInitMem ==
  [coils   |-> [k \in 0 .. NCoils - 1 |-> k % 2],
   inputs  |-> [k \in 0 .. NCoils - 1 |-> IF k % 3 = 0 THEN 1 ELSE 0],
   holding |-> [k \in 0 .. NRegs - 1 |-> (513 + 517 * k) % 65536],
   input   |-> [k \in 0 .. NRegs - 1 |-> (1027 + 1031 * k) % 65536]]
================================================================================
