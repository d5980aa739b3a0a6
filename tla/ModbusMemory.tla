------------------------------ MODULE ModbusMemory ------------------------------
(* What a Modbus master promises its application, with no bytes, frames or      *)
(* transaction ids: each call acts on the device's tables at most once and in   *)
(* the order of the calls, and a call that returns without a connection error   *)
(* returns what the device did for that very call.                              *)
EXTENDS SlaveMemory

CONSTANTS Calls,       \* the calls the application may make
          InitMem,     \* the device's tables at the start
          Refusals     \* the exception codes with which the device may refuse

VARIABLES
  mem,      \* the device's tables
  pending,  \* calls sent and not yet acted on, in order; the number of each and the call
  number,   \* how many calls were made
  call,     \* the last call made
  busy,     \* ... and whether the application still waits for it
  answer,   \* what the device did for it
  ret,      \* what the last call that ended returned
  open      \* the connection is up

vars == <<mem, pending, number, call, busy, answer, ret, open>>

\* Neither is a modbus_exception_code: nothing has been answered; boost::system::system_error.
no_answer  == -2
asio_error == -1

Unanswered == [ec |-> no_answer, out |-> <<>>]
Failed     == [ec |-> asio_error, out |-> <<>>]

Init ==
  /\ mem = InitMem
  /\ pending = <<>>
  /\ number = 0
  /\ call \in Calls
  /\ busy = FALSE
  /\ answer = Unanswered
  /\ ret = Unanswered
  /\ open = TRUE

\* The application calls.  A broadcast is not answered: it returns at once, with success.
Issue(c) ==
  /\ ~ busy
  /\ number' = number + 1
  /\ call' = c
  /\ answer' = Unanswered
  /\ pending' = IF open THEN Append(pending, [n |-> number', call |-> c]) ELSE pending
  /\ IF c.slave = 0
     THEN busy' = FALSE /\ ret' = Return(c, Unread(c))
     ELSE busy' = TRUE /\ ret' = ret
  /\ UNCHANGED <<mem, open>>

\* The call fails while it is being sent, which only a dead connection makes it do.
IssueFails(c) ==
  /\ ~ busy /\ ~ open
  /\ number' = number
  /\ call' = c
  /\ answer' = Unanswered
  /\ ret' = Failed
  /\ UNCHANGED <<mem, pending, busy, open>>

\* The device takes up the oldest call: it does what the call says, or refuses it.
Apply ==
  /\ pending # <<>>
  /\ LET p == Head(pending)
         Answered(a) == answer' = IF p.n = number /\ p.call.slave # 0 THEN a ELSE answer
     IN  \/ /\ Valid(mem, p.call)
            /\ mem' = Effect(mem, p.call)
            /\ Answered([ec |-> modbus_exception_code.success, out |-> Content(mem', p.call)])
         \/ \E e \in Refusals \cup {modbus_exception_code.illegal_data_address} :
              /\ e \in Refusals \/ ~ Valid(mem, p.call)
              /\ mem' = mem
              /\ Answered([ec |-> e, out |-> <<>>])
  /\ pending' = Tail(pending)
  /\ UNCHANGED <<number, call, busy, ret, open>>

\* The call ends with what the device did for it.
End ==
  /\ busy /\ answer # Unanswered
  /\ busy' = FALSE
  /\ ret' = answer
  /\ UNCHANGED <<mem, pending, number, call, answer, open>>

\* The call ends with an error of the connection; the device may or may not have acted.
Fail ==
  /\ busy /\ ~ open
  /\ busy' = FALSE
  /\ ret' = Failed
  /\ UNCHANGED <<mem, pending, number, call, answer, open>>

\* The connection dies, with every call the device has not taken up.
Disconnect ==
  /\ open
  /\ open' = FALSE
  /\ pending' = <<>>
  /\ UNCHANGED <<mem, number, call, busy, answer, ret>>

Next ==
  \/ \E c \in Calls : Issue(c) \/ IssueFails(c)
  \/ Apply \/ End \/ Fail \/ Disconnect

Spec == Init /\ [][Next]_vars
================================================================================
