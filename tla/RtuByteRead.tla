------------------------------ MODULE RtuByteRead ------------------------------
(* rtu::stream::read_byte_with_timeout (adu/rtu.h): an asynchronous read of one *)
(* byte races a timer, each cancels the other, and run() returns when both      *)
(* handlers have run.  The caller reads again and again, as receive_response    *)
(* does.                                                                        *)
(*                                                                              *)
(* An operation of asio is in one of these states: "none"; "pending"; its       *)
(* handler is queued with a result ("ok", "failed", "aborted"); its handler has *)
(* run ("handled").  cancel() turns a pending operation into an aborted one and *)
(* does nothing to one that has a result.  (asio is external: this is what      *)
(* rtu.h relies on.)                                                            *)
EXTENDS Integers, Sequences

CONSTANTS MaxBytes,    \* bound on the bytes that arrive
          MaxReads     \* bound on the calls

ASSUME BoundsTyped == MaxBytes \in Nat /\ MaxReads \in Nat

VARIABLES
  running,     \* a call is inside m_io_context.run()
  read,        \* the read operation on m_next_layer
  timer,       \* the wait operation of the timer
  bytes_read,  \* the local that the read handler sets
  slot,        \* the byte stored at source.prepare(1), if any
  line,        \* the bytes the serial port has received and nobody has read
  arrived,     \* how many bytes arrived; the k-th byte is the number k
  received,    \* the bytes that the caller committed to its buffer
  calls        \* how many calls were made

vars == <<running, read, timer, bytes_read, slot, line, arrived, received, calls>>

Init ==
  /\ running = FALSE
  /\ read = "none"
  /\ timer = "none"
  /\ bytes_read = 0
  /\ slot = <<>>
  /\ line = <<>>
  /\ arrived = 0
  /\ received = <<>>
  /\ calls = 0

Result == {"ok", "failed", "aborted"}
Cancel(op) == IF op = "pending" THEN "aborted" ELSE op

\* Up to the call of run(): both operations are started.
Start ==
  /\ ~ running /\ calls < MaxReads
  /\ running' = TRUE
  /\ calls' = calls + 1
  /\ bytes_read' = 0
  /\ read' = "pending"
  /\ timer' = "pending"
  /\ UNCHANGED <<slot, line, arrived, received>>

\* Faulty variant: the read may fill more than the one byte that is committed.
ReadSomeCompletes ==
  /\ read = "pending" /\ line # <<>>
  /\ slot' = line
  /\ line' = <<>>
  /\ read' = "ok"
  /\ UNCHANGED <<running, timer, bytes_read, arrived, received, calls>>

\* The port has a byte, and the reactor moves it to the buffer and queues the handler.
ReadCompletes ==
  /\ read = "pending" /\ line # <<>>
  /\ slot' = <<Head(line)>>
  /\ line' = Tail(line)
  /\ read' = "ok"
  /\ UNCHANGED <<running, timer, bytes_read, arrived, received, calls>>

\* The port fails.
ReadFails ==
  /\ read = "pending"
  /\ read' = "failed"
  /\ UNCHANGED <<running, timer, bytes_read, slot, line, arrived, received, calls>>

TimerExpires ==
  /\ timer = "pending"
  /\ timer' = "ok"
  /\ UNCHANGED <<running, read, bytes_read, slot, line, arrived, received, calls>>

\* The first lambda.  After an error it leaves the timer to expire.
ReadHandler ==
  /\ read \in Result
  /\ IF read = "ok"
     THEN bytes_read' = 1 /\ timer' = Cancel(timer)
     ELSE UNCHANGED <<bytes_read, timer>>
  /\ read' = "handled"
  /\ UNCHANGED <<running, slot, line, arrived, received, calls>>

\* Faulty variant: a timeout overrules a byte that was read in time.
TimerHandlerOverrules ==
  /\ timer \in Result
  /\ read' = IF timer = "aborted" THEN read ELSE Cancel(read)
  /\ bytes_read' = IF timer = "aborted" THEN bytes_read ELSE 0
  /\ timer' = "handled"
  /\ UNCHANGED <<running, slot, line, arrived, received, calls>>

\* Faulty variant: a timeout leaves the read pending.
TimerHandlerLeavesRead ==
  /\ timer \in Result
  /\ timer' = "handled"
  /\ UNCHANGED <<running, read, bytes_read, slot, line, arrived, received, calls>>

\* The second lambda.
TimerHandler ==
  /\ timer \in Result
  /\ read' = IF timer = "aborted" THEN read ELSE Cancel(read)
  /\ timer' = "handled"
  /\ UNCHANGED <<running, bytes_read, slot, line, arrived, received, calls>>

\* run() has no work left; the caller commits what the call says it read.
Return ==
  /\ running /\ read = "handled" /\ timer = "handled"
  /\ running' = FALSE
  /\ received' = IF bytes_read = 1 THEN received \o slot ELSE received
  /\ slot' = <<>>
  /\ UNCHANGED <<read, timer, bytes_read, line, arrived, calls>>

\* The line: a byte comes in, whatever the program does.
ByteArrives ==
  /\ arrived < MaxBytes
  /\ arrived' = arrived + 1
  /\ line' = Append(line, arrived + 1)
  /\ UNCHANGED <<running, read, timer, bytes_read, slot, received, calls>>

Next ==
  \/ Start \/ ReadCompletes \/ ReadFails \/ TimerExpires
  \/ ReadHandler \/ TimerHandler \/ Return \/ ByteArrives

Spec == Init /\ [][Next]_vars

\* Time passes, and run() runs what is queued.  Neither a byte nor a failure is owed.
Fairness ==
  WF_vars(TimerExpires) /\ WF_vars(ReadHandler) /\ WF_vars(TimerHandler) /\ WF_vars(Return)

FairSpec == Spec /\ Fairness

--------------------------------------------------------------------------------
\* Every variable keeps its type; a call never reports more than the one byte it asked for.
TypeOK ==
  /\ running \in BOOLEAN
  /\ read \in {"none", "pending", "handled"} \cup Result
  /\ timer \in {"none", "pending", "handled", "ok", "aborted"}
  /\ bytes_read \in {0, 1}
  /\ slot \in Seq(Nat) /\ Len(slot) <= 1 /\ line \in Seq(Nat) /\ received \in Seq(Nat)
  /\ arrived \in 0 .. MaxBytes
  /\ calls \in 0 .. MaxReads

\* Whatever the order of the byte, the timer and their handlers, no byte is lost, repeated or
\* reordered: what the caller has, what is in its buffer and what the port still holds are the
\* bytes that arrived.  A call that times out has taken nothing from the port.
NoByteLost == received \o slot \o line = [k \in 1 .. arrived |-> k]

\* A call always comes back: after a timeout the pending read is cancelled, after a byte the
\* timer is, and after a failure of the port the timer still expires.
CallReturns == running ~> ~ running
================================================================================
