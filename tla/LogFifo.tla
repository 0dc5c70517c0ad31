------------------------------- MODULE LogFifo -------------------------------
(***************************************************************************)
(* What the logging buffer promises to the rest of the server: one queue.  *)
(* A thread appends a message to it in one step, whatever the writer of    *)
(* the log is doing, and messages leave it for the log file in the order   *)
(* in which they were appended, each exactly once.                         *)
(*                                                                         *)
(* LoggingBuffer (two swapped queues and a lock) implements this, and      *)
(* Server is built on it.                                                  *)
(***************************************************************************)
EXTENDS Sequences

CONSTANT Message

VARIABLES pending,   \* appended and not yet in the log
          written    \* the log

vars == <<pending, written>>

Init == pending = <<>> /\ written = <<>>

\* LoggingBuffer::addToBuffer as its caller sees it.
Add(m) ==
  /\ pending' = Append(pending, m)
  /\ UNCHANGED written

\* One turn of the loop of LoggingBuffer::writeToLog as the log sees it.
Write ==
  /\ pending # <<>>
  /\ written' = Append(written, Head(pending))
  /\ pending' = Tail(pending)

Next == Write \/ \E m \in Message : Add(m)

Spec == Init /\ [][Next]_vars
==============================================================================
