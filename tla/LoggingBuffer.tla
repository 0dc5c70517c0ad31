---------------------------- MODULE LoggingBuffer ----------------------------
(***************************************************************************)
(* src/src/logging_buffer.cc: two std::queue's.  Producers (every thread   *)
(* of the server) put messages in the available one under writing_lock_;   *)
(* the logging thread swaps the two under the lock and then writes the     *)
(* queue it took away WITHOUT the lock, because nobody else can reach it.  *)
(*                                                                         *)
(* The lock, the read of the pointer available_buffer_ and the access to   *)
(* the queue it points to are steps of their own, so a lost lock shows.    *)
(* Severities and texts are abstracted: a message is who sent it and its   *)
(* number among that thread's messages.  The loop around writeToLog is     *)
(* server::handle_logging; how it ends is module Server's business.        *)
(***************************************************************************)
EXTENDS Naturals, Sequences

CONSTANTS Producer,      \* threads that log: main and the pool
          Logger,        \* the logging thread
          Nobody,        \* the owner of an unlocked mutex
          MaxMessages    \* bound: messages sent by one producer

ASSUME ThreadsDistinct ==
  Logger \notin Producer /\ Nobody \notin Producer /\ Nobody # Logger
ASSUME MaxMessagesIsNat == MaxMessages \in Nat

Message == [from : Producer, no : 1..MaxMessages]
Msg(p, n) == [from |-> p, no |-> n]

VARIABLES buf,        \* buffer1_ and buffer2_
          available,  \* available_buffer_ and available_buffer_index_
          lock,       \* the owner of writing_lock_
          ppc,        \* where each producer is in addToBuffer
          target,     \* the queue a producer found in available_buffer_
          sent,       \* messages each producer has put in a queue
          lpc,        \* where the logging thread is in writeToLog
          queue,      \* writeToLog's local `queue`
          written     \* the log

producerVars == <<ppc, target, sent>>
loggerVars   == <<lpc, queue, written>>
vars == <<buf, available, lock, producerVars, loggerVars>>

\* Mistake: the index of the queue only ever grows.
NextIndex(i) == i + 1

\* The branches of writeToLog's swap: buffer 1 becomes 2 and 2 becomes 1.
Other(i) == 3 - i

Init ==
  /\ buf = [i \in 1..2 |-> <<>>]
  /\ available = 1
  /\ lock = Nobody
  /\ ppc = [p \in Producer |-> "idle"]
  /\ target = [p \in Producer |-> 1]
  /\ sent = [p \in Producer |-> 0]
  /\ lpc = "check"
  /\ queue = 1
  /\ written = <<>>

------------------------------------------------------------------------------
\* addToBuffer, by producer p.

\* Mistake: addToBuffer without the lock.
LockWithoutWaiting(p) ==
  /\ ppc[p] = "idle"
  /\ sent[p] < MaxMessages
  /\ ppc' = [ppc EXCEPT ![p] = "load"]
  /\ UNCHANGED <<buf, available, lock, target, sent, loggerVars>>

Lock(p) ==
  /\ ppc[p] = "idle"
  /\ sent[p] < MaxMessages
  /\ lock = Nobody
  /\ lock' = p
  /\ ppc' = [ppc EXCEPT ![p] = "load"]
  /\ UNCHANGED <<buf, available, target, sent, loggerVars>>

LoadPointer(p) ==
  /\ ppc[p] = "load"
  /\ target' = [target EXCEPT ![p] = available]
  /\ ppc' = [ppc EXCEPT ![p] = "emplace"]
  /\ UNCHANGED <<buf, available, lock, sent, loggerVars>>

Emplace(p) ==
  /\ ppc[p] = "emplace"
  /\ sent' = [sent EXCEPT ![p] = @ + 1]
  /\ buf' = [buf EXCEPT ![target[p]] = Append(@, Msg(p, sent[p] + 1))]
  /\ ppc' = [ppc EXCEPT ![p] = "unlock"]
  /\ UNCHANGED <<available, lock, target, loggerVars>>

\* Mistake: an early return that keeps the lock.
ReturnLocked(p) ==
  /\ ppc[p] = "unlock"
  /\ ppc' = [ppc EXCEPT ![p] = "idle"]
  /\ UNCHANGED <<buf, available, lock, target, sent, loggerVars>>

Unlock(p) ==
  /\ ppc[p] = "unlock"
  /\ lock' = Nobody
  /\ ppc' = [ppc EXCEPT ![p] = "idle"]
  /\ UNCHANGED <<buf, available, target, sent, loggerVars>>

------------------------------------------------------------------------------
\* writeToLog, by the logging thread.

\* The test of the available queue and the copy of its address: no other
\* thread changes available_buffer_, so the two reads are one step.  The
\* test is not under the lock; it sees a concurrent emplace or it does not.
FoundMessages ==
  /\ lpc = "check"
  /\ buf[available] # <<>>
  /\ queue' = available
  /\ lpc' = "lock"
  /\ UNCHANGED <<buf, available, lock, producerVars, written>>

FoundNothing ==
  /\ lpc = "check"
  /\ buf[available] = <<>>
  /\ lpc' = "sleep"
  /\ UNCHANGED <<buf, available, lock, producerVars, queue, written>>

WakeUp ==
  /\ lpc = "sleep"
  /\ lpc' = "check"
  /\ UNCHANGED <<buf, available, lock, producerVars, queue, written>>

\* Mistake: the queues are swapped without the lock.
SwapUnlocked ==
  /\ lpc = "lock"
  /\ available' = Other(available)
  /\ lpc' = "drain"
  /\ UNCHANGED <<buf, lock, producerVars, queue, written>>

LockToSwap ==
  /\ lpc = "lock"
  /\ lock = Nobody
  /\ lock' = Logger
  /\ lpc' = "swap"
  /\ UNCHANGED <<buf, available, producerVars, queue, written>>

Swap ==
  /\ lpc = "swap"
  /\ available' = Other(available)
  /\ lpc' = "unlock"
  /\ UNCHANGED <<buf, lock, producerVars, queue, written>>

UnlockSwapped ==
  /\ lpc = "unlock"
  /\ lock' = Nobody
  /\ lpc' = "drain"
  /\ UNCHANGED <<buf, available, producerVars, queue, written>>

\* Mistake: only the first message of the queue is written before the next
\* check of the available one.
WriteOnlyFirst ==
  /\ lpc = "drain"
  /\ buf[queue] # <<>>
  /\ written' = Append(written, Head(buf[queue]))
  /\ buf' = [buf EXCEPT ![queue] = Tail(@)]
  /\ lpc' = "check"
  /\ UNCHANGED <<available, lock, producerVars, queue>>

WriteFront ==
  /\ lpc = "drain"
  /\ buf[queue] # <<>>
  /\ written' = Append(written, Head(buf[queue]))
  /\ buf' = [buf EXCEPT ![queue] = Tail(@)]
  /\ UNCHANGED <<available, lock, producerVars, lpc, queue>>

Drained ==
  /\ lpc = "drain"
  /\ buf[queue] = <<>>
  /\ lpc' = "check"
  /\ UNCHANGED <<buf, available, lock, producerVars, queue, written>>

------------------------------------------------------------------------------
AddToBuffer(p) == Lock(p) \/ LoadPointer(p) \/ Emplace(p) \/ Unlock(p)

WriteToLog ==
  \/ FoundMessages \/ FoundNothing \/ WakeUp
  \/ LockToSwap \/ Swap \/ UnlockSwapped
  \/ WriteFront \/ Drained

Next == WriteToLog \/ \E p \in Producer : AddToBuffer(p)

\* Every thread that can run is run.  A mutex gives no thread a turn, but
\* there are finitely many messages: the logging thread cannot be kept from
\* the lock for ever, and weak fairness of its steps is enough.
Fairness == WF_vars(WriteToLog) /\ \A p \in Producer : WF_vars(AddToBuffer(p))

Spec == Init /\ [][Next]_vars
FairSpec == Spec /\ Fairness

------------------------------------------------------------------------------
\* Properties.

\* The messages that are in a queue, in the order the log will have them:
\* those the logging thread has taken away come before the available ones.
Pending == buf[Other(available)] \o buf[available]

\* Every message accepted so far, in order.
Accepted == written \o Pending

ProducerAt == {"idle", "load", "emplace", "unlock"}
LoggerAt == {"check", "sleep", "lock", "swap", "unlock", "drain"}

TypeOK ==
  /\ buf \in [1..2 -> Seq(Message)]
  /\ available \in 1..2
  /\ lock \in Producer \cup {Logger, Nobody}
  /\ ppc \in [Producer -> ProducerAt]
  /\ target \in [Producer -> 1..2]
  /\ sent \in [Producer -> 0..MaxMessages]
  /\ lpc \in LoggerAt
  /\ queue \in 1..2
  /\ written \in Seq(Message)

\* No data race on a queue: while the logging thread walks a queue without
\* the lock (writeToLog's loop), no producer is about to emplace into it,
\* and two producers never are in addToBuffer's critical section together.
NoDataRace ==
  /\ \A p \in Producer : ~(lpc = "drain" /\ ppc[p] = "emplace" /\ target[p] = queue)
  /\ \A p, q \in Producer :
       ppc[p] = "emplace" /\ ppc[q] = "emplace" => p = q

\* Nothing is lost, repeated or reordered on its way through the two
\* queues: message n of a producer is accepted exactly once, after its
\* message n-1 and before its message n+1, whatever has been written.
InOrderExactlyOnce ==
  /\ \A i, j \in 1..Len(Accepted) :
       i < j /\ Accepted[i].from = Accepted[j].from => Accepted[i].no < Accepted[j].no
  /\ \A p \in Producer : \A n \in 1..sent[p] :
       \E i \in 1..Len(Accepted) : Accepted[i] = Msg(p, n)

\* The pair of queues is one queue: see LogFifo.
Fifo == INSTANCE LogFifo WITH pending <- Pending
ImplementsFifo == Fifo!Spec

\* A message that addToBuffer has accepted reaches the log: no message stays
\* behind in the queue that is not available (writeToLog tests only that one).
EveryMessageIsWritten ==
  \A p \in Producer : \A n \in 1..MaxMessages :
    (sent[p] >= n) ~> (\E i \in 1..Len(written) : written[i] = Msg(p, n))
==============================================================================
