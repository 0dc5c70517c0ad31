-------------------------- MODULE LoggingBufferProofs --------------------------
(***************************************************************************)
(* Proofs about LoggingBuffer, for every set of producers and every number *)
(* of messages.  The argument: the lock makes "target = available" true of *)
(* a producer that is about to emplace, and the queue the logging thread   *)
(* walks is the other one; that queue is empty again before the next swap, *)
(* so that the two queues read as one.                                     *)
(***************************************************************************)
EXTENDS LoggingBuffer, SequenceTheorems, TLAPS

------------------------------------------------------------------------------
\* Sequences.

\* Appending to the second of two concatenated sequences appends to both.
LEMMA AppendToCat ==
  ASSUME NEW S, NEW s \in Seq(S), NEW t \in Seq(S), NEW e \in S
  PROVE  s \o Append(t, e) = Append(s \o t, e)
<1>1. <<e>> \in Seq(S)
  OBVIOUS
<1>2. Append(t, e) = t \o <<e>>
  BY AppendIsConcat
<1>3. s \o t \in Seq(S)
  BY ConcatProperties
<1>4. Append(s \o t, e) = (s \o t) \o <<e>>
  BY <1>3, AppendIsConcat
<1> QED
  BY <1>1, <1>2, <1>4, ConcatAssociative

\* The front of two concatenated sequences is the front of the first.
LEMMA FrontOfCat ==
  ASSUME NEW S, NEW s \in Seq(S), NEW t \in Seq(S), s # <<>>
  PROVE  /\ s \o t # <<>>
         /\ Head(s \o t) = Head(s)
         /\ Tail(s \o t) = Tail(s) \o t
<1>1. /\ s \o t \in Seq(S)
      /\ Len(s \o t) = Len(s) + Len(t)
      /\ \A i \in 1..Len(s) + Len(t) :
           (s \o t)[i] = IF i <= Len(s) THEN s[i] ELSE t[i - Len(s)]
  BY ConcatProperties
<1>2. Len(s) \in Nat \ {0} /\ Len(t) \in Nat
  BY EmptySeq, LenProperties
<1>3. s \o t # <<>>
  BY <1>1, <1>2, EmptySeq
<1>4. Head(s \o t) = Head(s)
  BY <1>1, <1>2, <1>3
<1>5. /\ Tail(s) \in Seq(S)
      /\ Len(Tail(s)) = Len(s) - 1
      /\ \A i \in 1..Len(Tail(s)) : Tail(s)[i] = s[i + 1]
  BY HeadTailProperties
<1>6. /\ Tail(s \o t) \in Seq(S)
      /\ Len(Tail(s \o t)) = Len(s) + Len(t) - 1
      /\ \A i \in 1..Len(Tail(s \o t)) : Tail(s \o t)[i] = (s \o t)[i + 1]
  BY <1>1, <1>3, HeadTailProperties
<1>7. /\ Tail(s) \o t \in Seq(S)
      /\ Len(Tail(s) \o t) = Len(s) - 1 + Len(t)
      /\ \A i \in 1..Len(s) - 1 + Len(t) :
           (Tail(s) \o t)[i] = IF i <= Len(s) - 1 THEN Tail(s)[i] ELSE t[i - (Len(s) - 1)]
  BY <1>5, ConcatProperties
<1>8. ASSUME NEW i \in 1..Len(Tail(s \o t))
      PROVE  Tail(s \o t)[i] = (Tail(s) \o t)[i]
  <2>1. i \in 1..Len(s) + Len(t) - 1 /\ i + 1 \in 1..Len(s) + Len(t)
    BY <1>2, <1>6
  <2>2. CASE i <= Len(s) - 1
    BY <2>1, <2>2, <1>1, <1>2, <1>5, <1>6, <1>7
  <2>3. CASE ~(i <= Len(s) - 1)
    BY <2>1, <2>3, <1>1, <1>2, <1>6, <1>7
  <2> QED BY <2>2, <2>3
<1>9. Len(Tail(s \o t)) = Len(Tail(s) \o t)
  BY <1>2, <1>6, <1>7
<1>10. Tail(s \o t) = Tail(s) \o t
  BY <1>6, <1>7, <1>8, <1>9, SeqEqual
<1> QED BY <1>3, <1>4, <1>10

\* Moving the front of a sequence to the end of the one before it leaves
\* their concatenation as it was.
LEMMA MoveFront ==
  ASSUME NEW S, NEW w \in Seq(S), NEW s \in Seq(S), s # <<>>
  PROVE  Append(w, Head(s)) \o Tail(s) = w \o s
<1>1. Head(s) \in S /\ Tail(s) \in Seq(S)
  BY HeadTailProperties
<1>2. <<Head(s)>> \in Seq(S)
  BY <1>1
<1>3. Append(w, Head(s)) = w \o <<Head(s)>>
  BY <1>1, AppendIsConcat
<1>4. (w \o <<Head(s)>>) \o Tail(s) = w \o (<<Head(s)>> \o Tail(s))
  BY <1>1, <1>2, ConcatAssociative
<1>5. s = <<Head(s)>> \o Tail(s)
  <2>1. Len(s) \in Nat \ {0}
    BY EmptySeq
  <2>2. /\ <<Head(s)>> \o Tail(s) \in Seq(S)
        /\ Len(<<Head(s)>> \o Tail(s)) = 1 + Len(Tail(s))
        /\ \A i \in 1..1 + Len(Tail(s)) :
             (<<Head(s)>> \o Tail(s))[i] = IF i <= 1 THEN Head(s) ELSE Tail(s)[i - 1]
    <3>1. Len(<<Head(s)>>) = 1 /\ <<Head(s)>>[1] = Head(s)
      OBVIOUS
    <3>2. ASSUME NEW i \in 1..1 + Len(Tail(s))
          PROVE  i <= 1 => <<Head(s)>>[i] = Head(s)
      BY <3>1, <2>1, HeadTailProperties
    <3> QED BY <1>1, <1>2, <3>1, <3>2, ConcatProperties
  <2>3. /\ Len(Tail(s)) = Len(s) - 1
        /\ \A i \in 1..Len(Tail(s)) : Tail(s)[i] = s[i + 1]
    BY HeadTailProperties
  <2>4. Head(s) = s[1]
    OBVIOUS
  <2>5. ASSUME NEW i \in 1..Len(s)
        PROVE  s[i] = (<<Head(s)>> \o Tail(s))[i]
    <3>1. CASE i = 1
      BY <3>1, <2>1, <2>2, <2>3, <2>4
    <3>2. CASE i # 1
      <4>1. i - 1 \in 1..Len(Tail(s)) /\ i \in 1..1 + Len(Tail(s)) /\ ~(i <= 1)
        BY <3>2, <2>1, <2>3
      <4>2. Tail(s)[i - 1] = s[(i - 1) + 1]
        BY <4>1, <2>3
      <4>3. (i - 1) + 1 = i
        BY <2>1
      <4> QED BY <4>1, <4>2, <4>3, <2>2
    <3> QED BY <3>1, <3>2
  <2>6. Len(s) = Len(<<Head(s)>> \o Tail(s))
    BY <2>1, <2>2, <2>3
  <2> QED BY <2>2, <2>5, <2>6, SeqEqual
<1> QED BY <1>3, <1>4, <1>5
------------------------------------------------------------------------------
\* The inductive invariant.

\* The owner of the lock is the thread inside a critical section.
LockOwned ==
  /\ \A p \in Producer : (ppc[p] # "idle") <=> (lock = p)
  /\ (lpc \in {"swap", "unlock"}) <=> (lock = Logger)

\* The pointer a producer has loaded is still the available queue.
TargetAvailable == \A p \in Producer : ppc[p] = "emplace" => target[p] = available

\* The logging thread takes the available queue away and walks that one;
\* the other queue is empty unless it is being walked.
QueueTaken ==
  /\ lpc \in {"lock", "swap"} => queue = available
  /\ lpc \in {"unlock", "drain"} => queue = Other(available)
  /\ lpc \notin {"unlock", "drain"} => buf[Other(available)] = <<>>

\* A producer in addToBuffer has a message left to send.
OneToSend == \A p \in Producer : ppc[p] \in {"load", "emplace"} => sent[p] < MaxMessages

IInv == TypeOK /\ LockOwned /\ TargetAvailable /\ QueueTaken /\ OneToSend

LEMMA InitIInv == Init => IInv
<1> SUFFICES ASSUME Init PROVE IInv
  OBVIOUS
<1> USE MaxMessagesIsNat, ThreadsDistinct DEF Init
<1>1. TypeOK
  BY EmptySeq DEF TypeOK, ProducerAt, LoggerAt
<1>2. LockOwned /\ TargetAvailable /\ QueueTaken /\ OneToSend
  BY DEF LockOwned, TargetAvailable, QueueTaken, OneToSend, Other
<1> QED BY <1>1, <1>2 DEF IInv

\* A step of a producer keeps the invariant.
LEMMA AddToBufferKeepsIInv ==
  ASSUME IInv, NEW p \in Producer, AddToBuffer(p)
  PROVE  IInv'
<1> USE MaxMessagesIsNat, ThreadsDistinct DEF IInv, loggerVars
<1>1. CASE Lock(p)
  <2>1. TypeOK'
    BY <1>1 DEF Lock, TypeOK, ProducerAt
  <2>2. LockOwned' /\ TargetAvailable' /\ QueueTaken' /\ OneToSend'
    BY <1>1 DEF Lock, TypeOK, ProducerAt, LockOwned, TargetAvailable, QueueTaken, OneToSend, Other
  <2> QED BY <2>1, <2>2
<1>2. CASE LoadPointer(p)
  <2>1. TypeOK'
    BY <1>2 DEF LoadPointer, TypeOK, ProducerAt
  <2>2. LockOwned' /\ TargetAvailable' /\ QueueTaken' /\ OneToSend'
    BY <1>2 DEF LoadPointer, TypeOK, ProducerAt, LockOwned, TargetAvailable, QueueTaken, OneToSend, Other
  <2> QED BY <2>1, <2>2
<1>3. CASE Emplace(p)
  <2>1. sent[p] \in 0..MaxMessages /\ sent[p] < MaxMessages
    BY <1>3 DEF Emplace, OneToSend, TypeOK
  <2>2. Msg(p, sent[p] + 1) \in Message
    BY <2>1 DEF Msg, Message
  <2>3. target[p] \in 1..2 /\ buf[target[p]] \in Seq(Message)
    BY DEF TypeOK
  <2>4. Append(buf[target[p]], Msg(p, sent[p] + 1)) \in Seq(Message)
    BY <2>2, <2>3, AppendProperties
  <2>5. TypeOK'
    BY <1>3, <2>1, <2>3, <2>4 DEF Emplace, TypeOK, ProducerAt
  <2>6. LockOwned' /\ TargetAvailable' /\ OneToSend'
    BY <1>3 DEF Emplace, TypeOK, ProducerAt, LockOwned, TargetAvailable, OneToSend
  <2>7. QueueTaken'
    <3>1. target[p] # Other(available)
      BY <1>3 DEF Emplace, TargetAvailable, TypeOK, Other
    <3>2. Other(available) \in 1..2
      BY DEF TypeOK, Other
    <3>3. buf'[Other(available)] = buf[Other(available)]
      BY <1>3, <3>1, <3>2 DEF Emplace, TypeOK
    <3> QED BY <1>3, <3>3 DEF Emplace, QueueTaken, Other
  <2> QED BY <2>5, <2>6, <2>7
<1>4. CASE Unlock(p)
  <2>1. TypeOK'
    BY <1>4 DEF Unlock, TypeOK, ProducerAt
  <2>2. LockOwned' /\ TargetAvailable' /\ QueueTaken' /\ OneToSend'
    BY <1>4 DEF Unlock, TypeOK, ProducerAt, LockOwned, TargetAvailable, QueueTaken, OneToSend, Other
  <2> QED BY <2>1, <2>2
<1> QED BY <1>1, <1>2, <1>3, <1>4 DEF AddToBuffer

\* A step of the logging thread keeps the invariant.
LEMMA WriteToLogKeepsIInv ==
  ASSUME IInv, WriteToLog
  PROVE  IInv'
<1> USE MaxMessagesIsNat, ThreadsDistinct DEF IInv, producerVars
<1>1. CASE FoundMessages \/ FoundNothing \/ WakeUp
  <2>1. TypeOK'
    BY <1>1 DEF FoundMessages, FoundNothing, WakeUp, TypeOK, LoggerAt
  <2>2. LockOwned' /\ TargetAvailable' /\ QueueTaken' /\ OneToSend'
    BY <1>1 DEF FoundMessages, FoundNothing, WakeUp, TypeOK, LockOwned, TargetAvailable,
                QueueTaken, OneToSend, Other
  <2> QED BY <2>1, <2>2
<1>2. CASE LockToSwap
  <2>1. TypeOK'
    BY <1>2 DEF LockToSwap, TypeOK, LoggerAt
  <2>2. LockOwned' /\ TargetAvailable' /\ QueueTaken' /\ OneToSend'
    BY <1>2 DEF LockToSwap, TypeOK, LockOwned, TargetAvailable, QueueTaken, OneToSend, Other
  <2> QED BY <2>1, <2>2
<1>3. CASE Swap
  <2>1. TypeOK'
    BY <1>3 DEF Swap, TypeOK, LoggerAt, Other
  <2>2. \A q \in Producer : ppc[q] = "idle"
    BY <1>3 DEF Swap, LockOwned
  <2>3. LockOwned' /\ TargetAvailable' /\ OneToSend'
    BY <1>3, <2>2 DEF Swap, TypeOK, LockOwned, TargetAvailable, OneToSend
  <2>4. QueueTaken'
    BY <1>3 DEF Swap, TypeOK, QueueTaken, Other
  <2> QED BY <2>1, <2>3, <2>4
<1>4. CASE UnlockSwapped
  <2>1. TypeOK'
    BY <1>4 DEF UnlockSwapped, TypeOK, LoggerAt
  <2>2. LockOwned' /\ TargetAvailable' /\ QueueTaken' /\ OneToSend'
    BY <1>4 DEF UnlockSwapped, TypeOK, LockOwned, TargetAvailable, QueueTaken, OneToSend, Other
  <2> QED BY <2>1, <2>2
<1>5. CASE WriteFront
  <2>1. queue \in 1..2 /\ buf[queue] \in Seq(Message) /\ buf[queue] # <<>>
    BY <1>5 DEF WriteFront, TypeOK
  <2>2. Head(buf[queue]) \in Message /\ Tail(buf[queue]) \in Seq(Message)
    BY <2>1, HeadTailProperties
  <2>3. Append(written, Head(buf[queue])) \in Seq(Message)
    BY <2>2, AppendProperties DEF TypeOK
  <2>4. TypeOK'
    BY <1>5, <2>1, <2>2, <2>3 DEF WriteFront, TypeOK, LoggerAt
  <2>5. LockOwned' /\ TargetAvailable' /\ QueueTaken' /\ OneToSend'
    BY <1>5 DEF WriteFront, TypeOK, LockOwned, TargetAvailable, QueueTaken, OneToSend, Other
  <2> QED BY <2>4, <2>5
<1>6. CASE Drained
  <2>1. TypeOK'
    BY <1>6 DEF Drained, TypeOK, LoggerAt
  <2>2. LockOwned' /\ TargetAvailable' /\ QueueTaken' /\ OneToSend'
    BY <1>6 DEF Drained, TypeOK, LockOwned, TargetAvailable, QueueTaken, OneToSend, Other
  <2> QED BY <2>1, <2>2
<1> QED BY <1>1, <1>2, <1>3, <1>4, <1>5, <1>6 DEF WriteToLog

LEMMA NextKeepsIInv == IInv /\ [Next]_vars => IInv'
<1> SUFFICES ASSUME IInv, [Next]_vars PROVE IInv'
  OBVIOUS
<1>1. CASE WriteToLog
  BY <1>1, WriteToLogKeepsIInv
<1>2. ASSUME NEW p \in Producer, AddToBuffer(p) PROVE IInv'
  BY <1>2, AddToBufferKeepsIInv
<1>3. CASE UNCHANGED vars
  BY <1>3 DEF vars, producerVars, loggerVars, IInv, TypeOK, LockOwned, TargetAvailable,
              QueueTaken, OneToSend, Other
<1> QED BY <1>1, <1>2, <1>3 DEF Next

LEMMA Inductive == Spec => []IInv
<1> QED BY InitIInv, NextKeepsIInv, PTL DEF Spec

\* The variables of the model always have the values their C++ counterparts
\* can have.
THEOREM TypeCorrect == Spec => []TypeOK
<1>1. IInv => TypeOK
  BY DEF IInv
<1> QED BY <1>1, Inductive, PTL

\* The queue writeToLog walks without the lock is out of every producer's
\* reach, and no two producers emplace together.
THEOREM NoDataRaceHolds == Spec => []NoDataRace
<1>1. IInv => NoDataRace
  <2> SUFFICES ASSUME IInv PROVE NoDataRace
    OBVIOUS
  <2>1. ASSUME NEW p \in Producer, lpc = "drain", ppc[p] = "emplace", target[p] = queue
        PROVE  FALSE
    BY <2>1 DEF IInv, TypeOK, TargetAvailable, QueueTaken, Other
  <2>2. ASSUME NEW p \in Producer, NEW q \in Producer, ppc[p] = "emplace", ppc[q] = "emplace"
        PROVE  p = q
    BY <2>2 DEF IInv, LockOwned
  <2> QED BY <2>1, <2>2 DEF NoDataRace
<1> QED BY <1>1, Inductive, PTL
------------------------------------------------------------------------------
\* The two queues as one: what each step does to Pending and Accepted.

LEMMA SequencesTyped ==
  ASSUME TypeOK
  PROVE  /\ buf[available] \in Seq(Message) /\ buf[Other(available)] \in Seq(Message)
         /\ Pending \in Seq(Message)
         /\ Accepted \in Seq(Message)
<1>1. buf[available] \in Seq(Message) /\ buf[Other(available)] \in Seq(Message)
  BY DEF TypeOK, Other
<1>2. Pending \in Seq(Message)
  BY <1>1, ConcatProperties DEF Pending
<1> QED BY <1>1, <1>2, ConcatProperties DEF Accepted, TypeOK

\* Emplace appends the next message of its producer to Pending.
LEMMA EmplaceAppends ==
  ASSUME IInv, NEW p \in Producer, Emplace(p)
  PROVE  /\ Msg(p, sent[p] + 1) \in Message
         /\ Pending' = Append(Pending, Msg(p, sent[p] + 1))
         /\ written' = written
         /\ sent' = [sent EXCEPT ![p] = @ + 1]
<1>1. Msg(p, sent[p] + 1) \in Message
  BY MaxMessagesIsNat DEF Emplace, IInv, OneToSend, TypeOK, Msg, Message
<1>2. target[p] = available /\ available \in 1..2 /\ Other(available) \in 1..2 \ {available}
  BY DEF Emplace, IInv, TargetAvailable, TypeOK, Other
<1>3. /\ buf'[Other(available)] = buf[Other(available)]
      /\ buf'[available] = Append(buf[available], Msg(p, sent[p] + 1))
  BY <1>2 DEF Emplace, IInv, TypeOK
<1>4. available' = available /\ Other(available)' = Other(available)
  BY DEF Emplace, Other
<1>5. Pending' = buf[Other(available)] \o Append(buf[available], Msg(p, sent[p] + 1))
  BY <1>3, <1>4 DEF Pending
<1>6. Pending' = Append(Pending, Msg(p, sent[p] + 1))
  <2>1. buf[available] \in Seq(Message) /\ buf[Other(available)] \in Seq(Message)
    BY SequencesTyped DEF IInv
  <2>2. ASSUME NEW s \in Seq(Message), NEW t \in Seq(Message), NEW m \in Message
        PROVE  s \o Append(t, m) = Append(s \o t, m)
    BY AppendToCat
  <2> QED BY <1>1, <1>5, <2>1, <2>2 DEF Pending
<1> QED BY <1>1, <1>6 DEF Emplace, loggerVars

\* WriteFront moves the front of Pending to the log.
LEMMA WriteFrontMoves ==
  ASSUME IInv, WriteFront
  PROVE  /\ Pending # <<>>
         /\ written' = Append(written, Head(Pending))
         /\ Pending' = Tail(Pending)
         /\ sent' = sent
<1>1. queue = Other(available) /\ available \in 1..2 /\ queue \in 1..2 \ {available}
  BY DEF WriteFront, IInv, QueueTaken, TypeOK, Other
<1>2. /\ buf'[queue] = Tail(buf[queue])
      /\ buf'[available] = buf[available]
      /\ Other(available)' = queue /\ available' = available
  BY <1>1 DEF WriteFront, IInv, TypeOK, Other
<1>3. buf[queue] \in Seq(Message) /\ buf[available] \in Seq(Message) /\ buf[queue] # <<>>
  BY <1>1, SequencesTyped DEF IInv, WriteFront
<1>4. Pending = buf[queue] \o buf[available]
  BY <1>1 DEF Pending
<1>5. /\ Pending # <<>>
      /\ Head(Pending) = Head(buf[queue])
      /\ Tail(Pending) = Tail(buf[queue]) \o buf[available]
  BY <1>3, <1>4, FrontOfCat
<1>6. Pending' = Tail(buf[queue]) \o buf[available]
  BY <1>2 DEF Pending
<1>7. written' = Append(written, Head(Pending))
  BY <1>5 DEF WriteFront
<1> QED BY <1>5, <1>6, <1>7 DEF WriteFront, producerVars

\* Swap turns the queues round while the other one is empty.
LEMMA SwapKeepsPending ==
  ASSUME IInv, Swap
  PROVE  Pending' = Pending
<1>1. /\ buf[Other(available)] = <<>> /\ available \in 1..2
      /\ available' = Other(available) /\ Other(available)' = available /\ buf' = buf
  BY DEF Swap, IInv, QueueTaken, TypeOK, Other
<1>2. buf[available] \in Seq(Message)
  BY SequencesTyped DEF IInv
<1>3. Pending' = buf[available] \o <<>>
  BY <1>1 DEF Pending
<1>4. Pending = <<>> \o buf[available]
  BY <1>1 DEF Pending
<1> QED BY <1>2, <1>3, <1>4, ConcatEmptySeq

\* No other step touches the queues, the log or the counts.
LEMMA OtherStepsKeep ==
  ASSUME IInv, [Next]_vars,
         ~WriteFront, \A p \in Producer : ~Emplace(p)
  PROVE  Pending' = Pending /\ written' = written /\ sent' = sent
<1>1. CASE Swap
  BY <1>1, SwapKeepsPending DEF Swap, producerVars
<1>2. CASE FoundMessages \/ FoundNothing \/ WakeUp \/ LockToSwap \/ UnlockSwapped \/ Drained
  BY <1>2 DEF FoundMessages, FoundNothing, WakeUp, LockToSwap, UnlockSwapped, Drained,
              producerVars, Pending, Other
<1>3. ASSUME NEW p \in Producer, Lock(p) \/ LoadPointer(p) \/ Unlock(p)
      PROVE  Pending' = Pending /\ written' = written /\ sent' = sent
  BY <1>3 DEF Lock, LoadPointer, Unlock, loggerVars, Pending, Other
<1>4. CASE UNCHANGED vars
  BY <1>4 DEF vars, producerVars, loggerVars, Pending, Other
<1> QED BY <1>1, <1>2, <1>3, <1>4 DEF Next, WriteToLog, AddToBuffer

\* The swapped queues implement one queue: what LogFifo promises is what
\* the code does, step for step.
THEOREM Implementation == Spec => ImplementsFifo
<1>1. Init => Fifo!Init
  <2> SUFFICES ASSUME Init PROVE Fifo!Init
    OBVIOUS
  <2>1. Pending = <<>> \o <<>>
    BY DEF Init, Pending, Other
  <2>2. Pending = <<>>
    BY <2>1, EmptySeq, ConcatEmptySeq
  <2> QED BY <2>2 DEF Init, Fifo!Init
<1>2. IInv /\ [Next]_vars => [Fifo!Next]_Fifo!vars
  <2> SUFFICES ASSUME IInv, [Next]_vars PROVE [Fifo!Next]_Fifo!vars
    OBVIOUS
  <2>1. CASE WriteFront
    <3>1. Fifo!Write
      BY <2>1, WriteFrontMoves DEF Fifo!Write
    <3> QED BY <3>1 DEF Fifo!Next
  <2>2. ASSUME NEW p \in Producer, Emplace(p)
        PROVE  Fifo!Next
    <3>1. Fifo!Add(Msg(p, sent[p] + 1)) /\ Msg(p, sent[p] + 1) \in Message
      BY <2>2, EmplaceAppends DEF Fifo!Add
    <3> QED BY <3>1 DEF Fifo!Next
  <2>3. CASE ~WriteFront /\ \A p \in Producer : ~Emplace(p)
    BY <2>3, OtherStepsKeep DEF Fifo!vars
  <2> QED BY <2>1, <2>2, <2>3
<1> QED BY <1>1, <1>2, Inductive, PTL DEF Spec, ImplementsFifo, Fifo!Spec
------------------------------------------------------------------------------
\* Order: what a step does to Accepted, and the invariant that follows.

\* The number of a message is at most the count of its sender, so that the
\* next one is larger than all of them.
NumbersCounted ==
  \A i \in 1..Len(Accepted) : Accepted[i].no <= sent[Accepted[i].from]

Ordered == NumbersCounted /\ InOrderExactlyOnce

\* Emplace appends to Accepted; every other step leaves it as it is.
LEMMA AcceptedGrows ==
  ASSUME IInv, [Next]_vars
  PROVE  \/ Accepted' = Accepted /\ sent' = sent
         \/ \E p \in Producer :
              /\ Msg(p, sent[p] + 1) \in Message
              /\ Accepted' = Append(Accepted, Msg(p, sent[p] + 1))
              /\ sent' = [sent EXCEPT ![p] = @ + 1]
<1>1. Pending \in Seq(Message) /\ written \in Seq(Message)
  BY SequencesTyped DEF IInv, TypeOK
<1>2. CASE WriteFront
  <2>1. /\ Pending # <<>> /\ sent' = sent
        /\ written' = Append(written, Head(Pending)) /\ Pending' = Tail(Pending)
    BY <1>2, WriteFrontMoves
  <2>2. Append(written, Head(Pending)) \o Tail(Pending) = written \o Pending
    BY <1>1, <2>1, MoveFront
  <2> QED BY <2>1, <2>2 DEF Accepted
<1>3. ASSUME NEW p \in Producer, Emplace(p)
      PROVE  /\ Msg(p, sent[p] + 1) \in Message
             /\ Accepted' = Append(Accepted, Msg(p, sent[p] + 1))
             /\ sent' = [sent EXCEPT ![p] = @ + 1]
  <2>1. /\ Msg(p, sent[p] + 1) \in Message
        /\ Pending' = Append(Pending, Msg(p, sent[p] + 1))
        /\ written' = written
        /\ sent' = [sent EXCEPT ![p] = @ + 1]
    BY <1>3, EmplaceAppends
  <2>2. written \o Append(Pending, Msg(p, sent[p] + 1))
          = Append(written \o Pending, Msg(p, sent[p] + 1))
    BY <1>1, <2>1, AppendToCat
  <2> QED BY <2>1, <2>2 DEF Accepted
<1>4. CASE ~WriteFront /\ \A p \in Producer : ~Emplace(p)
  <2>1. Pending' = Pending /\ written' = written /\ sent' = sent
    BY <1>4, OtherStepsKeep
  <2> QED BY <2>1 DEF Accepted
<1> QED BY <1>2, <1>3, <1>4

LEMMA StepKeepsOrdered ==
  ASSUME IInv, Ordered, [Next]_vars
  PROVE  Ordered'
<1>1. CASE Accepted' = Accepted /\ sent' = sent
  BY <1>1 DEF Ordered, NumbersCounted, InOrderExactlyOnce
<1>2. ASSUME NEW p \in Producer,
             Msg(p, sent[p] + 1) \in Message,
             Accepted' = Append(Accepted, Msg(p, sent[p] + 1)),
             sent' = [sent EXCEPT ![p] = @ + 1]
      PROVE  Ordered'
  <2> DEFINE m == Msg(p, sent[p] + 1)
             n == Len(Accepted)
  <2>1. Accepted \in Seq(Message) /\ n \in Nat
    BY SequencesTyped, LenProperties DEF IInv
  <2>2. /\ Len(Accepted') = n + 1
        /\ \A i \in 1..n : Accepted'[i] = Accepted[i]
        /\ Accepted'[n + 1] = m
    BY <1>2, <2>1, AppendProperties
  <2>3. \A i \in 1..n : /\ Accepted[i].from \in Producer
                        /\ Accepted[i].no \in Nat
    <3>1. \A i \in 1..n : Accepted[i] \in Message
      BY <2>1, ElementOfSeq
    <3> QED BY <3>1, MaxMessagesIsNat DEF Message
  <2>4. m.from = p /\ m.no = sent[p] + 1
    BY DEF Msg
  <2>5. /\ \A q \in Producer : sent[q] \in Nat /\ sent'[q] = IF q = p THEN sent[p] + 1 ELSE sent[q]
    BY <1>2, MaxMessagesIsNat DEF IInv, TypeOK
  <2> HIDE DEF m, n
  <2>6. NumbersCounted'
    <3>1. ASSUME NEW i \in 1..n + 1
          PROVE  Accepted'[i].no <= sent'[Accepted'[i].from]
      <4>1. CASE i = n + 1
        BY <4>1, <2>2, <2>4, <2>5
      <4>2. CASE i \in 1..n
        <5>1. Accepted[i].no <= sent[Accepted[i].from]
          BY <4>2 DEF Ordered, NumbersCounted, n
        <5>2. sent[Accepted[i].from] <= sent'[Accepted[i].from]
          BY <4>2, <2>3, <2>5
        <5>3. sent[Accepted[i].from] \in Nat /\ sent'[Accepted[i].from] \in Nat
          BY <4>2, <2>3, <2>5
        <5> QED BY <4>2, <5>1, <5>2, <5>3, <2>2, <2>3
      <4> QED BY <4>1, <4>2, <2>1
    <3> QED BY <3>1, <2>2 DEF NumbersCounted
  <2>7. ASSUME NEW i \in 1..n + 1, NEW j \in 1..n + 1,
               i < j, Accepted'[i].from = Accepted'[j].from
        PROVE  Accepted'[i].no < Accepted'[j].no
    <3>1. i \in 1..n
      BY <2>1, <2>7
    <3>2. CASE j = n + 1
      <4>1. Accepted[i].from = p /\ Accepted[i].no <= sent[p]
        BY <3>1, <3>2, <2>2, <2>4, <2>7 DEF Ordered, NumbersCounted, n
      <4> QED BY <3>1, <3>2, <4>1, <2>2, <2>3, <2>4, <2>5
    <3>3. CASE j \in 1..n
      BY <3>1, <3>3, <2>2, <2>7 DEF Ordered, InOrderExactlyOnce, n
    <3> QED BY <3>2, <3>3, <2>1
  <2>8. ASSUME NEW q \in Producer, NEW k \in 1..sent'[q]
        PROVE  \E i \in 1..n + 1 : Accepted'[i] = Msg(q, k)
    <3>1. CASE q = p /\ k = sent[p] + 1
      BY <3>1, <2>1, <2>2 DEF m
    <3>2. CASE k \in 1..sent[q]
      <4>1. PICK i \in 1..n : Accepted[i] = Msg(q, k)
        BY <3>2 DEF Ordered, InOrderExactlyOnce, n
      <4>2. i \in 1..n + 1
        BY <2>1
      <4> QED BY <4>1, <4>2, <2>2
    <3> QED BY <3>1, <3>2, <2>5
  <2>9. InOrderExactlyOnce'
    BY <2>2, <2>7, <2>8 DEF InOrderExactlyOnce, Msg
  <2> QED BY <2>6, <2>9 DEF Ordered
<1> QED BY <1>1, <1>2, AcceptedGrows

\* Nothing that addToBuffer has accepted is lost, repeated or reordered by
\* the swapping of the queues.
THEOREM OrderKept == Spec => []InOrderExactlyOnce
<1>1. Init => Ordered
  <2> SUFFICES ASSUME Init PROVE Ordered
    OBVIOUS
  <2>1. Accepted = <<>> \o (<<>> \o <<>>)
    BY DEF Init, Accepted, Pending, Other
  <2>2. Len(Accepted) = 0
    BY <2>1, EmptySeq, ConcatEmptySeq
  <2>3. \A p \in Producer : sent[p] = 0
    BY DEF Init
  <2> QED BY <2>2, <2>3 DEF Ordered, NumbersCounted, InOrderExactlyOnce
<1>2. IInv /\ Ordered /\ [Next]_vars => Ordered'
  BY StepKeepsOrdered
<1>3. Ordered => InOrderExactlyOnce
  BY DEF Ordered
<1> QED BY <1>1, <1>2, <1>3, Inductive, PTL DEF Spec
==============================================================================
