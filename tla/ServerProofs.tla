------------------------------ MODULE ServerProofs ------------------------------
(***************************************************************************)
(* Proofs about Server, for every pool of threads, set of sessions, number *)
(* of connections and requests, and initial value of program_terminated_.  *)
(* Three arguments, each with its own invariant: who has a session or the  *)
(* accept (SessionInv), who stops what (ShutdownInv), and where a logged    *)
(* message is (LogInv).                                                    *)
(***************************************************************************)
EXTENDS Server, SequenceTheorems, FiniteSetTheorems, TLAPS

\* Where main is before start_accept and before the first thread of the pool.
BeforeAccept == {"startLogger", "initFlag", "armSignals", "logStarting", "startAccept"}
BeforePool == BeforeAccept \cup {"logRunning", "logCreating"}

------------------------------------------------------------------------------
\* Types.

LEMMA LogTyped ==
  ASSUME TypeOK
  PROVE  /\ Len(pending) \in Nat /\ Len(written) \in Nat
         /\ Log!Add("message") =>
              /\ pending' \in Seq(Message) /\ written' = written
              /\ Len(pending') = Len(pending) + 1
         /\ Log!Write =>
              /\ pending' \in Seq(Message) /\ written' \in Seq(Message)
              /\ pending # <<>> /\ Len(pending') = Len(pending) - 1
              /\ Len(written') = Len(written) + 1
<1>1. pending \in Seq(Message) /\ written \in Seq(Message) /\ "message" \in Message
  BY DEF TypeOK, Message
<1> HIDE DEF Message
<1>2. Len(pending) \in Nat /\ Len(written) \in Nat
  BY <1>1, LenProperties
<1>3. ASSUME Log!Add("message")
      PROVE  /\ pending' \in Seq(Message) /\ written' = written
             /\ Len(pending') = Len(pending) + 1
  BY <1>1, <1>3, AppendProperties DEF Log!Add
<1>4. ASSUME Log!Write
      PROVE  /\ pending' \in Seq(Message) /\ written' \in Seq(Message)
             /\ pending # <<>> /\ Len(pending') = Len(pending) - 1
             /\ Len(written') = Len(written) + 1
  <2>1. pending # <<>> /\ Head(pending) \in Message /\ Tail(pending) \in Seq(Message)
        /\ Len(Tail(pending)) = Len(pending) - 1
    BY <1>1, <1>4, HeadTailProperties DEF Log!Write
  <2>2. Append(written, Head(pending)) \in Seq(Message)
        /\ Len(Append(written, Head(pending))) = Len(written) + 1
    BY <1>1, <2>1, AppendProperties
  <2> QED BY <1>4, <2>1, <2>2 DEF Log!Write
<1> QED BY <1>2, <1>3, <1>4

LEMMA MainTyped == ASSUME TypeOK, Main PROVE TypeOK'
<1> USE LogTyped DEF TypeOK, MainAt, PoolAt, LoggerAt, io, threads, loggerVars, bounds
<1>1. CASE StartLogger \/ InitFlag \/ ArmSignals
  BY <1>1 DEF StartLogger, InitFlag, ArmSignals, log
<1>2. ASSUME NEW here \in MainAt, NEW next \in MainAt, MainLogs(here, next) PROVE TypeOK'
  BY <1>2 DEF MainLogs
<1>3. CASE FirstAccept
  BY <1>3 DEF FirstAccept, StartAccept, log
<1>4. ASSUME NEW t \in Thread, StartThread(t) PROVE TypeOK'
  BY <1>4 DEF StartThread, log
<1>5. CASE ThreadsStarted \/ Join
  BY <1>5 DEF ThreadsStarted, Join, log
<1> QED BY <1>1, <1>2, <1>3, <1>4, <1>5 DEF Main

LEMMA PoolTyped == ASSUME TypeOK, NEW t \in Thread, Pool(t) PROVE TypeOK'
<1> USE LogTyped DEF TypeOK, PoolAt, io, threads, loggerVars, bounds, PoolStep
<1>1. ASSUME NEW done, NEW handler \in PoolAt, TakeCompletion(t, done, handler) PROVE TypeOK'
  BY <1>1 DEF TakeCompletion, log
<1>2. ASSUME NEW here, NEW next \in PoolAt, PoolLogs(t, here, next) PROVE TypeOK'
  BY <1>2 DEF PoolLogs
<1>3. ASSUME NEW here, NEW next \in {"none", "read", "write"}, EndHandler(t, here, next)
      PROVE  TypeOK'
  BY <1>3 DEF EndHandler, log
<1>4. CASE HandleAccept(t) \/ AcceptNext(t)
  BY <1>4 DEF HandleAccept, AcceptNext, StartAccept, log
<1>5. CASE TakeSignal(t) \/ LeaveRun(t) \/ Stop(t)
  BY <1>5 DEF TakeSignal, LeaveRun, Stop, log
<1>6. CASE SetTerminated(t)
  <2>1. storedAt' \in Nat
    BY <1>6 DEF SetTerminated
  <2> QED BY <1>6, <2>1 DEF SetTerminated, log
<1>7. CASE JoinLogger(t)
  BY <1>7 DEF JoinLogger, log
<1>8. CASE HandlerThrows(t)
  BY <1>8 DEF HandlerThrows, MainAt, log
<1> QED BY <1>1, <1>2, <1>3, <1>4, <1>5, <1>6, <1>7, <1>8
        DEF Pool, ReadFailed, Dispatch, HandlerHangs, StartWrite, LogSending, LogGone, StartRead, LogInterrupt

LEMMA LoggingTyped == ASSUME TypeOK, HandleLogging PROVE TypeOK'
<1> USE LogTyped DEF TypeOK, LoggerAt, io, threads, bounds, LoggerStep, LoggerKeeps
<1>1. CASE TestTerminated \/ TestEmpty \/ Sleep \/ BatchDone
  BY <1>1 DEF TestTerminated, TestEmpty, Sleep, BatchDone, log
<1>2. CASE TakeBatch
  BY <1>2 DEF TakeBatch, log
<1>3. CASE WriteMessage
  BY <1>3 DEF WriteMessage
<1> QED BY <1>1, <1>2, <1>3 DEF HandleLogging

LEMMA EnvironmentTyped == ASSUME TypeOK, Environment PROVE TypeOK'
<1> USE ServerConstants DEF TypeOK, io, threads, loggerVars, bounds, log
<1>1. CASE Signal
  BY <1>1 DEF Signal
<1>2. ASSUME NEW s \in Session, Connect(s) PROVE TypeOK'
  BY <1>2 DEF Connect, Complete
<1>3. ASSUME NEW s \in Session, RequestArrives(s) PROVE TypeOK'
  BY <1>3 DEF RequestArrives, Complete
<1>4. ASSUME NEW s \in Session, HangUp(s) \/ Sent(s) PROVE TypeOK'
  BY <1>4 DEF HangUp, Sent, Complete
<1> QED BY <1>1, <1>2, <1>3, <1>4 DEF Environment

\* The variables of the model keep their types; in particular the batch that
\* the logging thread has taken is never larger than what is in the buffer.
THEOREM TypeCorrect == Spec => []TypeOK
<1>1. Init => TypeOK
  <2> SUFFICES ASSUME Init PROVE TypeOK
    OBVIOUS
  <2>1. pending \in Seq(Message) /\ written \in Seq(Message) /\ Len(pending) = 0
    BY DEF Init, Log!Init
  <2>2. terminated \in BOOLEAN /\ connections \in 0..MaxConnections /\ requests \in 0..MaxRequests
    BY ServerConstants DEF Init
  <2>3. op \in [Session -> {"unused", "none", "accept", "accepted", "read", "readDone",
                            "write", "writeDone"}]
        /\ err \in [Session -> BOOLEAN]
    BY DEF Init
  <2>4. pool \in [Thread -> PoolAt] /\ at \in [Thread -> Session \cup {NoSession}]
    BY DEF Init, PoolAt
  <2>5. batch \in 0..Len(pending) /\ storedAt \in Nat
    BY <2>1 DEF Init
  <2>6. stopped \in BOOLEAN /\ signal \in {"off", "armed", "ready", "taken"} /\ main \in MainAt /\ logger \in LoggerAt
    BY DEF Init, MainAt, LoggerAt
  <2> QED BY <2>1, <2>2, <2>3, <2>4, <2>5, <2>6 DEF TypeOK
<1>2. TypeOK /\ [Next]_vars => TypeOK'
  <2>1. TypeOK /\ UNCHANGED vars => TypeOK'
    BY DEF TypeOK, vars, log, io, threads, loggerVars, bounds
  <2> QED BY <2>1, MainTyped, PoolTyped, LoggingTyped, EnvironmentTyped DEF Next
<1> QED BY <1>1, <1>2, PTL DEF Spec

------------------------------------------------------------------------------
\* Sessions: who runs a handler on one, and who holds the one accept.

Handling == {"handleAccept", "handleRead", "stuck", "startWrite",
             "handleWrite", "logGone", "startRead"}
Accept == {"accept", "accepted"}
Reaccept == {"handleAccept", "startAccept"}

\* The accept is an operation on session s, or thread t is about to start it.
HeldBySession(s) ==
  /\ \A r \in Session : op[r] \in Accept <=> r = s
  /\ \A u \in Thread : pool[u] \notin Reaccept
HeldByThread(t) ==
  /\ \A r \in Session : op[r] \notin Accept
  /\ \A u \in Thread : pool[u] \in Reaccept <=> u = t

AcceptHeld ==
  IF main \in BeforeAccept THEN \A s \in Session : op[s] = "unused"
  ELSE (\E s \in Session : HeldBySession(s)) \/ (\E t \in Thread : HeldByThread(t))

SessionInv ==
  /\ main \in BeforePool => \A t \in Thread : pool[t] = "off"
  /\ \A t \in Thread : at[t] # NoSession <=> pool[t] \in Handling
  /\ OneHandlerPerSession
  /\ AcceptHeld

LEMMA MainKeepsSessions == ASSUME TypeOK, SessionInv, Main PROVE SessionInv'
<1> USE DEF TypeOK, SessionInv, OneHandlerPerSession, BeforePool, BeforeAccept, Handling, Reaccept,
            io, threads
<1>1. CASE StartLogger \/ InitFlag \/ ArmSignals
  BY <1>1 DEF StartLogger, InitFlag, ArmSignals, AcceptHeld
<1>2. CASE MainLogs("logStarting", "startAccept")
  BY <1>2 DEF MainLogs, AcceptHeld
<1>3. CASE FirstAccept
  <2>1. PICK s \in Session : op' = [op EXCEPT ![s] = "accept"]
    BY <1>3 DEF FirstAccept, StartAccept
  <2>2. HeldBySession(s)'
    BY <1>3, <2>1 DEF FirstAccept, AcceptHeld, HeldBySession, Accept
  <2>3. \A t \in Thread : at[t] = NoSession
    BY <1>3 DEF FirstAccept
  <2> QED BY <1>3, <2>2, <2>3 DEF FirstAccept, AcceptHeld
<1>4. CASE MainLogs("logRunning", "logCreating") \/ MainLogs("logCreating", "startThreads")
           \/ MainLogs("logJoining", "join")
  BY <1>4 DEF MainLogs, AcceptHeld, HeldBySession, HeldByThread
<1>5. ASSUME NEW t \in Thread, StartThread(t) PROVE SessionInv'
  BY <1>5 DEF StartThread, AcceptHeld, HeldBySession, HeldByThread
<1>6. CASE ThreadsStarted \/ Join
  BY <1>6 DEF ThreadsStarted, Join, AcceptHeld, HeldBySession, HeldByThread
<1> QED BY <1>1, <1>2, <1>3, <1>4, <1>5, <1>6 DEF Main

\* The handler of a completed operation becomes the only user of the session.
LEMMA TakeKeepsSessions ==
  ASSUME TypeOK, SessionInv, NEW t \in Thread, NEW done, NEW handler,
         TakeCompletion(t, done, handler),
         <<done, handler>> \in {<<"accepted", "handleAccept">>, <<"readDone", "handleRead">>,
                                <<"writeDone", "handleWrite">>}
  PROVE  SessionInv'
<1> USE ServerConstants
    DEF TypeOK, SessionInv, TakeCompletion, PoolStep, BeforePool, BeforeAccept, Handling, Reaccept
<1>1. PICK s \in Session : /\ op[s] = done /\ op' = [op EXCEPT ![s] = "none"]
                           /\ at' = [at EXCEPT ![t] = s]
  OBVIOUS
<1>2. main \notin BeforePool /\ main' = main
  OBVIOUS
<1>3. OneHandlerPerSession'
  BY <1>1 DEF OneHandlerPerSession
<1>4. \A u \in Thread : (at[u] # NoSession)' <=> (pool[u] \in Handling)'
  BY <1>1
<1>5. AcceptHeld'
  <2>1. CASE done = "accepted"
    <3>1. HeldBySession(s)
      BY <1>1, <1>2, <2>1 DEF AcceptHeld, HeldBySession, HeldByThread, Accept
    <3>2. HeldByThread(t)'
      BY <1>1, <2>1, <3>1 DEF HeldBySession, HeldByThread, Accept
    <3> QED BY <1>2, <3>2 DEF AcceptHeld
  <2>2. CASE done # "accepted"
    <3>1. ASSUME NEW r \in Session, HeldBySession(r) PROVE HeldBySession(r)'
      BY <1>1, <2>2, <3>1 DEF HeldBySession, Accept
    <3>2. ASSUME NEW u \in Thread, HeldByThread(u) PROVE HeldByThread(u)'
      BY <1>1, <2>2, <3>2 DEF HeldByThread, Accept
    <3> QED BY <1>2, <3>1, <3>2 DEF AcceptHeld
  <2> QED BY <2>1, <2>2
<1> QED BY <1>2, <1>3, <1>4, <1>5

\* A handler ends and leaves its session with at most one operation.
LEMMA EndKeepsSessions ==
  ASSUME TypeOK, SessionInv, NEW t \in Thread, NEW here \in Handling \ {"handleAccept"},
         NEW next \in {"none", "read", "write"}, EndHandler(t, here, next)
  PROVE  SessionInv'
<1> USE ServerConstants
    DEF TypeOK, SessionInv, EndHandler, PoolStep, BeforePool, BeforeAccept, Handling, Reaccept
<1>1. at[t] \in Session /\ op[at[t]] = "none" /\ main \notin BeforePool /\ main' = main
  BY DEF OneHandlerPerSession
<1>2. op' \in [Session -> {"unused", "none", "accept", "accepted", "read", "readDone",
                           "write", "writeDone"}]
      /\ op'[at[t]] \notin Accept /\ \A r \in Session \ {at[t]} : op'[r] = op[r]
  BY <1>1 DEF Accept
<1>3. OneHandlerPerSession'
  BY <1>1, <1>2 DEF OneHandlerPerSession
<1>4. \A u \in Thread : (at[u] # NoSession)' <=> (pool[u] \in Handling)'
  BY <1>1
<1>5. ASSUME NEW r \in Session, HeldBySession(r) PROVE HeldBySession(r)'
  BY <1>1, <1>2, <1>5 DEF HeldBySession, Accept
<1>6. ASSUME NEW u \in Thread, HeldByThread(u) PROVE HeldByThread(u)'
  BY <1>1, <1>2, <1>6 DEF HeldByThread, Accept
<1> QED BY <1>1, <1>3, <1>4, <1>5, <1>6 DEF AcceptHeld

LEMMA HandleAcceptKeepsSessions ==
  ASSUME TypeOK, SessionInv, NEW t \in Thread, HandleAccept(t) PROVE SessionInv'
<1> USE ServerConstants
    DEF TypeOK, SessionInv, HandleAccept, PoolStep, BeforePool, BeforeAccept, Handling, Reaccept
<1>1. at[t] \in Session /\ op[at[t]] = "none" /\ main \notin BeforePool /\ main' = main
  BY DEF OneHandlerPerSession
<1>2. op'[at[t]] \notin Accept /\ \A r \in Session \ {at[t]} : op'[r] = op[r]
  BY <1>1 DEF Accept
<1>3. OneHandlerPerSession'
  BY <1>1, <1>2 DEF OneHandlerPerSession
<1>4. \A u \in Thread : (at[u] # NoSession)' <=> (pool[u] \in Handling)'
  BY <1>1
<1>5. HeldByThread(t)
  BY <1>1 DEF AcceptHeld, HeldBySession, HeldByThread
<1>6. HeldByThread(t)'
  BY <1>1, <1>2, <1>5 DEF HeldByThread, Accept
<1> QED BY <1>1, <1>3, <1>4, <1>6 DEF AcceptHeld

LEMMA AcceptNextKeepsSessions ==
  ASSUME TypeOK, SessionInv, NEW t \in Thread, AcceptNext(t) PROVE SessionInv'
<1> USE DEF TypeOK, SessionInv, AcceptNext, PoolStep, BeforePool, BeforeAccept, Handling, Reaccept
<1>1. PICK s \in Session : op[s] = "unused" /\ op' = [op EXCEPT ![s] = "accept"]
  BY DEF StartAccept
<1>2. main \notin BeforePool /\ main' = main
  OBVIOUS
<1>3. OneHandlerPerSession'
  BY <1>1 DEF OneHandlerPerSession
<1>4. \A u \in Thread : (at[u] # NoSession)' <=> (pool[u] \in Handling)'
  OBVIOUS
<1>5. HeldByThread(t)
  BY <1>2 DEF AcceptHeld, HeldBySession, HeldByThread
<1>6. HeldBySession(s)'
  BY <1>1, <1>5 DEF HeldBySession, HeldByThread, Accept
<1> QED BY <1>1, <1>2, <1>3, <1>4, <1>6 DEF AcceptHeld

\* Steps of a thread that touch no session: within a handler, or outside.
LEMMA MoveKeepsSessions ==
  ASSUME TypeOK, SessionInv, NEW t \in Thread, NEW here, NEW next,
         PoolStep(t, here, next), UNCHANGED <<main, op, at>>,
         here # "off", here \in Handling <=> next \in Handling,
         here \notin Reaccept, next \notin Reaccept
  PROVE  SessionInv'
<1> USE DEF TypeOK, SessionInv, PoolStep
<1>1. main \notin BeforePool
  OBVIOUS
<1>2. OneHandlerPerSession'
  BY DEF OneHandlerPerSession
<1>3. \A u \in Thread : (at[u] # NoSession)' <=> (pool[u] \in Handling)'
  OBVIOUS
<1>4. AcceptHeld'
  BY DEF AcceptHeld, HeldBySession, HeldByThread
<1> QED BY <1>1, <1>2, <1>3, <1>4

\* The process ends after it has accepted its first connection.
LEMMA ThrowKeepsSessions ==
  ASSUME SessionInv, NEW t \in Thread, HandlerThrows(t) PROVE SessionInv'
<1>1. UNCHANGED <<pool, at, op>> /\ main \notin BeforePool /\ main' \notin BeforePool
  BY DEF HandlerThrows, SessionInv, BeforePool, BeforeAccept, io, threads
<1> QED BY <1>1 DEF SessionInv, OneHandlerPerSession, AcceptHeld, HeldBySession, HeldByThread, BeforePool

LEMMA PoolKeepsSessions == ASSUME TypeOK, SessionInv, NEW t \in Thread, Pool(t) PROVE SessionInv'
<1> USE DEF Handling, Reaccept
<1>1. CASE TakeCompletion(t, "accepted", "handleAccept")
  BY <1>1, TakeKeepsSessions
<1>2. CASE TakeCompletion(t, "readDone", "handleRead")
  BY <1>2, TakeKeepsSessions
<1>3. CASE TakeCompletion(t, "writeDone", "handleWrite")
  BY <1>3, TakeKeepsSessions
<1>4. CASE HandleAccept(t) \/ AcceptNext(t)
  BY <1>4, HandleAcceptKeepsSessions, AcceptNextKeepsSessions
<1>5. CASE ReadFailed(t)
  BY <1>5, EndKeepsSessions DEF ReadFailed
<1>6. CASE StartWrite(t)
  BY <1>6, EndKeepsSessions DEF StartWrite
<1>7. CASE StartRead(t)
  BY <1>7, EndKeepsSessions DEF StartRead
<1>8. ASSUME NEW here, NEW next, PoolLogs(t, here, next), here # "off",
             here \in Handling <=> next \in Handling, here \notin Reaccept, next \notin Reaccept
      PROVE  SessionInv'
  BY <1>8, MoveKeepsSessions DEF PoolLogs, io
<1>9. CASE Dispatch(t) \/ HandlerHangs(t) \/ LogGone(t)
  BY <1>8, <1>9 DEF Dispatch, HandlerHangs, LogGone
<1>10. CASE LogSending(t) \/ LogInterrupt(t)
  BY <1>8, <1>10 DEF LogSending, LogInterrupt
<1>11. CASE TakeSignal(t)
  BY <1>11, MoveKeepsSessions DEF TakeSignal
<1>12. CASE LeaveRun(t)
  BY <1>12, MoveKeepsSessions DEF LeaveRun, io
<1>13. CASE Stop(t)
  BY <1>13, MoveKeepsSessions DEF Stop
<1>14. CASE SetTerminated(t)
  BY <1>14, MoveKeepsSessions DEF SetTerminated, io
<1>15. CASE JoinLogger(t)
  BY <1>15, MoveKeepsSessions DEF JoinLogger, io
<1>16. CASE HandlerThrows(t)
  BY <1>16, ThrowKeepsSessions
<1> QED BY <1>1, <1>2, <1>3, <1>4, <1>5, <1>6, <1>7, <1>9, <1>10, <1>11, <1>12, <1>13, <1>14, <1>15,
           <1>16
        DEF Pool

LEMMA QuietKeepsSessions ==
  ASSUME SessionInv, UNCHANGED <<main, pool, at, op>> PROVE SessionInv'
BY DEF SessionInv, OneHandlerPerSession, AcceptHeld, HeldBySession, HeldByThread

LEMMA EnvironmentKeepsSessions == ASSUME TypeOK, SessionInv, Environment PROVE SessionInv'
<1>1. ASSUME NEW s \in Session, NEW e, NEW before, NEW after, Complete(s, before, after, e),
             <<before, after>> \in {<<"accept", "accepted">>, <<"read", "readDone">>,
                                    <<"write", "writeDone">>}
      PROVE  SessionInv'
  <2> USE <1>1 DEF Complete, TypeOK, threads
  <2>1. UNCHANGED <<main, pool, at>> /\ op[s] # "none" /\ op[s] # "unused"
    OBVIOUS
  <2>2. \A r \in Session : op'[r] \in Accept <=> op[r] \in Accept
    BY DEF Accept
  <2>3. OneHandlerPerSession'
    BY <2>1 DEF SessionInv, OneHandlerPerSession
  <2>4. AcceptHeld'
    <3>1. /\ \A r \in Session : HeldBySession(r) => HeldBySession(r)'
          /\ \A t \in Thread : HeldByThread(t) => HeldByThread(t)'
      BY <2>1, <2>2 DEF HeldBySession, HeldByThread
    <3>2. main \notin BeforeAccept
      BY <2>1 DEF SessionInv, AcceptHeld
    <3> QED BY <2>1, <3>1, <3>2 DEF SessionInv, AcceptHeld
  <2> QED BY <2>1, <2>3, <2>4 DEF SessionInv
<1>2. ASSUME NEW s \in Session, Connect(s) \/ RequestArrives(s) PROVE SessionInv'
  BY <1>1, <1>2 DEF Connect, RequestArrives
<1>3. ASSUME NEW s \in Session, HangUp(s) \/ Sent(s) PROVE SessionInv'
  BY <1>1, <1>3 DEF HangUp, Sent
<1>4. CASE Signal
  BY <1>4, QuietKeepsSessions DEF Signal, threads
<1> QED BY <1>2, <1>3, <1>4 DEF Environment

LEMMA LoggingKeepsSessions == ASSUME SessionInv, HandleLogging PROVE SessionInv'
<1>1. UNCHANGED <<main, pool, at, op>>
  BY DEF HandleLogging, TestTerminated, TestEmpty, Sleep, TakeBatch, WriteMessage, BatchDone,
         LoggerKeeps, io, threads
<1> QED BY <1>1, QuietKeepsSessions

LEMMA SessionsInvariant == Spec => []SessionInv
<1>1. Init => SessionInv
  BY DEF Init, SessionInv, OneHandlerPerSession, AcceptHeld, BeforeAccept, Handling
<1>2. TypeOK /\ SessionInv /\ [Next]_vars => SessionInv'
  <2>1. SessionInv /\ UNCHANGED vars => SessionInv'
    BY QuietKeepsSessions DEF vars, io, threads
  <2> QED BY <2>1, MainKeepsSessions, PoolKeepsSessions, LoggingKeepsSessions,
             EnvironmentKeepsSessions DEF Next
<1> QED BY <1>1, <1>2, TypeCorrect, PTL DEF Spec

\* A session has one user at a time, whichever thread of the pool runs its
\* handlers: no strand is needed for request_, response_ and buff_.
THEOREM OneHandlerAtATime == Spec => []OneHandlerPerSession
<1>1. SessionInv => OneHandlerPerSession
  BY DEF SessionInv
<1> QED BY <1>1, SessionsInvariant, PTL

\* The chain of accepts neither breaks nor forks, for any number of sessions
\* and threads, whatever errors the accepts end with.
THEOREM AcceptChainKept == Spec => []OneAcceptChain
<1> DEFINE Accepting == {s \in Session : op[s] \in {"accept", "accepted"}}
           Restarting == {t \in Thread : pool[t] \in {"handleAccept", "startAccept"}}
<1>1. Cardinality({}) = 0 /\ \A x : Cardinality({x}) = 1
  BY FS_EmptySet, FS_Singleton
<1>2. ASSUME NEW s \in Session, HeldBySession(s)
      PROVE  Cardinality(Accepting) + Cardinality(Restarting) = 1
  <2>1. Accepting = {s} /\ Restarting = {}
    BY <1>2 DEF HeldBySession, Accept, Reaccept
  <2>2. Cardinality(Accepting) = 1
    BY <1>1, <2>1, Zenon
  <2>3. Cardinality(Restarting) = 0
    BY <1>1, <2>1, Zenon
  <2> QED BY <2>2, <2>3
<1>3. ASSUME NEW t \in Thread, HeldByThread(t)
      PROVE  Cardinality(Accepting) + Cardinality(Restarting) = 1
  <2>1. Accepting = {} /\ Restarting = {t}
    BY <1>3 DEF HeldByThread, Accept, Reaccept
  <2>2. Cardinality(Accepting) = 0
    BY <1>1, <2>1, Zenon
  <2>3. Cardinality(Restarting) = 1
    BY <1>1, <2>1, Zenon
  <2> QED BY <2>2, <2>3
<1>4. SessionInv => OneAcceptChain
  BY <1>2, <1>3 DEF SessionInv, AcceptHeld, BeforeAccept, OneAcceptChain
<1> QED BY <1>4, SessionsInvariant, PTL

------------------------------------------------------------------------------
\* Shutdown: what the thread that runs kill_server has done by then.

ShutdownInv ==
  /\ main \in BeforePool => \A t \in Thread : pool[t] = "off"
  /\ \A t \in Thread : pool[t] \in {"setTerminated", "joinLogger", "returned"} => stopped
  /\ stopped => main \notin BeforePool
  /\ stopped => logger = "done" \/ \E t \in Thread : pool[t] \in {"setTerminated", "joinLogger"}
  /\ terminated /\ ~stopped => main \in {"startLogger", "initFlag"}
  /\ main = "exited" => logger = "done" /\ \A t \in Thread : pool[t] = "returned"

LEMMA MainKeepsShutdown == ASSUME TypeOK, ShutdownInv, Main PROVE ShutdownInv'
<1> USE DEF TypeOK, ShutdownInv, BeforePool, BeforeAccept, io, threads, loggerVars
<1>1. CASE StartLogger \/ InitFlag \/ ArmSignals
  BY <1>1 DEF StartLogger, InitFlag, ArmSignals
<1>2. CASE FirstAccept
  BY <1>2 DEF FirstAccept
<1>3. CASE MainLogs("logStarting", "startAccept") \/ MainLogs("logRunning", "logCreating")
           \/ MainLogs("logCreating", "startThreads") \/ MainLogs("logJoining", "join")
  BY <1>3 DEF MainLogs
<1>4. ASSUME NEW t \in Thread, StartThread(t) PROVE ShutdownInv'
  BY <1>4 DEF StartThread
<1>5. CASE ThreadsStarted
  BY <1>5 DEF ThreadsStarted
<1>6. CASE Join
  <2>1. stopped
    BY <1>6, ServerConstants DEF Join
  <2> QED BY <1>6, <2>1 DEF Join
<1> QED BY <1>1, <1>2, <1>3, <1>4, <1>5, <1>6 DEF Main

\* Steps of the pool outside kill_server.
LEMMA ServingKeepsShutdown ==
  ASSUME TypeOK, ShutdownInv, NEW t \in Thread,
         NEW here \in PoolAt \ {"off", "setTerminated", "joinLogger", "returned"},
         NEW next \in PoolAt \ {"setTerminated", "joinLogger"},
         next = "returned" => stopped,
         PoolStep(t, here, next), UNCHANGED <<main, terminated, stopped, logger>>
  PROVE  ShutdownInv'
<1> USE DEF TypeOK, ShutdownInv, PoolStep, Alive
<1>1. main' \notin BeforePool
  OBVIOUS
<1>2. \A u \in Thread : pool[u] \in {"setTerminated", "joinLogger"} => pool'[u] = pool[u]
  OBVIOUS
<1> QED BY <1>1, <1>2

LEMMA PoolKeepsShutdown == ASSUME TypeOK, ShutdownInv, NEW t \in Thread, Pool(t)
                           PROVE  ShutdownInv'
<1> USE DEF PoolAt
<1>1. ASSUME NEW done, NEW handler \in {"handleAccept", "handleRead", "handleWrite"},
             TakeCompletion(t, done, handler)
      PROVE  ShutdownInv'
  BY <1>1, ServingKeepsShutdown DEF TakeCompletion, loggerVars
<1>2. ASSUME NEW here \in PoolAt \ {"off", "setTerminated", "joinLogger", "returned"},
             NEW next \in PoolAt \ {"setTerminated", "joinLogger", "returned"},
             PoolLogs(t, here, next)
      PROVE  ShutdownInv'
  BY <1>2, ServingKeepsShutdown DEF PoolLogs, io, loggerVars
<1>3. ASSUME NEW here \in {"handleRead", "startWrite", "startRead"}, NEW next,
             EndHandler(t, here, next)
      PROVE  ShutdownInv'
  BY <1>3, ServingKeepsShutdown DEF EndHandler, loggerVars
<1>4. CASE HandleAccept(t)
  BY <1>4, ServingKeepsShutdown DEF HandleAccept, loggerVars
<1>5. CASE AcceptNext(t)
  BY <1>5, ServingKeepsShutdown DEF AcceptNext, loggerVars
<1>6. CASE TakeSignal(t)
  BY <1>6, ServingKeepsShutdown DEF TakeSignal, loggerVars
<1>7. CASE LeaveRun(t)
  BY <1>7, ServingKeepsShutdown DEF LeaveRun, io, loggerVars
<1>8. CASE Stop(t) \/ SetTerminated(t)
  BY <1>8 DEF Stop, SetTerminated, PoolStep, TypeOK, ShutdownInv, Alive, io, loggerVars
<1>9. CASE JoinLogger(t)
  BY <1>9 DEF JoinLogger, PoolStep, TypeOK, ShutdownInv, Alive, io, loggerVars
<1>10. CASE HandlerThrows(t)
  BY <1>10 DEF HandlerThrows, ShutdownInv, BeforePool, BeforeAccept, io, threads, loggerVars
<1> QED BY <1>1, <1>2, <1>3, <1>4, <1>5, <1>6, <1>7, <1>8, <1>9, <1>10
        DEF Pool, ReadFailed, Dispatch, HandlerHangs, StartWrite, LogSending, LogGone, StartRead, LogInterrupt

LEMMA OthersKeepShutdown ==
  ASSUME ShutdownInv, HandleLogging \/ Environment \/ UNCHANGED vars PROVE ShutdownInv'
<1>1. UNCHANGED <<main, pool, terminated, stopped>> /\ (logger = "done" => logger' = "done")
  BY DEF HandleLogging, TestTerminated, TestEmpty, Sleep, TakeBatch, WriteMessage, BatchDone,
         LoggerKeeps, LoggerStep, Environment, Connect, RequestArrives, HangUp, Sent, Complete,
         Signal, vars, io, threads, loggerVars
<1> QED BY <1>1 DEF ShutdownInv

LEMMA ShutdownInvariant == Spec => []ShutdownInv
<1>1. Init => ShutdownInv
  BY DEF Init, ShutdownInv, BeforePool, BeforeAccept
<1>2. TypeOK /\ ShutdownInv /\ [Next]_vars => ShutdownInv'
  BY MainKeepsShutdown, PoolKeepsShutdown, OthersKeepShutdown DEF Next
<1> QED BY <1>1, <1>2, TypeCorrect, PTL DEF Spec

\* main leaves, and the server object goes, after the logging thread and every
\* thread of the pool: a pool thread returns from run() only once the server
\* was stopped, and the thread that stopped it returns only when the logging
\* thread has ended.
THEOREM MainLeavesLast == Spec => []NothingOutlivesMain
<1>1. ShutdownInv => NothingOutlivesMain
  BY DEF ShutdownInv, NothingOutlivesMain
<1> QED BY <1>1, ShutdownInvariant, PTL
------------------------------------------------------------------------------
\* The log: what was accepted is written before the logging thread ends.

LogInv ==
  /\ storedAt <= Len(written) + Len(pending)
  /\ logger = "done" => storedAt <= Len(written)
  /\ main \in {"startLogger", "initFlag"} => pending = <<>> /\ written = <<>>
  /\ logger \in {"testEmpty", "done"} /\ ~stopped => written = <<>>

\* Steps that write nothing and take nothing from the buffer.
LEMMA StoringKeepsLog ==
  ASSUME TypeOK, LogInv, UNCHANGED <<written, storedAt, logger>>,
         Len(pending') \in Nat, Len(pending') >= Len(pending), stopped => stopped',
         main' \in {"startLogger", "initFlag"} =>
           main \in {"startLogger", "initFlag"} /\ UNCHANGED pending
  PROVE  LogInv'
<1>1. Len(pending) \in Nat /\ Len(written) \in Nat
  BY LogTyped
<1> QED BY <1>1 DEF TypeOK, LogInv

LEMMA MainKeepsLog == ASSUME TypeOK, LogInv, Main PROVE LogInv'
<1>0. Len(pending) \in Nat /\ Len(written) \in Nat
  BY LogTyped
<1>1. CASE StartLogger
  BY <1>0, <1>1 DEF StartLogger, LogInv, TypeOK, log, io
<1>2. CASE InitFlag \/ ArmSignals
  BY <1>0, <1>2, StoringKeepsLog DEF InitFlag, ArmSignals, log, io, loggerVars
<1>3. ASSUME NEW here, NEW next \in MainAt \ {"startLogger", "initFlag"}, MainLogs(here, next)
      PROVE  LogInv'
  BY <1>0, <1>3, LogTyped, StoringKeepsLog DEF MainLogs, io, loggerVars
<1>4. CASE FirstAccept
  BY <1>0, <1>4, StoringKeepsLog DEF FirstAccept, log, loggerVars
<1>5. ASSUME NEW t \in Thread, StartThread(t) PROVE LogInv'
  BY <1>0, <1>5, StoringKeepsLog DEF StartThread, log, io, loggerVars
<1>6. CASE ThreadsStarted \/ Join
  BY <1>0, <1>6, StoringKeepsLog DEF ThreadsStarted, Join, log, io, loggerVars
<1> QED BY <1>1, <1>2, <1>3, <1>4, <1>5, <1>6 DEF Main, MainAt

LEMMA PoolKeepsLog ==
  ASSUME TypeOK, ShutdownInv, LogInv, NEW t \in Thread, Pool(t) PROVE LogInv'
<1>0. Len(pending) \in Nat /\ Len(written) \in Nat
      /\ (pool[t] # "off" => main \notin {"startLogger", "initFlag"})
  BY LogTyped DEF ShutdownInv, BeforePool, BeforeAccept
<1> USE DEF log, io, loggerVars
<1>1. ASSUME NEW done, NEW handler, TakeCompletion(t, done, handler) PROVE LogInv'
  BY <1>0, <1>1, StoringKeepsLog DEF TakeCompletion
<1>2. ASSUME NEW here \in PoolAt \ {"off"}, NEW next, PoolLogs(t, here, next) PROVE LogInv'
  BY <1>0, <1>2, LogTyped, StoringKeepsLog DEF PoolLogs, PoolStep
<1>3. ASSUME NEW here, NEW next, EndHandler(t, here, next) PROVE LogInv'
  BY <1>0, <1>3, StoringKeepsLog DEF EndHandler
<1>4. CASE HandleAccept(t) \/ AcceptNext(t)
  BY <1>0, <1>4, StoringKeepsLog DEF HandleAccept, AcceptNext
<1>5. CASE TakeSignal(t) \/ LeaveRun(t)
  BY <1>0, <1>5, StoringKeepsLog DEF TakeSignal, LeaveRun
<1>6. CASE Stop(t) \/ JoinLogger(t)
  BY <1>0, <1>6, StoringKeepsLog DEF Stop, JoinLogger
<1>7. CASE SetTerminated(t)
  BY <1>0, <1>7 DEF SetTerminated, LogInv, TypeOK
<1>8. CASE HandlerThrows(t)
  BY <1>0, <1>8, StoringKeepsLog DEF HandlerThrows
<1> QED BY <1>1, <1>2, <1>3, <1>4, <1>5, <1>6, <1>7, <1>8
        DEF Pool, PoolAt, ReadFailed, Dispatch, HandlerHangs, StartWrite, LogSending, LogGone, StartRead, LogInterrupt

LEMMA LoggingKeepsLog == ASSUME TypeOK, ShutdownInv, LogInv, HandleLogging PROVE LogInv'
<1>0. Len(pending) \in Nat /\ Len(written) \in Nat
  BY LogTyped
<1> USE DEF TypeOK, LogInv, LoggerStep, LoggerKeeps, log, io
<1>1. CASE TestTerminated
  BY <1>0, <1>1 DEF TestTerminated, ShutdownInv
<1>2. CASE TestEmpty
  <2>1. pending = <<>> => Len(pending) = 0
    OBVIOUS
  <2> QED BY <1>0, <1>2, <2>1 DEF TestEmpty
<1>3. CASE Sleep \/ TakeBatch \/ BatchDone
  BY <1>0, <1>3 DEF Sleep, TakeBatch, BatchDone
<1>4. CASE WriteMessage
  BY <1>0, <1>4, LogTyped DEF WriteMessage
<1> QED BY <1>1, <1>2, <1>3, <1>4 DEF HandleLogging

LEMMA OthersKeepLog ==
  ASSUME LogInv, Environment \/ UNCHANGED vars PROVE LogInv'
<1>1. UNCHANGED <<main, stopped, logger, pending, written, storedAt>>
  BY DEF Environment, Connect, RequestArrives, HangUp, Sent, Complete,
         Signal, vars, log, io, loggerVars
<1> QED BY <1>1 DEF LogInv

LEMMA LogInvariant == Spec => []LogInv
<1>1. Init => LogInv
  BY DEF Init, Log!Init, LogInv
<1>2. TypeOK /\ ShutdownInv /\ LogInv /\ [Next]_vars => LogInv'
  BY MainKeepsLog, PoolKeepsLog, LoggingKeepsLog, OthersKeepLog DEF Next
<1> QED BY <1>1, <1>2, TypeCorrect, ShutdownInvariant, PTL DEF Spec

\* Every message that was accepted before kill_server set the flag is in the
\* log when the logging thread ends: it looks at the buffer after the flag.
THEOREM FlushedBeforeExit == Spec => []FlushedAtExit
<1>1. TypeOK /\ LogInv => FlushedAtExit
  BY LogTyped DEF TypeOK, LogInv, FlushedAtExit
<1> QED BY <1>1, TypeCorrect, LogInvariant, PTL

\* Before kill_server stops the server the logging thread can only end without
\* having written anything, which needs the uninitialised flag.
THEOREM AllOrNothingLogged == Spec => []LogsAllOrNothing
<1>1. LogInv => LogsAllOrNothing
  BY DEF LogInv, LogsAllOrNothing
<1> QED BY <1>1, LogInvariant, PTL
==============================================================================
