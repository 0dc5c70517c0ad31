-------------------------------- MODULE Server --------------------------------
(***************************************************************************)
(* src/src/server.cc, session.cc and the life of the process in _main.cc:  *)
(* main builds the server and joins the pool, the threads of the pool run  *)
(* completion handlers of one io_service, the logging thread runs          *)
(* handle_logging, and a signal makes one pool thread run kill_server.     *)
(*                                                                         *)
(* The logging buffer is the queue of LogFifo (LoggingBuffer implements    *)
(* it).  Request handlers are one log message between reading a request    *)
(* and starting to write the answer; what they do to files is CrudStore's. *)
(* A handler may also throw, or never return.                              *)
(* Boost.Asio is modelled by what the code relies on: a completion handler *)
(* runs once, on any thread that is in io_service::run, and after stop()   *)
(* no handler is started.                                                  *)
(***************************************************************************)
EXTENDS Naturals, Sequences, FiniteSets

CONSTANTS Thread,          \* the pool (THREADPOOL_SIZE threads)
          Session,         \* bound: session objects alive at once
          NoSession,
          Uninitialised,   \* values the memory of program_terminated_ may hold
          HandlerMay,      \* what a request handler may do instead of answering:
                           \* "throw", "hang"
          MaxConnections,  \* bound: connections accepted
          MaxRequests      \* bound: requests read

ASSUME ServerConstants ==
  /\ NoSession \notin Session /\ Uninitialised \subseteq BOOLEAN
  /\ HandlerMay \subseteq {"throw", "hang"}
  /\ Thread # {}
  /\ Cardinality(Session) >= 2
  /\ MaxConnections \in Nat /\ MaxRequests \in Nat

VARIABLES
  pending, written,   \* the logging buffer and the log
  main,               \* the next step of main()
  terminated,         \* program_terminated_
  stopped,            \* io_service_.stop() has been called
  signal,             \* "off", "armed", "ready" (delivered) or "taken"
  op,                 \* the asynchronous operation outstanding on a session
  err,                \* the error code its completion carries
  pool,               \* the next step of each pool thread
  at,                 \* the session whose handler a thread runs
  logger, batch,      \* the logging thread; messages it took with the swap
  connections, requests,
  storedAt            \* history: messages accepted when program_terminated_ was set
                      \* (0 if the logging thread had already ended)

log == <<pending, written>>
io == <<stopped, signal, op, err>>
threads == <<pool, at>>
loggerVars == <<logger, batch>>
bounds == <<connections, requests>>
vars == <<log, main, terminated, io, threads, loggerVars, bounds, storedAt>>

\* Order and content of the log are LoggingBuffer's; here a message is a message.
Message == {"message"}

Log == INSTANCE LogFifo

Init ==
  /\ Log!Init
  /\ main = "startLogger"
  /\ terminated \in Uninitialised
  /\ stopped = FALSE /\ signal = "off"
  /\ op = [s \in Session |-> "unused"] /\ err = [s \in Session |-> FALSE]
  /\ pool = [t \in Thread |-> "off"] /\ at = [t \in Thread |-> NoSession]
  /\ logger = "off" /\ batch = 0
  /\ connections = 0 /\ requests = 0
  /\ storedAt = 0

------------------------------------------------------------------------------
\* main: the constructor of server in the order in which server.h declares the
\* members, then server::run.

\* logging_thread_ is declared, and started, before program_terminated_.
StartLogger ==
  /\ main = "startLogger"
  /\ logger' = "test"
  /\ main' = "initFlag"
  /\ UNCHANGED <<log, terminated, io, threads, batch, bounds, storedAt>>

\* Mistake: the member is not initialised at all.
LeaveFlag ==
  /\ main = "initFlag"
  /\ main' = "armSignals"
  /\ UNCHANGED <<log, terminated, io, threads, loggerVars, bounds, storedAt>>

InitFlag ==
  /\ main = "initFlag"
  /\ terminated' = FALSE
  /\ main' = "armSignals"
  /\ UNCHANGED <<log, io, threads, loggerVars, bounds, storedAt>>

ArmSignals ==
  /\ main = "armSignals"
  /\ signal' = "armed"
  /\ main' = "logStarting"
  /\ UNCHANGED <<log, terminated, stopped, op, err, threads, loggerVars, bounds, storedAt>>

MainLogs(here, next) ==
  /\ main = here
  /\ Log!Add("message")
  /\ main' = next
  /\ UNCHANGED <<terminated, io, threads, loggerVars, bounds, storedAt>>

\* make_shared<session> and async_accept on its socket.
StartAccept ==
  LET unused == {s \in Session : op[s] = "unused"} IN
  /\ unused # {}
  /\ op' = [op EXCEPT ![CHOOSE s \in unused : TRUE] = "accept"]

FirstAccept ==
  /\ main = "startAccept"
  /\ StartAccept
  /\ main' = "logRunning"
  /\ UNCHANGED <<log, terminated, stopped, signal, err, threads, loggerVars, bounds, storedAt>>

StartThread(t) ==
  /\ main = "startThreads" /\ pool[t] = "off"
  /\ pool' = [pool EXCEPT ![t] = "run"]
  /\ UNCHANGED <<log, main, terminated, io, at, loggerVars, bounds, storedAt>>

ThreadsStarted ==
  /\ main = "startThreads" /\ \A t \in Thread : pool[t] # "off"
  /\ main' = "logJoining"
  /\ UNCHANGED <<log, terminated, io, threads, loggerVars, bounds, storedAt>>

\* Every thread is joined; then main returns and the process ends.
Join ==
  /\ main = "join" /\ \A t \in Thread : pool[t] = "returned"
  /\ main' = "exited"
  /\ UNCHANGED <<log, terminated, io, threads, loggerVars, bounds, storedAt>>

Main ==
  \/ StartLogger \/ InitFlag \/ ArmSignals
  \/ MainLogs("logStarting", "startAccept")
  \/ FirstAccept
  \/ MainLogs("logRunning", "logCreating")
  \/ MainLogs("logCreating", "startThreads")
  \/ (\E t \in Thread : StartThread(t))
  \/ ThreadsStarted
  \/ MainLogs("logJoining", "join")
  \/ Join

------------------------------------------------------------------------------
\* The network and the operating system: operations complete.

\* Neither main has returned nor an exception ended the process.
Alive == main \notin {"exited", "aborted"}

Complete(s, before, after, error) ==
  /\ Alive /\ ~stopped /\ op[s] = before
  /\ op' = [op EXCEPT ![s] = after]
  /\ err' = [err EXCEPT ![s] = error]
  /\ UNCHANGED <<log, main, terminated, stopped, signal, threads, loggerVars, storedAt>>

Connect(s) ==
  /\ connections < MaxConnections
  /\ \E r \in Session \ {s} : op[r] = "unused"
  /\ \E e \in BOOLEAN : Complete(s, "accept", "accepted", e)
  /\ connections' = connections + 1
  /\ UNCHANGED requests

RequestArrives(s) ==
  /\ requests < MaxRequests
  /\ Complete(s, "read", "readDone", FALSE)
  /\ requests' = requests + 1
  /\ UNCHANGED connections

HangUp(s) == Complete(s, "read", "readDone", TRUE) /\ UNCHANGED bounds
Sent(s) == (\E e \in BOOLEAN : Complete(s, "write", "writeDone", e)) /\ UNCHANGED bounds

\* SIGINT or SIGTERM; async_wait is called once, so a second one has no handler.
Signal ==
  /\ Alive /\ signal = "armed"
  /\ signal' = "ready"
  /\ UNCHANGED <<log, main, terminated, stopped, op, err, threads, loggerVars, bounds, storedAt>>
------------------------------------------------------------------------------
\* A thread of the pool.

PoolStep(t, here, next) == Alive /\ pool[t] = here /\ pool' = [pool EXCEPT ![t] = next]

\* It runs the handler of a completed operation.
TakeCompletion(t, done, handler) ==
  /\ ~stopped
  /\ PoolStep(t, "run", handler)
  /\ \E s \in Session :
       /\ op[s] = done
       /\ op' = [op EXCEPT ![s] = "none"]
       /\ at' = [at EXCEPT ![t] = s]
  /\ UNCHANGED <<log, main, terminated, stopped, signal, err, loggerVars, bounds, storedAt>>

TakeSignal(t) ==
  /\ ~stopped /\ signal = "ready"
  /\ PoolStep(t, "run", "logInterrupt")
  /\ signal' = "taken"
  /\ UNCHANGED <<log, main, terminated, stopped, op, err, at, loggerVars, bounds, storedAt>>

LeaveRun(t) ==
  /\ stopped
  /\ PoolStep(t, "run", "returned")
  /\ UNCHANGED <<log, main, terminated, io, at, loggerVars, bounds, storedAt>>

PoolLogs(t, here, next) ==
  /\ PoolStep(t, here, next)
  /\ Log!Add("message")
  /\ UNCHANGED <<main, terminated, io, at, loggerVars, bounds, storedAt>>

\* The handler's last operation on its session: start `next` or, after an
\* error, drop the last reference to the session.
EndHandler(t, here, next) ==
  /\ PoolStep(t, here, "run")
  /\ op' = [op EXCEPT ![at[t]] = IF err[at[t]] THEN "unused" ELSE next]
  /\ err' = [err EXCEPT ![at[t]] = FALSE]
  /\ at' = [at EXCEPT ![t] = NoSession]
  /\ UNCHANGED <<log, main, terminated, stopped, signal, loggerVars, bounds, storedAt>>

\* Mistake: an accept error ends the chain of accepts.
AcceptOnlyAfterSuccess(t) ==
  /\ PoolStep(t, "handleAccept", IF err[at[t]] THEN "run" ELSE "startAccept")
  /\ op' = [op EXCEPT ![at[t]] = IF err[at[t]] THEN "unused" ELSE "read"]
  /\ err' = [err EXCEPT ![at[t]] = FALSE]
  /\ at' = [at EXCEPT ![t] = NoSession]
  /\ UNCHANGED <<log, main, terminated, stopped, signal, loggerVars, bounds, storedAt>>

\* server::handle_accept: session::start, then start_accept in any case.
HandleAccept(t) ==
  /\ PoolStep(t, "handleAccept", "startAccept")
  /\ op' = [op EXCEPT ![at[t]] = IF err[at[t]] THEN "unused" ELSE "read"]
  /\ err' = [err EXCEPT ![at[t]] = FALSE]
  /\ at' = [at EXCEPT ![t] = NoSession]
  /\ UNCHANGED <<log, main, terminated, stopped, signal, loggerVars, bounds, storedAt>>

AcceptNext(t) ==
  /\ PoolStep(t, "startAccept", "run")
  /\ StartAccept
  /\ UNCHANGED <<log, main, terminated, stopped, signal, err, at, loggerVars, bounds, storedAt>>

\* Mistake: handle_read returns without starting the write.
DispatchForgetsWrite(t) ==
  /\ PoolStep(t, "handleRead", "run") /\ ~err[at[t]]
  /\ Log!Add("message")
  /\ at' = [at EXCEPT ![t] = NoSession]
  /\ UNCHANGED <<main, terminated, io, loggerVars, bounds, storedAt>>

\* session::handle_read: dispatch_request (which logs) and async_write, or
\* nothing more after an error.
ReadFailed(t) == pool[t] = "handleRead" /\ err[at[t]] /\ EndHandler(t, "handleRead", "none")
Dispatch(t) ==
  pool[t] = "handleRead" /\ ~err[at[t]] /\ PoolLogs(t, "handleRead", "startWrite")

\* A handler throws: std::stoull on a CRUD id that is a word, copy_file, std::stoi
\* on a form without a number of images.  Nothing catches it on the way out of
\* the thread, and std::terminate ends the process.
HandlerThrows(t) ==
  /\ "throw" \in HandlerMay
  /\ Alive /\ pool[t] = "handleRead" /\ ~err[at[t]]
  /\ main' = "aborted"
  /\ UNCHANGED <<log, terminated, io, threads, loggerVars, bounds, storedAt>>

\* A handler never returns: curl_easy_perform has no time limit, and a CRUD
\* request may lock the mutex that it holds.
HandlerHangs(t) ==
  /\ "hang" \in HandlerMay
  /\ pool[t] = "handleRead" /\ ~err[at[t]] /\ PoolLogs(t, "handleRead", "stuck")

StartWrite(t) == EndHandler(t, "startWrite", "write")

\* Mistake: the next read is started before the response is logged.
ReadBeforeLog(t) ==
  /\ PoolStep(t, "handleWrite", "startRead")
  /\ Log!Add("message")
  /\ op' = [op EXCEPT ![at[t]] = "read"]
  /\ UNCHANGED <<main, terminated, stopped, signal, err, at, loggerVars, bounds, storedAt>>

\* session::handle_write: one message, a second one if the peer is gone, and
\* the next read of the connection.
LogSending(t) ==
  \/ PoolLogs(t, "handleWrite", "startRead")
  \/ PoolLogs(t, "handleWrite", "logGone")
LogGone(t) == PoolLogs(t, "logGone", "startRead")
StartRead(t) == EndHandler(t, "startRead", "read")

\* server::kill_server
LogInterrupt(t) == PoolLogs(t, "logInterrupt", "stop")

Stop(t) ==
  /\ PoolStep(t, "stop", "setTerminated")
  /\ stopped' = TRUE
  /\ UNCHANGED <<log, main, terminated, signal, op, err, at, loggerVars, bounds, storedAt>>

\* Mistake: the flag is not set.
NeverTerminated(t) ==
  /\ PoolStep(t, "setTerminated", "joinLogger")
  /\ UNCHANGED <<log, main, terminated, io, at, loggerVars, bounds, storedAt>>

SetTerminated(t) ==
  /\ PoolStep(t, "setTerminated", "joinLogger")
  /\ terminated' = TRUE
  /\ storedAt' = IF logger = "done" THEN 0 ELSE Len(written) + Len(pending)
  /\ UNCHANGED <<log, main, io, at, loggerVars, bounds>>

\* Mistake: kill_server does not wait for the logging thread.
LeaveLogger(t) ==
  /\ PoolStep(t, "joinLogger", "run")
  /\ UNCHANGED <<log, main, terminated, io, at, loggerVars, bounds, storedAt>>

\* kill_server ends without a return statement; in the repository's builds,
\* which set no optimisation level, it returns to io_service::run.
JoinLogger(t) ==
  /\ logger = "done"
  /\ PoolStep(t, "joinLogger", "run")
  /\ UNCHANGED <<log, main, terminated, io, at, loggerVars, bounds, storedAt>>

Pool(t) ==
  \/ TakeCompletion(t, "accepted", "handleAccept")
  \/ TakeCompletion(t, "readDone", "handleRead")
  \/ TakeCompletion(t, "writeDone", "handleWrite")
  \/ TakeSignal(t) \/ LeaveRun(t)
  \/ HandleAccept(t) \/ AcceptNext(t)
  \/ ReadFailed(t) \/ Dispatch(t) \/ HandlerThrows(t) \/ HandlerHangs(t) \/ StartWrite(t)
  \/ LogSending(t) \/ LogGone(t) \/ StartRead(t)
  \/ LogInterrupt(t) \/ Stop(t) \/ SetTerminated(t) \/ JoinLogger(t)

------------------------------------------------------------------------------
\* The logging thread: handle_logging around writeToLog.

LoggerStep(here, next) == Alive /\ logger = here /\ logger' = next
LoggerKeeps == UNCHANGED <<main, terminated, io, threads, bounds, storedAt>>

\* `while (!program_terminated_.load() || !logging_buffer_->empty())`
TestTerminated ==
  /\ LoggerStep("test", IF terminated THEN "testEmpty" ELSE "write")
  /\ UNCHANGED <<log, batch>> /\ LoggerKeeps

\* Mistake: the loop ends as soon as the flag is set.
DoneWhenTerminated ==
  /\ LoggerStep("testEmpty", "done")
  /\ UNCHANGED <<log, batch>> /\ LoggerKeeps

TestEmpty ==
  /\ LoggerStep("testEmpty", IF pending = <<>> THEN "done" ELSE "write")
  /\ UNCHANGED <<log, batch>> /\ LoggerKeeps

\* writeToLog sleeps, or takes everything that is in the available queue.
Sleep ==
  /\ pending = <<>> /\ LoggerStep("write", "test")
  /\ UNCHANGED <<log, batch>> /\ LoggerKeeps
TakeBatch ==
  /\ pending # <<>> /\ LoggerStep("write", "drain")
  /\ batch' = Len(pending)
  /\ UNCHANGED log /\ LoggerKeeps

\* Mistake: the loop over the queue does not count down.
WriteUncounted ==
  /\ batch > 0 /\ LoggerStep("drain", "drain")
  /\ Log!Write
  /\ UNCHANGED batch
  /\ LoggerKeeps

WriteMessage ==
  /\ batch > 0 /\ LoggerStep("drain", "drain")
  /\ Log!Write
  /\ batch' = batch - 1
  /\ LoggerKeeps
BatchDone ==
  /\ batch = 0 /\ LoggerStep("drain", "test")
  /\ UNCHANGED <<log, batch>> /\ LoggerKeeps

HandleLogging == TestTerminated \/ TestEmpty \/ Sleep \/ TakeBatch \/ WriteMessage \/ BatchDone

------------------------------------------------------------------------------
Environment ==
  Signal \/ \E s \in Session : Connect(s) \/ RequestArrives(s) \/ HangUp(s) \/ Sent(s)

Next == Main \/ (\E t \in Thread : Pool(t)) \/ HandleLogging \/ Environment

\* Every thread of the process that can take a step is scheduled; a thread whose
\* handler does not return ("stuck") takes none.  io_service runs completed
\* handlers in order, so each is taken; the numbers of connections and requests
\* are bounded, so weak fairness says as much.
Fairness ==
  /\ WF_vars(Main)
  /\ WF_vars(HandleLogging)
  /\ \A t \in Thread : WF_vars(Pool(t))

Spec == Init /\ [][Next]_vars
FairSpec == Spec /\ Fairness

------------------------------------------------------------------------------
\* Properties.

MainAt == {"startLogger", "initFlag", "armSignals", "logStarting", "startAccept", "logRunning",
           "logCreating", "startThreads", "logJoining", "join", "exited", "aborted"}
PoolAt == {"off", "run", "handleAccept", "startAccept", "handleRead", "startWrite",
           "handleWrite", "logGone", "startRead", "stuck",
           "logInterrupt", "stop", "setTerminated", "joinLogger", "returned"}
LoggerAt == {"off", "test", "testEmpty", "write", "drain", "done"}

TypeOK ==
  /\ pending \in Seq(Message) /\ written \in Seq(Message)
  /\ main \in MainAt /\ pool \in [Thread -> PoolAt] /\ logger \in LoggerAt
  /\ connections \in 0..MaxConnections /\ requests \in 0..MaxRequests /\ storedAt \in Nat
  /\ terminated \in BOOLEAN /\ stopped \in BOOLEAN
  /\ signal \in {"off", "armed", "ready", "taken"}
  /\ op \in [Session -> {"unused", "none", "accept", "accepted", "read", "readDone",
                          "write", "writeDone"}]
  /\ err \in [Session -> BOOLEAN]
  /\ at \in [Thread -> Session \cup {NoSession}]
  /\ batch \in 0..Len(pending)

\* One chain of accepts: as soon as the constructor is done, exactly one
\* accept is outstanding, completed and not yet handled, or about to be
\* started again by handle_accept, whatever error the last one had.
OneAcceptChain ==
  main \notin {"startLogger", "initFlag", "armSignals", "logStarting", "startAccept"} =>
    Cardinality({s \in Session : op[s] \in {"accept", "accepted"}})
      + Cardinality({t \in Thread : pool[t] \in {"handleAccept", "startAccept"}}) = 1

\* A session needs no strand: while a thread runs one of its handlers no
\* operation is outstanding on it and no other thread runs another, so
\* request_, response_ and buff_ have one user.
OneHandlerPerSession ==
  \A t \in Thread : at[t] # NoSession =>
    /\ op[at[t]] = "none"
    /\ \A u \in Thread \ {t} : at[u] # at[t]

\* What was logged before kill_server set program_terminated_ is in the log
\* when the logging thread, which was running then, has ended.
FlushedAtExit == logger = "done" => Len(written) >= storedAt

\* The thread that reads program_terminated_ before it is initialised (server.h:25)
\* may end at once, and then nothing is logged at all; but it never ends later
\* and with a part of the log, unless kill_server has begun.
LogsAllOrNothing == logger = "done" /\ ~stopped => written = <<>>

\* main returns, and the server object goes, after the threads that use it.
NothingOutlivesMain ==
  main = "exited" => logger = "done" /\ \A t \in Thread : pool[t] = "returned"

Stuck == {t \in Thread : pool[t] = "stuck"}

\* A signal ends the server: the thread that runs kill_server, the logging
\* thread it joins and main, which joins both threads of the pool, do not
\* wait for each other.  An exception may end it first.  A request handler that
\* never returns keeps the process from ending, but, unless every thread has
\* one, the signal is still handled: the log is complete and the other threads
\* have left.
SignalEndsServer ==
  (signal = "ready") ~>
    \/ main \in {"exited", "aborted"}
    \/ Stuck = Thread
    \/ Stuck # {} /\ logger = "done" /\ \A t \in Thread \ Stuck : pool[t] = "returned"

\* Every request that has been read is answered unless the server is stopped or
\* its handler throws or hangs; the hanging handler of another request does not
\* keep it from being answered as long as one thread is left.
RequestsAreAnswered ==
  \A s \in Session :
    (op[s] = "readDone" /\ ~err[s]) ~>
      \/ op[s] = "write" \/ stopped \/ main = "aborted"
      \/ \E t \in Stuck : at[t] = s
      \/ Stuck = Thread
==============================================================================
