------------------------------ MODULE CrudStore ------------------------------
(***************************************************************************)
(* src/src/crud_handler.cc and src/src/crud_file_manager.cc: JSON entities *)
(* as files data_path/<name>/<id>, and one file data_path/maxEntityIds     *)
(* with a line "<name>:<largest id>" per entity name, from which POST      *)
(* takes the next id.                                                      *)
(*                                                                         *)
(* A worker (a thread of the pool) runs a request to its end; two workers  *)
(* interleave between any two calls that touch the file system, because    *)
(* CrudHandlerFactory::create makes a new CrudFileManager, and with it a   *)
(* new entity_id_file_mutex, for every request.  Each action is one such   *)
(* call with the straight-line code around it.  Files follow POSIX: opening *)
(* for output truncates, a file removed while open lives on unnamed, and   *)
(* two writers at offset 0 overlay each other.                             *)
(*                                                                         *)
(* Abstracted: a body is a model value (long or short, which is all that   *)
(* overlaying tells apart); an id is a number below IdSpace (2^64 in the   *)
(* code) or Word, an id std::stoull refuses; a line of maxEntityIds or of  *)
(* temp is a record, and all lines have one width.  The data directory is  *)
(* created on demand before its first use and so is taken to exist.        *)
(***************************************************************************)
EXTENDS Integers, Sequences, FiniteSetsExt

CONSTANTS Worker,       \* threads of the pool
          Name,         \* entity names
          PutId,        \* ids that clients may name in a URL
          Word,         \* an id that is not a number
          Body,         \* request bodies
          LongBody,     \* those longer than the others
          IdSpace,      \* bound: u_int64_t wraps here
          None,         \* no file, no name, no id
          Blank,        \* what a file holds after it was truncated
          Torn,         \* a short body over the rest of a long one
          MaxInFlight,  \* bound: requests in progress at once
          MaxWriters,   \* bound: POSTs and PUTs in progress at once
          MaxRequests,  \* bound: requests received
          MaxRestarts,  \* bound: restarts of the server
          CrashPoint,   \* where the process may be killed
          MayFail       \* what may fail: "mkdir", create_directories of an entity's
                        \* directory; "open", any opening of a file or directory

Id == 0..IdSpace - 1
Key == Id \cup {Word}
Content == Body \cup {Blank, Torn}
File == Name \X Key
Lines == Seq([name : Name, max : Id])

ASSUME ConstantsOK ==
  /\ IdSpace \in Nat /\ IdSpace > 2
  /\ PutId \subseteq Key /\ LongBody \subseteq Body /\ Body # {}
  /\ Word \notin Int /\ None \notin Key /\ None \notin Name
  /\ Blank \notin Body /\ Torn \notin Body \cup {Blank} /\ None \notin Content \cup Lines
  /\ \A n \in {MaxInFlight, MaxWriters, MaxRequests, MaxRestarts} : n \in Nat
\* THREADPOOL_SIZE in _main.cc is 2; what a worker sees of a removed temp
\* file (RemoveTemp) is exact for at most two.
ASSUME ThreadPool == \A u, v, w \in Worker : u = v \/ v = w \/ u = w

VARIABLES
  \* on disk
  maxFile,   \* data_path/maxEntityIds: None, or its lines
  temp,      \* the file "temp": None, or its lines
  dirs,      \* entity names with a directory
  object,    \* data_path/<name>/<id>: None, or its content
  \* in memory
  up,        \* the process runs
  pc,        \* the next file-system call of each worker
  ret,       \* where generateEntityId or writeEntityId returns to
  req,       \* the request a worker handles (req.id as the handler sets it)
  existed,   \* handle_put's entity_exists
  locked,    \* the entity_id_file_mutex of the worker's request is held
  fd,        \* the file a worker has open for output still has its name
  lines,     \* writeEntityId: the lines that go to temp
  source,    \* copy_file: the size and, once unnamed, the lines of temp
  reply,     \* the answer to the last request of each worker
  \* history and bounds
  taken,     \* files that a POST or PUT ever opened
  served, restarts

disk == <<maxFile, temp, dirs, object>>
call == <<req, existed, locked, fd, lines, source, reply>>
bounds == <<served, restarts>>
vars == <<disk, up, pc, ret, call, taken, bounds>>

Request == [op : {"post", "get", "put", "delete", "other"},
            name : Name \cup {None}, id : PutId \cup {None}, body : Body]
Reply == [status : {0, 200, 201, 204, 400, 404},
          id : Key \cup {None}, body : Content \cup {None} \cup SUBSET Key]

Line(n, m) == [name |-> n, max |-> m]
Answer(s, i, b) == [status |-> s, id |-> i, body |-> b]
NoReply == Answer(0, None, None)
NoRequest == [op |-> "none", name |-> None, id |-> None, body |-> CHOOSE b \in Body : TRUE]
NoSource == [count |-> 0, unnamed |-> None]

FileOf(w) == <<req[w].name, req[w].id>>
Writes(r) == r.op \in {"post", "put"}
InFlight == {w \in Worker : pc[w] # "idle"}

\* What a file holds after `new` was written at its start over `old`.
Overlay(new, old) == IF old \in LongBody \cup {Torn} /\ new \notin LongBody THEN Torn ELSE new
OverlayLines(new, old) == new \o SubSeq(old, Len(new) + 1, Len(old))

LinesOf(f, n) == {i \in 1..Len(f) : f[i].name = n}

\* A stream that reads an existing file may not be open after its constructor.
NotOpened(f) == f = None \/ "open" \in MayFail

\* Init: a server started on an empty data path.
Init ==
  /\ maxFile = None /\ temp = None /\ dirs = {}
  /\ object = [f \in File |-> None]
  /\ up = TRUE
  /\ pc = [w \in Worker |-> "idle"]
  /\ ret = [w \in Worker |-> "none"]
  /\ req = [w \in Worker |-> NoRequest]
  /\ existed = [w \in Worker |-> FALSE]
  /\ locked = [w \in Worker |-> FALSE]
  /\ fd = [w \in Worker |-> "closed"]
  /\ lines = [w \in Worker |-> <<>>]
  /\ source = [w \in Worker |-> NoSource]
  /\ reply = [w \in Worker |-> NoReply]
  /\ taken = {} /\ served = 0 /\ restarts = 0

Goto(w, l) == pc' = [pc EXCEPT ![w] = l]
GotoCall(w, l, r) == Goto(w, l) /\ ret' = [ret EXCEPT ![w] = r]
Finish(w, answer) == Goto(w, "reply") /\ reply' = [reply EXCEPT ![w] = answer]

\* The process ends and every request with it: it is killed, or an exception
\* leaves io_service::run and std::terminate is called.
Halt ==
  /\ up' = FALSE
  /\ pc' = [w \in Worker |-> "idle"]
  /\ ret' = [w \in Worker |-> "none"]
  /\ req' = [w \in Worker |-> NoRequest]
  /\ existed' = [w \in Worker |-> FALSE]
  /\ locked' = [w \in Worker |-> FALSE]
  /\ fd' = [w \in Worker |-> "closed"]
  /\ lines' = [w \in Worker |-> <<>>]
  /\ source' = [w \in Worker |-> NoSource]
  /\ reply' = [w \in Worker |-> NoReply]
  /\ UNCHANGED <<taken, bounds>>
------------------------------------------------------------------------------
\* Requests: CrudHandler::handle_request and the handle_* functions.

\* session::handle_read hands a parsed request to the CRUD handler.
Receive(w) ==
  /\ up /\ pc[w] = "idle"
  /\ served < MaxRequests /\ Cardinality(InFlight) < MaxInFlight
  /\ \E r \in Request :
       /\ Writes(r) => Cardinality({v \in InFlight : Writes(req[v])}) < MaxWriters
       /\ req' = [req EXCEPT ![w] = r]
  /\ served' = served + 1
  /\ Goto(w, "dispatch")
  /\ UNCHANGED <<disk, up, ret, existed, locked, fd, lines, source, reply, taken, restarts>>

Rejected(r) ==
  \/ r.op = "other" \/ r.name = None
  \/ r.op = "post" /\ r.id # None
  \/ r.op \in {"put", "delete"} /\ r.id = None

BadRequest(w) ==
  /\ pc[w] = "dispatch" /\ Rejected(req[w])
  /\ Finish(w, Answer(400, None, None))
  /\ UNCHANGED <<disk, up, ret, req, existed, locked, fd, lines, source, taken, bounds>>

Dispatched(w, op) == pc[w] = "dispatch" /\ req[w].op = op /\ ~Rejected(req[w])

HandlePost(w) ==
  /\ Dispatched(w, "post")
  /\ GotoCall(w, "testMaxFile", "post")
  /\ UNCHANGED <<disk, up, call, taken, bounds>>

\* readObject: the file is opened and read to its end.
HandleGet(w) ==
  /\ Dispatched(w, "get") /\ req[w].id # None
  /\ \/ object[FileOf(w)] # None /\ Finish(w, Answer(200, None, object[FileOf(w)]))
     \/ NotOpened(object[FileOf(w)]) /\ Finish(w, Answer(404, None, None))
  /\ UNCHANGED <<disk, up, ret, req, existed, locked, fd, lines, source, taken, bounds>>

\* handle_list, listObjects: the names in the directory, none if it is missing
\* or cannot be read.
HandleList(w) ==
  /\ Dispatched(w, "get") /\ req[w].id = None
  /\ \/ Finish(w, Answer(200, None, {k \in Key : object[<<req[w].name, k>>] # None}))
     \/ "open" \in MayFail /\ Finish(w, Answer(200, None, {}))
  /\ UNCHANGED <<disk, up, ret, req, existed, locked, fd, lines, source, taken, bounds>>

HandlePut(w) ==
  /\ Dispatched(w, "put")
  /\ existed' = [existed EXCEPT ![w] = object[FileOf(w)] # None]
  /\ Goto(w, "testDirectory")
  /\ UNCHANGED <<disk, up, ret, req, locked, fd, lines, source, reply, taken, bounds>>

\* handle_del, and existsObject in deleteObject.
HandleDelete(w) ==
  /\ Dispatched(w, "delete")
  /\ IF object[FileOf(w)] = None
       THEN Finish(w, Answer(204, None, None))
       ELSE Goto(w, "removeObject") /\ UNCHANGED reply
  /\ UNCHANGED <<disk, up, ret, req, existed, locked, fd, lines, source, taken, bounds>>

\* Mistake: the answer of existsObject is returned instead of remove's.
RemoveAssumed(w) ==
  /\ pc[w] = "removeObject"
  /\ object' = [object EXCEPT ![FileOf(w)] = None]
  /\ fd' = [v \in Worker |-> IF pc[v] = "writeBody" /\ FileOf(v) = FileOf(w)
                              THEN "unnamed" ELSE fd[v]]
  /\ Finish(w, Answer(200, None, None))
  /\ UNCHANGED <<maxFile, temp, dirs, up, ret, req, existed, locked, lines, source, taken, bounds>>

\* std::filesystem::remove says whether there was a file to remove; a worker
\* that has the file open goes on writing to a file without a name.
RemoveObject(w) ==
  /\ pc[w] = "removeObject"
  /\ object' = [object EXCEPT ![FileOf(w)] = None]
  /\ fd' = [v \in Worker |-> IF pc[v] = "writeBody" /\ FileOf(v) = FileOf(w)
                              THEN "unnamed" ELSE fd[v]]
  /\ Finish(w, Answer(IF object[FileOf(w)] # None THEN 200 ELSE 204, None, None))
  /\ UNCHANGED <<maxFile, temp, dirs, up, ret, req, existed, locked, lines, source, taken, bounds>>

\* The session has written the response and reads the next request.
Respond(w) ==
  /\ pc[w] = "reply"
  /\ GotoCall(w, "idle", "none")
  /\ req' = [req EXCEPT ![w] = NoRequest]
  /\ reply' = [reply EXCEPT ![w] = NoReply]
  /\ existed' = [existed EXCEPT ![w] = FALSE]
  /\ UNCHANGED <<disk, up, locked, fd, lines, source, taken, bounds>>

------------------------------------------------------------------------------
\* generateEntityId, called by handle_post ("post") and by writeObject
\* ("compare").

TestMaxFile(w) ==
  /\ pc[w] = "testMaxFile" /\ ~locked[w]
  /\ locked' = [locked EXCEPT ![w] = TRUE]
  /\ Goto(w, IF maxFile = None THEN "createMaxFile" ELSE "readMax")
  /\ UNCHANGED <<disk, up, ret, req, existed, fd, lines, source, reply, taken, bounds>>

\* The test and the creation are two calls, and creating truncates.
CreateMaxFile(w) ==
  /\ pc[w] = "createMaxFile"
  /\ \/ maxFile' = <<>>
     \/ "open" \in MayFail /\ UNCHANGED maxFile
  /\ Goto(w, "readMax")
  /\ UNCHANGED <<temp, dirs, object, up, ret, call, taken, bounds>>

\* Mistake: the id of the line itself, not the next one.
LastId(f, n) == IF LinesOf(f, n) = {} THEN 1 ELSE f[Min(LinesOf(f, n))].max

\* Mistake: -1 stands for a missing line and is returned as an id.
MinusOneWithoutLine(f, n) == IF LinesOf(f, n) = {} THEN -1 ELSE f[Min(LinesOf(f, n))].max + 1

\* The id after the one on the first line of the name; 1 without a line.
NextId(f, n) ==
  IF LinesOf(f, n) = {} THEN 1 ELSE (f[Min(LinesOf(f, n))].max + 1) % IdSpace

\* What is returned: the next id, or 1 if maxEntityIds cannot be opened.
Generated(n) == {NextId(f, n) : f \in {maxFile} \ {None}} \cup {i \in {1} : NotOpened(maxFile)}

ReadMaxForPost(w) ==
  /\ pc[w] = "readMax" /\ ret[w] = "post"
  /\ \E i \in Generated(req[w].name) : req' = [req EXCEPT ![w].id = i]
  /\ locked' = [locked EXCEPT ![w] = FALSE]
  /\ Goto(w, "testDirectory")
  /\ UNCHANGED <<disk, up, ret, existed, fd, lines, source, reply, taken, bounds>>

\* Mistake: an id equal to the next one is not recorded.
RaiseIfAbove(w) ==
  /\ pc[w] = "readMax" /\ ret[w] = "compare" /\ req[w].id # Word
  /\ locked' = [locked EXCEPT ![w] = FALSE]
  /\ \E i \in Generated(req[w].name) :
       \/ req[w].id > i /\ GotoCall(w, "testEntityDir", "openObject")
       \/ req[w].id <= i /\ Goto(w, "openObject") /\ UNCHANGED ret
  /\ UNCHANGED <<disk, up, req, existed, fd, lines, source, reply, taken, bounds>>

\* Mistake: generateEntityId returns before it unlocks.
CompareLocked(w) ==
  /\ pc[w] = "readMax" /\ ret[w] = "compare" /\ req[w].id # Word
  /\ \E i \in Generated(req[w].name) :
       \/ req[w].id >= i /\ GotoCall(w, "testEntityDir", "openObject")
       \/ req[w].id < i /\ Goto(w, "openObject") /\ UNCHANGED ret
  /\ UNCHANGED <<disk, up, req, existed, locked, fd, lines, source, reply, taken, bounds>>

\* writeObject raises the recorded id if the one to write is not below the next.
ReadMaxToCompare(w) ==
  /\ pc[w] = "readMax" /\ ret[w] = "compare" /\ req[w].id # Word
  /\ locked' = [locked EXCEPT ![w] = FALSE]
  /\ \E i \in Generated(req[w].name) :
       \/ req[w].id >= i /\ GotoCall(w, "testEntityDir", "openObject")
       \/ req[w].id < i /\ Goto(w, "openObject") /\ UNCHANGED ret
  /\ UNCHANGED <<disk, up, req, existed, fd, lines, source, reply, taken, bounds>>

\* std::stoull throws on an id that is not a number, before or after the call
\* of generateEntityId in the same comparison (C++ leaves the order open), and
\* nothing catches it.
NotANumber(w) ==
  /\ pc[w] \in {"testMaxFile", "readMax"} /\ ret[w] = "compare" /\ req[w].id = Word
  /\ Halt
  /\ UNCHANGED disk

------------------------------------------------------------------------------
\* writeObject

\* Mistake: the directory is created before its line in maxEntityIds.
DirectoryFirst(w) ==
  /\ pc[w] = "testDirectory"
  /\ IF req[w].name \in dirs
       THEN GotoCall(w, "testMaxFile", "compare")
       ELSE GotoCall(w, "testEntityDir", "makeDirectory")
  /\ dirs' = dirs \cup {req[w].name}
  /\ UNCHANGED <<maxFile, temp, object, up, call, taken, bounds>>

TestDirectory(w) ==
  /\ pc[w] = "testDirectory"
  /\ IF req[w].name \in dirs
       THEN GotoCall(w, "testMaxFile", "compare")
       ELSE GotoCall(w, "testEntityDir", "makeDirectory")
  /\ UNCHANGED <<disk, up, call, taken, bounds>>

\* Mistake: the directory is only looked for.
LeaveDirectory(w) ==
  /\ pc[w] = "makeDirectory"
  /\ GotoCall(w, "testMaxFile", "compare")
  /\ UNCHANGED <<disk, up, call, taken, bounds>>

\* create_directories; a filesystem_error is caught and logged.
MakeDirectory(w) ==
  /\ pc[w] = "makeDirectory"
  /\ \/ dirs' = dirs \cup {req[w].name}
     \/ "mkdir" \in MayFail /\ UNCHANGED dirs
  /\ GotoCall(w, "testMaxFile", "compare")
  /\ UNCHANGED <<maxFile, temp, object, up, call, taken, bounds>>

\* What the client is told once writeObject has returned, whatever it returned.
WriteAnswer(w) ==
  IF req[w].op = "put" /\ existed[w] THEN Answer(200, None, None)
                                     ELSE Answer(201, req[w].id, None)

OpenObject(w) ==
  /\ pc[w] = "openObject"
  /\ req[w].name \in dirs
  /\ object' = [object EXCEPT ![FileOf(w)] = Blank]
  /\ taken' = taken \cup {FileOf(w)}
  /\ fd' = [fd EXCEPT ![w] = "named"]
  /\ Goto(w, "writeBody")
  /\ UNCHANGED <<maxFile, temp, dirs, up, ret, req, existed, locked, lines, source, reply, bounds>>

\* The file cannot be opened; writeObject returns false, which nobody reads.
OpenObjectFails(w) ==
  /\ pc[w] = "openObject"
  /\ req[w].name \notin dirs \/ "open" \in MayFail
  /\ Finish(w, WriteAnswer(w))
  /\ UNCHANGED <<disk, up, ret, req, existed, locked, fd, lines, source, taken, bounds>>

\* Mistake: the stream is closed before the body is written.
CloseUnwritten(w) ==
  /\ pc[w] = "writeBody"
  /\ fd' = [fd EXCEPT ![w] = "closed"]
  /\ Finish(w, WriteAnswer(w))
  /\ UNCHANGED <<disk, up, ret, req, existed, locked, lines, source, taken, bounds>>

WriteBody(w) ==
  /\ pc[w] = "writeBody"
  /\ IF fd[w] = "named"
       THEN object' = [object EXCEPT ![FileOf(w)] = Overlay(req[w].body, @)]
       ELSE UNCHANGED object
  /\ fd' = [fd EXCEPT ![w] = "closed"]
  /\ Finish(w, WriteAnswer(w))
  /\ UNCHANGED <<maxFile, temp, dirs, up, ret, req, existed, locked, lines, source, taken, bounds>>
------------------------------------------------------------------------------
\* writeEntityId(max_id), called by writeObject for a new directory (with 1)
\* and to raise the recorded id (with the id of the object).

MaxId(w) == IF ret[w] = "makeDirectory" THEN 1 ELSE req[w].id

\* unlock() and return to writeObject.
Return(w) == locked' = [locked EXCEPT ![w] = FALSE] /\ Goto(w, ret[w])

\* lock(), then the tests that choose between adding a line and replacing it.
TestEntityDir(w) ==
  /\ pc[w] = "testEntityDir" /\ ~locked[w]
  /\ locked' = [locked EXCEPT ![w] = TRUE]
  /\ Goto(w, IF req[w].name \in dirs THEN "openTemp" ELSE "appendLine")
  /\ UNCHANGED <<disk, up, ret, req, existed, fd, lines, source, reply, taken, bounds>>

\* Mistake: a return that keeps the mutex.
AppendKeepsMutex(w) ==
  /\ pc[w] = "appendLine"
  /\ maxFile' = Append(IF maxFile = None THEN <<>> ELSE maxFile, Line(req[w].name, MaxId(w)))
  /\ Goto(w, ret[w])
  /\ UNCHANGED <<temp, dirs, object, up, ret, call, taken, bounds>>

\* The file cannot be opened: unlock, and the directory is made without a line.
AppendLineFails(w) ==
  /\ pc[w] = "appendLine" /\ "open" \in MayFail
  /\ Return(w)
  /\ UNCHANGED <<disk, up, ret, req, existed, fd, lines, source, reply, taken, bounds>>

\* Opening for append creates the file; the line is one write.
AppendLine(w) ==
  /\ pc[w] = "appendLine"
  /\ maxFile' = Append(IF maxFile = None THEN <<>> ELSE maxFile, Line(req[w].name, MaxId(w)))
  /\ Return(w)
  /\ UNCHANGED <<temp, dirs, object, up, ret, req, existed, fd, lines, source, reply, taken, bounds>>

\* The two streams of step (2); opening temp creates or truncates it.
OpenTemp(w) ==
  /\ pc[w] = "openTemp" /\ maxFile # None
  /\ temp' = <<>>
  /\ fd' = [fd EXCEPT ![w] = "named"]
  /\ Goto(w, "readLines")
  /\ UNCHANGED <<maxFile, dirs, object, up, ret, req, existed, locked, lines, source, reply, taken, bounds>>

\* One of them is not open: nothing is recorded.  temp is truncated all the
\* same if it is maxEntityIds that cannot be read.
OpenTempFails(w) ==
  /\ pc[w] = "openTemp"
  /\ \/ NotOpened(maxFile) /\ temp' = <<>>
     \/ "open" \in MayFail /\ UNCHANGED temp
  /\ Return(w)
  /\ UNCHANGED <<maxFile, dirs, object, up, ret, req, existed, fd, lines, source, reply, taken, bounds>>

\* Mistake: only the last line of the name is replaced.
ReplacedLast(f, n, m) ==
  [i \in 1..Len(f) |-> IF i = Max(LinesOf(f, n) \cup {0}) THEN Line(n, m) ELSE f[i]]

\* Step (3): every line of the name gets the new id; no line is added.
Replaced(f, n, m) == [i \in 1..Len(f) |-> IF f[i].name = n THEN Line(n, m) ELSE f[i]]

ReadLines(w) ==
  /\ pc[w] = "readLines"
  /\ lines' = [lines EXCEPT ![w] = Replaced(maxFile, req[w].name, MaxId(w))]
  /\ Goto(w, "closeTemp")
  /\ UNCHANGED <<disk, up, ret, req, existed, locked, fd, source, reply, taken, bounds>>

\* Mistake: temp is removed before it is copied.
CloseAndRemoveTemp(w) ==
  /\ pc[w] = "closeTemp"
  /\ temp' = None
  /\ fd' = [fd EXCEPT ![w] = "closed"]
  /\ lines' = [lines EXCEPT ![w] = <<>>]
  /\ Goto(w, "copyTemp")
  /\ UNCHANGED <<maxFile, dirs, object, up, ret, req, existed, locked, source, reply, taken, bounds>>

\* fileout.close() writes the lines, to a file that may have lost its name.
CloseTemp(w) ==
  /\ pc[w] = "closeTemp"
  /\ temp' = IF fd[w] = "named" THEN OverlayLines(lines[w], temp) ELSE temp
  /\ fd' = [fd EXCEPT ![w] = "closed"]
  /\ lines' = [lines EXCEPT ![w] = <<>>]
  /\ Goto(w, "copyTemp")
  /\ UNCHANGED <<maxFile, dirs, object, up, ret, req, existed, locked, source, reply, taken, bounds>>

\* copy_file, first part: temp is opened and measured, maxEntityIds truncated.
CopyTemp(w) ==
  /\ pc[w] = "copyTemp" /\ temp # None
  /\ source' = [source EXCEPT ![w] = [count |-> Len(temp), unnamed |-> None]]
  /\ maxFile' = <<>>
  /\ Goto(w, "copyData")
  /\ UNCHANGED <<temp, dirs, object, up, ret, req, existed, locked, fd, lines, reply, taken, bounds>>

\* copy_file throws a filesystem_error.  Where writeEntityId was called to raise
\* the recorded id nothing catches it.  Where it was called for a new directory
\* writeObject does, skips create_directories and goes on with the mutex held.
CopyThrows(w) ==
  \/ ret[w] = "openObject" /\ Halt
  \/ /\ ret[w] = "makeDirectory"
     /\ source' = [source EXCEPT ![w] = NoSource]
     /\ GotoCall(w, "testMaxFile", "compare")
     /\ UNCHANGED <<up, req, existed, locked, fd, lines, reply, taken, bounds>>

\* Another request has removed temp, or a file cannot be opened.
TempIsGone(w) ==
  /\ pc[w] = "copyTemp" /\ NotOpened(temp)
  /\ CopyThrows(w)
  /\ UNCHANGED disk

SourceOf(w) == IF source[w].unnamed = None THEN temp ELSE source[w].unnamed

\* copy_file, second part: as many lines as temp had.
CopyData(w) ==
  /\ pc[w] = "copyData" /\ Len(SourceOf(w)) >= source[w].count
  /\ maxFile' = OverlayLines(SubSeq(SourceOf(w), 1, source[w].count), maxFile)
  /\ source' = [source EXCEPT ![w] = NoSource]
  /\ Goto(w, "removeTemp")
  /\ UNCHANGED <<temp, dirs, object, up, ret, req, existed, locked, fd, lines, reply, taken, bounds>>

\* Another request has truncated temp: what is left is copied, then copy_file throws.
SourceShrank(w) ==
  /\ pc[w] = "copyData" /\ Len(SourceOf(w)) < source[w].count
  /\ maxFile' = OverlayLines(SourceOf(w), maxFile)
  /\ CopyThrows(w)
  /\ UNCHANGED <<temp, dirs, object>>

\* A worker that has temp open keeps the file without the name.
RemoveTemp(w) ==
  /\ pc[w] = "removeTemp"
  /\ temp' = None
  /\ fd' = [v \in Worker |-> IF pc[v] \in {"readLines", "closeTemp"} THEN "unnamed" ELSE fd[v]]
  /\ source' = [v \in Worker |->
       IF pc[v] = "copyData" /\ source[v].unnamed = None
         THEN [source[v] EXCEPT !.unnamed = temp] ELSE source[v]]
  /\ Return(w)
  /\ UNCHANGED <<maxFile, dirs, object, up, ret, req, existed, lines, reply, taken, bounds>>

------------------------------------------------------------------------------
\* The process is killed while its requests are at some of CrashPoint.
Crash ==
  /\ up /\ InFlight # {} /\ \A w \in InFlight : pc[w] \in CrashPoint
  /\ Halt
  /\ UNCHANGED disk

\* The server is started again on the same data path.
Restart ==
  /\ ~up /\ restarts < MaxRestarts
  /\ up' = TRUE
  /\ restarts' = restarts + 1
  /\ UNCHANGED <<disk, pc, ret, call, taken, served>>

GenerateEntityId(w) ==
  TestMaxFile(w) \/ CreateMaxFile(w) \/ ReadMaxForPost(w) \/ ReadMaxToCompare(w) \/ NotANumber(w)

WriteObject(w) ==
  TestDirectory(w) \/ MakeDirectory(w) \/ OpenObject(w) \/ OpenObjectFails(w) \/ WriteBody(w)

WriteEntityId(w) ==
  \/ TestEntityDir(w) \/ AppendLine(w) \/ AppendLineFails(w)
  \/ OpenTemp(w) \/ OpenTempFails(w) \/ ReadLines(w) \/ CloseTemp(w)
  \/ CopyTemp(w) \/ TempIsGone(w) \/ CopyData(w) \/ SourceShrank(w) \/ RemoveTemp(w)

HandleRequest(w) ==
  \/ BadRequest(w) \/ HandlePost(w) \/ HandleGet(w) \/ HandleList(w) \/ HandlePut(w)
  \/ HandleDelete(w) \/ RemoveObject(w) \/ Respond(w)

Step(w) == HandleRequest(w) \/ GenerateEntityId(w) \/ WriteObject(w) \/ WriteEntityId(w)

Next == Crash \/ Restart \/ \E w \in Worker : Receive(w) \/ Step(w)

\* A thread at generateEntityId's lock() that holds the mutex already waits for
\* itself for good: the exception of CopyThrows has left it locked.
HangsOnItself(w) == pc[w] = "testMaxFile" /\ locked[w]

\* A thread that runs a request is scheduled until it is done, or hangs.
Fairness == \A w \in Worker : WF_vars(Step(w) /\ ~HangsOnItself(w))

Spec == Init /\ [][Next]_vars
FairSpec == Spec /\ Fairness
------------------------------------------------------------------------------
\* Properties.

CallAt == {"idle", "dispatch", "reply", "removeObject",
           "testMaxFile", "createMaxFile", "readMax",
           "testDirectory", "makeDirectory", "openObject", "writeBody",
           "testEntityDir", "appendLine", "openTemp", "readLines", "closeTemp",
           "copyTemp", "copyData", "removeTemp"}

\* A request as its handler sees it: handle_post sets the id.
Handled == [op : {"none", "post", "get", "put", "delete", "other"},
            name : Name \cup {None}, id : Key \cup {None}, body : Body]

TypeOK ==
  /\ maxFile \in Lines \cup {None} /\ temp \in Lines \cup {None}
  /\ dirs \subseteq Name
  /\ object \in [File -> Content \cup {None}]
  /\ up \in BOOLEAN
  /\ pc \in [Worker -> CallAt]
  /\ ret \in [Worker -> {"none", "post", "compare", "makeDirectory", "openObject"}]
  /\ req \in [Worker -> Handled]
  /\ existed \in [Worker -> BOOLEAN] /\ locked \in [Worker -> BOOLEAN]
  /\ fd \in [Worker -> {"closed", "named", "unnamed"}]
  /\ lines \in [Worker -> Lines]
  /\ source \in [Worker -> [count : Nat, unnamed : Lines \cup {None}]]
  /\ reply \in [Worker -> Reply]
  /\ taken \subseteq File
  /\ served \in Nat /\ restarts \in Nat

Copying == \E w \in Worker : pc[w] = "copyData"

\* POST generates a unique id (crud_handler.cc:31): when it opens the file of
\* its object, no POST or PUT has ever opened that file.
PostIdIsFresh ==
  \A w \in Worker : pc[w] = "openObject" /\ req[w].op = "post" => FileOf(w) \notin taken

\* A directory has its line in maxEntityIds: writeEntityId never adds a line
\* to a name that has a directory, so without it every id would be 1 for good.
DirectoryRecorded ==
  ~Copying => \A n \in dirs : maxFile # None /\ LinesOf(maxFile, n) # {}

\* The line of a name is at least every id that was ever written under it.
IdsRecorded ==
  ~Copying => \A f \in taken : f[2] \in Id =>
    /\ maxFile # None /\ LinesOf(maxFile, f[1]) # {}
    /\ f[2] <= maxFile[Min(LinesOf(maxFile, f[1]))].max

\* A name may get two lines (a crash between the line and the directory);
\* they agree, so reading the first one and replacing all of them is enough.
LinesAgree ==
  maxFile # None => \A n \in Name : \A i, j \in LinesOf(maxFile, n) :
    maxFile[i].max = maxFile[j].max

\* handle_post and handle_put ignore what writeObject returns.  As long as no
\* library call fails this does no harm: a client that is told 201 or 200 names
\* a file that was opened, for writeObject has made its directory, whatever
\* crash left behind, and no other request takes a directory away.
SuccessIsBacked ==
  \A w \in Worker : pc[w] = "reply" /\ Writes(req[w]) /\ reply[w].status \in {200, 201} =>
    FileOf(w) \in taken

\* No request with a numeric id that is alone brings the server down or blocks
\* its thread: copy_file finds the temp file that this request has written, and
\* each of the up to three functions that lock entity_id_file_mutex one after
\* the other finds it free.
StaysUp == up /\ \A w \in Worker : ~HangsOnItself(w)

\* Until the process first dies, a truncated object is one that a worker is
\* about to write: none is left empty by a writer that has answered, also
\* when the file was removed, made anew or opened twice in between.
BlankIsBeingWritten ==
  up /\ restarts = 0 => \A f \in File : object[f] = Blank =>
    \E w \in Worker : pc[w] = "writeBody" /\ FileOf(w) = f /\ fd[w] = "named"

\* Of two DELETEs of one object that both saw it, one is told 200: a worker
\* says 200 only in the step that takes the file away.
OneDeleteWins ==
  [][\A w \in Worker :
       req[w].op = "delete" /\ pc[w] # "reply" /\ pc'[w] = "reply" /\ reply'[w].status = 200
         => object[FileOf(w)] # None /\ object'[FileOf(w)] = None]_vars

\* Every request is answered, or ends with the process, or hangs on itself where
\* generateEntityId locks the mutex that an exception left locked: there is no
\* other place where a request waits for ever, whatever other requests do to
\* the files it shares with them and whichever of its calls fail.
EveryRequestEnds ==
  \A w \in Worker : (pc[w] = "dispatch") ~> (pc[w] = "idle" \/ HangsOnItself(w))

\* Requests that do not overlap behave as in EntityStore.  A POST or PUT takes
\* effect when it opens (and truncates) the file; its body and its answer are
\* then certain.
OpenedBy(f) == {w \in Worker : pc[w] = "writeBody" /\ fd[w] = "named" /\ FileOf(w) = f}
Stored == [f \in File |-> IF OpenedBy(f) # {} THEN req[CHOOSE w \in OpenedBy(f) : TRUE].body
                                             ELSE object[f]]
AskedOf == [w \in Worker |->
  IF req[w].op = "post" /\ pc[w] # "dispatch" /\ reply[w].status # 400
    THEN [req[w] EXCEPT !.id = None] ELSE req[w]]
AnswerOf == [w \in Worker |-> IF pc[w] = "writeBody" THEN WriteAnswer(w) ELSE reply[w]]

Store == INSTANCE EntityStore WITH
  store <- Stored, used <- taken, asked <- AskedOf, answer <- AnswerOf
ImplementsStore == Store!Spec
==============================================================================
