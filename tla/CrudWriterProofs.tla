---------------------------- MODULE CrudWriterProofs ----------------------------
(***************************************************************************)
(* Proofs about what CrudStore promises of the files: that an answer of    *)
(* success has a file behind it (any number of writers); while POSTs and   *)
(* PUTs do not overlap, that maxEntityIds keeps up with the ids in use and *)
(* POST takes a new one; and, while no two requests overlap, nobody kills  *)
(* the process and no library call fails, that it implements EntityStore:  *)
(* each step of the handlers is a step of the map from names and ids to    *)
(* bodies, or none.                                                        *)
(***************************************************************************)
EXTENDS CrudStoreProofs, FiniteSetTheorems

\* What a step of one worker leaves to the others.
Frame(w) ==
  /\ dirs \subseteq dirs' /\ taken \subseteq taken'
  /\ \A v \in Worker \ {w} :
       pc'[v] = pc[v] /\ ret'[v] = ret[v] /\ req'[v] = req[v] /\ reply'[v] = reply[v]

\* The steps of a worker in which the standard library throws.
Throwing(w) == NotANumber(w) \/ TempIsGone(w) \/ SourceShrank(w)

LEMMA StepsAreFramed ==
  ASSUME IInv, NEW w \in Worker, Receive(w) \/ Step(w), ~Throwing(w)
  PROVE  Frame(w)
<1> USE DEF IInv, TypeOK, Frame, Goto, GotoCall, Finish, Return, disk, call, bounds
<1>1. CASE Receive(w)
  BY <1>1 DEF Receive
<1>2. CASE HandleRequest(w)
  BY <1>2 DEF HandleRequest, BadRequest, HandlePost, HandleGet, HandleList, HandlePut,
              HandleDelete, RemoveObject, Respond, Dispatched
<1>3. CASE GenerateEntityId(w)
  BY <1>3 DEF GenerateEntityId, TestMaxFile, CreateMaxFile, ReadMaxForPost, ReadMaxToCompare,
              Throwing
<1>4. CASE WriteObject(w)
  BY <1>4 DEF WriteObject, TestDirectory, MakeDirectory, OpenObject, OpenObjectFails, WriteBody
<1>5. CASE WriteEntityId(w)
  BY <1>5 DEF WriteEntityId, TestEntityDir, AppendLine, AppendLineFails, OpenTemp, OpenTempFails, ReadLines, CloseTemp,
              CopyTemp, CopyData, RemoveTemp, Throwing
<1> QED BY <1>1, <1>2, <1>3, <1>4, <1>5 DEF Step

\* An exception that does not end the process was thrown by the copy_file of a
\* new directory, and writeObject has caught it.
LEMMA CaughtStep ==
  ASSUME IInv, NEW w \in Worker, Throwing(w), ~Halt
  PROVE  /\ pc[w] \in {"copyTemp", "copyData"}
         /\ pc' = [pc EXCEPT ![w] = "testMaxFile"] /\ ret' = [ret EXCEPT ![w] = "compare"]
         /\ source' = [source EXCEPT ![w] = NoSource]
         /\ UNCHANGED <<temp, dirs, req, reply, taken, fd, lines>>
BY DEF Throwing, NotANumber, TempIsGone, SourceShrank, CopyThrows, GotoCall, Goto, disk

------------------------------------------------------------------------------
\* SuccessIsBacked: writeObject opens no object before it has seen or made the
\* directory, and nothing takes a directory away.

DirectoriesAreMade == "mkdir" \notin MayFail
FilesAreOpened == "open" \notin MayFail

DirectoryIsThere(w) ==
  \/ pc[w] \in {"openObject", "writeBody"}
  \/ pc[w] \in Generating /\ ret[w] = "compare"
  \/ pc[w] \in Recording /\ ret[w] = "openObject"
  \/ pc[w] \in Recording \ {"testEntityDir", "appendLine"}

Backed(w) ==
  /\ pc[w] = "removeObject" => req[w].op = "delete"
  /\ DirectoryIsThere(w) => req[w].name \in dirs
  /\ pc[w] = "writeBody" => FileOf(w) \in taken
  /\ FilesAreOpened /\ pc[w] = "reply" /\ Writes(req[w]) /\ reply[w].status \in {200, 201} =>
       FileOf(w) \in taken

BackedInv == \A w \in Worker : Backed(w)

LEMMA OthersStayBacked ==
  ASSUME BackedInv, NEW w \in Worker, Frame(w), Backed(w)'
  PROVE  BackedInv'
<1> SUFFICES ASSUME NEW v \in Worker, v # w PROVE Backed(v)'
  BY DEF BackedInv
<1>1. pc'[v] = pc[v] /\ ret'[v] = ret[v] /\ req'[v] = req[v] /\ reply'[v] = reply[v]
  BY DEF Frame
<1> QED BY <1>1 DEF BackedInv, Backed, DirectoryIsThere, FileOf, Frame

LEMMA HandlersBacked ==
  ASSUME IInv, BackedInv, NEW w \in Worker, Receive(w) \/ HandleRequest(w)
  PROVE  Backed(w)'
<1> USE DEF IInv, TypeOK, Backed, DirectoryIsThere, BackedInv, Finish, Goto, GotoCall,
            Answer, disk, call, bounds, Generating, Recording, FileOf, Writes
<1>1. CASE Receive(w)
  BY <1>1 DEF Receive
<1>2. CASE BadRequest(w)
  BY <1>2 DEF BadRequest
<1>3. CASE HandlePost(w) \/ HandlePut(w)
  BY <1>3 DEF HandlePost, HandlePut, Dispatched
<1>4. CASE HandleGet(w) \/ HandleList(w)
  BY <1>4 DEF HandleGet, HandleList, Dispatched
<1>5. CASE HandleDelete(w)
  BY <1>5 DEF HandleDelete, Dispatched
<1>6. CASE Respond(w)
  BY <1>6 DEF Respond
<1>7. CASE RemoveObject(w)
  BY <1>7 DEF RemoveObject
<1> QED BY <1>1, <1>3, <1>4, <1>5, <1>6, <1>7, <1>2 DEF HandleRequest

LEMMA GeneratingBacked ==
  ASSUME IInv, BackedInv, NEW w \in Worker, GenerateEntityId(w), ~NotANumber(w)
  PROVE  Backed(w)'
<1> USE DEF IInv, TypeOK, Backed, DirectoryIsThere, BackedInv, Goto, GotoCall,
            disk, bounds, Generating, Recording
<1>1. CASE TestMaxFile(w)
  BY <1>1 DEF TestMaxFile
<1>2. CASE CreateMaxFile(w)
  BY <1>2 DEF CreateMaxFile, call
<1>3. CASE ReadMaxForPost(w)
  BY <1>3 DEF ReadMaxForPost
<1>4. CASE ReadMaxToCompare(w)
  BY <1>4 DEF ReadMaxToCompare
<1> QED BY <1>1, <1>2, <1>3, <1>4 DEF GenerateEntityId

LEMMA WritingBacked ==
  ASSUME DirectoriesAreMade, IInv, BackedInv, NEW w \in Worker, WriteObject(w)
  PROVE  Backed(w)'
<1> USE DEF IInv, TypeOK, Backed, DirectoryIsThere, BackedInv, Goto, GotoCall,
            disk, bounds, Generating, Recording
<1>1. CASE TestDirectory(w)
  BY <1>1 DEF TestDirectory, call
<1>2. CASE MakeDirectory(w)
  BY <1>2 DEF MakeDirectory, DirectoriesAreMade, call
<1>3. CASE OpenObject(w)
  BY <1>3 DEF OpenObject, FileOf
<1>4. CASE OpenObjectFails(w)
  BY <1>4 DEF OpenObjectFails, Finish, FilesAreOpened
<1>5. CASE WriteBody(w)
  BY <1>5 DEF WriteBody, Finish, FileOf
<1> QED BY <1>1, <1>2, <1>3, <1>4, <1>5 DEF WriteObject

LEMMA RecordingBacked ==
  ASSUME IInv, BackedInv, NEW w \in Worker, WriteEntityId(w), ~TempIsGone(w), ~SourceShrank(w)
  PROVE  Backed(w)'
<1> USE DEF IInv, TypeOK, InControl, Backed, DirectoryIsThere, BackedInv, Return, Goto,
            disk, bounds, Generating, Recording
<1>1. CASE TestEntityDir(w) \/ ReadLines(w)
  BY <1>1 DEF TestEntityDir, ReadLines
<1>2. CASE OpenTemp(w) \/ CloseTemp(w) \/ CopyTemp(w) \/ CopyData(w)
  <2>1. /\ pc[w] \in {"openTemp", "closeTemp", "copyTemp", "copyData"}
        /\ pc'[w] \in {"readLines", "copyTemp", "copyData", "removeTemp"}
        /\ dirs' = dirs /\ req' = req
    BY <1>2 DEF OpenTemp, CloseTemp, CopyTemp, CopyData
  <2> HIDE DEF TypeOK
  <2>2. req[w].name \in dirs
    BY <2>1
  <2> QED BY <2>1, <2>2
<1>3. CASE AppendLine(w) \/ AppendLineFails(w)
  BY <1>3 DEF AppendLine, AppendLineFails
<1>4. CASE OpenTempFails(w)
  <2>1. req[w].name \in dirs
    BY <1>4 DEF OpenTempFails
  <2>2. /\ pc' = [pc EXCEPT ![w] = ret[w]]
        /\ ret[w] \in {"makeDirectory", "openObject"}
        /\ dirs' = dirs /\ req' = req
    BY <1>4 DEF OpenTempFails
  <2> QED BY <2>1, <2>2
<1>5. CASE RemoveTemp(w)
  BY <1>5 DEF RemoveTemp
<1> QED BY <1>1, <1>2, <1>3, <1>4, <1>5 DEF WriteEntityId

LEMMA HaltBacked == ASSUME Halt PROVE BackedInv'
BY DEF Halt, BackedInv, Backed, DirectoryIsThere, Generating, Recording

LEMMA CaughtBacked ==
  ASSUME IInv, BackedInv, NEW w \in Worker, Throwing(w), ~Halt PROVE BackedInv'
<1>1. req[w].name \in dirs
  BY CaughtStep DEF BackedInv, Backed, DirectoryIsThere, Recording
<1>2. Backed(w)'
  BY <1>1, CaughtStep DEF Backed, DirectoryIsThere, IInv, TypeOK, Generating, Recording
<1>3. Frame(w)
  BY CaughtStep DEF Frame, IInv, TypeOK
<1> QED BY <1>2, <1>3, OthersStayBacked

LEMMA StepKeepsBacked == ASSUME DirectoriesAreMade, IInv, BackedInv, [Next]_vars PROVE BackedInv'
<1>1. ASSUME NEW w \in Worker, Receive(w) \/ Step(w), ~Throwing(w) PROVE BackedInv'
  <2>1. Backed(w)'
    BY <1>1, HandlersBacked, GeneratingBacked, WritingBacked, RecordingBacked DEF Step, Throwing
  <2> QED BY <1>1, <2>1, StepsAreFramed, OthersStayBacked
<1>2. ASSUME NEW w \in Worker, Throwing(w) PROVE BackedInv'
  BY <1>2, HaltBacked, CaughtBacked
<1>3. CASE Crash
  BY <1>3, HaltBacked DEF Crash
<1>4. CASE Restart \/ UNCHANGED vars
  BY <1>4 DEF Restart, vars, disk, call, BackedInv, Backed, DirectoryIsThere, FileOf
<1> QED BY <1>1, <1>2, <1>3, <1>4 DEF Next

LEMMA BackedInvariant == ASSUME DirectoriesAreMade PROVE Spec => []BackedInv
<1>1. Init => BackedInv
  BY DEF Init, BackedInv, Backed, DirectoryIsThere, Generating, Recording
<1>2. IInv /\ BackedInv /\ [Next]_vars => BackedInv'
  BY StepKeepsBacked
<1> QED BY <1>1, <1>2, Inductive, PTL DEF Spec

\* Nobody reads what writeObject returns, and nobody has to: unless a library
\* call fails, a client that is told 201 or 200 for a POST or PUT names a file
\* that was opened, however many writers overlap and whatever a crash has left.
THEOREM SuccessHasFile ==
  ASSUME DirectoriesAreMade, FilesAreOpened
  PROVE  Spec => []SuccessIsBacked
<1>1. BackedInv => SuccessIsBacked
  BY DEF BackedInv, Backed, SuccessIsBacked
<1> QED BY <1>1, BackedInvariant, PTL

------------------------------------------------------------------------------
\* One writer at a time.

OneWriter == MaxWriters = 1

\* Where only a POST or a PUT can be.
WriterAt == Generating \cup Recording \cup {"testDirectory", "makeDirectory", "openObject", "writeBody"}

Alone ==
  /\ \A v, w \in Worker : Writes(req[v]) /\ Writes(req[w]) => v = w
  /\ \A w \in Worker : /\ pc[w] = "idle" => ~Writes(req[w])
                       /\ pc[w] \in WriterAt => Writes(req[w])

LEMMA FewWorkers == IsFiniteSet(Worker)
<1>1. CASE Worker = {}
  BY <1>1, FS_EmptySet
<1>2. ASSUME NEW a \in Worker PROVE IsFiniteSet(Worker)
  <2>1. PICK b \in Worker : b # a \/ Worker = {a}
    BY <1>2
  <2>2. Worker \subseteq {a} \cup {b}
    BY <2>1, ThreadPool
  <2>3. IsFiniteSet({a} \cup {b})
    BY FS_Singleton, FS_AddElement
  <2> QED BY <2>2, <2>3, FS_Subset
<1> QED BY <1>1, <1>2

\* A POST or PUT is taken when no other is in progress.
LEMMA WriterIsAdmittedAlone ==
  ASSUME OneWriter, IInv, Alone, NEW w \in Worker, Receive(w)
  PROVE  Alone'
<1> DEFINE W == {v \in InFlight : Writes(req[v])}
<1>1. PICK r \in Request : /\ Writes(r) => Cardinality(W) < 1
                          /\ req' = [req EXCEPT ![w] = r]
  BY DEF Receive, OneWriter
<1>2. IsFiniteSet(W)
  <2>1. W \in SUBSET Worker
    BY DEF InFlight
  <2> QED BY <2>1, FewWorkers, FS_Subset
<1>3. Writes(r) => W = {}
  <2>1. Cardinality(W) \in Nat /\ (Cardinality(W) = 0 <=> W = {})
    BY <1>2, FS_CardinalityType, FS_EmptySet
  <2> QED BY <1>1, <2>1
<1>4. Writes(r) => \A v \in Worker : ~Writes(req[v])
  BY <1>3 DEF InFlight, Alone
<1>5. req'[w] = r /\ pc'[w] = "dispatch"
      /\ \A v \in Worker \ {w} : req'[v] = req[v] /\ pc'[v] = pc[v]
  BY <1>1 DEF IInv, TypeOK, Receive, Goto
<1>6. "dispatch" \notin WriterAt
  BY DEF WriterAt, Generating, Recording
<1> QED BY <1>4, <1>5, <1>6 DEF Alone

LEMMA OthersStayAlone ==
  ASSUME Alone, NEW w \in Worker, Frame(w),
         Writes(req'[w]) => Writes(req[w]),
         pc'[w] = "idle" => ~Writes(req'[w]),
         pc'[w] \in WriterAt => Writes(req'[w])
  PROVE  Alone'
BY DEF Alone, Frame

LEMMA HandlersStayAlone ==
  ASSUME IInv, Alone, NEW w \in Worker, HandleRequest(w)
  PROVE  /\ Writes(req'[w]) => Writes(req[w])
         /\ pc'[w] = "idle" => ~Writes(req'[w])
         /\ pc'[w] \in WriterAt => Writes(req'[w])
<1> USE DEF IInv, TypeOK, Alone, Finish, Goto, GotoCall, disk, call, bounds, WriterAt,
            Generating, Recording, Writes
<1>1. CASE BadRequest(w) \/ HandlePost(w) \/ HandleGet(w)
  BY <1>1 DEF BadRequest, HandlePost, HandleGet, Dispatched
<1>2. CASE HandleList(w) \/ HandlePut(w) \/ HandleDelete(w)
  BY <1>2 DEF HandleList, HandlePut, HandleDelete, Dispatched
<1>3. CASE RemoveObject(w) \/ Respond(w)
  BY <1>3 DEF RemoveObject, Respond, NoRequest
<1> QED BY <1>1, <1>2, <1>3 DEF HandleRequest

WriterStep(w) == GenerateEntityId(w) \/ WriteObject(w) \/ WriteEntityId(w)

LEMMA WriterStepsAt == ASSUME NEW w \in Worker, WriterStep(w) PROVE pc[w] \in WriterAt
BY DEF WriterStep, GenerateEntityId, TestMaxFile, CreateMaxFile, ReadMaxForPost,
       ReadMaxToCompare, NotANumber, WriteObject, TestDirectory, MakeDirectory, OpenObject,
       OpenObjectFails, WriteBody, WriteEntityId, TestEntityDir, AppendLine, AppendLineFails, OpenTemp, OpenTempFails, ReadLines,
       CloseTemp, CopyTemp, TempIsGone, CopyData, SourceShrank, RemoveTemp,
       WriterAt, Generating, Recording

LEMMA WriterStaysAlone ==
  ASSUME IInv, Alone, NEW w \in Worker, WriterStep(w), ~Throwing(w)
  PROVE  Writes(req'[w]) /\ pc'[w] # "idle" /\ Writes(req[w])
<1>1. Writes(req[w])
  BY WriterStepsAt DEF Alone
<1>2. req'[w] = req[w] \/ ReadMaxForPost(w)
  BY DEF WriterStep, GenerateEntityId, TestMaxFile, CreateMaxFile, ReadMaxToCompare, Throwing,
       WriteObject, TestDirectory, MakeDirectory, OpenObject, OpenObjectFails, WriteBody,
       WriteEntityId, TestEntityDir, AppendLine, AppendLineFails, OpenTemp, OpenTempFails, ReadLines, CloseTemp, CopyTemp,
       CopyData, RemoveTemp, call
<1>3. ReadMaxForPost(w) => req'[w].op = req[w].op
  BY DEF IInv, TypeOK, ReadMaxForPost, Handled
<1>4. pc'[w] # "idle"
  BY DEF IInv, TypeOK, InControl, Goto, GotoCall, Finish, Return, Recording,
       WriterStep, GenerateEntityId, TestMaxFile, CreateMaxFile, ReadMaxForPost,
       ReadMaxToCompare, Throwing, WriteObject, TestDirectory, MakeDirectory, OpenObject,
       OpenObjectFails, WriteBody, WriteEntityId, TestEntityDir, AppendLine, AppendLineFails, OpenTemp, OpenTempFails, ReadLines,
       CloseTemp, CopyTemp, CopyData, RemoveTemp
<1> QED BY <1>1, <1>2, <1>3, <1>4 DEF Writes

LEMMA HaltAlone == ASSUME Halt PROVE Alone'
BY DEF Halt, Alone, NoRequest, Writes, WriterAt, Generating, Recording

LEMMA CaughtAlone ==
  ASSUME IInv, Alone, NEW w \in Worker, Throwing(w), ~Halt PROVE Alone'
<1>1. Writes(req[w]) /\ req' = req
  BY CaughtStep DEF Alone, WriterAt, Recording
<1> QED BY <1>1, CaughtStep DEF Alone, IInv, TypeOK

LEMMA StepKeepsAlone == ASSUME OneWriter, IInv, Alone, [Next]_vars PROVE Alone'
<1>1. ASSUME NEW w \in Worker, HandleRequest(w), ~Throwing(w) PROVE Alone'
  BY <1>1, HandlersStayAlone, StepsAreFramed, OthersStayAlone DEF Step
<1>2. ASSUME NEW w \in Worker, WriterStep(w), ~Throwing(w) PROVE Alone'
  BY <1>2, WriterStaysAlone, StepsAreFramed, OthersStayAlone DEF Step, WriterStep
<1>3. ASSUME NEW w \in Worker, Throwing(w) PROVE Alone'
  BY <1>3, HaltAlone, CaughtAlone
<1>4. CASE Crash
  BY <1>4, HaltAlone DEF Crash
<1>5. CASE Restart \/ UNCHANGED vars
  BY <1>5 DEF Restart, vars, disk, call, Alone
<1> QED BY <1>1, <1>2, <1>3, <1>4, <1>5, WriterIsAdmittedAlone DEF Next, Step, WriterStep

LEMMA WritersAreAlone == ASSUME OneWriter PROVE Spec => []Alone
<1>1. Init => Alone
  BY DEF Init, Alone, NoRequest, Writes, WriterAt, Generating, Recording
<1>2. IInv /\ Alone /\ [Next]_vars => Alone'
  BY StepKeepsAlone
<1> QED BY <1>1, <1>2, Inductive, PTL DEF Spec
------------------------------------------------------------------------------
\* What a lone writer finds in temp is what it has put there.

Rewriting == {"readLines", "closeTemp", "copyTemp", "copyData"}

NewLines(w) == Replaced(maxFile, req[w].name, MaxId(w))

Rewrite(w) ==
  /\ pc[w] \in {"readLines", "closeTemp", "copyTemp"} => maxFile # None
  /\ pc[w] \in {"readLines", "closeTemp"} => temp = <<>> /\ fd[w] = "named"
  /\ pc[w] = "closeTemp" => lines[w] = NewLines(w)
  /\ pc[w] = "copyTemp" => temp = NewLines(w)
  /\ pc[w] = "copyData" => maxFile = <<>> /\ source[w] = [count |-> Len(temp), unnamed |-> None]

RewriteInv == \A w \in Worker : Rewrite(w)

LEMMA OverlayNothing == ASSUME NEW f \in Lines PROVE OverlayLines(f, <<>>) = f
<1> DEFINE S == [name : Name, max : Id]
<1>1. f \in Seq(S)
  BY DEF Lines
<1> HIDE DEF S
<1>2. Len(f) \in Nat /\ Len(<<>>) = 0
  BY <1>1, LenProperties
<1>3. SubSeq(<<>>, Len(f) + 1, Len(<<>>)) = <<>>
  BY <1>2, SubSeqEmpty
<1> QED BY <1>1, <1>3, ConcatEmptySeq DEF OverlayLines

LEMMA WholeSource == ASSUME NEW f \in Lines PROVE SubSeq(f, 1, Len(f)) = f
<1> DEFINE S == [name : Name, max : Id]
<1>1. f \in Seq(S)
  BY DEF Lines
<1> HIDE DEF S
<1> QED BY <1>1, SubSeqFull

LEMMA NewLinesTyped ==
  ASSUME IInv, NEW w \in Worker, pc[w] \in Recording, maxFile # None
  PROVE  NewLines(w) \in Lines
<1>1. MaxId(w) \in Id /\ req[w].name \in Name
  BY MaxIdTyped
<1>2. maxFile \in Lines
  BY DEF IInv, TypeOK
<1> QED BY <1>1, <1>2, ReplacedTyped DEF NewLines

\* While one worker writes, no other is where it needs a file to stay as it is.
LEMMA OthersAreElsewhere ==
  ASSUME IInv, Alone, NEW w \in Worker, WriterStep(w), ~Throwing(w), NEW v \in Worker, v # w
  PROVE  pc[v] \notin WriterAt /\ pc'[v] = pc[v]
<1>1. pc[w] \in WriterAt
  BY WriterStepsAt
<1>2. Frame(w)
  BY StepsAreFramed DEF WriterStep, Step
<1> QED BY <1>1, <1>2 DEF Alone, Frame

LEMMA HandlersKeepRewrites ==
  ASSUME IInv, RewriteInv, NEW w \in Worker, Receive(w) \/ HandleRequest(w)
  PROVE  RewriteInv'
<1>1. ~Throwing(w)
  BY DEF Throwing, NotANumber, TempIsGone, SourceShrank, Receive, HandleRequest, BadRequest,
         HandlePost, HandleGet, HandleList, HandlePut, HandleDelete, RemoveObject, Respond, Dispatched
<1>2. Frame(w)
  BY <1>1, StepsAreFramed DEF Step
<1>3. UNCHANGED <<maxFile, temp, lines, source>> /\ pc'[w] \notin Rewriting
  <2> USE DEF IInv, TypeOK, Finish, Goto, GotoCall, disk, call, Rewriting
  <2>1. CASE Receive(w)
    BY <2>1 DEF Receive
  <2>2. CASE HandleRequest(w)
    BY <2>2 DEF HandleRequest, BadRequest, HandlePost, HandleGet, HandleList, HandlePut,
                HandleDelete, RemoveObject, Respond, Dispatched
  <2> QED BY <2>1, <2>2
<1>4. ASSUME NEW v \in Worker, pc[v] # "writeBody" PROVE fd'[v] = fd[v]
  BY <1>4 DEF IInv, TypeOK, Receive, HandleRequest, BadRequest, HandlePost, HandleGet,
              HandleList, HandlePut, HandleDelete, RemoveObject, Respond, disk, call
<1>5. ASSUME NEW v \in Worker, pc'[v] \in Rewriting PROVE Rewrite(v)'
  <2>1. pc'[v] = pc[v] /\ ret'[v] = ret[v] /\ req'[v] = req[v] /\ pc[v] # "writeBody"
    BY <1>2, <1>3, <1>5 DEF Frame, Rewriting
  <2> QED BY <1>3, <1>4, <2>1 DEF RewriteInv, Rewrite, NewLines, MaxId
<1> QED BY <1>5 DEF RewriteInv, Rewrite, Rewriting

LEMMA WriterKeepsRewrite ==
  ASSUME IInv, RewriteInv, NEW w \in Worker, WriterStep(w), ~Throwing(w)
  PROVE  Rewrite(w)'
<1> USE DEF IInv, TypeOK, Goto, Return
<1>1. CASE OpenTemp(w) \/ OpenTempFails(w)
  BY <1>1, EmptyTyped DEF OpenTemp, OpenTempFails, Rewrite, InControl, Recording
<1>2. CASE ReadLines(w)
  BY <1>2 DEF ReadLines, RewriteInv, Rewrite, NewLines, MaxId, disk
<1>3. CASE CloseTemp(w)
  <2>1. lines[w] \in Lines /\ temp = <<>> /\ fd[w] = "named" /\ lines[w] = NewLines(w)
    BY <1>3 DEF CloseTemp, RewriteInv, Rewrite
  <2> QED BY <1>3, <2>1, OverlayNothing DEF CloseTemp, RewriteInv, Rewrite, NewLines, MaxId
<1>4. CASE CopyTemp(w)
  BY <1>4 DEF CopyTemp, Rewrite
<1>5. CASE CopyData(w) \/ TestEntityDir(w) \/ AppendLine(w) \/ AppendLineFails(w) \/ RemoveTemp(w)
  BY <1>5 DEF CopyData, TestEntityDir, AppendLine, AppendLineFails, RemoveTemp, Rewrite, InControl,
              Recording
<1>6. CASE GenerateEntityId(w) \/ WriteObject(w)
  BY <1>6 DEF GenerateEntityId, TestMaxFile, CreateMaxFile, ReadMaxForPost, ReadMaxToCompare,
              Throwing, WriteObject, TestDirectory, MakeDirectory, OpenObject, OpenObjectFails,
              WriteBody, GotoCall, Finish, Rewrite
<1> QED BY <1>1, <1>2, <1>3, <1>4, <1>5, <1>6 DEF WriterStep, WriteEntityId, Throwing

LEMMA HaltKeepsRewrites == ASSUME Halt PROVE RewriteInv'
BY DEF Halt, RewriteInv, Rewrite

LEMMA CaughtKeepsRewrites ==
  ASSUME IInv, Alone, RewriteInv, NEW w \in Worker, Throwing(w), ~Halt PROVE RewriteInv'
<1>1. pc[w] \in WriterAt
  BY CaughtStep DEF WriterAt, Recording
<1>2. ASSUME NEW v \in Worker, v # w PROVE Rewrite(v)'
  <2>1. pc[v] \notin WriterAt
    BY <1>1, <1>2 DEF Alone
  <2>2. pc'[v] = pc[v]
    BY <1>2, CaughtStep DEF IInv, TypeOK
  <2> QED BY <2>1, <2>2 DEF Rewrite, WriterAt, Recording
<1>3. Rewrite(w)'
  BY CaughtStep DEF Rewrite, IInv, TypeOK
<1> QED BY <1>2, <1>3 DEF RewriteInv

LEMMA StepKeepsRewrites == ASSUME IInv, Alone, RewriteInv, [Next]_vars PROVE RewriteInv'
<1>1. ASSUME NEW w \in Worker, WriterStep(w), ~Throwing(w) PROVE RewriteInv'
  <2>1. ASSUME NEW v \in Worker, v # w PROVE Rewrite(v)'
    BY <1>1, <2>1, OthersAreElsewhere DEF Rewrite, WriterAt, Recording
  <2> QED BY <1>1, <2>1, WriterKeepsRewrite DEF RewriteInv
<1>2. ASSUME NEW w \in Worker, Throwing(w) PROVE RewriteInv'
  BY <1>2, HaltKeepsRewrites, CaughtKeepsRewrites
<1>3. CASE Crash
  BY <1>3, HaltKeepsRewrites DEF Crash
<1>4. CASE Restart \/ UNCHANGED vars
  BY <1>4 DEF Restart, vars, disk, call, RewriteInv, Rewrite, NewLines, MaxId
<1> QED BY <1>1, <1>2, <1>3, <1>4, HandlersKeepRewrites DEF Next, Step, WriterStep

LEMMA RewritesInvariant == ASSUME OneWriter PROVE Spec => []RewriteInv
<1>1. Init => RewriteInv
  BY DEF Init, RewriteInv, Rewrite
<1>2. IInv /\ Alone /\ RewriteInv /\ [Next]_vars => RewriteInv'
  BY StepKeepsRewrites
<1> QED BY <1>1, <1>2, WritersAreAlone, Inductive, PTL DEF Spec
------------------------------------------------------------------------------
\* StaysUp: copy_file finds temp, and finds it as long as it measured it.

\* Where a worker holds entity_id_file_mutex.
Locked == {"createMaxFile", "readMax"} \cup (Recording \ {"testEntityDir"})

AliveInv ==
  /\ up
  /\ \A w \in Worker : req[w].id # Word
  /\ \A w \in Worker : locked[w] => pc[w] \in Locked

LEMMA CopyFileFindsTemp ==
  ASSUME FilesAreOpened, IInv, RewriteInv, NEW w \in Worker
  PROVE  ~TempIsGone(w) /\ ~SourceShrank(w)
<1>1. pc[w] = "copyTemp" => temp # None
  <2> SUFFICES ASSUME pc[w] = "copyTemp" PROVE temp # None
    OBVIOUS
  <2>1. temp = NewLines(w) /\ maxFile # None
    BY DEF RewriteInv, Rewrite
  <2> QED BY <2>1, NewLinesTyped, EmptyTyped DEF Recording
<1>2. pc[w] = "copyData" => Len(SourceOf(w)) = source[w].count /\ source[w].count \in Nat
  BY DEF IInv, TypeOK, RewriteInv, Rewrite, SourceOf
<1> QED BY <1>1, <1>2 DEF TempIsGone, SourceShrank, NotOpened, FilesAreOpened

\* Every function gives the mutex back on each of its paths.
LEMMA MutexGivenBack ==
  ASSUME IInv, AliveInv, NEW w \in Worker, Receive(w) \/ Step(w), ~Throwing(w), NEW v \in Worker,
         locked'[v]
  PROVE  pc'[v] \in Locked
<1> USE DEF IInv, TypeOK, Goto, GotoCall, Finish, Return, AliveInv, Locked, Recording
<1>1. CASE Receive(w)
  BY <1>1 DEF Receive
<1>2. CASE HandleRequest(w)
  <2>1. locked' = locked /\ pc[w] \in {"dispatch", "removeObject", "reply"}
    BY <1>2 DEF HandleRequest, BadRequest, HandlePost, HandleGet, HandleList, HandlePut,
                HandleDelete, RemoveObject, Respond, Dispatched, call
  <2>2. v # w
    BY <2>1
  <2>3. pc'[v] = pc[v]
    BY <1>2, <2>2 DEF HandleRequest, BadRequest, HandlePost, HandleGet, HandleList, HandlePut,
                HandleDelete, RemoveObject, Respond, Dispatched
  <2> QED BY <2>1, <2>3
<1>3. CASE TestMaxFile(w) \/ CreateMaxFile(w)
  BY <1>3 DEF TestMaxFile, CreateMaxFile, call
<1>4. CASE ReadMaxForPost(w) \/ ReadMaxToCompare(w)
  <2>1. locked' = [locked EXCEPT ![w] = FALSE]
    BY <1>4 DEF ReadMaxForPost, ReadMaxToCompare
  <2>2. v # w
    BY <2>1
  <2>3. pc'[v] = pc[v]
    BY <1>4, <2>2 DEF ReadMaxForPost, ReadMaxToCompare
  <2> QED BY <2>1, <2>2, <2>3
<1>5. CASE WriteObject(w)
  <2>1. locked' = locked /\ pc[w] \notin Locked
    BY <1>5 DEF WriteObject, TestDirectory, MakeDirectory, OpenObject, OpenObjectFails, WriteBody, call
  <2>2. v # w
    BY <2>1
  <2>3. pc'[v] = pc[v]
    BY <1>5, <2>2 DEF WriteObject, TestDirectory, MakeDirectory, OpenObject, OpenObjectFails, WriteBody
  <2> QED BY <2>1, <2>3
<1>6. CASE TestEntityDir(w) \/ ReadLines(w) \/ CloseTemp(w) \/ CopyTemp(w) \/ CopyData(w)
  <2>1. CASE TestEntityDir(w)
    BY <2>1 DEF TestEntityDir
  <2>2. CASE ReadLines(w)
    BY <2>2 DEF ReadLines
  <2>3. CASE CloseTemp(w)
    BY <2>3 DEF CloseTemp
  <2>4. CASE CopyTemp(w)
    BY <2>4 DEF CopyTemp
  <2>5. CASE CopyData(w)
    BY <2>5 DEF CopyData
  <2> QED BY <1>6, <2>1, <2>2, <2>3, <2>4, <2>5
<1>7. CASE AppendLine(w) \/ AppendLineFails(w) \/ RemoveTemp(w) \/ OpenTempFails(w) \/ OpenTemp(w)
  BY <1>7 DEF AppendLine, AppendLineFails, RemoveTemp, OpenTempFails, OpenTemp
<1> QED BY <1>1, <1>2, <1>3, <1>5, <1>6, <1>7, <1>4 DEF Step, GenerateEntityId, WriteEntityId, Throwing

LEMMA StepStaysAlive ==
  ASSUME FilesAreOpened, Word \notin PutId, CrashPoint = {}, IInv, RewriteInv, AliveInv, [Next]_vars
  PROVE  AliveInv'
<1>1. ASSUME NEW w \in Worker PROVE ~Throwing(w)
  BY CopyFileFindsTemp DEF Throwing, NotANumber, AliveInv
<1>2. ASSUME NEW w \in Worker, Receive(w) \/ Step(w)
      PROVE  \A v \in Worker : locked'[v] => pc'[v] \in Locked
  BY <1>1, <1>2, MutexGivenBack
<1>3. ASSUME NEW w \in Worker, Receive(w) PROVE AliveInv'
  <2>1. \A r \in Request : r.id # Word
    BY ConstantsOK DEF Request, Key
  <2> QED BY <1>3, <1>2, <2>1 DEF IInv, TypeOK, Receive, AliveInv
<1>4. ASSUME NEW w \in Worker, HandleRequest(w) PROVE AliveInv'
  <2>1. up' = up /\ (req' = req \/ req' = [req EXCEPT ![w] = NoRequest])
    BY <1>4 DEF HandleRequest, BadRequest, HandlePost, HandleGet, HandleList, HandlePut,
                HandleDelete, RemoveObject, Respond, Dispatched, call
  <2>2. NoRequest.id # Word
    BY ConstantsOK DEF NoRequest, Key
  <2> QED BY <1>4, <1>2, <2>1, <2>2 DEF IInv, TypeOK, AliveInv, Step
<1>5. ASSUME NEW w \in Worker, ReadMaxForPost(w) PROVE AliveInv'
  <2>1. PICK i \in Generated(req[w].name) : req' = [req EXCEPT ![w].id = i]
    BY <1>5 DEF ReadMaxForPost
  <2>2. Generated(req[w].name) \subseteq Id
    BY <1>5, GeneratedTyped DEF IInv, TypeOK, InControl, ReadMaxForPost, Naming, CallAt
  <2>3. i # Word
    BY <2>1, <2>2, ConstantsOK DEF Id
  <2>4. \A v \in Worker : v # w => req'[v] = req[v]
    BY <2>1 DEF IInv, TypeOK
  <2>5. req'[w].id = i
    BY <2>1 DEF IInv, TypeOK, Handled
  <2>6. up'
    BY <1>5 DEF ReadMaxForPost, AliveInv
  <2> QED BY <1>5, <1>2, <2>3, <2>4, <2>5, <2>6 DEF AliveInv, Step, GenerateEntityId
<1>6. ASSUME NEW w \in Worker, WriterStep(w), ~ReadMaxForPost(w) PROVE AliveInv'
  <2>1. up' = up /\ req' = req
    BY <1>1, <1>6 DEF WriterStep, GenerateEntityId, TestMaxFile, CreateMaxFile,
         ReadMaxToCompare, Throwing, WriteObject, TestDirectory, MakeDirectory, OpenObject,
         OpenObjectFails, WriteBody, WriteEntityId, TestEntityDir, AppendLine, AppendLineFails, OpenTemp, OpenTempFails,
         ReadLines, CloseTemp, CopyTemp, CopyData, RemoveTemp, call
  <2> QED BY <1>6, <1>2, <2>1 DEF AliveInv, Step, WriterStep
<1>7. CASE Crash \/ Restart \/ UNCHANGED vars
  BY <1>7 DEF Crash, Restart, vars, call, AliveInv
<1> QED BY <1>3, <1>4, <1>5, <1>6, <1>7 DEF Next, Step, WriterStep

LEMMA AliveInvariant ==
  ASSUME OneWriter, FilesAreOpened, Word \notin PutId, CrashPoint = {}
  PROVE  Spec => []AliveInv
<1>1. Init => AliveInv
  BY ConstantsOK DEF Init, AliveInv, NoRequest, Key
<1>2. IInv /\ RewriteInv /\ AliveInv /\ [Next]_vars => AliveInv'
  BY StepStaysAlive
<1> QED BY <1>1, <1>2, RewritesInvariant, Inductive, PTL DEF Spec

\* As long as files can be opened, the ids are numbers and nobody kills it, the
\* process stays up and no thread blocks itself while POSTs and PUTs do not
\* overlap, with any number of GETs and DELETEs among them: copy_file never
\* throws.  If an open may fail, the copy_file that raises an id ends the process.
THEOREM LoneWriterStaysUp ==
  ASSUME OneWriter, FilesAreOpened, Word \notin PutId, CrashPoint = {}
  PROVE  Spec => []StaysUp
<1>1. AliveInv => StaysUp
  BY DEF AliveInv, StaysUp, HangsOnItself, Locked, Recording
<1> QED BY <1>1, AliveInvariant, PTL
------------------------------------------------------------------------------
\* Records of ids: lines f, the names D that have a directory, and the files T
\* that were ever opened.

Covers(f, D, T) ==
  /\ \A n \in D : f # None /\ LinesOf(f, n) # {}
  /\ \A t \in T : /\ t[1] \in D /\ t[2] \in Id
                  /\ \A i \in LinesOf(f, t[1]) : t[2] <= f[i].max
  /\ f # None => \A n \in Name :
       /\ \A i, j \in LinesOf(f, n) : f[i].max = f[j].max
       /\ n \notin D => \A i \in LinesOf(f, n) : f[i].max = 1

LEMMA NoLines == \A n : LinesOf(<<>>, n) = {}
BY DEF LinesOf

LEMMA EmptyCovers == ASSUME NEW D, NEW T, Covers(None, D, T) PROVE Covers(<<>>, D, T)
<1>1. D = {} /\ T = {}
  BY DEF Covers
<1> QED BY <1>1, NoLines DEF Covers

\* The first line is as good as any: the id after it is the id after all.
LEMMA NextIdIsNext ==
  ASSUME NEW f \in Lines, NEW D, NEW T, Covers(f, D, T), NEW n \in Name, n \in D,
         NextId(f, n) # 0
  PROVE  \A i \in LinesOf(f, n) : f[i].max \in Id /\ NextId(f, n) = f[i].max + 1
<1> DEFINE m == Min(LinesOf(f, n))
<1>1. Len(f) \in Nat /\ f \in [1..Len(f) -> [name : Name, max : Id]]
  BY LinesAreFunctions
<1>2. LinesOf(f, n) \in SUBSET Nat /\ LinesOf(f, n) # {} /\ LinesOf(f, n) \subseteq 1..Len(f)
  BY <1>1 DEF LinesOf, Covers
<1>3. m \in LinesOf(f, n)
  BY <1>2, MinIsLeast
<1>4. \A i \in LinesOf(f, n) : f[i].max = f[m].max
  BY <1>3, EmptyTyped DEF Covers
<1>5. f[m].max \in Id
  BY <1>1, <1>2, <1>3
<1>6. NextId(f, n) = (f[m].max + 1) % IdSpace
  BY <1>2 DEF NextId
<1> HIDE DEF m
<1>7. NextId(f, n) = f[m].max + 1
  <2>1. IdSpace \in Nat /\ IdSpace > 2 /\ f[m].max \in 0..IdSpace - 1
    BY <1>5, ConstantsOK DEF Id
  <2>2. ASSUME f[m].max = IdSpace - 1 PROVE FALSE
    BY <1>6, <2>1, <2>2
  <2>3. (f[m].max + 1) % IdSpace = f[m].max + 1
    BY <2>1, <2>2
  <2> QED BY <1>6, <2>3
<1> QED BY <1>4, <1>5, <1>7

LEMMA NextIdIsFresh ==
  ASSUME NEW f \in Lines, NEW D, NEW T, Covers(f, D, T), NEW n \in Name, NextId(f, n) # 0
  PROVE  <<n, NextId(f, n)>> \notin T
<1> SUFFICES ASSUME <<n, NextId(f, n)>> \in T PROVE FALSE
  OBVIOUS
<1>1. n \in D /\ \A i \in LinesOf(f, n) : NextId(f, n) <= f[i].max
  BY DEF Covers
<1>2. PICK i \in LinesOf(f, n) : TRUE
  BY <1>1 DEF Covers
<1>3. f[i].max \in Id /\ NextId(f, n) = f[i].max + 1
  BY <1>1, <1>2, NextIdIsNext
<1> QED BY <1>1, <1>2, <1>3, ConstantsOK DEF Id

LEMMA AppendCovers ==
  ASSUME NEW f \in Lines, NEW D, NEW T, Covers(f, D, T), NEW n \in Name, n \notin D
  PROVE  /\ Covers(Append(f, Line(n, 1)), D, T)
         /\ LinesOf(Append(f, Line(n, 1)), n) # {}
<1> DEFINE S == [name : Name, max : Id]
           g == Append(f, Line(n, 1))
<1>1. Line(n, 1) \in S
  BY ConstantsOK DEF Line, Id
<1>2. f \in Seq(S) /\ Len(f) \in Nat
  BY LinesAreFunctions DEF Lines
<1> HIDE DEF S
<1>3. /\ Len(g) = Len(f) + 1 /\ g[Len(f) + 1] = Line(n, 1)
      /\ \A i \in 1..Len(f) : g[i] = f[i]
  BY <1>1, <1>2, AppendProperties
<1>4. g # None
  <2>1. g \in Lines
    BY <1>1, <1>2, AppendProperties DEF Lines, S
  <2> QED BY <2>1, EmptyTyped
<1> HIDE DEF g
<1>5. Line(n, 1).name = n /\ Line(n, 1).max = 1
  BY DEF Line
<1>6. \A k : LinesOf(g, k) = LinesOf(f, k) \cup (IF k = n THEN {Len(f) + 1} ELSE {})
  BY <1>2, <1>3, <1>5 DEF LinesOf
<1>7. \A k : \A i \in LinesOf(f, k) : g[i] = f[i]
  BY <1>3 DEF LinesOf
<1>8. Covers(g, D, T)
  BY <1>3, <1>4, <1>5, <1>6, <1>7, EmptyTyped DEF Covers
<1> QED BY <1>6, <1>8 DEF g

LEMMA ReplacedCovers ==
  ASSUME NEW f \in Lines, NEW D \in SUBSET Name, NEW T, Covers(f, D, T), NEW n \in D, NEW m \in Id,
         \A i \in LinesOf(f, n) : f[i].max <= m
  PROVE  /\ Covers(Replaced(f, n, m), D, T)
         /\ \A i \in LinesOf(Replaced(f, n, m), n) : m <= Replaced(f, n, m)[i].max
<1> DEFINE g == Replaced(f, n, m)
<1>1. Len(f) \in Nat /\ f \in [1..Len(f) -> [name : Name, max : Id]]
  BY LinesAreFunctions
<1>2. g \in Lines
  BY ReplacedTyped
<1>3. /\ Len(g) = Len(f)
      /\ \A i \in 1..Len(f) : g[i] = IF f[i].name = n THEN Line(n, m) ELSE f[i]
  <2>1. DOMAIN g = 1..Len(f) /\ DOMAIN g = 1..Len(g) /\ Len(g) \in Nat
    BY <1>2, LinesAreFunctions DEF Replaced
  <2>2. Len(g) = Len(f)
    BY <1>1, <2>1
  <2> QED BY <2>2 DEF Replaced
<1> HIDE DEF g
<1>4. Line(n, m).name = n /\ Line(n, m).max = m
  BY DEF Line
<1>5. \A k : LinesOf(g, k) = LinesOf(f, k)
  BY <1>3, <1>4 DEF LinesOf
<1>6. \A i \in LinesOf(f, n) : g[i].max = m
  BY <1>3, <1>4 DEF LinesOf
<1>7. \A k : k # n => \A i \in LinesOf(f, k) : g[i] = f[i]
  BY <1>3 DEF LinesOf
<1>8. \A k : \A i \in LinesOf(f, k) : f[i].max \in Int /\ m \in Int
  BY <1>1, ConstantsOK DEF LinesOf, Id
<1>9. Covers(g, D, T)
  <2>1. \A t \in T : \A i \in LinesOf(g, t[1]) : t[2] <= g[i].max
    <3> SUFFICES ASSUME NEW t \in T, NEW i \in LinesOf(f, t[1]) PROVE t[2] <= g[i].max
      BY <1>5
    <3>1. t[2] <= f[i].max /\ t[2] \in Int
      BY ConstantsOK DEF Covers, Id
    <3>2. CASE t[1] = n
      BY <1>6, <1>8, <3>1, <3>2
    <3>3. CASE t[1] # n
      BY <1>7, <3>1, <3>3
    <3> QED BY <3>2, <3>3
  <2>2. \A k \in Name : /\ \A i, j \in LinesOf(g, k) : g[i].max = g[j].max
                        /\ k \notin D => \A i \in LinesOf(g, k) : g[i].max = 1
    <3> SUFFICES ASSUME NEW k \in Name
                 PROVE  /\ \A i, j \in LinesOf(f, k) : g[i].max = g[j].max
                        /\ k \notin D => \A i \in LinesOf(f, k) : g[i].max = 1
      BY <1>5
    <3> QED BY <1>6, <1>7, EmptyTyped DEF Covers
  <2> QED BY <1>2, <1>5, <2>1, <2>2, EmptyTyped DEF Covers
<1> QED BY <1>5, <1>6, <1>8, <1>9 DEF g
------------------------------------------------------------------------------
\* maxEntityIds keeps up with the ids in use.

\* What maxEntityIds holds, or will hold once a copy is done.
Records == IF Copying THEN temp ELSE maxFile

RecordsInv == Covers(Records, dirs, taken)

\* What the lone writer knows at each call.
Informed(w) ==
  /\ /\ req[w].op = "post" /\ pc[w] \in WriterAt \ {"writeBody"}
     /\ pc[w] \in Generating => ret[w] = "compare"
     => FileOf(w) \notin taken
  /\ pc[w] = "createMaxFile" => maxFile = None
  /\ pc[w] = "readMax" => maxFile # None
  /\ pc[w] \in {"testEntityDir", "appendLine"} /\ ret[w] = "makeDirectory" => req[w].name \notin dirs
  /\ pc[w] = "appendLine" => ret[w] = "makeDirectory"
  /\ pc[w] = "makeDirectory" => maxFile # None /\ LinesOf(maxFile, req[w].name) # {}
  /\ pc[w] \in Rewriting \cup {"openTemp", "removeTemp"} => ret[w] = "openObject"
  /\ pc[w] \in Recording \ {"copyData", "removeTemp"} /\ ret[w] = "openObject" =>
       \A i \in LinesOf(maxFile, req[w].name) : maxFile[i].max <= req[w].id
  /\ pc[w] \in {"copyData", "removeTemp", "openObject"} =>
       req[w].id \in Id /\ \A i \in LinesOf(Records, req[w].name) : req[w].id <= Records[i].max

InformedInv == \A w \in Worker : Informed(w)

\* The largest id was never recorded when generateEntityId read the file.
IdsLeft == \A w \in Worker : pc[w] = "readMax" => NextId(maxFile, req[w].name) # 0

OrderInv == IInv /\ Alone /\ RewriteInv /\ BackedInv

LEMMA HandlersKeepRecords ==
  ASSUME OrderInv, RecordsInv, InformedInv, NEW w \in Worker, Receive(w) \/ HandleRequest(w)
  PROVE  RecordsInv' /\ InformedInv'
<1>1. ~Throwing(w)
  BY DEF Throwing, NotANumber, TempIsGone, SourceShrank, Receive, HandleRequest, BadRequest,
         HandlePost, HandleGet, HandleList, HandlePut, HandleDelete, RemoveObject, Respond, Dispatched
<1>2. Frame(w)
  BY <1>1, StepsAreFramed DEF Step, OrderInv
<1>3. /\ UNCHANGED <<maxFile, temp, dirs, taken>>
      /\ pc[w] \notin WriterAt
      /\ \/ pc'[w] \notin WriterAt
         \/ pc'[w] = "testMaxFile" /\ ret'[w] = "post"
         \/ pc'[w] = "testDirectory" /\ req'[w].op = "put"
  <2> USE DEF OrderInv, IInv, TypeOK, Finish, Goto, GotoCall, disk, call, bounds, WriterAt,
              Generating, Recording
  <2>1. CASE Receive(w)
    BY <2>1 DEF Receive
  <2>2. CASE BadRequest(w) \/ HandlePost(w) \/ HandleGet(w) \/ HandleList(w)
    BY <2>2 DEF BadRequest, HandlePost, HandleGet, HandleList, Dispatched
  <2>3. CASE HandlePut(w) \/ HandleDelete(w) \/ RemoveObject(w) \/ Respond(w)
    BY <2>3 DEF HandlePut, HandleDelete, RemoveObject, Respond, Dispatched
  <2> QED BY <2>1, <2>2, <2>3 DEF HandleRequest
<1>4. \A v \in Worker : pc'[v] = "copyData" <=> pc[v] = "copyData"
  BY <1>2, <1>3 DEF Frame, WriterAt, Recording
<1>5. Records' = Records
  BY <1>3, <1>4 DEF Records, Copying
<1>6. RecordsInv'
  BY <1>3, <1>5 DEF RecordsInv
<1>7. ASSUME NEW v \in Worker, v # w PROVE Informed(v)'
  <2>1. pc'[v] = pc[v] /\ ret'[v] = ret[v] /\ req'[v] = req[v]
    BY <1>2, <1>7 DEF Frame
  <2> QED BY <1>3, <1>5, <2>1 DEF InformedInv, Informed, FileOf
<1>8. Informed(w)'
  BY <1>3 DEF Informed, WriterAt, Generating, Recording, Rewriting
<1> QED BY <1>6, <1>7, <1>8 DEF InformedInv

LEMMA HaltKeepsRecords ==
  ASSUME RecordsInv, ~Copying, Halt, UNCHANGED disk
  PROVE  RecordsInv' /\ InformedInv'
<1>1. Records' = Records
  BY DEF Halt, Records, Copying, disk
<1>2. RecordsInv'
  BY <1>1 DEF RecordsInv, Halt, disk
<1> QED BY <1>2 DEF Halt, InformedInv, Informed, WriterAt, Generating, Recording, Rewriting

\* The records are those in the file, but for the writer's own copying.
LEMMA WhoCopies ==
  ASSUME OrderInv, NEW w \in Worker, WriterStep(w), ~Throwing(w)
  PROVE  /\ Records = IF pc[w] = "copyData" THEN temp ELSE maxFile
         /\ Records' = IF pc'[w] = "copyData" THEN temp' ELSE maxFile'
<1>1. \A v \in Worker : v # w => pc[v] # "copyData" /\ pc'[v] # "copyData"
  BY OthersAreElsewhere DEF OrderInv, WriterAt, Recording
<1> QED BY <1>1 DEF Records, Copying

LEMMA GeneratedIsNext ==
  ASSUME FilesAreOpened, maxFile # None, NEW n PROVE Generated(n) = {NextId(maxFile, n)}
BY DEF Generated, NotOpened, FilesAreOpened

LEMMA GeneratingKeepsRecords ==
  ASSUME FilesAreOpened, OrderInv, RecordsInv, InformedInv, IdsLeft, NEW w \in Worker,
         GenerateEntityId(w), ~Throwing(w)
  PROVE  RecordsInv' /\ Informed(w)'
<1> USE DEF OrderInv, IInv, TypeOK, Goto, GotoCall, disk, bounds, RecordsInv
<1>1. WriterStep(w)
  BY DEF WriterStep
<1>2. CASE TestMaxFile(w)
  <2>1. Records' = maxFile /\ Records = maxFile
    BY <1>1, <1>2, WhoCopies DEF TestMaxFile
  <2> QED BY <1>2, <2>1 DEF TestMaxFile, InformedInv, Informed, FileOf, WriterAt, Generating,
                            Recording, Rewriting
<1>3. CASE CreateMaxFile(w)
  <2>1. Records' = <<>> /\ Records = None
    BY <1>1, <1>3, WhoCopies DEF CreateMaxFile, InformedInv, Informed, FilesAreOpened
  <2>2. RecordsInv'
    BY <1>3, <2>1, EmptyCovers DEF CreateMaxFile
  <2>3. maxFile' # None
    BY <1>3, EmptyTyped DEF CreateMaxFile, FilesAreOpened
  <2> QED BY <1>3, <2>2, <2>3 DEF CreateMaxFile, call, InformedInv, Informed, FileOf, WriterAt,
                            Generating, Recording, Rewriting
<1>4. ASSUME pc[w] = "readMax"
      PROVE  /\ maxFile \in Lines /\ Covers(maxFile, dirs, taken) /\ req[w].name \in Name
             /\ NextId(maxFile, req[w].name) # 0 /\ Records = maxFile /\ maxFile # None
             /\ Generated(req[w].name) = {NextId(maxFile, req[w].name)}
  <2>1. maxFile # None
    BY <1>4 DEF InformedInv, Informed
  <2>2. Generated(req[w].name) = {NextId(maxFile, req[w].name)}
    BY <2>1, GeneratedIsNext
  <2> QED BY <1>1, <1>4, <2>1, <2>2, WhoCopies DEF InControl, IdsLeft, Naming, CallAt
<1>5. CASE ReadMaxForPost(w)
  <2>1. Records' = maxFile /\ Records = maxFile
    BY <1>1, <1>5, WhoCopies DEF ReadMaxForPost
  <2>2. req' = [req EXCEPT ![w].id = NextId(maxFile, req[w].name)]
    BY <1>4, <1>5 DEF ReadMaxForPost
  <2>3. req'[w].name = req[w].name /\ req'[w].id = NextId(maxFile, req[w].name)
    BY <2>2 DEF Handled
  <2>4. FileOf(w)' \notin taken
    BY <1>4, <1>5, <2>3, NextIdIsFresh DEF ReadMaxForPost, FileOf
  <2> QED BY <1>5, <2>1, <2>4 DEF ReadMaxForPost, Informed, Generating, Recording, Rewriting
<1>6. CASE ReadMaxToCompare(w)
  <2> DEFINE n == req[w].name
             id == req[w].id
  <2>1. Records' = maxFile /\ Records = maxFile
    BY <1>1, <1>6, WhoCopies DEF ReadMaxToCompare
  <2>2. n \in dirs /\ id \in Id
    BY <1>6 DEF ReadMaxToCompare, BackedInv, Backed, DirectoryIsThere, Generating, InControl, Key
  <2>3. \A i \in LinesOf(maxFile, n) : maxFile[i].max \in Id /\ NextId(maxFile, n) = maxFile[i].max + 1
    BY <1>4, <1>6, <2>2, NextIdIsNext DEF ReadMaxToCompare
  <2>4. \A k \in Id : k \in Int
    BY ConstantsOK DEF Id
  <2>5. ASSUME NEW i \in LinesOf(maxFile, n)
        PROVE  /\ id >= NextId(maxFile, n) => maxFile[i].max <= id
               /\ ~(id >= NextId(maxFile, n)) => id <= maxFile[i].max
    <3>1. id \in Int /\ maxFile[i].max \in Int /\ NextId(maxFile, n) = maxFile[i].max + 1
      BY <2>2, <2>3, <2>4
    <3> HIDE DEF id
    <3> QED BY <3>1
  <2>6. req[w].op = "post" => FileOf(w) \notin taken
    BY <1>6 DEF ReadMaxToCompare, InformedInv, Informed, WriterAt, Generating
  <2>7. RecordsInv'
    BY <1>6, <2>1 DEF ReadMaxToCompare
  <2>8. /\ req' = req /\ taken' = taken /\ maxFile' = maxFile
        /\ \/ id >= NextId(maxFile, n) /\ pc'[w] = "testEntityDir" /\ ret'[w] = "openObject"
           \/ ~(id >= NextId(maxFile, n)) /\ pc'[w] = "openObject"
    <3>1. PICK i \in Generated(n) :
            \/ id >= i /\ pc'[w] = "testEntityDir" /\ ret'[w] = "openObject"
            \/ id < i /\ pc'[w] = "openObject"
      BY <1>6 DEF ReadMaxToCompare
    <3>2. i = NextId(maxFile, n)
      BY <1>4, <1>6 DEF ReadMaxToCompare
    <3>3. id \in Int /\ i \in Int
      <4>1. i \in Id
        BY <1>4, <1>6, <3>2, NextIdTyped DEF ReadMaxToCompare
      <4> QED BY <2>2, <2>4, <4>1
    <3>4. UNCHANGED <<req, taken, maxFile>>
      BY <1>6 DEF ReadMaxToCompare
    <3> HIDE DEF id
    <3> QED BY <3>1, <3>2, <3>3, <3>4
  <2>9. CASE id >= NextId(maxFile, n)
    <3>1. /\ pc'[w] = "testEntityDir" /\ ret'[w] = "openObject"
          /\ req' = req /\ taken' = taken /\ maxFile' = maxFile
      BY <2>8, <2>9
    <3>2. \A i \in LinesOf(maxFile', req'[w].name) : maxFile'[i].max <= req'[w].id
      BY <2>5, <2>9, <3>1
    <3>3. req'[w].op = "post" => FileOf(w)' \notin taken'
      BY <2>6, <3>1 DEF FileOf
    <3> QED BY <2>7, <3>1, <3>2, <3>3 DEF Informed, Rewriting
  <2>10. CASE ~(id >= NextId(maxFile, n))
    BY <2>1, <2>2, <2>5, <2>8, <2>6, <2>7, <2>10 DEF Informed, FileOf, Generating, Recording,
       Rewriting
  <2> QED BY <2>7, <2>9, <2>10
<1> QED BY <1>2, <1>3, <1>5, <1>6 DEF GenerateEntityId, Throwing

LEMMA CoversOneMore ==
  ASSUME NEW f, NEW D, NEW T, Covers(f, D, T), NEW t, t[1] \in D, t[2] \in Id,
         \A i \in LinesOf(f, t[1]) : t[2] <= f[i].max
  PROVE  Covers(f, D, T \cup {t})
BY DEF Covers

LEMMA WritingKeepsRecords ==
  ASSUME DirectoriesAreMade, OrderInv, RecordsInv, InformedInv, NEW w \in Worker,
         WriteObject(w), ~Throwing(w)
  PROVE  RecordsInv' /\ Informed(w)'
<1> USE DEF OrderInv, IInv, TypeOK, Goto, GotoCall, disk, bounds
<1>1. WriterStep(w)
  BY DEF WriterStep
<1>2. Records = maxFile /\ Records' = maxFile'
  BY <1>1, WhoCopies DEF WriteObject, TestDirectory, MakeDirectory, OpenObject, OpenObjectFails,
     WriteBody, Finish
<1>3. maxFile' = maxFile
  BY DEF WriteObject, TestDirectory, MakeDirectory, OpenObject, OpenObjectFails, WriteBody
<1>4. CASE TestDirectory(w)
  <2>1. /\ pc[w] = "testDirectory" /\ req' = req /\ taken' = taken /\ dirs' = dirs
        /\ \/ pc'[w] = "testMaxFile" /\ ret'[w] = "compare"
           \/ req[w].name \notin dirs /\ pc'[w] = "testEntityDir" /\ ret'[w] = "makeDirectory"
    BY <1>4 DEF TestDirectory, call
  <2>2. RecordsInv'
    BY <1>2, <1>3, <2>1 DEF RecordsInv
  <2>3. req'[w].op = "post" => FileOf(w)' \notin taken'
    BY <2>1 DEF InformedInv, Informed, WriterAt, Generating, FileOf
  <2>4. CASE pc'[w] = "testMaxFile"
    BY <2>1, <2>2, <2>3, <2>4 DEF Informed, Rewriting, Recording
  <2>5. CASE pc'[w] = "testEntityDir"
    BY <2>1, <2>2, <2>3, <2>5 DEF Informed, Rewriting, Recording
  <2> QED BY <2>1, <2>4, <2>5
<1>5. CASE MakeDirectory(w)
  <2>1. dirs' = dirs \cup {req[w].name} /\ taken' = taken
    BY <1>5 DEF MakeDirectory, DirectoriesAreMade
  <2>2. maxFile # None /\ LinesOf(maxFile, req[w].name) # {}
    BY <1>5 DEF MakeDirectory, InformedInv, Informed
  <2>3. RecordsInv'
    BY <1>2, <1>3, <2>1, <2>2 DEF RecordsInv, Covers
  <2> QED BY <1>5, <2>1, <2>3 DEF MakeDirectory, call, InformedInv, Informed, FileOf, WriterAt,
     Generating, Recording, Rewriting
<1>6. CASE OpenObject(w)
  <2>1. dirs' = dirs /\ taken' = taken \cup {FileOf(w)} /\ req[w].name \in dirs
    BY <1>6 DEF OpenObject
  <2>2. req[w].id \in Id /\ \A i \in LinesOf(maxFile, req[w].name) : req[w].id <= maxFile[i].max
    BY <1>2, <1>6 DEF OpenObject, InformedInv, Informed
  <2>3. FileOf(w)[1] = req[w].name /\ FileOf(w)[2] = req[w].id
    BY DEF FileOf
  <2>4. Covers(maxFile, dirs, taken')
    BY <1>2, <2>1, <2>2, <2>3, CoversOneMore DEF RecordsInv
  <2>5. RecordsInv'
    BY <1>2, <1>3, <2>1, <2>4 DEF RecordsInv
  <2> QED BY <1>6, <2>5 DEF OpenObject, Informed, Generating, Recording, Rewriting
<1>7. CASE OpenObjectFails(w) \/ WriteBody(w)
  <2>1. pc'[w] = "reply" /\ dirs' = dirs /\ taken' = taken
    BY <1>7 DEF OpenObjectFails, WriteBody, Finish
  <2> QED BY <1>2, <1>3, <2>1 DEF RecordsInv, Informed, WriterAt, Generating, Recording, Rewriting
<1> QED BY <1>4, <1>5, <1>6, <1>7 DEF WriteObject

\* At the calls of writeEntityId, the name has a directory when its lines are
\* to be replaced, and the file they are in is there.
LEMMA ReplacerIsReady ==
  ASSUME OrderInv, RecordsInv, InformedInv, ~Copying, NEW w \in Worker,
         pc[w] \in Recording, ret[w] = "openObject"
  PROVE  /\ req[w].name \in dirs /\ req[w].name \in Name /\ req[w].id \in Id
         /\ maxFile \in Lines /\ Covers(maxFile, dirs, taken) /\ dirs \in SUBSET Name
<1>1. req[w].name \in dirs
  BY DEF OrderInv, BackedInv, Backed, DirectoryIsThere
<1>2. Records = maxFile
  BY DEF Records
<1> QED BY <1>1, <1>2 DEF RecordsInv, Covers, OrderInv, IInv, TypeOK, InControl

LEMMA RecordingKeepsRecords ==
  ASSUME FilesAreOpened, OrderInv, RecordsInv, InformedInv, NEW w \in Worker, WriteEntityId(w), ~Throwing(w)
  PROVE  RecordsInv' /\ Informed(w)'
<1> USE DEF OrderInv, IInv, TypeOK, Goto, Return, disk, bounds
<1>1. /\ Records = IF pc[w] = "copyData" THEN temp ELSE maxFile
      /\ Records' = IF pc'[w] = "copyData" THEN temp' ELSE maxFile'
      /\ pc[w] # "copyData" => ~Copying
  <2>1. WriterStep(w)
    BY DEF WriterStep
  <2>2. \A v \in Worker : v # w => pc[v] # "copyData"
    BY <2>1, OthersAreElsewhere DEF WriterAt, Recording
  <2> QED BY <2>1, <2>2, WhoCopies DEF Copying
<1>2. pc[w] \in Recording
  BY DEF WriteEntityId, TestEntityDir, AppendLine, AppendLineFails, OpenTemp, OpenTempFails, ReadLines, CloseTemp, CopyTemp,
     TempIsGone, CopyData, SourceShrank, RemoveTemp, Recording
<1>3. ret[w] = "makeDirectory" \/ ret[w] = "openObject"
  BY <1>2 DEF InControl
<1>4. req[w].op = "post" => FileOf(w) \notin taken
  BY <1>2 DEF InformedInv, Informed, WriterAt, Recording, Generating
<1>5. req' = req /\ taken' = taken /\ dirs' = dirs /\ ret' = ret /\ FileOf(w)' = FileOf(w)
  BY DEF WriteEntityId, TestEntityDir, AppendLine, AppendLineFails, OpenTemp, OpenTempFails, ReadLines, CloseTemp, CopyTemp,
     CopyData, RemoveTemp, Throwing, FileOf
<1>6. CASE TestEntityDir(w)
  <2>1. maxFile' = maxFile /\ Records' = maxFile /\ Records = maxFile
    BY <1>1, <1>6 DEF TestEntityDir
  <2>2. RecordsInv'
    BY <1>5, <2>1 DEF RecordsInv
  <2>3. CASE ret[w] = "makeDirectory"
    <3>1. req[w].name \notin dirs /\ pc'[w] = "appendLine"
      BY <1>6, <2>3 DEF TestEntityDir, InformedInv, Informed
    <3> QED BY <1>4, <1>5, <2>2, <2>3, <3>1 DEF Informed, Rewriting
  <2>4. CASE ret[w] = "openObject"
    <3>1. req[w].name \in dirs /\ pc'[w] = "openTemp"
      BY <1>1, <1>2, <1>6, <2>4, ReplacerIsReady DEF TestEntityDir
    <3>2. \A i \in LinesOf(maxFile, req[w].name) : maxFile[i].max <= req[w].id
      BY <1>2, <1>6, <2>4 DEF TestEntityDir, InformedInv, Informed
    <3> QED BY <1>4, <1>5, <2>1, <2>2, <2>4, <3>1, <3>2 DEF Informed, Rewriting
  <2> QED BY <1>3, <2>3, <2>4
<1>7. CASE AppendLine(w)
  <2> DEFINE f == IF maxFile = None THEN <<>> ELSE maxFile
             n == req[w].name
  <2>1. ret[w] = "makeDirectory" /\ n \notin dirs /\ n \in Name
    BY <1>7 DEF AppendLine, InformedInv, Informed, InControl, Naming, CallAt
  <2>2. pc'[w] = "makeDirectory" /\ maxFile' = Append(f, Line(n, 1))
    BY <1>7, <2>1 DEF AppendLine, MaxId
  <2>3. f \in Lines
    BY EmptyTyped
  <2>4. Covers(f, dirs, taken)
    BY <1>1, <1>7, EmptyCovers DEF AppendLine, RecordsInv
  <2> HIDE DEF f
  <2>5. Covers(maxFile', dirs, taken) /\ LinesOf(maxFile', n) # {}
    BY <2>1, <2>2, <2>3, <2>4, AppendCovers
  <2>6. maxFile' # None
    <3>1. 1 \in Id
      BY ConstantsOK DEF Id
    <3>2. maxFile' \in Lines
      BY <2>1, <2>2, <2>3, <3>1, AppendLineTyped
    <3> QED BY <3>2, EmptyTyped
  <2>7. RecordsInv'
    BY <1>1, <1>5, <2>2, <2>5 DEF RecordsInv
  <2> QED BY <1>4, <1>5, <2>1, <2>2, <2>5, <2>6, <2>7 DEF Informed, Rewriting
<1>8. ~AppendLineFails(w)
  BY DEF AppendLineFails, FilesAreOpened
<1>9. ~OpenTempFails(w)
  <2> SUFFICES ASSUME pc[w] = "openTemp" PROVE maxFile # None
    BY DEF OpenTempFails, NotOpened, FilesAreOpened
  <2>1. ret[w] = "openObject"
    BY DEF InformedInv, Informed
  <2> QED BY <1>1, <1>2, <2>1, ReplacerIsReady, EmptyTyped
<1>10. CASE OpenTemp(w) \/ ReadLines(w) \/ CloseTemp(w)
  <2>1. ret[w] = "openObject" /\ pc[w] # "copyData"
    BY <1>10 DEF OpenTemp, ReadLines, CloseTemp, InformedInv, Informed, Rewriting
  <2>2. maxFile # None
    BY <1>1, <1>2, <2>1, ReplacerIsReady, EmptyTyped
  <2>3. maxFile' = maxFile /\ pc'[w] \in {"readLines", "closeTemp", "copyTemp"}
    BY <1>10, <2>2 DEF OpenTemp, ReadLines, CloseTemp
  <2>4. RecordsInv'
    BY <1>1, <1>5, <2>1, <2>3 DEF RecordsInv
  <2>5. \A i \in LinesOf(maxFile, req[w].name) : maxFile[i].max <= req[w].id
    BY <1>2, <1>10, <2>1 DEF OpenTemp, ReadLines, CloseTemp, InformedInv, Informed
  <2> QED BY <1>4, <1>5, <2>1, <2>3, <2>4, <2>5 DEF Informed, Rewriting
<1>11. CASE CopyTemp(w)
  <2> DEFINE n == req[w].name
             m == req[w].id
  <2>1. ret[w] = "openObject" /\ pc[w] = "copyTemp" /\ pc'[w] = "copyData" /\ temp' = temp
    BY <1>11 DEF CopyTemp, InformedInv, Informed, Rewriting
  <2>2. /\ n \in dirs /\ m \in Id /\ maxFile \in Lines
        /\ Covers(maxFile, dirs, taken) /\ dirs \in SUBSET Name
    BY <1>1, <1>2, <2>1, ReplacerIsReady
  <2>3. \A i \in LinesOf(maxFile, n) : maxFile[i].max <= m
    BY <1>2, <2>1 DEF InformedInv, Informed
  <2>4. temp = Replaced(maxFile, n, m)
    BY <2>1 DEF RewriteInv, Rewrite, NewLines, MaxId
  <2>5. Covers(temp, dirs, taken) /\ \A i \in LinesOf(temp, n) : m <= temp[i].max
    BY <2>2, <2>3, <2>4, ReplacedCovers
  <2>6. Records' = temp
    BY <1>1, <2>1
  <2>7. RecordsInv'
    BY <1>5, <2>5, <2>6 DEF RecordsInv
  <2> QED BY <1>4, <1>5, <2>1, <2>2, <2>5, <2>6, <2>7 DEF Informed, Rewriting, Recording
<1>12. CASE CopyData(w)
  <2>1. ret[w] = "openObject" /\ pc[w] = "copyData" /\ pc'[w] = "removeTemp"
    BY <1>12 DEF CopyData, InformedInv, Informed, Rewriting
  <2>2. maxFile = <<>> /\ SourceOf(w) = temp /\ source[w].count = Len(temp) /\ temp \in Lines
    BY <2>1 DEF RewriteInv, Rewrite, SourceOf, InControl
  <2>3. maxFile' = temp
    BY <1>12, <2>2, WholeSource, OverlayNothing DEF CopyData
  <2>4. Records' = Records
    BY <1>1, <2>1, <2>3
  <2>5. req[w].id \in Id /\ \A i \in LinesOf(Records, req[w].name) : req[w].id <= Records[i].max
    BY <2>1 DEF InformedInv, Informed
  <2>6. RecordsInv'
    BY <1>5, <2>4 DEF RecordsInv
  <2> QED BY <1>4, <1>5, <2>1, <2>4, <2>5, <2>6 DEF Informed, Rewriting, Recording
<1>13. CASE RemoveTemp(w)
  <2>1. ret[w] = "openObject" /\ pc[w] = "removeTemp" /\ pc'[w] = "openObject"
    BY <1>13 DEF RemoveTemp, InformedInv, Informed
  <2>2. Records' = Records
    BY <1>1, <1>13, <2>1 DEF RemoveTemp
  <2>3. req[w].id \in Id /\ \A i \in LinesOf(Records, req[w].name) : req[w].id <= Records[i].max
    BY <2>1 DEF InformedInv, Informed
  <2>4. RecordsInv'
    BY <1>5, <2>2 DEF RecordsInv
  <2> QED BY <1>4, <1>5, <2>1, <2>2, <2>3, <2>4 DEF Informed, Rewriting, Recording
<1> QED BY <1>6, <1>7, <1>10, <1>11, <1>12, <1>13, <1>8, <1>9 DEF WriteEntityId, Throwing

LEMMA StepKeepsRecords ==
  ASSUME DirectoriesAreMade, FilesAreOpened, "copyData" \notin CrashPoint,
         OrderInv, RecordsInv, InformedInv, IdsLeft, [Next]_vars
  PROVE  RecordsInv' /\ InformedInv'
<1>1. ASSUME NEW w \in Worker, Receive(w) \/ HandleRequest(w) PROVE RecordsInv' /\ InformedInv'
  BY <1>1, HandlersKeepRecords
<1>2. ASSUME NEW w \in Worker, WriterStep(w), ~Throwing(w) PROVE RecordsInv' /\ InformedInv'
  <2>1. RecordsInv' /\ Informed(w)'
    BY <1>2, GeneratingKeepsRecords, WritingKeepsRecords, RecordingKeepsRecords DEF WriterStep
  <2>2. ASSUME NEW v \in Worker, v # w PROVE Informed(v)'
    <3>1. pc'[v] \notin WriterAt
      BY <1>2, <2>2, OthersAreElsewhere DEF OrderInv
    <3> QED BY <3>1 DEF Informed, WriterAt, Generating, Recording, Rewriting
  <2> QED BY <2>1, <2>2 DEF InformedInv
<1>3. ASSUME NEW w \in Worker, Throwing(w) PROVE RecordsInv' /\ InformedInv'
  <2>1. NotANumber(w)
    BY <1>3, CopyFileFindsTemp DEF Throwing, OrderInv
  <2>2. pc[w] \in {"testMaxFile", "readMax"} /\ Halt /\ UNCHANGED disk
    BY <2>1 DEF NotANumber
  <2>3. ~Copying
    BY <2>2 DEF Copying, OrderInv, Alone, WriterAt, Generating, Recording
  <2> QED BY <2>2, <2>3, HaltKeepsRecords
<1>4. CASE Crash
  <2>1. ~Copying /\ Halt /\ UNCHANGED disk
    BY <1>4 DEF Crash, Copying, InFlight
  <2> QED BY <2>1, HaltKeepsRecords
<1>5. CASE Restart \/ UNCHANGED vars
  <2>1. UNCHANGED <<disk, pc, ret, req, taken>>
    BY <1>5 DEF Restart, vars, call
  <2>2. Records' = Records
    BY <2>1 DEF disk, Records, Copying
  <2> QED BY <2>1, <2>2 DEF disk, RecordsInv, InformedInv, Informed, FileOf
<1> QED BY <1>1, <1>2, <1>3, <1>4, <1>5 DEF Next, Step, WriterStep

LEMMA RecordsInvariant ==
  ASSUME OneWriter, DirectoriesAreMade, FilesAreOpened, "copyData" \notin CrashPoint
  PROVE  Spec /\ []IdsLeft => [](IInv /\ RecordsInv /\ InformedInv)
<1>1. Init => RecordsInv /\ InformedInv
  <2> SUFFICES ASSUME Init PROVE RecordsInv /\ InformedInv
    OBVIOUS
  <2>1. Records = None
    BY DEF Init, Records, Copying
  <2>2. RecordsInv
    BY <2>1 DEF Init, RecordsInv, Covers
  <2> QED BY <2>2 DEF Init, InformedInv, Informed, WriterAt, Generating, Recording, Rewriting
<1>2. IInv /\ Alone /\ RewriteInv /\ BackedInv /\ IdsLeft /\ RecordsInv /\ InformedInv /\ [Next]_vars
        => RecordsInv' /\ InformedInv'
  BY StepKeepsRecords DEF OrderInv
<1> QED BY <1>1, <1>2, Inductive, WritersAreAlone, RewritesInvariant, BackedInvariant, PTL DEF Spec

\* While POSTs and PUTs do not overlap, and until the largest id is used, POST
\* opens a file that no POST or PUT ever opened: after crashes at any call but
\* the copy of temp, restarts, and any GETs and DELETEs in between.  It takes
\* that directories can be made and files opened: if maxEntityIds cannot be
\* opened generateEntityId returns 1, which may be in use.
THEOREM LoneWriterTakesFreshIds ==
  ASSUME OneWriter, DirectoriesAreMade, FilesAreOpened, "copyData" \notin CrashPoint
  PROVE  Spec /\ []IdsLeft => []PostIdIsFresh
<1>1. InformedInv => PostIdIsFresh
  BY DEF InformedInv, Informed, PostIdIsFresh, WriterAt, Generating
<1> QED BY <1>1, RecordsInvariant, PTL

\* Under the same conditions every directory keeps a line.  If maxEntityIds
\* cannot be opened for append the directory is made without one.
THEOREM DirectoriesAreRecorded ==
  ASSUME OneWriter, DirectoriesAreMade, FilesAreOpened, "copyData" \notin CrashPoint
  PROVE  Spec /\ []IdsLeft => []DirectoryRecorded
<1>1. RecordsInv => DirectoryRecorded
  BY DEF RecordsInv, Records, Covers, DirectoryRecorded
<1> QED BY <1>1, RecordsInvariant, PTL

\* ... the line of a name is never below an id that was written under it (it is
\* where maxEntityIds or temp cannot be opened to raise it),
THEOREM IdsAreRecorded ==
  ASSUME OneWriter, DirectoriesAreMade, FilesAreOpened, "copyData" \notin CrashPoint
  PROVE  Spec /\ []IdsLeft => []IdsRecorded
<1>1. IInv /\ RecordsInv => IdsRecorded
  <2> SUFFICES ASSUME IInv, RecordsInv, ~Copying, NEW t \in taken
               PROVE  /\ maxFile # None /\ LinesOf(maxFile, t[1]) # {}
                      /\ t[2] <= maxFile[Min(LinesOf(maxFile, t[1]))].max
    BY DEF IdsRecorded
  <2>1. Covers(maxFile, dirs, taken)
    BY DEF RecordsInv, Records
  <2>2. maxFile # None /\ LinesOf(maxFile, t[1]) # {}
    BY <2>1 DEF Covers
  <2>3. LinesOf(maxFile, t[1]) \in SUBSET Nat
    BY <2>2, LinesAreFunctions DEF LinesOf, IInv, TypeOK
  <2>4. Min(LinesOf(maxFile, t[1])) \in LinesOf(maxFile, t[1])
    BY <2>2, <2>3, MinIsLeast
  <2> QED BY <2>1, <2>2, <2>4 DEF Covers
<1> QED BY <1>1, RecordsInvariant, PTL

\* ... and the lines of one name agree.
THEOREM LinesOfANameAgree ==
  ASSUME OneWriter, DirectoriesAreMade, FilesAreOpened, "copyData" \notin CrashPoint
  PROVE  Spec /\ []IdsLeft => []LinesAgree
<1>1. Alone /\ RewriteInv /\ RecordsInv => LinesAgree
  <2>1. CASE Copying
    BY <2>1, NoLines DEF Copying, RewriteInv, Rewrite, LinesAgree
  <2>2. CASE ~Copying
    BY <2>2 DEF RecordsInv, Records, Covers, LinesAgree
  <2> QED BY <2>1, <2>2
<1> QED BY <1>1, RecordsInvariant, WritersAreAlone, RewritesInvariant, PTL

------------------------------------------------------------------------------
\* One request at a time, each with a number where an id is needed, in a
\* process that nothing brings down.
Undisturbed ==
  /\ MaxInFlight = 1 /\ MaxWriters = 1
  /\ Word \notin PutId /\ CrashPoint = {} /\ MayFail = {}

------------------------------------------------------------------------------
\* What a request that is alone knows of the object it is about.

Serial(w) ==
  /\ pc[w] = "idle" => req[w] = NoRequest
  /\ pc[w] = "dispatch" => req[w] \in Request
  /\ pc[w] # "reply" => reply[w] = NoReply
  /\ pc[w] = "reply" => reply[w].status # 0
  /\ pc[w] = "removeObject" => req[w].op = "delete" /\ object[FileOf(w)] # None
  /\ pc[w] \in Generating /\ ret[w] = "post" => req[w].op = "post"
  /\ req[w].op = "put" /\ pc[w] \in WriterAt \ {"writeBody"} =>
       (existed[w] <=> object[FileOf(w)] # None)
  /\ pc[w] = "writeBody" => fd[w] = "named" /\ object[FileOf(w)] = Blank

SerialInv ==
  /\ \A v, w \in Worker : pc[v] # "idle" /\ pc[w] # "idle" => v = w
  /\ \A w \in Worker : Serial(w)

\* Everything that is known of a process that is undisturbed.
Known == FilesAreOpened /\ OrderInv /\ AliveInv /\ RecordsInv /\ InformedInv /\ SerialInv

LEMMA ReceivedWhenAllIdle ==
  ASSUME MaxInFlight = 1, NEW w \in Worker, Receive(w)
  PROVE  \A v \in Worker : pc[v] = "idle"
<1>1. IsFiniteSet(InFlight)
  BY FewWorkers, FS_Subset DEF InFlight
<1>2. Cardinality(InFlight) \in Nat /\ (Cardinality(InFlight) = 0 <=> InFlight = {})
  BY <1>1, FS_CardinalityType, FS_EmptySet
<1>3. Cardinality(InFlight) < 1
  BY DEF Receive
<1> QED BY <1>2, <1>3 DEF InFlight

LEMMA RequestIsAdmittedAlone ==
  ASSUME MaxInFlight = 1, IInv, SerialInv, NEW w \in Worker, Receive(w)
  PROVE  SerialInv'
<1>1. \A v \in Worker : pc[v] = "idle"
  BY ReceivedWhenAllIdle
<1>2. /\ pc'[w] = "dispatch" /\ req'[w] \in Request /\ reply'[w] = reply[w]
      /\ \A v \in Worker : v # w => pc'[v] = "idle" /\ req'[v] = req[v] /\ reply'[v] = reply[v]
  BY <1>1 DEF IInv, TypeOK, Receive, Goto
<1>3. Serial(w)'
  BY <1>1, <1>2 DEF SerialInv, Serial, WriterAt, Generating, Recording
<1>4. ASSUME NEW v \in Worker, v # w PROVE Serial(v)'
  BY <1>1, <1>2, <1>4 DEF SerialInv, Serial, WriterAt, Generating, Recording
<1> QED BY <1>2, <1>3, <1>4 DEF SerialInv

LEMMA OthersStaySerial ==
  ASSUME IInv, SerialInv, NEW w \in Worker, Frame(w), Serial(w)', pc[w] # "idle"
  PROVE  SerialInv'
<1>1. ASSUME NEW v \in Worker, v # w
      PROVE  pc'[v] = "idle" /\ req'[v] = NoRequest /\ reply'[v] = NoReply
  BY <1>1 DEF Frame, SerialInv, Serial
<1>2. ASSUME NEW v \in Worker, v # w PROVE Serial(v)'
  BY <1>1, <1>2 DEF Serial, WriterAt, Generating, Recording
<1> QED BY <1>1, <1>2 DEF SerialInv

LEMMA HandlersStaySerial ==
  ASSUME IInv, SerialInv, BackedInv, NEW w \in Worker, HandleRequest(w)
  PROVE  Serial(w)' /\ pc[w] # "idle"
<1> USE DEF IInv, TypeOK, Finish, Goto, GotoCall, Answer, disk, call, SerialInv, Serial,
            WriterAt, Generating, Recording, FileOf
<1>1. CASE BadRequest(w)
  BY <1>1 DEF BadRequest
<1>2. CASE HandlePost(w)
  BY <1>2 DEF HandlePost, Dispatched
<1>3. CASE HandleGet(w)
  BY <1>3 DEF HandleGet, Dispatched
<1>4. CASE HandleList(w)
  BY <1>4 DEF HandleList, Dispatched
<1>5. CASE HandlePut(w)
  <2>1. /\ pc[w] = "dispatch" /\ pc'[w] = "testDirectory" /\ req' = req /\ reply' = reply
        /\ object' = object /\ existed'[w] = (object[FileOf(w)] # None)
    BY <1>5 DEF HandlePut, Dispatched
  <2>2. reply'[w] = NoReply
    BY <2>1
  <2> QED BY <2>1, <2>2
<1>6. CASE HandleDelete(w)
  BY <1>6 DEF HandleDelete, Dispatched
<1>7. CASE RemoveObject(w)
  BY <1>7 DEF RemoveObject
<1>8. CASE Respond(w)
  BY <1>8 DEF Respond
<1> QED BY <1>1, <1>2, <1>3, <1>4, <1>5, <1>6, <1>7, <1>8 DEF HandleRequest

\* What the calls before the object is opened leave as it is.
Untouched(w) ==
  /\ object' = object /\ existed' = existed /\ reply' = reply /\ taken' = taken
  /\ req'[w] = req[w] \/ (req[w].op = "post" /\ \E i \in Id : req'[w] = [req[w] EXCEPT !.id = i])
  /\ pc[w] \in WriterAt \ {"writeBody"} /\ pc'[w] \in WriterAt \ {"writeBody"}
  /\ pc'[w] \in Generating => pc[w] \in Generating \/ ret'[w] = "compare"

LEMMA PreparingLeavesObjects ==
  ASSUME IInv, SerialInv, NEW w \in Worker, WriterStep(w), ~Throwing(w),
         ~OpenObject(w), ~OpenObjectFails(w), ~WriteBody(w)
  PROVE  Untouched(w) /\ (ret'[w] = ret[w] \/ ret'[w] # "post")
<1> USE DEF IInv, TypeOK, Goto, GotoCall, Untouched, WriterAt, Generating, Recording
<1>1. CASE TestMaxFile(w) \/ CreateMaxFile(w)
  BY <1>1 DEF TestMaxFile, CreateMaxFile, disk, call
<1>2. CASE ReadMaxForPost(w)
  <2>1. Generated(req[w].name) \subseteq Id
    BY <1>2, GeneratedTyped DEF InControl, ReadMaxForPost, Naming, CallAt
  <2>2. \E i \in Id : req'[w] = [req[w] EXCEPT !.id = i]
    BY <1>2, <2>1 DEF ReadMaxForPost
  <2>3. req[w].op = "post"
    BY <1>2 DEF ReadMaxForPost, SerialInv, Serial
  <2> QED BY <1>2, <2>1, <2>2, <2>3 DEF ReadMaxForPost, disk
<1>3. CASE ReadMaxToCompare(w)
  BY <1>3 DEF ReadMaxToCompare, disk
<1>4. CASE TestDirectory(w) \/ MakeDirectory(w)
  BY <1>4 DEF TestDirectory, MakeDirectory, disk, call
<1>5. CASE WriteEntityId(w)
  <2>1. pc[w] \in Recording => ret[w] \in {"makeDirectory", "openObject"}
    BY DEF InControl
  <2>2. CASE TestEntityDir(w) \/ ReadLines(w)
    BY <2>2 DEF TestEntityDir, ReadLines, disk
  <2>3. CASE CloseTemp(w) \/ CopyTemp(w) \/ CopyData(w)
    BY <2>3 DEF CloseTemp, CopyTemp, CopyData
  <2>4. CASE AppendLine(w) \/ OpenTemp(w) \/ RemoveTemp(w)
    BY <2>1, <2>4 DEF AppendLine, OpenTemp, RemoveTemp, Return
  <2>5. CASE AppendLineFails(w) \/ OpenTempFails(w)
    BY <2>1, <2>5 DEF AppendLineFails, OpenTempFails, Return, disk
  <2> QED BY <1>5, <2>2, <2>3, <2>4, <2>5 DEF WriteEntityId, Throwing
<1> QED BY <1>1, <1>2, <1>3, <1>4, <1>5 DEF WriterStep, GenerateEntityId, WriteObject, Throwing

LEMMA WritersStaySerial ==
  ASSUME MayFail = {}, IInv, SerialInv, BackedInv, NEW w \in Worker, WriterStep(w), ~Throwing(w)
  PROVE  Serial(w)' /\ pc[w] # "idle"
<1>1. pc[w] \in WriterAt
  BY WriterStepsAt
<1>2. CASE ~OpenObject(w) /\ ~OpenObjectFails(w) /\ ~WriteBody(w)
  <2>1. Untouched(w) /\ (ret'[w] = ret[w] \/ ret'[w] # "post")
    BY <1>2, PreparingLeavesObjects
  <2>2. req[w].op = "post" => req'[w].op = "post"
    BY <2>1 DEF Untouched, IInv, TypeOK, Handled
  <2>3. req[w].op # "post" => req'[w] = req[w]
    BY <2>1 DEF Untouched
  <2>4. pc'[w] \notin {"idle", "dispatch", "reply", "removeObject", "writeBody"} /\ reply'[w] = NoReply
    BY <2>1 DEF Untouched, WriterAt, Generating, Recording, SerialInv, Serial
  <2>5. pc'[w] \in Generating /\ ret'[w] = "post" => req'[w].op = "post"
    BY <2>1, <2>2 DEF Untouched, SerialInv, Serial
  <2>6. req'[w].op = "put" => (existed'[w] <=> object'[FileOf(w)'] # None)
    <3> SUFFICES ASSUME req'[w].op = "put" PROVE existed'[w] <=> object'[FileOf(w)'] # None
      OBVIOUS
    <3>1. req[w].op = "put" /\ req'[w] = req[w]
      BY <2>2, <2>3
    <3>2. existed[w] <=> object[FileOf(w)] # None
      BY <2>1, <3>1 DEF Untouched, SerialInv, Serial
    <3> QED BY <2>1, <3>1, <3>2 DEF Untouched, FileOf
  <2> QED BY <1>1, <2>4, <2>5, <2>6 DEF Serial, FileOf, WriterAt, Generating, Recording
<1>3. CASE OpenObject(w)
  <2>1. FileOf(w) \in File
    BY <1>3 DEF OpenObject, IInv, TypeOK, InControl, Naming, Writing, CallAt, FileOf, File
  <2> QED BY <1>1, <1>3, <2>1 DEF OpenObject, IInv, TypeOK, Goto, SerialInv, Serial, WriterAt,
          Generating, Recording, FileOf
<1>4. CASE OpenObjectFails(w) \/ WriteBody(w)
  <2>1. pc'[w] = "reply" /\ reply'[w] = WriteAnswer(w)
    BY <1>4 DEF OpenObjectFails, WriteBody, Finish, Goto, IInv, TypeOK
  <2>2. WriteAnswer(w).status # 0
    BY DEF WriteAnswer, Answer
  <2> QED BY <1>1, <2>1, <2>2 DEF Serial, WriterAt, Generating, Recording
<1> QED BY <1>2, <1>3, <1>4

LEMMA StepStaysSerial == ASSUME Undisturbed, Known, [Next]_vars PROVE SerialInv'
<1> USE DEF Known, OrderInv, Undisturbed
<1>1. ASSUME NEW w \in Worker, HandleRequest(w) PROVE SerialInv'
  <2>1. Serial(w)' /\ pc[w] # "idle"
    BY <1>1, HandlersStaySerial
  <2>2. ~Throwing(w)
    BY CopyFileFindsTemp DEF Throwing, NotANumber, AliveInv
  <2> QED BY <1>1, <2>1, <2>2, StepsAreFramed, OthersStaySerial DEF Step
<1>2. ASSUME NEW w \in Worker, WriterStep(w) PROVE SerialInv'
  <2>1. ~Throwing(w)
    BY CopyFileFindsTemp DEF Throwing, NotANumber, AliveInv
  <2>2. Serial(w)' /\ pc[w] # "idle"
    BY <1>2, <2>1, WritersStaySerial
  <2> QED BY <1>2, <2>1, <2>2, StepsAreFramed, OthersStaySerial DEF Step, WriterStep
<1>3. CASE Crash \/ Restart
  BY <1>3 DEF Crash, Restart, AliveInv
<1>4. CASE UNCHANGED vars
  BY <1>4 DEF vars, disk, call, SerialInv, Serial, FileOf
<1> QED BY <1>1, <1>2, <1>3, <1>4, RequestIsAdmittedAlone DEF Next, Step, WriterStep
------------------------------------------------------------------------------
\* Each step is one of EntityStore, or changes nothing there.

LEMMA NobodyWrites ==
  ASSUME SerialInv, NEW w \in Worker, pc[w] # "idle", pc[w] # "writeBody"
  PROVE  Stored = [f \in File |-> object[f]]
<1>1. \A f : OpenedBy(f) = {}
  BY DEF SerialInv, OpenedBy
<1> QED BY <1>1 DEF Stored

LEMMA NobodyWritesNext ==
  ASSUME SerialInv, NEW w \in Worker, pc[w] # "idle", Frame(w), pc'[w] # "writeBody"
  PROVE  Stored' = [f \in File |-> object'[f]]
<1>1. \A v \in Worker : pc'[v] # "writeBody"
  BY DEF SerialInv, Frame
<1>2. \A f : OpenedBy(f)' = {}
  BY <1>1 DEF OpenedBy
<1> QED BY <1>2 DEF Stored

\* To EntityStore only the worker whose request it is has asked for something.
LEMMA OthersAskNothing ==
  ASSUME SerialInv, NEW w \in Worker, pc[w] # "idle", Frame(w), NEW v \in Worker, v # w
  PROVE  AskedOf'[v] = AskedOf[v] /\ AnswerOf'[v] = AnswerOf[v]
<1>1. pc[v] = "idle" /\ req[v] = NoRequest /\ reply[v] = NoReply
  BY DEF SerialInv, Serial
<1>2. pc'[v] = "idle" /\ req'[v] = NoRequest /\ reply'[v] = NoReply
  BY <1>1 DEF Frame
<1>3. NoRequest.op # "post"
  BY DEF NoRequest
<1> QED BY <1>1, <1>2, <1>3 DEF AskedOf, AnswerOf

LEMMA AsksTheSame ==
  ASSUME SerialInv, NEW w \in Worker, pc[w] # "idle", Frame(w), AskedOf'[w] = AskedOf[w]
  PROVE  AskedOf' = AskedOf
BY OthersAskNothing DEF AskedOf

LEMMA Answers ==
  ASSUME SerialInv, NEW w \in Worker, pc[w] # "idle", Frame(w), AskedOf'[w] = AskedOf[w],
         NEW s, NEW i, NEW b, AnswerOf'[w] = Answer(s, i, b)
  PROVE  Store!Reply(w, s, i, b)
<1>1. AnswerOf' = [AnswerOf EXCEPT ![w] = Answer(s, i, b)]
  BY OthersAskNothing DEF AnswerOf
<1> QED BY <1>1, AsksTheSame DEF Store!Reply

LEMMA NothingHappens ==
  ASSUME SerialInv, NEW w \in Worker, pc[w] # "idle", Frame(w), AskedOf'[w] = AskedOf[w],
         AnswerOf'[w] = AnswerOf[w], Stored' = Stored, taken' = taken
  PROVE  UNCHANGED Store!vars
<1>1. AnswerOf' = AnswerOf
  BY OthersAskNothing DEF AnswerOf
<1> QED BY <1>1, AsksTheSame DEF Store!vars

LEMMA ReceiveCalls ==
  ASSUME MaxInFlight = 1, IInv, SerialInv, NEW w \in Worker, Receive(w)
  PROVE  \E r \in Request : Store!Call(w, r)
<1>1. PICK r \in Request : req' = [req EXCEPT ![w] = r]
  BY DEF Receive
<1>2. pc[w] = "idle" /\ pc' = [pc EXCEPT ![w] = "dispatch"] /\ UNCHANGED <<object, fd, reply, taken>>
  BY DEF Receive, Goto, disk
<1>3. req[w] = NoRequest /\ reply[w] = NoReply /\ NoRequest.op # "post"
  BY <1>2 DEF SerialInv, Serial, NoRequest
<1>4. AskedOf[w] = NoRequest /\ AnswerOf[w] = NoReply
  BY <1>2, <1>3 DEF AskedOf, AnswerOf
<1>5. AskedOf' = [AskedOf EXCEPT ![w] = r]
  BY <1>1, <1>2 DEF AskedOf, IInv, TypeOK
<1>6. AnswerOf' = AnswerOf
  <2> SUFFICES ASSUME NEW v \in Worker PROVE AnswerOf'[v] = AnswerOf[v]
    BY DEF AnswerOf
  <2>1. pc'[v] = "writeBody" <=> pc[v] = "writeBody"
    BY <1>2 DEF IInv, TypeOK
  <2>2. pc[v] = "writeBody" => req'[v] = req[v] /\ existed'[v] = existed[v]
    BY <1>1, <1>2 DEF IInv, TypeOK, Receive
  <2> QED BY <1>2, <2>1, <2>2 DEF AnswerOf, WriteAnswer
<1>7. Stored' = Stored
  <2>1. \A v \in Worker : pc[v] # "writeBody" /\ pc'[v] # "writeBody"
    BY <1>2, ReceivedWhenAllIdle DEF IInv, TypeOK
  <2>2. \A f : OpenedBy(f) = {} /\ OpenedBy(f)' = {}
    BY <2>1 DEF OpenedBy
  <2> QED BY <1>2, <2>2 DEF Stored
<1> QED BY <1>2, <1>4, <1>5, <1>6, <1>7 DEF Store!Call

LEMMA HandlersAnswer ==
  ASSUME Known, NEW w \in Worker, HandleRequest(w)
  PROVE  Store!Next \/ UNCHANGED Store!vars
<1> USE DEF Known, OrderInv, IInv, TypeOK, Finish, Goto, GotoCall, disk, call
<1>1. Frame(w) /\ SerialInv
  <2>1. ~Throwing(w)
    BY CopyFileFindsTemp DEF Throwing, NotANumber, AliveInv
  <2> QED BY <2>1, StepsAreFramed DEF Step
<1>2. pc[w] \in {"dispatch", "removeObject", "reply"} /\ pc'[w] # "writeBody"
  BY DEF HandleRequest, BadRequest, HandlePost, HandleGet, HandleList, HandlePut, HandleDelete,
         RemoveObject, Respond, Dispatched
<1>3. Stored = [f \in File |-> object[f]] /\ Stored' = [f \in File |-> object'[f]]
  BY <1>1, <1>2, NobodyWrites, NobodyWritesNext
<1>4. ASSUME pc[w] = "dispatch"
      PROVE  req[w] \in Request /\ reply[w] = NoReply /\ AskedOf[w] = req[w] /\ AnswerOf[w] = NoReply
  BY <1>1, <1>4 DEF SerialInv, Serial, AskedOf, AnswerOf
<1>5. CASE BadRequest(w)
  <2>1. /\ pc[w] = "dispatch" /\ pc'[w] = "reply" /\ reply'[w] = Answer(400, None, None)
        /\ UNCHANGED <<object, req, taken>>
    BY <1>5 DEF BadRequest
  <2>2. AskedOf'[w] = req[w] /\ AnswerOf'[w] = Answer(400, None, None)
    BY <2>1 DEF AskedOf, AnswerOf, Answer
  <2>3. Store!Reply(w, 400, None, None)
    BY <1>1, <1>4, <2>1, <2>2, Answers
  <2>4. Stored' = Stored
    BY <1>3, <2>1
  <2>5. req[w] # NoRequest
    BY <1>4, <2>1 DEF NoRequest, Request
  <2>6. Store!Refuse(w)
    BY <1>4, <1>5, <2>1, <2>3, <2>4, <2>5 DEF BadRequest, Rejected, Store!Refuse
  <2> QED BY <2>6 DEF Store!Next
<1>6. CASE HandlePost(w)
  <2>1. /\ pc[w] = "dispatch" /\ pc'[w] = "testMaxFile" /\ req[w].op = "post" /\ req[w].id = None
        /\ UNCHANGED <<object, req, reply, taken>>
    BY <1>6 DEF HandlePost, Dispatched, Rejected
  <2>2. [req[w] EXCEPT !.id = None] = req[w]
    BY <1>4, <2>1 DEF Request
  <2>3. AskedOf'[w] = AskedOf[w] /\ AnswerOf'[w] = AnswerOf[w]
    BY <1>4, <2>1, <2>2 DEF AskedOf, AnswerOf
  <2>4. Stored' = Stored
    BY <1>3, <2>1
  <2> QED BY <1>1, <2>1, <2>3, <2>4, NothingHappens
<1>7. CASE HandlePut(w)
  <2>1. /\ pc[w] = "dispatch" /\ pc'[w] = "testDirectory" /\ req[w].op = "put"
        /\ UNCHANGED <<object, req, reply, taken>>
    BY <1>7 DEF HandlePut, Dispatched
  <2>2. AskedOf'[w] = AskedOf[w] /\ AnswerOf'[w] = AnswerOf[w]
    BY <1>4, <2>1 DEF AskedOf, AnswerOf
  <2>3. Stored' = Stored
    BY <1>3, <2>1
  <2> QED BY <1>1, <2>1, <2>2, <2>3, NothingHappens
<1>8. CASE HandleGet(w)
  <2> DEFINE a == IF object[FileOf(w)] = None THEN Answer(404, None, None)
                  ELSE Answer(200, None, object[FileOf(w)])
  <2>1. /\ pc[w] = "dispatch" /\ req[w].op = "get" /\ req[w].id # None /\ req[w].name # None
        /\ pc'[w] = "reply" /\ reply'[w] = a /\ UNCHANGED <<object, req, taken>>
    BY <1>8 DEF HandleGet, Dispatched, Rejected, NotOpened, FilesAreOpened
  <2>2. AskedOf'[w] = req[w] /\ AnswerOf'[w] = a
    BY <2>1 DEF AskedOf, AnswerOf
  <2>3. Store!Named(w) = FileOf(w) /\ Stored[FileOf(w)] = object[FileOf(w)]
    <3>1. FileOf(w) \in File
      BY <1>4, <2>1, ConstantsOK DEF Request, FileOf, File
    <3> QED BY <1>3, <1>4, <2>1, <3>1 DEF Store!Named, FileOf
  <2>4. Stored' = Stored
    BY <1>3, <2>1
  <2>5. IF Stored[Store!Named(w)] = None THEN Store!Reply(w, 404, None, None)
                                         ELSE Store!Reply(w, 200, None, Stored[Store!Named(w)])
    BY <1>1, <1>4, <2>1, <2>2, <2>3, Answers
  <2>6. Store!Get(w)
    BY <1>4, <2>1, <2>4, <2>5 DEF Store!Get, Store!Asked
  <2> QED BY <2>6 DEF Store!Next
<1>9. CASE HandleList(w)
  <2> DEFINE b == {k \in Key : object[<<req[w].name, k>>] # None}
  <2>1. /\ pc[w] = "dispatch" /\ req[w].op = "get" /\ req[w].id = None /\ req[w].name # None
        /\ pc'[w] = "reply" /\ reply'[w] = Answer(200, None, b) /\ UNCHANGED <<object, req, taken>>
    BY <1>9 DEF HandleList, Dispatched, Rejected, FilesAreOpened
  <2>2. AskedOf'[w] = req[w] /\ AnswerOf'[w] = Answer(200, None, b)
    BY <2>1 DEF AskedOf, AnswerOf
  <2>3. req[w].name \in Name
    BY <1>4, <2>1 DEF Request
  <2> DEFINE listed == {g \in File : g[1] = req[w].name /\ Stored[g] # None}
  <2>4. {f[2] : f \in listed} = b
    <3>1. ASSUME NEW f \in listed PROVE f[2] \in b
      <4>1. f = <<req[w].name, f[2]>> /\ f[2] \in Key /\ object[f] # None
        BY <1>3, <3>1 DEF File
      <4> QED BY <4>1
    <3>2. ASSUME NEW k \in b PROVE \E f \in listed : f[2] = k
      <4>1. <<req[w].name, k>> \in listed
        BY <1>3, <2>3, <3>2 DEF File
      <4> QED BY <4>1
    <3> HIDE DEF listed, b
    <3> QED BY <3>1, <3>2
  <2>5. Stored' = Stored
    BY <1>3, <2>1
  <2>6. Store!Reply(w, 200, None, b)
    BY <1>1, <1>4, <2>1, <2>2, Answers
  <2>7. Store!Reply(w, 200, None,
          {f[2] : f \in {g \in File : g[1] = AskedOf[w].name /\ Stored[g] # None}})
    <3>1. AskedOf[w].name = req[w].name
      BY <1>4, <2>1
    <3>2. {f[2] : f \in {g \in File : g[1] = AskedOf[w].name /\ Stored[g] # None}} = b
      BY <2>4, <3>1, Zenon
    <3> HIDE DEF b
    <3> QED BY <2>6, <3>2, Zenon
  <2>8. Store!Asked(w, "get") /\ AskedOf[w].name # None /\ AskedOf[w].id = None
    BY <1>4, <2>1 DEF Store!Asked
  <2>9. Store!List(w)
    BY <2>1, <2>5, <2>7, <2>8 DEF Store!List
  <2> QED BY <2>9 DEF Store!Next
<1>10. CASE HandleDelete(w)
  <2>1. /\ pc[w] = "dispatch" /\ req[w].op = "delete" /\ req[w].id # None /\ req[w].name # None
        /\ UNCHANGED <<object, req, taken>>
    BY <1>10 DEF HandleDelete, Dispatched, Rejected
  <2>2. FileOf(w) \in File
    BY <1>4, <2>1, ConstantsOK DEF Request, FileOf, File
  <2>3. CASE object[FileOf(w)] = None
    <3>1. pc'[w] = "reply" /\ reply'[w] = Answer(204, None, None)
      BY <1>10, <2>3 DEF HandleDelete
    <3>2. AskedOf'[w] = req[w] /\ AnswerOf'[w] = Answer(204, None, None)
      BY <2>1, <3>1 DEF AskedOf, AnswerOf
    <3>3. Store!Named(w) = FileOf(w) /\ Stored[FileOf(w)] = None
      BY <1>3, <1>4, <2>1, <2>2, <2>3 DEF Store!Named, FileOf
    <3>4. Stored' = [Stored EXCEPT ![FileOf(w)] = None]
      BY <1>3, <2>1, <2>2, <2>3
    <3>5. Store!Reply(w, 204, None, None)
      BY <1>1, <1>4, <2>1, <3>2, Answers
    <3>6. Store!Delete(w)
      BY <1>4, <2>1, <3>3, <3>4, <3>5 DEF Store!Delete, Store!Asked
    <3> QED BY <3>6 DEF Store!Next
  <2>4. CASE object[FileOf(w)] # None
    <3>1. pc'[w] = "removeObject" /\ reply' = reply
      BY <1>10, <2>4 DEF HandleDelete
    <3>2. AskedOf'[w] = AskedOf[w] /\ AnswerOf'[w] = AnswerOf[w]
      BY <1>4, <2>1, <3>1 DEF AskedOf, AnswerOf
    <3>3. Stored' = Stored
      BY <1>3, <2>1
    <3> QED BY <1>1, <2>1, <3>2, <3>3, NothingHappens
  <2> QED BY <2>3, <2>4
<1>11. CASE RemoveObject(w)
  <2>1. /\ pc[w] = "removeObject" /\ req[w].op = "delete" /\ object[FileOf(w)] # None /\ reply[w] = NoReply
        /\ pc'[w] = "reply" /\ reply'[w] = Answer(200, None, None)
        /\ object' = [object EXCEPT ![FileOf(w)] = None] /\ UNCHANGED <<req, taken>>
    BY <1>1, <1>11 DEF RemoveObject, SerialInv, Serial
  <2>2. req[w].name \in Name /\ req[w].id \in Key /\ FileOf(w) \in File
    BY <2>1 DEF InControl, Naming, Writing, CallAt, FileOf, File
  <2>3. AskedOf[w] = req[w] /\ AskedOf'[w] = req[w] /\ AnswerOf[w] = NoReply
        /\ AnswerOf'[w] = Answer(200, None, None)
    BY <2>1 DEF AskedOf, AnswerOf
  <2>4. Store!Named(w) = FileOf(w) /\ Stored[FileOf(w)] # None
    BY <1>3, <2>1, <2>2, <2>3 DEF Store!Named, FileOf
  <2>5. Stored' = [Stored EXCEPT ![FileOf(w)] = None]
    BY <1>3, <2>1, <2>2
  <2>6. Store!Reply(w, 200, None, None)
    BY <1>1, <2>1, <2>3, Answers
  <2>7. Store!Delete(w)
    BY <2>1, <2>2, <2>3, <2>4, <2>5, <2>6, ConstantsOK DEF Store!Delete, Store!Asked
  <2> QED BY <2>7 DEF Store!Next
<1>12. CASE Respond(w)
  <2>1. /\ pc[w] = "reply" /\ pc'[w] = "idle" /\ reply[w].status # 0 /\ reply'[w] = NoReply
        /\ req'[w] = NoRequest /\ UNCHANGED <<object, taken>>
    BY <1>1, <1>12 DEF Respond, SerialInv, Serial
  <2>2. AnswerOf[w] # NoReply /\ AnswerOf'[w] = NoReply /\ AskedOf'[w] = NoRequest
    BY <2>1 DEF AnswerOf, AskedOf, NoReply, NoRequest, Answer
  <2>3. AskedOf' = [AskedOf EXCEPT ![w] = NoRequest]
    <3>1. \A v \in Worker : v # w => AskedOf'[v] = AskedOf[v]
      BY <1>1, <2>1, OthersAskNothing
    <3>2. \A v \in Worker : AskedOf'[v] = IF v = w THEN NoRequest ELSE AskedOf[v]
      BY <2>2, <3>1
    <3>3. AskedOf = [v \in Worker |-> AskedOf[v]] /\ AskedOf' = [v \in Worker |-> AskedOf'[v]]
      BY DEF AskedOf
    <3> QED BY <3>2, <3>3
  <2>4. AnswerOf' = [AnswerOf EXCEPT ![w] = NoReply]
    BY <1>1, <2>1, <2>2, OthersAskNothing DEF AnswerOf
  <2>5. Store!Return(w)
    BY <1>3, <2>1, <2>2, <2>3, <2>4 DEF Store!Return
  <2> QED BY <2>5 DEF Store!Next
<1> QED BY <1>5, <1>6, <1>7, <1>8, <1>9, <1>10, <1>11, <1>12 DEF HandleRequest

\* What the writer of an object knows of it.
LEMMA WriterIsServedAlone ==
  ASSUME Known, NEW w \in Worker, WriterStep(w)
  PROVE  /\ ~Throwing(w) /\ Frame(w) /\ pc[w] # "idle"
         /\ reply[w] = NoReply /\ Writes(req[w])
         /\ \A v \in Worker : v # w => pc[v] = "idle" /\ pc'[v] = "idle"
<1>1. ~Throwing(w)
  BY CopyFileFindsTemp DEF Known, OrderInv, Throwing, NotANumber, AliveInv
<1>2. Frame(w)
  BY <1>1, StepsAreFramed DEF Known, OrderInv, WriterStep, Step
<1>3. pc[w] \in WriterAt
  BY WriterStepsAt
<1>4. pc[w] # "idle" /\ pc[w] # "reply"
  BY <1>3 DEF WriterAt, Generating, Recording
<1> QED BY <1>1, <1>2, <1>3, <1>4 DEF Known, OrderInv, Alone, SerialInv, Serial, Frame

LEMMA PreparingIsUnseen ==
  ASSUME Known, NEW w \in Worker, WriterStep(w),
         ~OpenObject(w), ~OpenObjectFails(w), ~WriteBody(w)
  PROVE  UNCHANGED Store!vars
<1>1. Untouched(w)
  BY WriterIsServedAlone, PreparingLeavesObjects DEF Known, OrderInv
<1>2. pc[w] \notin {"idle", "dispatch", "writeBody"} /\ pc'[w] \notin {"idle", "dispatch", "writeBody"}
  BY <1>1 DEF Untouched, WriterAt, Generating, Recording
<1>3. reply[w] = NoReply /\ reply' = reply /\ NoReply.status = 0
  BY <1>1, WriterIsServedAlone DEF Untouched, NoReply, Answer
<1>4. AnswerOf'[w] = AnswerOf[w]
  BY <1>2, <1>3 DEF AnswerOf
<1>5. AskedOf'[w] = AskedOf[w]
  <2>1. CASE req'[w] = req[w]
    BY <1>2, <1>3, <2>1 DEF AskedOf
  <2>2. CASE req[w].op = "post" /\ \E i \in Id : req'[w] = [req[w] EXCEPT !.id = i]
    <3>1. PICK i \in Id : req'[w] = [req[w] EXCEPT !.id = i]
      BY <2>2
    <3>2. req[w] \in Handled
      BY DEF Known, OrderInv, IInv, TypeOK
    <3>3. req'[w].op = "post" /\ [req'[w] EXCEPT !.id = None] = [req[w] EXCEPT !.id = None]
      BY <2>2, <3>1, <3>2 DEF Handled
    <3>4. AskedOf[w] = [req[w] EXCEPT !.id = None]
      BY <1>2, <1>3, <2>2 DEF AskedOf
    <3>5. AskedOf'[w] = [req'[w] EXCEPT !.id = None]
      BY <1>2, <1>3, <3>3 DEF AskedOf
    <3> QED BY <3>3, <3>4, <3>5
  <2> QED BY <1>1, <2>1, <2>2 DEF Untouched
<1>6. Stored' = Stored
  BY <1>1, <1>2, WriterIsServedAlone, NobodyWrites, NobodyWritesNext DEF Known, Untouched
<1>7. taken' = taken
  BY <1>1 DEF Untouched
<1> QED BY <1>4, <1>5, <1>6, <1>7, WriterIsServedAlone, NothingHappens DEF Known

LEMMA OpeningStores ==
  ASSUME Known, NEW w \in Worker, OpenObject(w)
  PROVE  Store!Post(w) \/ Store!Put(w)
<1> DEFINE f == FileOf(w)
           asks == IF req[w].op = "post" THEN [req[w] EXCEPT !.id = None] ELSE req[w]
<1>1. WriterStep(w)
  BY DEF WriterStep, WriteObject
<1>2. /\ pc[w] = "openObject" /\ pc' = [pc EXCEPT ![w] = "writeBody"]
      /\ object' = [object EXCEPT ![f] = Blank] /\ taken' = taken \cup {f}
      /\ fd' = [fd EXCEPT ![w] = "named"] /\ UNCHANGED <<req, existed, reply>>
  BY DEF OpenObject, Goto
<1>3. pc'[w] = "writeBody" /\ fd'[w] = "named" /\ req[w] \in Handled
  BY <1>2 DEF Known, OrderInv, IInv, TypeOK
<1>4. req[w].id \in Id /\ (req[w].op = "post" => f \notin taken)
  BY <1>2 DEF Known, InformedInv, Informed, WriterAt, Generating
<1>5. req[w].name \in Name
  BY <1>2 DEF Known, OrderInv, IInv, InControl, Naming, CallAt
<1>6. f \in File /\ req[w].name # None /\ req[w].id # None
  BY <1>4, <1>5, ConstantsOK DEF FileOf, File, Key
<1>7. \A v \in Worker : v # w => pc'[v] # "writeBody"
  BY <1>1, WriterIsServedAlone
<1>8. Stored = [g \in File |-> object[g]]
  BY <1>2, NobodyWrites DEF Known
<1>9. Stored' = [Stored EXCEPT ![f] = req[w].body]
  <2>1. PICK h : h = f
    OBVIOUS
  <2>2. FileOf(w)' = h
    BY <1>2, <2>1 DEF FileOf
  <2>3. OpenedBy(h)' = {w}
    BY <1>3, <1>7, <2>2 DEF OpenedBy
  <2>4. \A g : g # h => OpenedBy(g)' = {}
    BY <1>3, <1>7, <2>2 DEF OpenedBy
  <2>5. (CHOOSE v \in {w} : TRUE) = w
    OBVIOUS
  <2>6. Stored' = [g \in File |-> IF g = h THEN req[w].body ELSE object'[g]]
    BY <1>2, <2>3, <2>4, <2>5 DEF Stored
  <2>7. object \in [File -> Content \cup {None}]
    BY DEF Known, OrderInv, IInv, TypeOK
  <2> HIDE DEF f
  <2> QED BY <1>2, <1>6, <1>8, <2>1, <2>6, <2>7
<1>10. reply[w] = NoReply /\ Writes(req[w]) /\ NoReply.status = 0
  BY <1>1, WriterIsServedAlone DEF NoReply, Answer
<1>11. AskedOf[w] = asks /\ AskedOf'[w] = asks
  BY <1>2, <1>3, <1>10 DEF AskedOf
<1>12. AnswerOf[w] = NoReply /\ AnswerOf'[w] = WriteAnswer(w)
  BY <1>2, <1>3, <1>10 DEF AnswerOf, WriteAnswer
<1>13. ASSUME NEW s, NEW i, WriteAnswer(w) = Answer(s, i, None) PROVE Store!Reply(w, s, i, None)
  BY <1>1, <1>11, <1>12, <1>13, WriterIsServedAlone, Answers DEF Known
<1>14. CASE req[w].op = "post"
  <2>1. /\ AskedOf[w].op = "post" /\ AskedOf[w].name = req[w].name
        /\ AskedOf[w].id = None /\ AskedOf[w].body = req[w].body
    BY <1>3, <1>11, <1>14 DEF Handled
  <2>2. Store!Reply(w, 201, req[w].id, None)
    BY <1>13, <1>14 DEF WriteAnswer
  <2>3. <<AskedOf[w].name, req[w].id>> = f
    BY <2>1 DEF FileOf
  <2>4. Store!Post(w)
    BY <1>2, <1>4, <1>6, <1>9, <1>12, <1>14, <2>1, <2>2, <2>3 DEF Store!Post, Store!Asked
  <2> QED BY <2>4
<1>15. CASE req[w].op = "put"
  <2>1. AskedOf[w] = req[w] /\ Store!Named(w) = f
    BY <1>11, <1>15 DEF Store!Named, FileOf
  <2>2. existed[w] <=> Stored[f] # None
    BY <1>2, <1>6, <1>8, <1>15 DEF Known, SerialInv, Serial, WriterAt
  <2>3. IF Stored[f] = None THEN Store!Reply(w, 201, req[w].id, None)
                            ELSE Store!Reply(w, 200, None, None)
    BY <1>13, <1>15, <2>2 DEF WriteAnswer
  <2>4. Store!Put(w)
    BY <1>2, <1>6, <1>9, <1>12, <1>15, <2>1, <2>3 DEF Store!Put, Store!Asked
  <2> QED BY <2>4
<1> QED BY <1>10, <1>14, <1>15 DEF Writes

LEMMA WritingTheBodyIsUnseen ==
  ASSUME Known, NEW w \in Worker, WriteBody(w)
  PROVE  UNCHANGED Store!vars
<1> DEFINE f == FileOf(w)
<1>1. WriterStep(w)
  BY DEF WriterStep, WriteObject
<1>2. pc[w] = "writeBody" /\ fd[w] = "named" /\ object[f] = Blank
  BY DEF WriteBody, Known, SerialInv, Serial
<1>3. /\ pc' = [pc EXCEPT ![w] = "reply"] /\ reply' = [reply EXCEPT ![w] = WriteAnswer(w)]
      /\ object' = [object EXCEPT ![f] = Overlay(req[w].body, Blank)]
      /\ UNCHANGED <<req, existed, taken>>
  BY <1>2 DEF WriteBody, Finish, Goto
<1>4. Overlay(req[w].body, Blank) = req[w].body
  BY ConstantsOK DEF Overlay, Content
<1>5. f \in File
  BY <1>2 DEF Known, OrderInv, IInv, InControl, Naming, Writing, CallAt, FileOf, File
<1>6. pc'[w] = "reply" /\ reply'[w] = WriteAnswer(w) /\ object \in [File -> Content \cup {None}]
  BY <1>3 DEF Known, OrderInv, IInv, TypeOK
<1>7. reply[w] = NoReply /\ NoReply.status = 0 /\ WriteAnswer(w).status # 400
  BY <1>1, WriterIsServedAlone DEF NoReply, Answer, WriteAnswer
<1>8. AskedOf'[w] = AskedOf[w]
  BY <1>2, <1>3, <1>6, <1>7 DEF AskedOf
<1>9. AnswerOf'[w] = AnswerOf[w]
  BY <1>2, <1>6 DEF AnswerOf
<1>10. Stored' = [g \in File |-> object'[g]]
  BY <1>1, <1>6, WriterIsServedAlone, NobodyWritesNext DEF Known
<1>11. Stored = [g \in File |-> IF g = f THEN req[w].body ELSE object[g]]
  <2>1. \A v \in Worker : v # w => pc[v] # "writeBody"
    BY <1>1, WriterIsServedAlone
  <2>2. OpenedBy(f) = {w} /\ \A g : g # f => OpenedBy(g) = {}
    BY <1>2, <2>1 DEF OpenedBy
  <2>3. (CHOOSE v \in {w} : TRUE) = w
    OBVIOUS
  <2> HIDE DEF f
  <2> QED BY <2>2, <2>3 DEF Stored
<1>12. Stored' = Stored
  <2> HIDE DEF f
  <2> QED BY <1>3, <1>4, <1>5, <1>6, <1>10, <1>11
<1> QED BY <1>1, <1>3, <1>8, <1>9, <1>12, WriterIsServedAlone, NothingHappens DEF Known

LEMMA WritersStore ==
  ASSUME Known, NEW w \in Worker, WriterStep(w)
  PROVE  Store!Next \/ UNCHANGED Store!vars
<1>1. ~OpenObjectFails(w)
  BY DEF OpenObjectFails, Known, FilesAreOpened, OrderInv, BackedInv, Backed, DirectoryIsThere
<1>2. OpenObject(w) => Store!Next
  BY OpeningStores DEF Store!Next
<1> QED BY <1>1, <1>2, PreparingIsUnseen, WritingTheBodyIsUnseen

LEMMA StepsImplement ==
  ASSUME Undisturbed, Known, [Next]_vars
  PROVE  Store!Next \/ UNCHANGED Store!vars
<1> USE DEF Undisturbed
<1>1. ASSUME NEW w \in Worker, Receive(w) PROVE Store!Next
  BY <1>1, ReceiveCalls DEF Store!Next, Known, OrderInv
<1>2. CASE Crash \/ Restart
  BY <1>2 DEF Crash, Restart, Known, AliveInv
<1>3. CASE UNCHANGED vars
  BY <1>3 DEF vars, disk, call, Store!vars, Stored, OpenedBy, AskedOf, AnswerOf, WriteAnswer, FileOf
<1> QED BY <1>1, <1>2, <1>3, HandlersAnswer, WritersStore DEF Next, Step, WriterStep

LEMMA StartsEmpty == ASSUME Init PROVE Store!Init
<1>1. \A f : OpenedBy(f) = {}
  BY DEF Init, OpenedBy
<1>2. Stored = [f \in File |-> None]
  BY <1>1 DEF Init, Stored
<1>3. AskedOf = [w \in Worker |-> NoRequest] /\ AnswerOf = [w \in Worker |-> NoReply]
  BY DEF Init, AskedOf, AnswerOf, NoRequest
<1> QED BY <1>2, <1>3 DEF Init, Store!Init

LEMMA SerialInvariant == ASSUME Undisturbed PROVE Spec /\ []IdsLeft => []Known
<1>1. /\ OneWriter /\ DirectoriesAreMade /\ FilesAreOpened /\ "copyData" \notin CrashPoint
      /\ Word \notin PutId /\ CrashPoint = {}
  BY DEF Undisturbed, OneWriter, DirectoriesAreMade, FilesAreOpened
<1>2. Init => SerialInv
  BY DEF Init, SerialInv, Serial, WriterAt, Generating, Recording, NoReply, NoRequest, Answer
<1>3. Known <=> /\ FilesAreOpened /\ IInv /\ Alone /\ RewriteInv /\ BackedInv /\ AliveInv /\ RecordsInv
                /\ InformedInv /\ SerialInv
  BY DEF Known, OrderInv
<1>4. Known /\ [Next]_vars => SerialInv'
  BY StepStaysSerial
<1> QED BY <1>1, <1>2, <1>3, <1>4, Inductive, WritersAreAlone, RewritesInvariant, BackedInvariant,
           AliveInvariant, RecordsInvariant, PTL DEF Spec

\* One request at a time, the handlers and their files are the map of
\* EntityStore: a GET returns the body of the last POST or PUT of that id,
\* POST never gives out an id twice, and each answer tells what was done.
THEOREM SerialImplementsStore ==
  ASSUME Undisturbed
  PROVE  Spec /\ []IdsLeft => ImplementsStore
<1>1. Init => Store!Init
  BY StartsEmpty
<1>2. Known /\ [Next]_vars => [Store!Next]_Store!vars
  BY StepsImplement
<1> QED BY <1>1, <1>2, SerialInvariant, PTL DEF Spec, ImplementsStore, Store!Spec
==============================================================================
