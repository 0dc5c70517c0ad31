---------------------------- MODULE CrudStoreProofs ----------------------------
(***************************************************************************)
(* Proofs about CrudStore for every number of workers, names, ids, bodies, *)
(* crashes and failing calls.  TypeOK is not inductive: that a file an     *)
(* action reads exists, and that the id it writes is a number, depend on   *)
(* where the worker is.  InControl says so.                                *)
(***************************************************************************)
EXTENDS CrudStore, SequenceLemmas

Naming == CallAt \ {"idle", "dispatch", "reply"}

Generating == {"testMaxFile", "createMaxFile", "readMax"}

Recording == {"testEntityDir", "appendLine", "openTemp", "readLines", "closeTemp",
              "copyTemp", "copyData", "removeTemp"}

Writing == Recording \cup {"removeObject", "testDirectory", "makeDirectory", "openObject", "writeBody"}

\* What a worker has found out by the time it is at a call.
InControl(w) ==
  /\ pc[w] \in Naming => req[w].name \in Name
  /\ pc[w] \in Writing => req[w].id \in Key
  /\ pc[w] \in Generating => ret[w] = "post" \/ (ret[w] = "compare" /\ req[w].id \in Key)
  /\ pc[w] \in Recording => ret[w] = "makeDirectory" \/ (ret[w] = "openObject" /\ req[w].id \in Id)
  /\ pc[w] \in {"readLines", "copyData"} => maxFile # None
  /\ pc[w] \in {"readLines", "closeTemp"} /\ fd[w] = "named" => temp # None
  /\ pc[w] = "copyData" /\ source[w].unnamed = None => temp # None

IInv == TypeOK /\ \A w \in Worker : InControl(w)

------------------------------------------------------------------------------
\* Least elements, ids and lines.

\* Min, by which the first line of a name is found, is an element.
LEMMA MinIsLeast ==
  ASSUME NEW S \in SUBSET Nat, S # {}
  PROVE  Min(S) \in S /\ \A y \in S : Min(S) <= y
BY HasLeast DEF Min

LEMMA LinesAreFunctions ==
  ASSUME NEW f \in Lines
  PROVE  Len(f) \in Nat /\ f \in [1..Len(f) -> [name : Name, max : Id]]
<1> DEFINE S == [name : Name, max : Id]
<1>1. f \in Seq(S)
  BY DEF Lines
<1> HIDE DEF S
<1>2. Len(f) \in Nat /\ f \in [1..Len(f) -> S]
  BY <1>1, LenProperties
<1> QED BY <1>2 DEF S

\* Every id that generateEntityId returns is a number below IdSpace.
LEMMA NextIdTyped ==
  ASSUME NEW f \in Lines, NEW n \in Name
  PROVE  NextId(f, n) \in Id
<1>1. IdSpace \in Nat /\ IdSpace > 2
  BY ConstantsOK
<1>2. CASE LinesOf(f, n) = {}
  BY <1>1, <1>2 DEF NextId, Id
<1>3. CASE LinesOf(f, n) # {}
  <2> DEFINE i == Min(LinesOf(f, n))
  <2>1. Len(f) \in Nat /\ f \in [1..Len(f) -> [name : Name, max : Id]]
    BY LinesAreFunctions
  <2>2. LinesOf(f, n) \in SUBSET Nat
    BY <2>1 DEF LinesOf
  <2>3. i \in LinesOf(f, n)
    BY <1>3, <2>2, MinIsLeast
  <2>4. f[i].max \in Id
    BY <2>1, <2>3 DEF LinesOf
  <2>5. (f[i].max + 1) % IdSpace \in 0..IdSpace - 1
    BY <1>1, <2>4 DEF Id
  <2> QED BY <1>3, <2>5 DEF NextId, Id
<1> QED BY <1>2, <1>3

\* What generateEntityId returns is an id, whether it can open its file or not.
LEMMA GeneratedTyped ==
  ASSUME maxFile \in Lines \cup {None}, NEW n \in Name
  PROVE  Generated(n) \subseteq Id
<1>1. 1 \in Id
  BY ConstantsOK DEF Id
<1>2. ASSUME NEW f \in {maxFile} \ {None} PROVE NextId(f, n) \in Id
  BY NextIdTyped
<1> QED BY <1>1, <1>2 DEF Generated

\* Writing over lines, adding and replacing lines gives lines.
LEMMA OverlayLinesTyped ==
  ASSUME NEW f \in Lines, NEW g \in Lines
  PROVE  OverlayLines(f, g) \in Lines
<1> DEFINE S == [name : Name, max : Id]
<1>1. f \in Seq(S) /\ g \in Seq(S)
  BY DEF Lines
<1> HIDE DEF S
<1>2. SubSeq(g, Len(f) + 1, Len(g)) \in Seq(S)
  BY <1>1, LenProperties, SubSeqProperties
<1>3. OverlayLines(f, g) \in Seq(S)
  BY <1>1, <1>2, ConcatProperties DEF OverlayLines
<1> QED BY <1>3 DEF Lines, S

LEMMA FirstLinesTyped ==
  ASSUME NEW f \in Lines, NEW n \in Nat, n <= Len(f)
  PROVE  SubSeq(f, 1, n) \in Lines
<1> DEFINE S == [name : Name, max : Id]
<1>1. f \in Seq(S)
  BY DEF Lines
<1> HIDE DEF S
<1>2. SubSeq(f, 1, n) \in Seq(S)
  BY <1>1, LenProperties, SubSeqProperties
<1> QED BY <1>2 DEF Lines, S

LEMMA AppendLineTyped ==
  ASSUME NEW f \in Lines, NEW n \in Name, NEW m \in Id
  PROVE  Append(f, Line(n, m)) \in Lines
<1> DEFINE S == [name : Name, max : Id]
<1>1. f \in Seq(S)
  BY DEF Lines
<1>2. Line(n, m) \in S
  BY DEF Line
<1> HIDE DEF S
<1>3. Append(f, Line(n, m)) \in Seq(S)
  BY <1>1, <1>2, AppendProperties
<1> QED BY <1>3 DEF Lines, S

LEMMA ReplacedTyped ==
  ASSUME NEW f \in Lines, NEW n \in Name, NEW m \in Id
  PROVE  Replaced(f, n, m) \in Lines
<1> DEFINE S == [name : Name, max : Id]
<1>1. Len(f) \in Nat /\ f \in [1..Len(f) -> S]
  BY LinesAreFunctions
<1>2. Line(n, m) \in S
  BY DEF Line
<1> HIDE DEF S
<1>3. Replaced(f, n, m) \in [1..Len(f) -> S]
  BY <1>1, <1>2 DEF Replaced
<1>4. Replaced(f, n, m) \in Seq(S)
  BY <1>1, <1>3
<1> QED BY <1>4 DEF Lines, S

------------------------------------------------------------------------------
\* Each action keeps IInv.

LEMMA EmptyTyped == <<>> \in Lines /\ \A f \in Lines : f # None
  BY ConstantsOK DEF Lines

LEMMA MaxIdTyped ==
  ASSUME IInv, NEW w \in Worker, pc[w] \in Recording
  PROVE  MaxId(w) \in Id /\ req[w].name \in Name
<1>1. 1 \in Id
  BY ConstantsOK DEF Id
<1>2. pc[w] \in Naming
  BY DEF Recording, Naming, CallAt
<1> QED BY <1>1, <1>2 DEF IInv, InControl, MaxId

LEMMA ReceiveKeeps == ASSUME IInv, NEW w \in Worker, Receive(w) PROVE IInv'
<1>0. Request \subseteq Handled
  BY ConstantsOK DEF Request, Handled
<1>1. TypeOK'
  BY <1>0 DEF IInv, TypeOK, InControl, Receive, Goto, Request, Handled, disk, CallAt
<1>2. \A v \in Worker : InControl(v)'
  BY DEF IInv, TypeOK, InControl, Receive, Goto, disk, CallAt, Naming, Writing, Generating, Recording
<1> QED BY <1>1, <1>2 DEF IInv

LEMMA BadRequestKeeps == ASSUME IInv, NEW w \in Worker, BadRequest(w) PROVE IInv'
<1>1. TypeOK'
  BY DEF IInv, TypeOK, InControl, BadRequest, Finish, Goto, Answer, Reply, disk, bounds, CallAt
<1>2. \A v \in Worker : InControl(v)'
  BY DEF IInv, TypeOK, InControl, BadRequest, Finish, Goto, disk, CallAt, Naming, Writing, Generating, Recording
<1> QED BY <1>1, <1>2 DEF IInv

LEMMA HandlePostKeeps == ASSUME IInv, NEW w \in Worker, HandlePost(w) PROVE IInv'
<1>1. TypeOK'
  BY DEF IInv, TypeOK, InControl, HandlePost, Dispatched, GotoCall, Goto, disk, call, bounds, CallAt
<1>2. \A v \in Worker : InControl(v)'
  BY DEF IInv, TypeOK, InControl, HandlePost, Dispatched, Rejected, GotoCall, Goto, disk, call, Handled, CallAt, Naming, Writing, Generating, Recording
<1> QED BY <1>1, <1>2 DEF IInv

LEMMA FinishTyped ==
  ASSUME IInv, NEW w \in Worker, NEW a \in Reply, Finish(w, a)
  PROVE  pc' \in [Worker -> CallAt] /\ reply' \in [Worker -> Reply]
BY DEF IInv, TypeOK, Finish, Goto, CallAt

LEMMA HandleGetKeeps == ASSUME IInv, NEW w \in Worker, HandleGet(w) PROVE IInv'
<1>0. PICK a \in Reply : Finish(w, a)
  <2>1. FileOf(w) \in File
    BY DEF IInv, TypeOK, HandleGet, Dispatched, Rejected, FileOf, File, Handled
  <2>2. object[FileOf(w)] # None => Answer(200, None, object[FileOf(w)]) \in Reply
    BY <2>1 DEF IInv, TypeOK, Answer, Reply
  <2>3. Answer(404, None, None) \in Reply
    BY DEF Answer, Reply
  <2> QED BY <2>2, <2>3 DEF HandleGet
<1>3. pc' \in [Worker -> CallAt] /\ reply' \in [Worker -> Reply]
  BY <1>0, FinishTyped
<1>1. TypeOK'
  BY <1>3 DEF IInv, TypeOK, HandleGet, disk, bounds
<1>2. \A v \in Worker : InControl(v)'
  BY DEF IInv, TypeOK, InControl, HandleGet, Finish, Goto, disk, CallAt, Naming, Writing, Generating, Recording
<1> QED BY <1>1, <1>2 DEF IInv

LEMMA HandleListKeeps == ASSUME IInv, NEW w \in Worker, HandleList(w) PROVE IInv'
<1>0. PICK a \in Reply : Finish(w, a)
  <2>1. ASSUME NEW names \in SUBSET Key PROVE Answer(200, None, names) \in Reply
    BY DEF Answer, Reply
  <2> QED BY <2>1 DEF HandleList
<1>3. pc' \in [Worker -> CallAt] /\ reply' \in [Worker -> Reply]
  BY <1>0, FinishTyped
<1>1. TypeOK'
  BY <1>3 DEF IInv, TypeOK, HandleList, disk, bounds
<1>2. \A v \in Worker : InControl(v)'
  BY DEF IInv, TypeOK, InControl, HandleList, Finish, Goto, disk, CallAt, Naming, Writing, Generating, Recording
<1> QED BY <1>1, <1>2 DEF IInv

LEMMA HandlePutKeeps == ASSUME IInv, NEW w \in Worker, HandlePut(w) PROVE IInv'
<1>1. TypeOK'
  BY DEF IInv, TypeOK, InControl, HandlePut, Dispatched, Goto, disk, bounds, CallAt
<1>2. \A v \in Worker : InControl(v)'
  BY DEF IInv, TypeOK, InControl, HandlePut, Dispatched, Rejected, Goto, Handled, disk, CallAt, Naming, Writing, Generating, Recording
<1> QED BY <1>1, <1>2 DEF IInv

LEMMA HandleDeleteKeeps == ASSUME IInv, NEW w \in Worker, HandleDelete(w) PROVE IInv'
<1>0. Answer(204, None, None) \in Reply
  BY DEF Answer, Reply
<1>1. TypeOK'
  <2>1. pc' \in [Worker -> CallAt]
    BY DEF IInv, TypeOK, HandleDelete, Finish, Goto, CallAt
  <2>2. reply' \in [Worker -> Reply]
    BY <1>0 DEF IInv, TypeOK, HandleDelete, Finish
  <2> QED BY <2>1, <2>2 DEF IInv, TypeOK, HandleDelete, disk, bounds
<1>2. \A v \in Worker : InControl(v)'
  BY DEF IInv, TypeOK, InControl, HandleDelete, Dispatched, Rejected, Finish, Goto, Handled, disk, CallAt, Naming, Writing, Generating, Recording
<1> QED BY <1>1, <1>2 DEF IInv

LEMMA RemoveObjectKeeps == ASSUME IInv, NEW w \in Worker, RemoveObject(w) PROVE IInv'
<1>1. TypeOK'
  <2>1. pc' \in [Worker -> CallAt]
    BY DEF IInv, TypeOK, RemoveObject, Finish, Goto, CallAt
  <2>2. reply' \in [Worker -> Reply]
    BY DEF IInv, TypeOK, RemoveObject, Finish, Answer, Reply
  <2>3. object' \in [File -> Content \cup {None}]
    BY DEF IInv, TypeOK, RemoveObject
  <2>4. fd' \in [Worker -> {"closed", "named", "unnamed"}]
    BY DEF IInv, TypeOK, RemoveObject
  <2> QED BY <2>1, <2>2, <2>3, <2>4 DEF IInv, TypeOK, RemoveObject, bounds
<1>2. \A v \in Worker : InControl(v)'
  BY DEF IInv, TypeOK, InControl, RemoveObject, Finish, Goto, CallAt, Naming, Writing, Generating, Recording
<1> QED BY <1>1, <1>2 DEF IInv

LEMMA RespondKeeps == ASSUME IInv, NEW w \in Worker, Respond(w) PROVE IInv'
<1>1. TypeOK'
  BY DEF IInv, TypeOK, InControl, Respond, GotoCall, Goto, NoRequest, NoReply, Answer, Reply, Handled, disk, bounds, CallAt
<1>2. \A v \in Worker : InControl(v)'
  BY DEF IInv, TypeOK, InControl, Respond, GotoCall, Goto, disk, CallAt, Naming, Writing, Generating, Recording
<1> QED BY <1>1, <1>2 DEF IInv

LEMMA TestMaxFileKeeps == ASSUME IInv, NEW w \in Worker, TestMaxFile(w) PROVE IInv'
<1>1. TypeOK'
  BY DEF IInv, TypeOK, InControl, TestMaxFile, Goto, disk, bounds, CallAt
<1>2. \A v \in Worker : InControl(v)'
  BY DEF IInv, TypeOK, InControl, TestMaxFile, Goto, disk, CallAt, Naming, Writing, Generating, Recording
<1> QED BY <1>1, <1>2 DEF IInv

LEMMA CreateMaxFileKeeps == ASSUME IInv, NEW w \in Worker, CreateMaxFile(w) PROVE IInv'
<1>1. TypeOK'
  BY EmptyTyped DEF IInv, TypeOK, InControl, CreateMaxFile, Goto, call, bounds, CallAt
<1>2. \A v \in Worker : InControl(v)'
  BY EmptyTyped DEF IInv, TypeOK, InControl, CreateMaxFile, Goto, call, CallAt, Naming, Writing, Generating, Recording
<1> QED BY <1>1, <1>2 DEF IInv

LEMMA ReadMaxForPostKeeps == ASSUME IInv, NEW w \in Worker, ReadMaxForPost(w) PROVE IInv'
<1>0. PICK i \in Generated(req[w].name) : req' = [req EXCEPT ![w].id = i]
  BY DEF ReadMaxForPost
<1>4. i \in Key
  <2>1. maxFile \in Lines \cup {None} /\ req[w].name \in Name
    BY DEF IInv, TypeOK, InControl, ReadMaxForPost, Naming, CallAt
  <2> QED BY <2>1, GeneratedTyped DEF Key
<1>3. req' \in [Worker -> Handled]
  <2>1. req \in [Worker -> Handled]
    BY DEF IInv, TypeOK
  <2>2. [req[w] EXCEPT !.id = i] \in Handled
    BY <1>4, <2>1 DEF Handled
  <2> QED BY <1>0, <2>1, <2>2
<1>1. TypeOK'
  BY <1>3 DEF IInv, TypeOK, InControl, ReadMaxForPost, Goto, disk, bounds, CallAt
<1>5. \A v \in Worker : v # w => InControl(v)'
  BY <1>0 DEF IInv, TypeOK, InControl, ReadMaxForPost, Goto, disk
<1>6. pc'[w] = "testDirectory" /\ req'[w].name = req[w].name /\ req'[w].id = i
  BY <1>0 DEF IInv, TypeOK, ReadMaxForPost, Goto, Handled
<1>7. req[w].name \in Name
  BY DEF IInv, InControl, ReadMaxForPost, Naming, CallAt
<1>2. InControl(w)'
  BY <1>4, <1>6, <1>7 DEF InControl, Writing, Generating, Recording
<1> QED BY <1>1, <1>2, <1>5 DEF IInv

LEMMA ReadMaxToCompareKeeps == ASSUME IInv, NEW w \in Worker, ReadMaxToCompare(w) PROVE IInv'
<1>1. TypeOK'
  BY DEF IInv, TypeOK, InControl, ReadMaxToCompare, GotoCall, Goto, disk, bounds, CallAt, Naming, Writing, Generating, Recording
<1>2. \A v \in Worker : InControl(v)'
  BY DEF IInv, TypeOK, InControl, ReadMaxToCompare, GotoCall, Goto, Key, disk, CallAt, Naming, Writing, Generating, Recording
<1> QED BY <1>1, <1>2 DEF IInv

LEMMA TestDirectoryKeeps == ASSUME IInv, NEW w \in Worker, TestDirectory(w) PROVE IInv'
<1>1. TypeOK'
  BY DEF IInv, TypeOK, InControl, TestDirectory, GotoCall, Goto, disk, call, bounds, CallAt
<1>2. \A v \in Worker : InControl(v)'
  BY DEF IInv, TypeOK, InControl, TestDirectory, GotoCall, Goto, disk, call, CallAt, Naming, Writing, Generating, Recording
<1> QED BY <1>1, <1>2 DEF IInv

LEMMA MakeDirectoryKeeps == ASSUME IInv, NEW w \in Worker, MakeDirectory(w) PROVE IInv'
<1>1. TypeOK'
  BY DEF IInv, TypeOK, InControl, MakeDirectory, GotoCall, Goto, call, bounds, CallAt, Naming, Writing, Generating, Recording
<1>2. \A v \in Worker : InControl(v)'
  BY DEF IInv, TypeOK, InControl, MakeDirectory, GotoCall, Goto, call, CallAt, Naming, Writing, Generating, Recording
<1> QED BY <1>1, <1>2 DEF IInv

LEMMA OpenObjectKeeps == ASSUME IInv, NEW w \in Worker, OpenObject(w) PROVE IInv'
<1>1. TypeOK'
  BY DEF IInv, TypeOK, InControl, OpenObject, Goto, FileOf, File, Content, bounds, CallAt, Naming, Writing, Generating, Recording
<1>2. \A v \in Worker : InControl(v)'
  BY DEF IInv, TypeOK, InControl, OpenObject, Goto, CallAt, Naming, Writing, Generating, Recording
<1> QED BY <1>1, <1>2 DEF IInv

LEMMA OpenObjectFailsKeeps == ASSUME IInv, NEW w \in Worker, OpenObjectFails(w) PROVE IInv'
<1>1. TypeOK'
  BY DEF IInv, TypeOK, InControl, OpenObjectFails, Finish, Goto, WriteAnswer, Answer, Reply, disk, bounds, CallAt, Naming, Writing, Generating, Recording
<1>2. \A v \in Worker : InControl(v)'
  BY DEF IInv, TypeOK, InControl, OpenObjectFails, Finish, Goto, disk, CallAt, Naming, Writing, Generating, Recording
<1> QED BY <1>1, <1>2 DEF IInv

LEMMA WriteBodyKeeps == ASSUME IInv, NEW w \in Worker, WriteBody(w) PROVE IInv'
<1>0. fd[w] = "named" => Overlay(req[w].body, object[FileOf(w)]) \in Content /\ FileOf(w) \in File
  BY DEF IInv, TypeOK, InControl, WriteBody, Overlay, Content, Handled, FileOf, File, Naming, Writing, CallAt
<1>8. WriteAnswer(w) \in Reply
  BY DEF IInv, TypeOK, WriteAnswer, Answer, Reply, Handled
<1>1. TypeOK'
  BY <1>0, <1>8 DEF IInv, TypeOK, InControl, WriteBody, Finish, Goto, bounds, CallAt, Naming, Writing, Generating, Recording
<1>2. \A v \in Worker : InControl(v)'
  BY DEF IInv, TypeOK, InControl, WriteBody, Finish, Goto, CallAt, Naming, Writing, Generating, Recording
<1> QED BY <1>1, <1>2 DEF IInv

LEMMA TestEntityDirKeeps == ASSUME IInv, NEW w \in Worker, TestEntityDir(w) PROVE IInv'
<1>1. TypeOK'
  BY DEF IInv, TypeOK, InControl, TestEntityDir, Goto, disk, bounds, CallAt
<1>2. \A v \in Worker : InControl(v)'
  BY DEF IInv, TypeOK, InControl, TestEntityDir, Goto, disk, CallAt, Naming, Writing, Generating, Recording
<1> QED BY <1>1, <1>2 DEF IInv

LEMMA AppendLineKeeps == ASSUME IInv, NEW w \in Worker, AppendLine(w) PROVE IInv'
<1>0. maxFile' \in Lines
  <2>1. MaxId(w) \in Id /\ req[w].name \in Name
    BY MaxIdTyped DEF AppendLine, Recording
  <2>2. ASSUME NEW f \in Lines PROVE Append(f, Line(req[w].name, MaxId(w))) \in Lines
    BY <2>1, AppendLineTyped
  <2>3. (IF maxFile = None THEN <<>> ELSE maxFile) \in Lines
    BY EmptyTyped DEF IInv, TypeOK
  <2> QED BY <2>2, <2>3 DEF AppendLine
<1>1. TypeOK'
  BY <1>0 DEF IInv, TypeOK, InControl, AppendLine, Return, Goto, bounds, CallAt, Naming, Writing, Generating, Recording
<1>2. maxFile # None => maxFile' # None
  BY <1>0, EmptyTyped DEF AppendLine
<1>3. \A v \in Worker : v # w => InControl(v)'
  BY <1>2 DEF IInv, TypeOK, InControl, AppendLine, Return, Goto
<1>4. InControl(w)'
  BY <1>2 DEF IInv, TypeOK, InControl, AppendLine, Return, Goto, CallAt, Naming, Writing, Generating, Recording
<1> QED BY <1>1, <1>3, <1>4 DEF IInv

LEMMA ReturnTyped ==
  ASSUME IInv, NEW w \in Worker, pc[w] \in Recording, Return(w)
  PROVE  pc' \in [Worker -> CallAt] /\ locked' \in [Worker -> BOOLEAN]
<1>1. ret[w] \in CallAt
  BY DEF IInv, InControl, CallAt
<1> QED BY <1>1 DEF IInv, TypeOK, Return, Goto

LEMMA AppendLineFailsKeeps == ASSUME IInv, NEW w \in Worker, AppendLineFails(w) PROVE IInv'
<1>1. pc' \in [Worker -> CallAt] /\ locked' \in [Worker -> BOOLEAN]
  BY ReturnTyped DEF AppendLineFails, Recording
<1>2. TypeOK'
  BY <1>1 DEF IInv, TypeOK, AppendLineFails, disk, bounds
<1>3. \A v \in Worker : InControl(v)'
  BY DEF IInv, TypeOK, InControl, AppendLineFails, Return, Goto, disk, CallAt, Naming, Writing, Generating, Recording
<1> QED BY <1>2, <1>3 DEF IInv

LEMMA OpenTempKeeps == ASSUME IInv, NEW w \in Worker, OpenTemp(w) PROVE IInv'
<1>1. TypeOK'
  BY EmptyTyped DEF IInv, TypeOK, OpenTemp, Goto, bounds, CallAt
<1>2. \A v \in Worker : InControl(v)'
  BY EmptyTyped DEF IInv, TypeOK, InControl, OpenTemp, Goto, CallAt, Naming, Writing, Generating, Recording
<1> QED BY <1>1, <1>2 DEF IInv

LEMMA OpenTempFailsKeeps == ASSUME IInv, NEW w \in Worker, OpenTempFails(w) PROVE IInv'
<1>1. pc' \in [Worker -> CallAt] /\ locked' \in [Worker -> BOOLEAN]
  BY ReturnTyped DEF OpenTempFails, Recording
<1>2. TypeOK'
  BY <1>1, EmptyTyped DEF IInv, TypeOK, OpenTempFails, bounds
<1>3. temp # None => temp' # None
  BY EmptyTyped DEF OpenTempFails
<1>4. \A v \in Worker : v # w => InControl(v)'
  BY <1>3 DEF IInv, TypeOK, InControl, OpenTempFails, Return, Goto
<1>5. InControl(w)'
  BY <1>3 DEF IInv, TypeOK, InControl, OpenTempFails, Return, Goto, CallAt, Naming, Writing, Generating, Recording
<1> QED BY <1>2, <1>4, <1>5 DEF IInv

LEMMA ReadLinesKeeps == ASSUME IInv, NEW w \in Worker, ReadLines(w) PROVE IInv'
<1>0. Replaced(maxFile, req[w].name, MaxId(w)) \in Lines
  <2>1. MaxId(w) \in Id /\ req[w].name \in Name
    BY MaxIdTyped DEF ReadLines, Recording
  <2>2. maxFile \in Lines
    BY DEF IInv, TypeOK, InControl, ReadLines
  <2> QED BY <2>1, <2>2, ReplacedTyped
<1>1. TypeOK'
  BY <1>0 DEF IInv, TypeOK, InControl, ReadLines, Goto, disk, bounds, CallAt
<1>2. \A v \in Worker : InControl(v)'
  BY DEF IInv, TypeOK, InControl, ReadLines, Goto, disk, CallAt, Naming, Writing, Generating, Recording
<1> QED BY <1>1, <1>2 DEF IInv

LEMMA CloseTempKeeps == ASSUME IInv, NEW w \in Worker, CloseTemp(w) PROVE IInv'
<1>0. fd[w] = "named" => OverlayLines(lines[w], temp) \in Lines
  <2> SUFFICES ASSUME fd[w] = "named" PROVE OverlayLines(lines[w], temp) \in Lines
    OBVIOUS
  <2>1. lines[w] \in Lines /\ temp \in Lines
    BY DEF IInv, TypeOK, InControl, CloseTemp
  <2> QED BY <2>1, OverlayLinesTyped
<1>1. TypeOK'
  BY <1>0, EmptyTyped DEF IInv, TypeOK, InControl, CloseTemp, Goto, bounds, CallAt
<1>2. \A v \in Worker : InControl(v)'
  BY <1>0, EmptyTyped DEF IInv, TypeOK, InControl, CloseTemp, Goto, CallAt, Naming, Writing, Generating, Recording
<1> QED BY <1>1, <1>2 DEF IInv

LEMMA CopyTempKeeps == ASSUME IInv, NEW w \in Worker, CopyTemp(w) PROVE IInv'
<1>0. Len(temp) \in Nat
  <2>1. temp \in Lines
    BY DEF IInv, TypeOK, CopyTemp
  <2> QED BY <2>1, LinesAreFunctions
<1>1. TypeOK'
  BY <1>0, EmptyTyped DEF IInv, TypeOK, InControl, CopyTemp, Goto, bounds, CallAt
<1>2. \A v \in Worker : InControl(v)'
  BY <1>0, EmptyTyped DEF IInv, TypeOK, InControl, CopyTemp, Goto, CallAt, Naming, Writing, Generating, Recording
<1> QED BY <1>1, <1>2 DEF IInv

LEMMA CopyDataKeeps == ASSUME IInv, NEW w \in Worker, CopyData(w) PROVE IInv'
<1>0. maxFile' \in Lines
  <2>1. maxFile \in Lines /\ SourceOf(w) \in Lines /\ source[w].count \in Nat
    BY DEF IInv, TypeOK, InControl, CopyData, SourceOf
  <2>2. SubSeq(SourceOf(w), 1, source[w].count) \in Lines
    BY <2>1, FirstLinesTyped, LinesAreFunctions DEF CopyData
  <2>3. OverlayLines(SubSeq(SourceOf(w), 1, source[w].count), maxFile) \in Lines
    BY <2>1, <2>2, OverlayLinesTyped
  <2> QED BY <2>3 DEF CopyData
<1>1. TypeOK'
  BY <1>0 DEF IInv, TypeOK, InControl, CopyData, Goto, NoSource, bounds, CallAt
<1>2. \A v \in Worker : InControl(v)'
  BY <1>0, EmptyTyped DEF IInv, TypeOK, InControl, CopyData, Goto, CallAt, Naming, Writing, Generating, Recording
<1> QED BY <1>1, <1>2 DEF IInv

LEMMA RemoveTempKeeps == ASSUME IInv, NEW w \in Worker, RemoveTemp(w) PROVE IInv'
<1>1. TypeOK'
  <2>1. pc' \in [Worker -> CallAt] /\ locked' \in [Worker -> BOOLEAN]
    BY ReturnTyped DEF RemoveTemp, Recording
  <2>2. fd' \in [Worker -> {"closed", "named", "unnamed"}]
    BY DEF IInv, TypeOK, RemoveTemp
  <2>3. source' \in [Worker -> [count : Nat, unnamed : Lines \cup {None}]]
    BY DEF IInv, TypeOK, RemoveTemp
  <2> QED BY <2>1, <2>2, <2>3 DEF IInv, TypeOK, RemoveTemp, bounds
<1>2. \A v \in Worker : InControl(v)'
  BY DEF IInv, TypeOK, InControl, RemoveTemp, Return, Goto, CallAt, Naming, Writing, Generating, Recording
<1> QED BY <1>1, <1>2 DEF IInv

\* Whenever the process ends, whatever it leaves in maxEntityIds is lines.
LEMMA HaltKeeps ==
  ASSUME IInv, Halt, maxFile' \in Lines \cup {None}, UNCHANGED <<temp, dirs, object>>
  PROVE  IInv'
<1>1. NoRequest \in Handled
  <2>1. (CHOOSE b \in Body : TRUE) \in Body
    BY ConstantsOK
  <2> QED BY <2>1 DEF NoRequest, Handled
<1>2. NoReply \in Reply
  BY DEF NoReply, Answer, Reply
<1>3. NoSource \in [count : Nat, unnamed : Lines \cup {None}]
  BY DEF NoSource
<1>4. TypeOK'
  BY <1>1, <1>2, <1>3, EmptyTyped DEF IInv, TypeOK, Halt, CallAt, bounds
<1>5. \A v \in Worker : InControl(v)'
  BY DEF InControl, Halt, CallAt, Naming, Writing, Generating, Recording
<1> QED BY <1>4, <1>5 DEF IInv

LEMMA NotANumberKeeps == ASSUME IInv, NEW w \in Worker, NotANumber(w) PROVE IInv'
<1> QED BY HaltKeeps DEF NotANumber, IInv, TypeOK, disk

\* The exception of copy_file, caught or not.
LEMMA CopyThrowsKeeps ==
  ASSUME IInv, NEW w \in Worker, pc[w] \in Recording, CopyThrows(w),
         maxFile' \in Lines \cup {None}, maxFile # None => maxFile' # None,
         UNCHANGED <<temp, dirs, object>>
  PROVE  IInv'
<1>1. CASE Halt
  BY <1>1, HaltKeeps
<1>2. CASE ~Halt
  <2>1. NoSource \in [count : Nat, unnamed : Lines \cup {None}]
    BY DEF NoSource
  <2>2. /\ source' = [source EXCEPT ![w] = NoSource]
        /\ pc' = [pc EXCEPT ![w] = "testMaxFile"] /\ ret' = [ret EXCEPT ![w] = "compare"]
        /\ UNCHANGED <<up, req, existed, locked, fd, lines, reply, taken, served, restarts>>
    BY <1>2 DEF CopyThrows, GotoCall, Goto, bounds
  <2>3. TypeOK'
    BY <2>1, <2>2 DEF IInv, TypeOK, CallAt
  <2>4. \A v \in Worker : v # w => InControl(v)'
    BY <2>2 DEF IInv, TypeOK, InControl
  <2>5. InControl(w)'
    BY <2>2 DEF IInv, TypeOK, InControl, Naming, Writing, Generating, Recording
  <2> QED BY <2>3, <2>4, <2>5 DEF IInv
<1> QED BY <1>1, <1>2

LEMMA TempIsGoneKeeps == ASSUME IInv, NEW w \in Worker, TempIsGone(w) PROVE IInv'
<1> QED BY CopyThrowsKeeps DEF TempIsGone, IInv, TypeOK, disk, Recording

LEMMA SourceShrankKeeps == ASSUME IInv, NEW w \in Worker, SourceShrank(w) PROVE IInv'
<1>1. maxFile \in Lines /\ SourceOf(w) \in Lines
  BY DEF IInv, TypeOK, InControl, SourceShrank, SourceOf
<1>2. OverlayLines(SourceOf(w), maxFile) \in Lines
  BY <1>1, OverlayLinesTyped
<1>3. maxFile' \in Lines /\ maxFile' # None
  BY <1>2, EmptyTyped DEF SourceShrank
<1> QED BY <1>3, CopyThrowsKeeps DEF SourceShrank, Recording

LEMMA CrashKeeps == ASSUME IInv, Crash PROVE IInv'
<1> QED BY HaltKeeps DEF Crash, IInv, TypeOK, disk

LEMMA RestartKeeps == ASSUME IInv, Restart PROVE IInv'
<1>1. TypeOK'
  BY DEF IInv, TypeOK, Restart, disk, call
<1>2. \A v \in Worker : InControl(v)'
  BY DEF IInv, InControl, Restart, disk, call
<1> QED BY <1>1, <1>2 DEF IInv

LEMMA StutterKeeps == ASSUME IInv, UNCHANGED vars PROVE IInv'
<1>1. TypeOK'
  BY DEF IInv, TypeOK, vars, disk, call, bounds
<1>2. \A v \in Worker : InControl(v)'
  BY DEF IInv, InControl, vars, disk, call, bounds
<1> QED BY <1>1, <1>2 DEF IInv

LEMMA InitIInv == ASSUME Init PROVE IInv
<1>1. NoRequest \in Handled
  <2>1. (CHOOSE b \in Body : TRUE) \in Body
    BY ConstantsOK
  <2> QED BY <2>1 DEF NoRequest, Handled
<1>2. NoReply \in Reply
  BY DEF NoReply, Answer, Reply
<1>3. NoSource \in [count : Nat, unnamed : Lines \cup {None}]
  BY DEF NoSource
<1>4. TypeOK
  BY <1>1, <1>2, <1>3, EmptyTyped DEF Init, TypeOK, CallAt
<1>5. \A v \in Worker : InControl(v)
  BY DEF Init, InControl, CallAt, Naming, Writing, Generating, Recording
<1> QED BY <1>4, <1>5 DEF IInv

LEMMA NextKeepsIInv == IInv /\ [Next]_vars => IInv'
<1> SUFFICES ASSUME IInv, [Next]_vars PROVE IInv'
  OBVIOUS
<1>1. ASSUME NEW w \in Worker, Receive(w) \/ HandleRequest(w) PROVE IInv'
  BY <1>1, ReceiveKeeps, BadRequestKeeps, HandlePostKeeps, HandleGetKeeps, HandleListKeeps,
     HandlePutKeeps, HandleDeleteKeeps, RemoveObjectKeeps, RespondKeeps DEF HandleRequest
<1>2. ASSUME NEW w \in Worker, GenerateEntityId(w) PROVE IInv'
  BY <1>2, TestMaxFileKeeps, CreateMaxFileKeeps, ReadMaxForPostKeeps, ReadMaxToCompareKeeps,
     NotANumberKeeps DEF GenerateEntityId
<1>3. ASSUME NEW w \in Worker, WriteObject(w) PROVE IInv'
  BY <1>3, TestDirectoryKeeps, MakeDirectoryKeeps, OpenObjectKeeps, OpenObjectFailsKeeps,
     WriteBodyKeeps DEF WriteObject
<1>4. ASSUME NEW w \in Worker, WriteEntityId(w) PROVE IInv'
  BY <1>4, TestEntityDirKeeps, AppendLineKeeps, AppendLineFailsKeeps, OpenTempKeeps,
     OpenTempFailsKeeps, ReadLinesKeeps, CloseTempKeeps,
     CopyTempKeeps, TempIsGoneKeeps, CopyDataKeeps, SourceShrankKeeps, RemoveTempKeeps
     DEF WriteEntityId
<1>5. CASE UNCHANGED vars
  BY <1>5, StutterKeeps
<1>6. CASE Next
  BY <1>1, <1>2, <1>3, <1>4, <1>6, CrashKeeps, RestartKeeps DEF Next, Step
<1> QED BY <1>5, <1>6

\* The strengthening of TypeOK holds of every reachable state: a worker at a
\* call has found out, and still owns, what the call relies on.
THEOREM Inductive == Spec => []IInv
<1>1. Init => IInv
  BY InitIInv
<1> QED BY <1>1, NextKeepsIInv, PTL DEF Spec

\* The model's variables keep their types, and no action reads a file that is
\* not there, under every interleaving, crash and failing call.
THEOREM TypeCorrect == Spec => []TypeOK
<1>1. IInv => TypeOK
  BY DEF IInv
<1> QED BY <1>1, Inductive, PTL
------------------------------------------------------------------------------
\* BlankIsBeingWritten: an open file is truncated by a worker that goes on to
\* write it, and only that worker's file can lose its name under it.

\* Steps that leave the objects and the workers at writeBody alone.
LEMMA WritersKept ==
  ASSUME BlankIsBeingWritten, object' = object, up' => up, restarts' = restarts,
         \A v \in Worker : pc[v] = "writeBody" =>
           pc'[v] = "writeBody" /\ req'[v] = req[v] /\ fd'[v] = fd[v]
  PROVE  BlankIsBeingWritten'
BY DEF BlankIsBeingWritten, FileOf

LEMMA OpenObjectKeepsBlank ==
  ASSUME IInv, BlankIsBeingWritten, NEW w \in Worker, OpenObject(w)
  PROVE  BlankIsBeingWritten'
<1> SUFFICES ASSUME up', restarts' = 0, NEW f \in File, object'[f] = Blank
             PROVE  \E v \in Worker : pc'[v] = "writeBody" /\ FileOf(v)' = f /\ fd'[v] = "named"
  BY DEF BlankIsBeingWritten
<1>1. CASE f = FileOf(w)
  BY <1>1 DEF IInv, TypeOK, OpenObject, Goto, FileOf
<1>2. CASE f # FileOf(w)
  <2>1. object[f] = Blank
    BY <1>2 DEF IInv, TypeOK, OpenObject
  <2>2. PICK v \in Worker : pc[v] = "writeBody" /\ FileOf(v) = f /\ fd[v] = "named"
    BY <2>1 DEF BlankIsBeingWritten, OpenObject, bounds
  <2> QED BY <2>2 DEF IInv, TypeOK, OpenObject, Goto, FileOf
<1> QED BY <1>1, <1>2

LEMMA WriteBodyKeepsBlank ==
  ASSUME IInv, BlankIsBeingWritten, NEW w \in Worker, WriteBody(w)
  PROVE  BlankIsBeingWritten'
<1> SUFFICES ASSUME up', restarts' = 0, NEW f \in File, object'[f] = Blank
             PROVE  \E v \in Worker : pc'[v] = "writeBody" /\ FileOf(v)' = f /\ fd'[v] = "named"
  BY DEF BlankIsBeingWritten
<1>1. \A c : Overlay(req[w].body, c) # Blank
  <2>1. req[w].body \in Body
    BY DEF IInv, TypeOK, Handled
  <2> QED BY <2>1, ConstantsOK DEF Overlay
<1>2. object[f] = Blank /\ ~(fd[w] = "named" /\ FileOf(w) = f)
  BY <1>1 DEF IInv, TypeOK, WriteBody
<1>3. PICK v \in Worker : pc[v] = "writeBody" /\ FileOf(v) = f /\ fd[v] = "named"
  BY <1>2 DEF BlankIsBeingWritten, WriteBody, bounds
<1> QED BY <1>2, <1>3 DEF IInv, TypeOK, WriteBody, Finish, Goto, FileOf

LEMMA RemoveObjectKeepsBlank ==
  ASSUME IInv, BlankIsBeingWritten, NEW w \in Worker, RemoveObject(w)
  PROVE  BlankIsBeingWritten'
<1> SUFFICES ASSUME up', restarts' = 0, NEW f \in File, object'[f] = Blank
             PROVE  \E v \in Worker : pc'[v] = "writeBody" /\ FileOf(v)' = f /\ fd'[v] = "named"
  BY DEF BlankIsBeingWritten
<1>1. None # Blank
  BY ConstantsOK DEF Content
<1>2. object[f] = Blank /\ FileOf(w) # f
  BY <1>1 DEF IInv, TypeOK, RemoveObject
<1>3. PICK v \in Worker : pc[v] = "writeBody" /\ FileOf(v) = f /\ fd[v] = "named"
  BY <1>2 DEF BlankIsBeingWritten, RemoveObject, bounds
<1> QED BY <1>2, <1>3 DEF IInv, TypeOK, RemoveObject, Finish, Goto, FileOf

LEMMA NextKeepsBlank == IInv /\ BlankIsBeingWritten /\ [Next]_vars => BlankIsBeingWritten'
<1> SUFFICES ASSUME IInv, BlankIsBeingWritten, [Next]_vars PROVE BlankIsBeingWritten'
  OBVIOUS
<1> USE DEF IInv, TypeOK, Goto, GotoCall, Finish, Return, disk, call, bounds
<1>1. ASSUME NEW w \in Worker, Receive(w) PROVE BlankIsBeingWritten'
  BY <1>1, WritersKept DEF Receive
<1>2. ASSUME NEW w \in Worker, BadRequest(w) \/ HandlePost(w) \/ HandleGet(w) \/ HandleList(w)
                               \/ HandlePut(w)
      PROVE  BlankIsBeingWritten'
  BY <1>2, WritersKept DEF BadRequest, HandlePost, HandleGet, HandleList, HandlePut, Dispatched
<1>3. ASSUME NEW w \in Worker, HandleDelete(w) PROVE BlankIsBeingWritten'
  BY <1>3, WritersKept DEF HandleDelete, Dispatched
<1>4. ASSUME NEW w \in Worker, Respond(w) PROVE BlankIsBeingWritten'
  BY <1>4, WritersKept DEF Respond
<1>5. ASSUME NEW w \in Worker, HandleRequest(w) PROVE BlankIsBeingWritten'
  BY <1>2, <1>3, <1>4, <1>5, RemoveObjectKeepsBlank DEF HandleRequest
<1>6. ASSUME NEW w \in Worker, GenerateEntityId(w) PROVE BlankIsBeingWritten'
  <2>1. CASE TestMaxFile(w) \/ CreateMaxFile(w) \/ ReadMaxForPost(w)
    BY <2>1, WritersKept DEF TestMaxFile, CreateMaxFile, ReadMaxForPost
  <2>2. CASE ReadMaxToCompare(w)
    BY <2>2, WritersKept DEF ReadMaxToCompare
  <2>3. CASE NotANumber(w)
    BY <2>3 DEF NotANumber, Halt, BlankIsBeingWritten
  <2> QED BY <1>6, <2>1, <2>2, <2>3 DEF GenerateEntityId
<1>7. ASSUME NEW w \in Worker, WriteObject(w) PROVE BlankIsBeingWritten'
  <2>1. CASE TestDirectory(w) \/ MakeDirectory(w) \/ OpenObjectFails(w)
    BY <2>1, WritersKept DEF TestDirectory, MakeDirectory, OpenObjectFails
  <2> QED BY <1>7, <2>1, OpenObjectKeepsBlank, WriteBodyKeepsBlank DEF WriteObject
<1>8. ASSUME NEW w \in Worker, WriteEntityId(w) PROVE BlankIsBeingWritten'
  <2>1. CASE TestEntityDir(w) \/ AppendLine(w) \/ AppendLineFails(w) \/ ReadLines(w) \/ CopyTemp(w)
    BY <2>1, WritersKept DEF TestEntityDir, AppendLine, AppendLineFails, ReadLines, CopyTemp
  <2>2. CASE OpenTemp(w) \/ OpenTempFails(w) \/ CloseTemp(w) \/ CopyData(w)
    BY <2>2, WritersKept DEF OpenTemp, OpenTempFails, CloseTemp, CopyData
  <2>3. CASE RemoveTemp(w)
    BY <2>3, WritersKept DEF RemoveTemp
  <2>4. CASE TempIsGone(w) \/ SourceShrank(w)
    <3>1. CASE Halt
      BY <3>1 DEF Halt, BlankIsBeingWritten
    <3>2. CASE ~Halt
      BY <2>4, <3>2, WritersKept DEF TempIsGone, SourceShrank, CopyThrows
    <3> QED BY <3>1, <3>2
  <2> QED BY <1>8, <2>1, <2>2, <2>3, <2>4 DEF WriteEntityId
<1>9. CASE Crash
  BY <1>9 DEF Crash, Halt, BlankIsBeingWritten
<1>10. CASE Restart
  BY <1>10 DEF Restart, BlankIsBeingWritten
<1>11. CASE UNCHANGED vars
  BY <1>11, WritersKept DEF vars
<1> QED BY <1>1, <1>5, <1>6, <1>7, <1>8, <1>9, <1>10, <1>11 DEF Next, Step

\* Until the process first dies, a truncated object has a worker that is about
\* to write it, for any number of workers, names and ids: opening, writing,
\* removing and making the file anew in any order leave no empty object behind.
THEOREM BlankIsTemporary == Spec => []BlankIsBeingWritten
<1>1. Init => BlankIsBeingWritten
  BY ConstantsOK DEF Init, BlankIsBeingWritten, Content
<1> QED BY <1>1, NextKeepsBlank, Inductive, PTL DEF Spec

------------------------------------------------------------------------------
\* What OneDeleteWins says of one step and one worker.

Deletes(w) ==
  req[w].op = "delete" /\ pc[w] # "reply" /\ pc'[w] = "reply" /\ reply'[w].status = 200
    => object[FileOf(w)] # None /\ object'[FileOf(w)] = None

LEMMA RemoveDeletes ==
  ASSUME IInv, NEW w \in Worker, NEW v \in Worker, RemoveObject(w) PROVE Deletes(v)
<1>1. v # w => pc'[v] = pc[v]
  BY DEF IInv, TypeOK, RemoveObject, Finish, Goto
<1>2. FileOf(w) \in File
  BY DEF IInv, TypeOK, RemoveObject, InControl, Naming, Writing, CallAt, FileOf, File
<1>3. CASE v = w
  BY <1>2, <1>3 DEF IInv, TypeOK, RemoveObject, Finish, Goto, Answer, Deletes
<1> QED BY <1>1, <1>3 DEF Deletes

LEMMA OthersDelete ==
  ASSUME IInv, NEW w \in Worker, NEW v \in Worker, HandleRequest(w), ~RemoveObject(w)
  PROVE  Deletes(v)
<1> USE DEF IInv, TypeOK, Goto, GotoCall, Finish, Answer, Dispatched, Deletes
<1>1. CASE BadRequest(w) \/ HandlePost(w) \/ HandleGet(w)
  BY <1>1 DEF BadRequest, HandlePost, HandleGet
<1>2. CASE HandleList(w) \/ HandlePut(w)
  BY <1>2 DEF HandleList, HandlePut
<1>3. CASE HandleDelete(w) \/ Respond(w)
  BY <1>3 DEF HandleDelete, Respond
<1> QED BY <1>1, <1>2, <1>3 DEF HandleRequest

\* Nothing but the handlers of requests answers a DELETE: generateEntityId and
\* writeEntityId answer nobody, writeObject only a POST or a PUT.
LEMMA GeneratingDeletes ==
  ASSUME IInv, NEW w \in Worker, NEW v \in Worker, GenerateEntityId(w) PROVE Deletes(v)
<1>1. pc'[v] \in {pc[v], "idle", "createMaxFile", "readMax", "testDirectory", "testEntityDir",
                  "openObject"}
  BY DEF IInv, TypeOK, Goto, GotoCall, GenerateEntityId, TestMaxFile, CreateMaxFile,
         ReadMaxForPost, ReadMaxToCompare, NotANumber, Halt
<1> QED BY <1>1 DEF Deletes

LEMMA RecordingDeletes ==
  ASSUME IInv, NEW w \in Worker, NEW v \in Worker, WriteEntityId(w) PROVE Deletes(v)
<1>1. pc[w] \in Recording => ret[w] \in {"makeDirectory", "openObject"}
  BY DEF IInv, InControl
<1> USE DEF IInv, TypeOK, Goto, Return, Recording
<1>2. CASE TestEntityDir(w) \/ ReadLines(w) \/ CloseTemp(w)
  <2>1. pc'[v] \in {pc[v], "openTemp", "appendLine", "closeTemp", "copyTemp"}
    BY <1>2 DEF TestEntityDir, ReadLines, CloseTemp
  <2> QED BY <2>1 DEF Deletes
<1>3. CASE CopyTemp(w) \/ CopyData(w)
  <2>1. pc'[v] \in {pc[v], "copyData", "removeTemp"}
    BY <1>3 DEF CopyTemp, CopyData
  <2> QED BY <2>1 DEF Deletes
<1>4. CASE TempIsGone(w) \/ SourceShrank(w)
  <2>1. pc'[v] \in {pc[v], "idle", "testMaxFile"}
    BY <1>4 DEF TempIsGone, SourceShrank, CopyThrows, GotoCall, Halt
  <2> QED BY <2>1 DEF Deletes
<1>5. CASE AppendLine(w) \/ AppendLineFails(w) \/ OpenTemp(w) \/ OpenTempFails(w) \/ RemoveTemp(w)
  <2>1. pc'[v] \in {pc[v], "readLines", ret[w]} /\ pc[w] \in Recording
    BY <1>5 DEF AppendLine, AppendLineFails, OpenTemp, OpenTempFails, RemoveTemp
  <2> QED BY <1>1, <2>1 DEF Deletes
<1> QED BY <1>2, <1>3, <1>4, <1>5 DEF WriteEntityId

\* The answers of writeObject's request are 201, or 200 to a PUT.
LEMMA WritingDeletes ==
  ASSUME IInv, NEW w \in Worker, NEW v \in Worker, WriteObject(w) PROVE Deletes(v)
<1> USE DEF IInv, TypeOK, Goto, GotoCall
<1>1. CASE TestDirectory(w) \/ MakeDirectory(w) \/ OpenObject(w)
  <2>1. pc'[v] \in {pc[v], "testMaxFile", "testEntityDir", "writeBody"}
    BY <1>1 DEF TestDirectory, MakeDirectory, OpenObject
  <2> QED BY <2>1 DEF Deletes
<1>2. CASE OpenObjectFails(w) \/ WriteBody(w)
  <2>1. v # w => pc'[v] = pc[v]
    BY <1>2 DEF OpenObjectFails, WriteBody, Finish
  <2>2. reply'[w] = WriteAnswer(w)
    BY <1>2 DEF OpenObjectFails, WriteBody, Finish
  <2>3. WriteAnswer(w).status = 200 => req[w].op = "put"
    BY DEF WriteAnswer, Answer
  <2> QED BY <2>1, <2>2, <2>3 DEF Deletes
<1> QED BY <1>1, <1>2 DEF WriteObject

LEMMA NextDeletes == IInv /\ [Next]_vars => \A v \in Worker : Deletes(v)
<1> SUFFICES ASSUME IInv, [Next]_vars, NEW v \in Worker PROVE Deletes(v)
  OBVIOUS
<1>1. ASSUME NEW w \in Worker, Receive(w) PROVE Deletes(v)
  <2>1. pc'[v] \in {pc[v], "dispatch"}
    BY <1>1 DEF IInv, TypeOK, Receive, Goto
  <2> QED BY <2>1 DEF Deletes
<1>2. ASSUME NEW w \in Worker, Step(w) PROVE Deletes(v)
  BY <1>2, RemoveDeletes, OthersDelete, GeneratingDeletes, WritingDeletes, RecordingDeletes
     DEF Step
<1>3. CASE Crash \/ Restart \/ UNCHANGED vars
  <2>1. pc'[v] \in {pc[v], "idle"}
    BY <1>3 DEF Crash, Halt, Restart, vars
  <2> QED BY <2>1 DEF Deletes
<1> QED BY <1>1, <1>2, <1>3 DEF Next

\* A DELETE is told 200 only in the step that takes the object away, so of any
\* number of DELETEs that have all seen one object at most one is told so.
THEOREM OneDeleteIsTold == Spec => OneDeleteWins
<1>1. IInv /\ [Next]_vars => [\A v \in Worker : Deletes(v)]_vars
  BY NextDeletes
<1>2. [\A v \in Worker : Deletes(v)]_vars =>
        [\A w \in Worker :
          req[w].op = "delete" /\ pc[w] # "reply" /\ pc'[w] = "reply" /\ reply'[w].status = 200
            => object[FileOf(w)] # None /\ object'[FileOf(w)] = None]_vars
  BY DEF Deletes
<1> QED BY <1>1, <1>2, Inductive, PTL DEF Spec, OneDeleteWins
==============================================================================
