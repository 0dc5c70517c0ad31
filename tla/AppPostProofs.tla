----------------------------- MODULE AppPostProofs -----------------------------
(***************************************************************************)
(* Proofs about AppPost, for every number of files, scores and             *)
(* submissions.  SelectionExplained is about the end of the scoring loop;  *)
(* it follows from an invariant of the loop, LoopInv, that says the same   *)
(* of the images scored so far and what max_score has to do with them.     *)
(***************************************************************************)
EXTENDS AppPost, SequenceTheorems, TLAPS

Serving == {"scoring", "captioning", "answered"}

------------------------------------------------------------------------------
\* Types.

LEMMA ResultTyped ==
  ASSUME TypeOK, Valid(index), Len(posted) = n
  PROVE  Result \in {r \in Shown : r.kind = "result"}
<1>1. index \in 0..MaxFiles - 1
  BY BoundsAreNat DEF TypeOK, Valid
<1>2. posted[index + 1] \in 0..MaxFiles - 1
  <2>1. index + 1 \in 1..Len(posted)
    BY BoundsAreNat DEF TypeOK, Valid
  <2>2. posted \in Seq(0..MaxFiles - 1)
    BY DEF TypeOK
  <2> QED BY <2>1, <2>2, ElementOfSeq
<1> QED BY <1>1, <1>2, BoundsAreNat DEF TypeOK, Result, Shown

LEMMA MessagesTyped ==
  ASSUME TypeOK
  PROVE  Nothing \in Shown /\ Error \in Shown
<1>1. 0 \in 0..MaxFiles - 1 /\ 0 \in 0..MaxSubmissions
  BY BoundsAreNat
<1>2. Nothing \in Shown
  BY <1>1 DEF Nothing, Shown
<1>3. ASSUME NEW m \in Shown PROVE [m EXCEPT !.kind = "error", !.of = submission] \in Shown
  BY DEF TypeOK, Shown
<1>4. Error \in Shown
  BY <1>2, <1>3 DEF Error
<1> QED BY <1>2, <1>4

\* What the page has chosen and posted when the server works on it.
PostedInv == phase \in Serving => Len(posted) = n

LEMMA StepTyped == ASSUME TypeOK, PostedInv, [Next]_vars PROVE TypeOK' /\ PostedInv'
<1> USE DEF TypeOK, PostedInv, Serving, server
<1>1. CASE Submit
  BY <1>1, MessagesTyped, BoundsAreNat DEF Submit
<1>2. ASSUME NEW i \in 0..n - 1, ReaderLoads(i) PROVE TypeOK' /\ PostedInv'
  <2>1. i \in 0..MaxFiles - 1
    BY BoundsAreNat
  <2>2. Append(posted, i) \in Seq(0..MaxFiles - 1)
    BY <2>1
  <2> QED BY <1>2, <2>2 DEF ReaderLoads
<1>3. CASE Fail
  BY <1>3, MessagesTyped DEF Fail
<1>4. CASE Send
  BY <1>4, BoundsAreNat DEF Send
<1>5. CASE SelectOnly
  BY <1>5, BoundsAreNat DEF SelectOnly, ServerOnly
<1>6. ASSUME NEW o \in Outcome, Score(o) PROVE TypeOK' /\ PostedInv'
  <2>1. scores' \in Seq(Outcome) /\ Len(scores) \in Nat
    BY <1>6 DEF Score
  <2>2. maxScore' \in 0..MaxScore
    BY <1>6, BoundsAreNat DEF Score, Outcome, NoHandle, CurlError, ParseError
  <2>3. index' \in -3..MaxFiles - 1
    <3>1. CASE o > maxScore
      <4>1. Len(scores) \in Nat
        OBVIOUS
      <4>2. index' = Len(scores) /\ Len(scores) < n
        <5>1. maxScore \in Int /\ maxScore >= 0
          BY BoundsAreNat
        <5>2. o \notin Failure
          BY <3>1, <5>1 DEF Failure, CurlError, ParseError
        <5> QED BY <1>6, <3>1, <5>2 DEF Score
      <4> QED BY <4>1, <4>2, BoundsAreNat
    <3>2. CASE o \in Failure /\ ~(o > maxScore)
      BY <1>6, <3>2, BoundsAreNat DEF Score, Failure, CurlError, ParseError
    <3>3. CASE o \notin Failure /\ ~(o > maxScore)
      BY <1>6, <3>3 DEF Score
    <3> QED BY <3>1, <3>2, <3>3
  <2> QED BY <1>6, <2>1, <2>2, <2>3 DEF Score, ServerOnly
<1>7. CASE EndSelection \/ GenerateCaption
  BY <1>7 DEF EndSelection, GenerateCaption, ServerOnly
<1>8. CASE Display
  BY <1>8, ResultTyped DEF Display
<1>9. ASSUME NEW r \in late, LateReaderLoads(r) \/ LateReaderFails(r) PROVE TypeOK' /\ PostedInv'
  BY <1>9 DEF LateReaderLoads, LateReaderFails
<1>10. CASE UNCHANGED vars
  BY <1>10 DEF vars
<1> QED BY <1>1, <1>2, <1>3, <1>4, <1>5, <1>6, <1>7, <1>8, <1>9, <1>10
        DEF Next, Reader, ReaderFails, Remote, Local, LateReader, FetchFails, DisplayFails

LEMMA TypesInvariant == Spec => [](TypeOK /\ PostedInv)
<1>1. Init => TypeOK /\ PostedInv
  <2> SUFFICES ASSUME Init PROVE TypeOK /\ PostedInv
    OBVIOUS
  <2>1. 0 \in 0..MaxFiles - 1 /\ 0 \in 0..MaxSubmissions /\ 0 \in 0..MaxScore /\ 0 \in 0..MaxFiles
        /\ -1 \in -3..MaxFiles - 1
    BY BoundsAreNat
  <2>2. Nothing \in Shown
    BY <2>1 DEF Nothing, Shown
  <2>3. posted \in Seq(0..MaxFiles - 1) /\ scores \in Seq(Outcome)
    BY DEF Init
  <2> QED BY <2>1, <2>2, <2>3 DEF Init, TypeOK, PostedInv, Serving
<1> QED BY <1>1, StepTyped, PTL DEF Spec

\* The variables keep their types: an image that is shown, or that a reader
\* loads, is one of the files that were chosen.
THEOREM TypeCorrect == Spec => []TypeOK
<1> QED BY TypesInvariant, PTL

------------------------------------------------------------------------------
\* The scoring loop, after Len(scores) images.

Scored == 1..Len(scores)
Scoring == phase \in Serving /\ n # 1

MaxIsBest ==
  /\ \A i \in Scored : scores[i] <= maxScore
  /\ maxScore = 0 \/ \E i \in Scored : scores[i] = maxScore

\* The index is that of the first image with the best score, and no call has
\* failed since.
BestFound ==
  /\ index + 1 \in Scored /\ scores[index + 1] = maxScore /\ maxScore > 0
  /\ \A i \in 1..index : scores[i] < maxScore
  /\ \A i \in index + 1..Len(scores) : scores[i] \notin Failure

\* The index is the code of call i, and nothing since has failed or been better.
FailedAt(i) ==
  /\ scores[i] = index
  /\ \A j \in i + 1..Len(scores) :
       scores[j] \notin Failure /\ (scores[j] > 0 => \E s \in Before(j) : s >= scores[j])

NothingFound == maxScore = 0 /\ \A i \in Scored : scores[i] \in {0, NoHandle}

IndexExplained ==
  \/ index >= 0 /\ BestFound
  \/ index \in Failure /\ \E i \in Scored : FailedAt(i)
  \/ index = -1 /\ NothingFound

LoopInv ==
  Scoring => /\ MaxIsBest /\ IndexExplained
             /\ phase # "scoring" => Len(scores) = n

\* One more pass of the loop.
LEMMA ScoreExplained ==
  ASSUME TypeOK, MaxIsBest, IndexExplained, NEW o \in Outcome, Score(o)
  PROVE  MaxIsBest' /\ IndexExplained'
<1> USE DEF NoHandle, CurlError, ParseError
<1>0. PICK k \in Nat : k = Len(scores)
  BY DEF TypeOK
<1>1. maxScore \in Nat /\ index \in Int /\ o \in Int
      /\ \A i \in 1..k : scores[i] \in Outcome /\ scores[i] \in Int
  BY <1>0, BoundsAreNat DEF TypeOK, Outcome
<1>2. /\ Len(scores') = k + 1 /\ scores'[k + 1] = o
      /\ \A i \in 1..k : scores'[i] = scores[i]
  BY <1>0 DEF TypeOK, Score
<1>3. /\ maxScore' = IF o > maxScore THEN o ELSE maxScore
      /\ index' = CASE o > maxScore -> k [] o \in Failure -> o [] OTHER -> index
  BY <1>0 DEF Score
<1>4. 1..k + 1 = 1..k \cup {k + 1} /\ Scored = 1..k /\ Scored' = 1..k + 1
  BY <1>0, <1>2 DEF Scored
<1>5. MaxIsBest'
  BY <1>1, <1>2, <1>3, <1>4 DEF MaxIsBest
<1>6. ASSUME o > maxScore PROVE IndexExplained'
  <2>1. index' = k /\ maxScore' = o /\ o > 0 /\ o \notin Failure
    BY <1>1, <1>3, <1>6 DEF Failure
  <2>2. \A i \in 1..k : scores'[i] < o
    BY <1>1, <1>2, <1>4, <1>6 DEF MaxIsBest
  <2>3. BestFound'
    BY <1>2, <1>4, <2>1, <2>2 DEF BestFound
  <2> QED BY <2>1, <2>3 DEF IndexExplained
<1>7. ASSUME o \in Failure PROVE IndexExplained'
  <2>1. index' = o
    BY <1>1, <1>3, <1>7 DEF Failure
  <2>2. FailedAt(k + 1)'
    BY <1>2, <2>1 DEF FailedAt
  <2>3. (\E i \in Scored : FailedAt(i))'
    BY <1>4, <2>2
  <2> QED BY <1>7, <2>1, <2>3 DEF IndexExplained, Failure
<1>8. ASSUME ~(o > maxScore), o \notin Failure PROVE IndexExplained'
  <2>0. index' = index /\ maxScore' = maxScore
    BY <1>3, <1>8
  <2>1. CASE index >= 0 /\ BestFound
    <3>1. index + 1 \in 1..k /\ \A i \in 1..index : i \in 1..k
      BY <1>1, <1>4, <2>1 DEF BestFound
    <3>2. \A i \in index + 1..k + 1 : i = k + 1 \/ (i \in 1..k /\ i \in index + 1..k)
      BY <1>1, <2>1
    <3>3. BestFound'
      BY <1>0, <1>2, <1>4, <1>8, <2>0, <2>1, <3>1, <3>2 DEF BestFound
    <3> QED BY <2>0, <2>1, <3>3 DEF IndexExplained
  <2>2. CASE index \in Failure /\ \E i \in Scored : FailedAt(i)
    <3>1. PICK i \in 1..k : FailedAt(i)
      BY <1>4, <2>2
    <3>2. ASSUME o > 0 PROVE \E s \in Before(k + 1)' : s >= o
      <4>1. PICK m \in 1..k : scores[m] = maxScore
        BY <1>1, <1>4, <1>8, <3>2 DEF MaxIsBest
      <4>2. scores'[m] = maxScore /\ m \in 1..(k + 1) - 1
        BY <1>2, <4>1
      <4>3. scores'[m] \in Before(k + 1)'
        BY <4>2 DEF Before
      <4> QED BY <1>1, <1>8, <4>2, <4>3
    <3>3. \A j \in 1..k : Before(j)' = Before(j)
      BY <1>2 DEF Before
    <3>4. scores'[i] = index'
      BY <1>2, <2>0, <3>1 DEF FailedAt
    <3>5. ASSUME NEW j \in i + 1..k + 1
          PROVE  scores'[j] \notin Failure
                 /\ (scores'[j] > 0 => \E s \in Before(j)' : s >= scores'[j])
      <4>1. CASE j = k + 1
        BY <1>2, <1>8, <3>2, <4>1
      <4>2. CASE j # k + 1
        <5>1. j \in i + 1..k /\ j \in 1..k
          BY <4>2
        <5> QED BY <1>0, <1>2, <3>1, <3>3, <5>1 DEF FailedAt
      <4> QED BY <4>1, <4>2
    <3>6. FailedAt(i)'
      BY <1>2, <3>4, <3>5 DEF FailedAt
    <3>7. (\E m \in Scored : FailedAt(m))'
      BY <1>4, <3>6
    <3> QED BY <2>0, <2>2, <3>7 DEF IndexExplained, Failure
  <2>3. CASE index = -1 /\ NothingFound
    <3>1. o \in {0, -1}
      BY <1>1, <1>8, <2>3 DEF NothingFound, Failure, Outcome
    <3>2. NothingFound'
      BY <1>2, <1>4, <2>0, <2>3, <3>1 DEF NothingFound
    <3> QED BY <2>0, <2>3, <3>2 DEF IndexExplained
  <2> QED BY <2>1, <2>2, <2>3 DEF IndexExplained
<1> QED BY <1>5, <1>6, <1>7, <1>8

LEMMA SendStartsLoop == ASSUME Send PROVE MaxIsBest' /\ IndexExplained'
<1>1. Len(scores') = 0 /\ index' = -1 /\ maxScore' = 0
  BY DEF Send
<1>2. Scored' = {}
  BY <1>1 DEF Scored
<1> QED BY <1>1, <1>2 DEF MaxIsBest, NothingFound, IndexExplained

LEMMA StepKeepsLoop == ASSUME TypeOK, LoopInv, [Next]_vars PROVE LoopInv'
<1>0. ASSUME UNCHANGED server
      PROVE  (MaxIsBest' <=> MaxIsBest) /\ (IndexExplained' <=> IndexExplained)
  BY <1>0 DEF server, MaxIsBest, IndexExplained, BestFound, FailedAt, NothingFound, Scored, Before
<1> USE DEF LoopInv, Scoring, Serving
<1>1. CASE Submit \/ Fail \/ Display
  BY <1>1 DEF Submit, Fail, Display
<1>2. ASSUME NEW i \in 0..n - 1, ReaderLoads(i) PROVE LoopInv'
  BY <1>2 DEF ReaderLoads
<1>3. CASE Send
  BY <1>3, SendStartsLoop DEF Send
<1>4. CASE SelectOnly
  BY <1>4 DEF SelectOnly, ServerOnly
<1>5. ASSUME NEW o \in Outcome, Score(o) PROVE LoopInv'
  BY <1>5, ScoreExplained DEF Score, ServerOnly
<1>6. CASE EndSelection \/ GenerateCaption
  BY <1>0, <1>6 DEF EndSelection, GenerateCaption, ServerOnly, server
<1>7. ASSUME NEW r \in late, LateReaderLoads(r) \/ LateReaderFails(r) PROVE LoopInv'
  BY <1>0, <1>7 DEF LateReaderLoads, LateReaderFails, server
<1>8. CASE UNCHANGED vars
  BY <1>0, <1>8 DEF vars, server
<1> QED BY <1>1, <1>2, <1>3, <1>4, <1>5, <1>6, <1>7, <1>8
        DEF Next, Reader, ReaderFails, Remote, Local, LateReader, FetchFails, DisplayFails

LEMMA LoopInvariant == Spec => []LoopInv
<1>1. Init => LoopInv
  BY DEF Init, LoopInv, Scoring, Serving
<1> QED BY <1>1, StepKeepsLoop, TypesInvariant, PTL DEF Spec

\* Whatever the remote calls come to, and in whatever order, the index that
\* process_post answers is the first best image, unless a call failed after it.
THEOREM IndexIsExplained == Spec => []SelectionExplained
<1>1. TypeOK /\ LoopInv => SelectionExplained
  <2> SUFFICES ASSUME TypeOK, LoopInv, phase \in {"captioning", "answered"}, n # 1
               PROVE  SelectionExplained
    BY DEF SelectionExplained
  <2>1. MaxIsBest /\ IndexExplained /\ Len(scores) = n
    BY DEF LoopInv, Scoring, Serving
  <2>2. index \in Int /\ n \in Nat /\ maxScore \in Nat /\ \A i \in 1..n : scores[i] \in Int
    BY <2>1, BoundsAreNat DEF TypeOK, Outcome, NoHandle, CurlError, ParseError
  <2> USE <2>1, <2>2 DEF NoHandle, CurlError, ParseError, Scored, Failure
  <2>3. CASE index >= 0 /\ BestFound
    BY <2>3 DEF SelectionExplained, BestFound, MaxIsBest
  <2>4. CASE index \in Failure /\ \E i \in Scored : FailedAt(i)
    <3>1. PICK i \in 1..n : FailedAt(i)
      BY <2>4
    <3>2. /\ scores[i] = index
          /\ \A j \in i + 1..n : scores[j] \notin Failure
          /\ \A j \in i + 1..n : scores[j] > 0 => \E s \in Before(j) : s >= scores[j]
      BY <3>1 DEF FailedAt
    <3>3. index < 0 /\ index # -1
      BY <2>4
    <3> QED BY <3>2, <3>3 DEF SelectionExplained
  <2>5. CASE index = -1 /\ NothingFound
    BY <2>5 DEF SelectionExplained, NothingFound
  <2> QED BY <2>3, <2>4, <2>5 DEF IndexExplained
<1> QED BY <1>1, TypesInvariant, LoopInvariant, PTL

------------------------------------------------------------------------------
\* What is shown.

LEMMA ErrorIsNoResult == Nothing.kind = "nothing" /\ Error.kind = "error" /\ Error.of = submission
BY DEF Nothing, Error

\* The loop has ended when an index is displayed, so that the index is that of
\* a best image; it is a position among the posted images, and in order these
\* are the positions among the chosen files.
LEMMA DisplaysBest ==
  ASSUME TypeOK, PostedInv, LoopInv, phase = "answered", Valid(index)
  PROVE  Result.of = submission /\ (Result.ordered => Result.file = Result.sent /\ Result.best)
<1>1. n \in Nat /\ index \in 0..n - 1 /\ Len(posted) = n
  BY BoundsAreNat DEF TypeOK, Valid, PostedInv, Serving
<1>2. n # 1 => \A i \in 1..n : scores[i] <= scores[index + 1]
  <2> SUFFICES ASSUME n # 1 PROVE \A i \in 1..n : scores[i] <= scores[index + 1]
    OBVIOUS
  <2>1. MaxIsBest /\ IndexExplained /\ Len(scores) = n
    BY DEF LoopInv, Scoring, Serving
  <2>2. BestFound
    BY <1>1, <2>1 DEF IndexExplained, Failure, CurlError, ParseError
  <2> QED BY <2>1, <2>2 DEF BestFound, MaxIsBest, Scored
<1>3. (\A i \in 1..n : posted[i] = i - 1) => posted[index + 1] = index
  BY <1>1
<1> QED BY <1>2, <1>3 DEF Result

LEMMA StepShowsBest ==
  ASSUME TypeOK, PostedInv, LoopInv, OrderedShowsBest, [Next]_vars
  PROVE  OrderedShowsBest'
<1> USE ErrorIsNoResult DEF OrderedShowsBest
<1>1. CASE Submit \/ Fail
  BY <1>1 DEF Submit, Fail
<1>2. CASE Display
  BY <1>2, DisplaysBest DEF Display
<1>3. ASSUME NEW r \in late, LateReaderLoads(r) \/ LateReaderFails(r) PROVE OrderedShowsBest'
  BY <1>3 DEF LateReaderLoads, LateReaderFails
<1>4. CASE UNCHANGED <<shown, late>>
  BY <1>4
<1> QED BY <1>1, <1>2, <1>3, <1>4
        DEF Next, Reader, ReaderLoads, ReaderFails, Remote, Score, GenerateCaption, Local, Send,
            SelectOnly, EndSelection, ServerOnly, LateReader, FetchFails, DisplayFails, vars

\* If the files were read in their order, the page shows the file that the
\* server chose, and the server had no better one.
THEOREM InOrderTheBestIsShown == Spec => []OrderedShowsBest
<1>1. Init => OrderedShowsBest
  BY ErrorIsNoResult DEF Init, OrderedShowsBest
<1> QED BY <1>1, StepShowsBest, TypesInvariant, LoopInvariant, PTL DEF Spec

\* What is shown, and what may still be shown, is of this submission.
CurrentInv ==
  patient => /\ shown.kind # "nothing" => shown.of = submission
             /\ \A r \in late : r.of = submission

LEMMA StepKeepsCurrent ==
  ASSUME TypeOK, PostedInv, LoopInv, CurrentInv, [Next]_vars
  PROVE  CurrentInv'
<1> USE ErrorIsNoResult DEF CurrentInv
<1>1. CASE Submit
  BY <1>1 DEF Submit
<1>2. CASE Fail
  BY <1>2 DEF Fail
<1>3. CASE Display
  BY <1>3, DisplaysBest DEF Display
<1>4. ASSUME NEW r \in late, LateReaderLoads(r) \/ LateReaderFails(r) PROVE CurrentInv'
  BY <1>4 DEF LateReaderLoads, LateReaderFails
<1>5. CASE UNCHANGED <<patient, submission, shown, late>>
  BY <1>5
<1> QED BY <1>1, <1>2, <1>3, <1>4, <1>5
        DEF Next, Reader, ReaderLoads, ReaderFails, Remote, Score, GenerateCaption, Local, Send,
            SelectOnly, EndSelection, ServerOnly, LateReader, FetchFails, DisplayFails, vars

\* A form that is submitted when no image of an earlier result is loading never
\* shows an earlier result or error.
THEOREM PatientSeesOwnAnswer == Spec => []ShownIsOfThisSubmission
<1>1. Init => CurrentInv
  BY ErrorIsNoResult DEF Init, CurrentInv
<1>2. CurrentInv => ShownIsOfThisSubmission
  BY DEF CurrentInv, ShownIsOfThisSubmission
<1> QED BY <1>1, <1>2, StepKeepsCurrent, TypesInvariant, LoopInvariant, PTL DEF Spec
==============================================================================
