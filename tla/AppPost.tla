------------------------------ MODULE AppPost ------------------------------
(***************************************************************************)
(* The "best photo" application: src/app_pages/landing_page.js in the      *)
(* browser, and AppHandler::process_post in src/src/app_handler.cc with    *)
(* get_best_image_index and generate_caption, which call a remote model.   *)
(*                                                                         *)
(* The page reads the chosen files with one FileReader each, posts them in *)
(* the order in which the readers end, and shows the file at the index the *)
(* server answers, which another FileReader has to load first.  The submit *)
(* button is enabled again before that reader ends.                        *)
(*                                                                         *)
(* Abstracted: an image is its position among the chosen files, from 0; a  *)
(* caption is the image that was sent for it.  A remote call answers,      *)
(* fails or never ends: neither fetch nor curl is given a timeout.         *)
(***************************************************************************)
EXTENDS Integers, Sequences, SequencesExt

CONSTANTS MaxFiles,       \* bound: files chosen
          MaxScore,       \* bound: 100 in the question to the model
          MaxSubmissions  \* bound: times the form is submitted

ASSUME BoundsAreNat == MaxFiles \in Nat \ {0} /\ MaxScore \in Nat /\ MaxSubmissions \in Nat

\* What became of one call for a score: the score, or one of these.
NoHandle == -1    \* curl_easy_init failed and the image is skipped
CurlError == -2
ParseError == -3
Outcome == 0..MaxScore \cup {NoHandle, CurlError, ParseError}
Failure == {CurlError, ParseError}

VARIABLES
  \* the page
  submission,  \* how often the form was submitted
  loading,     \* the loading message is shown and the submit button disabled
  shown,       \* the response div: the result or error it shows, if any
  late,        \* FileReaders that are loading the image of a result
  n,           \* files.length
  posted,      \* base64Files: the files in the order their readers ended
  phase,       \* how far the submission is
  \* the server
  scores,      \* what each call of the loop came to
  index, maxScore,  \* index and max_score of get_best_image_index
  \* history
  patient      \* no late reader was left when the form was last submitted

server == <<scores, index, maxScore>>
vars == <<submission, loading, shown, late, n, posted, phase, server, patient>>

Nothing == [kind |-> "nothing", of |-> 0, file |-> 0, sent |-> 0, best |-> FALSE, ordered |-> FALSE]
Error == [Nothing EXCEPT !.kind = "error", !.of = submission]

Init ==
  /\ submission = 0 /\ loading = FALSE /\ shown = Nothing /\ late = {}
  /\ n = 0 /\ posted = <<>> /\ phase = "idle"
  /\ scores = <<>> /\ index = -1 /\ maxScore = 0
  /\ patient = TRUE
------------------------------------------------------------------------------
\* The page, up to the request.

\* Mistake: the response of an earlier submission is not hidden.
SubmitOver ==
  /\ ~loading /\ submission < MaxSubmissions
  /\ submission' = submission + 1
  /\ loading' = TRUE
  /\ n' \in 0..MaxFiles
  /\ posted' = <<>> /\ phase' = "reading"
  /\ patient' = (late = {})
  /\ UNCHANGED <<shown, late, server>>

Submit ==
  /\ ~loading /\ submission < MaxSubmissions
  /\ submission' = submission + 1
  /\ loading' = TRUE /\ shown' = Nothing
  /\ n' \in 0..MaxFiles
  /\ posted' = <<>> /\ phase' = "reading"
  /\ patient' = (late = {})
  /\ UNCHANGED <<late, server>>

\* reader.onload: the readers end in any order.
ReaderLoads(i) ==
  /\ phase = "reading" /\ i \notin Range(posted)
  /\ posted' = Append(posted, i)
  /\ UNCHANGED <<submission, loading, shown, late, n, phase, server, patient>>

\* Mistake: the handler of a failure leaves the button disabled.
FailDisabled ==
  /\ shown' = Error
  /\ phase' = "idle"
  /\ UNCHANGED <<submission, loading, late, n, posted, server, patient>>

\* The handler at the end of the promise chain.
Fail ==
  /\ loading' = FALSE /\ shown' = Error
  /\ phase' = "idle"
  /\ UNCHANGED <<submission, late, n, posted, server, patient>>

\* reader.onerror rejects one of the promises.
ReaderFails == phase = "reading" /\ Len(posted) < n /\ Fail

\* Promise.all resolves and fetch posts the form; AppHandler takes the images
\* from it and starts to select one.
Send ==
  /\ phase = "reading" /\ Len(posted) = n
  /\ phase' = "scoring"
  /\ scores' = <<>> /\ index' = -1 /\ maxScore' = 0
  /\ UNCHANGED <<submission, loading, shown, late, n, posted, patient>>
------------------------------------------------------------------------------
\* The server: process_post.

ServerOnly == UNCHANGED <<submission, loading, shown, late, n, posted, patient>>

\* A single image is not scored.
SelectOnly ==
  /\ phase = "scoring" /\ n = 1
  /\ index' = 0 /\ phase' = "captioning"
  /\ UNCHANGED <<scores, maxScore>> /\ ServerOnly

\* Mistake: an image with the best score so far replaces the one before.
ScoreLast(o) ==
  /\ phase = "scoring" /\ n # 1 /\ Len(scores) < n
  /\ scores' = Append(scores, o)
  /\ maxScore' = IF o > maxScore THEN o ELSE maxScore
  /\ index' = CASE o > 0 /\ o >= maxScore -> Len(scores)
                [] o \in Failure -> o
                [] OTHER         -> index
  /\ UNCHANGED phase /\ ServerOnly

\* Mistake: max_score is not kept.
ScoreWithoutMax(o) ==
  /\ phase = "scoring" /\ n # 1 /\ Len(scores) < n
  /\ scores' = Append(scores, o)
  /\ index' = CASE o > maxScore    -> Len(scores)
                [] o \in Failure -> o
                [] OTHER         -> index
  /\ UNCHANGED <<phase, maxScore>> /\ ServerOnly

\* One pass of the loop: a failure overwrites the index of the best image so
\* far and leaves max_score, so that only a better image brings an index back.
Score(o) ==
  /\ phase = "scoring" /\ n # 1 /\ Len(scores) < n
  /\ scores' = Append(scores, o)
  /\ maxScore' = IF o > maxScore THEN o ELSE maxScore
  /\ index' = CASE o > maxScore    -> Len(scores)
                [] o \in Failure -> o
                [] OTHER         -> index
  /\ UNCHANGED phase /\ ServerOnly

Valid(i) == 0 <= i /\ i < n

\* An invalid index is answered as it is, with status 200.
EndSelection ==
  /\ phase = "scoring" /\ n # 1 /\ Len(scores) = n
  /\ phase' = IF Valid(index) THEN "captioning" ELSE "answered"
  /\ UNCHANGED server /\ ServerOnly

\* If the call fails an apology is answered in place of the caption.
GenerateCaption ==
  /\ phase = "captioning"
  /\ phase' = "answered"
  /\ UNCHANGED server /\ ServerOnly
------------------------------------------------------------------------------
\* The page, from the answer on.

\* The connection is lost, the status is not ok, or the answer is not JSON.  What
\* the server still does for a lost connection reaches nobody and is dropped.
FetchFails == phase \in {"scoring", "captioning", "answered"} /\ Fail

\* The result as the page has it: the file at the index, and, for the
\* properties, the image the server meant and how it came to it.
Result == [kind |-> "result", of |-> submission,
           file |-> index, sent |-> posted[index + 1],
           best |-> n = 1 \/ \A i \in 1..n : scores[i] <= scores[index + 1],
           ordered |-> \A i \in 1..n : posted[i] = i - 1]

\* Mistake: every answer is taken for an index of a chosen file.
DisplayUnchecked ==
  /\ phase = "answered"
  /\ late' = late \cup {[Error EXCEPT !.kind = "result", !.file = index]}
  /\ loading' = FALSE /\ phase' = "idle"
  /\ UNCHANGED <<submission, shown, n, posted, server, patient>>

Display ==
  /\ phase = "answered" /\ Valid(index)
  /\ late' = late \cup {Result}
  /\ loading' = FALSE /\ phase' = "idle"
  /\ UNCHANGED <<submission, shown, n, posted, server, patient>>

\* files[json.best_image_index] is undefined and readAsDataURL throws.
DisplayFails == phase = "answered" /\ ~Valid(index) /\ Fail

LateReaderLoads(r) ==
  /\ r \in late
  /\ late' = late \ {r} /\ shown' = r
  /\ UNCHANGED <<submission, loading, n, posted, phase, server, patient>>

\* This reader has no onerror.
LateReaderFails(r) ==
  /\ r \in late
  /\ late' = late \ {r}
  /\ UNCHANGED <<submission, loading, shown, n, posted, phase, server, patient>>

Reader == (\E i \in 0..n - 1 : ReaderLoads(i)) \/ ReaderFails
LateReader == \E r \in late : LateReaderLoads(r) \/ LateReaderFails(r)

\* What the remote model and the connection do.
Remote == (\E o \in Outcome : Score(o)) \/ GenerateCaption \/ FetchFails

Local == Send \/ SelectOnly \/ EndSelection \/ Display \/ DisplayFails

Next == Submit \/ Reader \/ Remote \/ Local \/ LateReader

\* A reader ends, and the page and the server run; nothing makes the remote
\* model answer.
Fairness == WF_vars(Reader) /\ WF_vars(Local) /\ WF_vars(LateReader)

Spec == Init /\ [][Next]_vars /\ Fairness
------------------------------------------------------------------------------
\* Properties.

Shown == [kind : {"nothing", "error", "result"}, of : 0..MaxSubmissions,
          file : 0..MaxFiles - 1, sent : 0..MaxFiles - 1, best : BOOLEAN, ordered : BOOLEAN]

TypeOK ==
  /\ submission \in 0..MaxSubmissions /\ loading \in BOOLEAN
  /\ shown \in Shown /\ late \subseteq {r \in Shown : r.kind = "result"}
  /\ n \in 0..MaxFiles
  /\ posted \in Seq(0..MaxFiles - 1)
  /\ phase \in {"idle", "reading", "scoring", "captioning", "answered"}
  /\ scores \in Seq(Outcome) /\ index \in -3..MaxFiles - 1 /\ maxScore \in 0..MaxScore
  /\ patient \in BOOLEAN

Before(i) == {scores[j] : j \in 1..i - 1}

\* What get_best_image_index returns, in terms of all the outcomes: the first
\* image with the best score, unless a call failed after it; else the code of
\* the last failure; -1 if no image had a score above 0 and no call failed.
SelectionExplained ==
  phase \in {"captioning", "answered"} /\ n # 1 =>
    /\ index >= 0 => /\ scores[index + 1] > 0
                     /\ \A i \in 1..n : scores[i] <= scores[index + 1]
                     /\ \A i \in 1..index : scores[i] < scores[index + 1]
                     /\ \A i \in index + 1..n : scores[i] \notin Failure
    /\ index \in Failure => \E i \in 1..n :
         /\ scores[i] = index
         /\ \A j \in i + 1..n : scores[j] \notin Failure
         /\ \A j \in i + 1..n : scores[j] > 0 => \E s \in Before(j) : s >= scores[j]
    /\ index = -1 => \A i \in 1..n : scores[i] \in {0, NoHandle}

\* If the readers ended in the order of the files, the page shows the image
\* that was sent for a caption, and no other image had a better score.
OrderedShowsBest ==
  \A r \in late \cup {shown} :
    r.kind = "result" /\ r.ordered => r.file = r.sent /\ r.best

\* The response is hidden when the form is submitted (landing_page.js:3), and
\* what is shown afterwards belongs to this submission, if no reader of an
\* earlier result was still loading when it was submitted.
ShownIsOfThisSubmission ==
  patient /\ shown.kind # "nothing" => shown.of = submission

\* A submission ends and the button is enabled again, whatever fails on the
\* page or on the server, unless a remote call is never answered.
RemotePending ==
  \/ phase = "captioning"
  \/ phase = "scoring" /\ n # 1 /\ Len(scores) < n
SubmissionEnds == loading ~> (~loading \/ []RemotePending)

\* "We will pick the best photo for you to use and generate the Top 3
\* captions for the picture" (index.html): the image shown is the one that
\* was captioned.
ShownIsCaptioned ==
  shown.kind = "result" => shown.file = shown.sent
==============================================================================
