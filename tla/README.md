# Verification of the web server

TLA+ models of the C++ web server of this repository (`src/src`, `src/include`),
TLC configurations that check them on small instances, and TLAPS proofs of what
matters most for every size. Paths below are relative to the repository, which
the `map` of `PROJECT.json` calls `src/`; `src/src/server.cc` is the file
`src/server.cc` of the repository.

    tlc -workers 4 -config MCServer.cfg MCServer      # a run
    tlapm CrudStoreProofs.tla                         # a proof module

## 1. The system

A single process. `main` parses a configuration file, builds a `server`, and
waits in `server::run` for a pool of `THREADPOOL_SIZE` (2) threads that all run
one Boost.Asio `io_service`. Another thread writes the log.

| Component | State it keeps | Operations | Talks to |
|---|---|---|---|
| logging buffer (`logging_buffer.cc`) | two queues, which of them is available, `writing_lock_` | `addToBuffer` (any thread), `writeToLog`, `empty` (logging thread) | every other component logs through it |
| server (`server.cc`) | acceptor, `program_terminated_`, signal set, logging thread | constructor, `run`, `start_accept`, `handle_accept`, `handle_logging`, `kill_server` | sessions, logging buffer, `main` |
| session (`session.cc`) | socket, request, response, read buffer | `start`, `handle_read`, `handle_write` | dispatcher, logging buffer |
| request dispatcher (`request_dispatcher.cc`) | none | `getRequestType`, `getStaticFilePath`, `getCrudEntityPath`, `dispatch_request` | server paths, registry, handlers |
| config parser and interpreter | `server_paths_`, API key and URL (static, written before the threads start) | `Parse`, `setServerPaths`, `getPort` | `main`, dispatcher, app handler |
| registry (`registry.cc`) | a factory per request type | register, `GetRequestHandler` (a new handler for every request, never deleted) | dispatcher |
| CRUD handler and file manager (`crud_handler.cc`, `crud_file_manager.cc`) | files: `data_path/<name>/<id>`, `data_path/maxEntityIds`, `temp` in the working directory; a mutex per request | POST, GET, list, PUT, DELETE | file system |
| static, echo, health, sleep, not-found handlers | none | `handle_request` | file system |
| app handler (`app_handler.cc`) and landing page (`landing_page.js`) | none on the server; the selected files in the browser | form parsing, scoring of images, caption | a remote model over libcurl |
| logger, signal handler | - | set-up of Boost.Log; dead code | - |

What is hard about it, and what makes each part correct:

* **Logging buffer.** `writeToLog` walks a queue without the lock. It is right
  if no producer can reach that queue, nothing is lost, repeated or reordered by
  the swap, and no message stays in a queue that is no longer looked at.
* **Server and session.** Completion handlers run on two threads without a
  strand; `kill_server` runs on a pool thread, joins the logging thread, and
  `main` joins the pool. It is right if the chain of accepts never breaks, one
  handler at a time touches a session, a signal ends the process without
  deadlock, nothing is used after `main` has left, and the log holds what
  was logged before the shutdown. A handler that throws ends the process, and one
  that never returns keeps `main` in its join.
* **CRUD.** Every request makes a file manager, and so a mutex, of its own:
  `entity_id_file_mutex` excludes nobody. Ids come from a file that is read,
  rewritten through a shared temporary file and copied back, in many calls, any
  of which another request or a crash can come between. It is right if POST never
  reuses an id, an answer tells what happened, and a restart finds a usable file.
* **Routing.** The dispatcher picks a handler by the longest location the
  cleaned target starts with; the static and CRUD handlers clean and scan again,
  over fewer lists. It is right if they always agree.
* **Config parser.** Characters are read one at a time and may be put back; a
  stack holds the open blocks. It is right if it accepts exactly the files whose
  tokens form statements in balanced blocks, and the tree holds those tokens in
  order. Nothing guards `top()` and `pop()` after a `}` too many, and a word that
  the end of the file cuts off is dropped silently.
* **Config interpreter.** Reads the tree when the process starts. It is right if
  the server either starts with what the file says, or does not start. A location
  without a block where one is needed dereferences a null pointer.
* **App handler and landing page.** Several failing remote calls are folded into
  one index; the browser reads the files concurrently, posts them in the order in
  which the readers end, and shows the image by that index. It is right if the
  image shown is the one that was captioned, belongs to the last submission, and
  the form can always be used again.

`PROJECT.json` lists each of these as a hazard at its line.

## 2. Modules

| Module | Models | Uses |
|---|---|---|
| `LogFifo` | what the logging buffer promises: one queue | - |
| `LoggingBuffer` | `addToBuffer` and `writeToLog`, lock step by lock step | refines `LogFifo` |
| `LoggingBufferProofs` | its proofs | `LoggingBuffer` |
| `Server` | life of the process: constructor, pool, sessions, logging thread, shutdown | `LogFifo` as its buffer |
| `ServerProofs` | its proofs | `Server` |
| `MCServer` | `Server` with a bound on what a run has seen before the shutdown | `Server` |
| `EntityStore` | what the CRUD service promises a client: a map from (name, id) to a body | - |
| `CrudStore` | CRUD handler and file manager, one action per file-system call | refines `EntityStore` when requests do not overlap |
| `CrudStoreProofs` | proofs about any number of overlapping writers | `CrudStore` |
| `CrudWriterProofs` | proofs about the files, most of them for one writer at a time, and the refinement of `EntityStore` | `CrudStoreProofs` |
| `SequenceLemmas` | no code: lemmas about numbers and sequences that the proofs of `CrudStore`, `Routing` and `ConfigParser` cite | - |
| `Routing` | `setServerPaths`, `getPort`, the dispatcher and what handlers make of the target | - |
| `RoutingProofs` | its proofs | `Routing` |
| `ConfigParser` | `ParseToken`, `Parse`, `ToString` | - |
| `ConfigParserProofs` | its proofs | `ConfigParser` |
| `AppPost` | the landing page and `process_post` with its remote calls | - |
| `AppPostProofs` | its proofs | `AppPost` |

The compositions follow the code: the server sees the buffer through
`addToBuffer` and the effect of `writeToLog`, so `Server` uses the specification
that `LoggingBuffer` is shown to implement; a session sees a handler as one call,
so in `Server` dispatching is one step that answers (`Dispatch`), throws
(`HandlerThrows`) or never returns (`HandlerHangs`), and `CrudStore`, `Routing` and
`AppPost` take that call apart: they show where it throws and where it waits for
ever. Every definition marked "Mistake:" is a bug someone could have
written; it is used by no specification, and serves to show that a property
would notice.

### LoggingBuffer

| Model | Code |
|---|---|
| `buf[1..2]` | `buffer1_`, `buffer2_` |
| `available` | `available_buffer_` and `available_buffer_index_` |
| `lock` | the owner of `writing_lock_` |
| `ppc[p]`, `target[p]` | where thread p is in `addToBuffer`, the queue it found |
| `lpc`, `queue` | where the logging thread is in `writeToLog`, its local `queue` |
| `sent`, `written` | history: messages accepted per thread; the log |

`AddToBuffer` is lock, load of the pointer, emplace, unlock; `WriteToLog` is the
unlocked test, lock, swap, unlock, one action per message written, and the sleep
when there is nothing. A message is its sender and its number.

### Server

`main`, `pool[t]` and `logger` are the program counters of the threads; `op[s]`
is the asynchronous operation outstanding on a session (`accept`, `read`,
`write`, each followed by its completed form), `err[s]` the error code it
completed with, `signal` the state of the signal set. The constructor runs in
the order in which `server.h` declares the members, which is not the order of
the initialiser list: `logging_thread_` starts before `program_terminated_` is
initialised. The value the flag's memory holds before is any of
`Uninitialised`. What a handler may do instead of answering is `HandlerMay`: throw,
as on a CRUD id that is a word, a form without a number of images, or a
`copy_file` that fails, and then nothing catches it and the process is `aborted`;
or hang, as in `curl_easy_perform` without a time limit or on a mutex that the
request holds itself, and then the thread is `stuck` for good. Boost.Asio is modelled by what the code relies on: a
completion handler runs once, on any thread in `run()`; after `stop()` none is
started and each `run()` returns. `kill_server` has no return statement; the
repository's builds set no optimisation level, where it returns.

### CrudStore

| Model | Code |
|---|---|
| `maxFile` | `data_path/maxEntityIds`: missing, or a sequence of (name, largest id) |
| `temp` | the file `temp`, shared by all requests |
| `dirs`, `object` | the directories `data_path/<name>` and the files in them |
| `pc[w]`, `ret[w]` | the next file-system call of worker w; where `generateEntityId` or `writeEntityId` returns to |
| `req[w]`, `existed[w]`, `reply[w]` | the request, `handle_put`'s `entity_exists`, the answer |
| `locked[w]` | the mutex of the file manager of w's request |
| `fd[w]`, `lines[w]`, `source[w]` | streams that are open: whether the file still has its name, what is buffered, what `copy_file` has measured |
| `taken` | history: the files a POST or PUT ever opened |

An action is one file-system call and the straight-line code around it:
opening for output truncates, removing an open file leaves a file without a
name, two writers at offset 0 overlay each other, `copy_file` truncates its
target before it copies. `Halt` is the end of the process, by a kill (`Crash`,
possible when every request in progress is at a call in `CrashPoint`)
or by an exception that nobody catches. `Restart` starts it again on the same
files. `std::stoull` throws on a word (`NotANumber`), `copy_file` on a file that
another request has removed or truncated or that cannot be opened (`TempIsGone`,
`SourceShrank`). What the latter does depends on who called `writeEntityId`
(`CopyThrows`). Called to raise the recorded id, it ends the process. Called for
a new directory, it is caught by `writeObject`, which goes on without the directory
and with the mutex still locked, and `generateEntityId` then locks it on the
same thread: the request waits for itself (`HangsOnItself`).

`MayFail` says which calls may fail. With `"mkdir"`, `create_directories` throws. With
`"open"`, any file or directory may not open: `openObject` gives nothing to write
to, reading an object answers 404 and listing an empty list, `generateEntityId`
neither creates `maxEntityIds` nor reads it and returns 1 (`Generated`),
`writeEntityId` makes the directory without a line (`AppendLineFails`) or records
nothing (`OpenTempFails`), and `copy_file` throws.

### Routing

| Model | Code |
|---|---|
| `config`, `next` | the statements of the server block, and the one `setServerPaths` reads next; forgotten when the server runs |
| `used`, `paths` | `used_locations`; the lists of `ServerPaths` |
| `port` | what `getPort` returned, until the constructor has it |
| `status` | `reading`, `starting`, `serving`; `failed` after an exception that `main` catches; `undefined` after a null `child_block_` was used |
| `step`, `target`, `method` | the request in the dispatcher |
| `type`, `location` | what `getRequestType` found |
| `answer` | what the handler answered (status 0: the request goes on in `CrudStore`) |

A statement is a location (handler, with or without a block, how often the block
gives its setting), a `listen` with a number or something else, or a location
that lacks a token. `ReadLocation`, `SkipListen`, `RejectConfig` and `NoBlock`
are the cases of the loop of `setServerPaths`; `Port` is the loop of `getPort`,
where a bad statement sets the port back to 80. `Clean`, `LongestOf`, `Scan` and
`Split` are the dispatcher's loops as operators. The body of a loop is an
operator of its own (`Unrepeated` for one character, `Longer` for one list,
`Listens` for one statement) and the loop a recursive function over its rounds.
A path is a sequence over a slash and letters.

### ConfigParser

| Model | Code |
|---|---|
| `text`, `ended` | what was read of the file so far |
| `held` | the character that `unget` put back |
| `state` | the state of `ParseToken` (in a quote, which one) |
| `token`, `last` | what it returned; `last_token_type` |
| `blocks`, `stack` | every `NginxConfig` as the sequence of its statements; `config_stack` |
| `words` | a number for each NORMAL token, in place of its text |
| `result` | what `Parse` returned; `undefined` after `top()` or `pop()` of an empty stack |

The file is read lazily: a read chooses the next character, or that there is
none, so one run covers every file within the bounds. The reference
(`Lexemes`, `IsBlock`, `Viable`) consists of recursive functions over the whole
text and shares nothing with the automaton. A word that the text ends within is
a token `cut` there, which belongs to no valid file. The parser drops
such a word, so `AcceptsExactly` and `RoundTrip` speak of the tokens without it
(`Uncut`), and `AcceptsOnlyValid` of all tokens.

### AppPost

| Model | Code |
|---|---|
| `submission`, `n` | the submit event, `files.length` |
| `loading`, `shown` | the loading message and the disabled button; the response div |
| `posted` | `base64Files`: the files in the order in which their readers ended |
| `late` | readers of the image to show, started by an answer and not yet done |
| `phase` | how far the submission is: readers, scoring, caption, answer |
| `scores` | what each call in the loop of `get_best_image_index` came to |
| `index`, `maxScore` | `index`, `max_score` of the loop |
| `patient` | history: whether a late reader was left at the last submit |

`Score` is one pass of the loop, for any outcome of the remote call: a score, no
handle, a curl error, an answer that is no number. `Fail` is the handler at the
end of the promise chain; everything between submit and answer can end there.
One submission is on its way at a time, because the button is disabled, but the
reader that loads the image for a result ends after the button is enabled again.

## 3. Runs

| Run | Instance | Properties | Result |
|---|---|---|---|
| `logging_buffer` | 2 producers, 3 messages each | `NoDataRace`, `InOrderExactlyOnce`, `ImplementsFifo`, `EveryMessageIsWritten` | hold; 14,960 states |
| `crud_serial` | 1 worker, 2 names, ids 0 and 2 in URLs, long and short bodies, 4 requests | `ImplementsStore`, `StaysUp` | hold; 227,739 states |
| `crud_one_writer` | 2 workers, one POST or PUT at a time beside GET, list and DELETE, 2 names, a numeric and a word id, 4 requests, the process killed anywhere but inside `copy_file`, 2 restarts | `PostIdIsFresh`, `DirectoryRecorded`, `IdsRecorded`, `LinesAgree`, `SuccessIsBacked` | hold; 5,710,807 states |
| `crud_two_writers` | 2 workers, no restriction, every opening and `create_directories` may fail, 3 requests | `BlankIsBeingWritten`, `OneDeleteWins`, `EveryRequestEnds` | hold; 849,238 states |
| `crud_two_posts` | 2 workers, 2 POSTs | `PostIdIsFresh` | **violated** |
| `crud_crash_in_copy` | 1 worker, a kill inside `copy_file` | `PostIdIsFresh` | **violated** |
| `server` | 2 threads, 2 connections, 2 requests, at most one of each before the signal, both values of the flag, handlers that answer, throw or hang | `OneAcceptChain`, `OneHandlerPerSession`, `FlushedAtExit`, `LogsAllOrNothing`, `NothingOutlivesMain`, `SignalEndsServer`, `RequestsAreAnswered` | hold; 389,390 states |
| `routing` | all configurations of up to 2 statements with locations of up to 3 characters, all targets of up to 6 | `StartsAsConfigured`, `LongestMatchDecides`, `HandlersAgree`, `CleanIsCanonical`, `EntityIsInTarget` | hold; 862,644 states |
| `config_parser` | all files of up to 8 characters, 2 of them white space, quotes or `#` | `AcceptsExactly`, `RoundTrip`, `UndefinedOnlyIfInvalid` | hold; 3,066,352 states |
| `config_parser_cut_off` | all files of up to 4 characters, one of them white space, quote or `#` | `AcceptsOnlyValid` | **violated** |
| `app_post` | up to 3 files, scores 0 to 2, 2 submissions | `SelectionExplained`, `OrderedShowsBest`, `ShownIsOfThisSubmission`, `SubmissionEnds` | hold; 224,438 states |
| `app_best_photo` | the same | `ShownIsCaptioned` | **violated** |

Each component is also checked for its type invariant `TypeOK` in one of its runs.

### What the violated runs show

* `crud_two_posts`: two POSTs that overlap read the same next id, both are told
  201 with it, and the second overwrites the object of the first. The mutex is a
  member of an object that exists once per request.
* `crud_crash_in_copy`: `copy_file` truncates `maxEntityIds` first. After a kill
  right then the file is empty and the directory is there; `writeEntityId` only
  replaces lines, so no line ever comes back, every POST gets id 1 and overwrites
  what the last one stored.
* `config_parser_cut_off`: the file `a;b` is accepted, without `b`. At the end of the
  file `ParseToken` returns the end whether or not it is inside a word, while
  `config_parser.h:34` says that `Parse` returns true iff the file is valid.
* `app_best_photo`: the files are appended to the form in the order in which
  their readers end, and the index in the answer is applied to the order of the
  selection. If a small file overtakes a large one, the page shows another photo
  than the one that was scored best and captioned.

Some of the properties that hold say less than one would like, and why:

* `LogsAllOrNothing`: the logging thread reads `program_terminated_` before the
  constructor has initialised it. With a non-zero byte there and nothing logged
  yet the thread ends and the process never logs at all; the property says that
  this is the only way to lose the log before shutdown.
* `FlushedAtExit` speaks of what was logged before `kill_server` set the flag. What
  is logged later may be lost, `main`'s own "Joining threadpool threads" included.
* `SignalEndsServer` and `RequestsAreAnswered`: a handler that throws ends the
  process, and one that never returns keeps `main` in its join for ever. The first
  says that nothing else keeps a signal from ending the process, and that the
  log is complete and the other threads have left even then, unless every thread
  hangs. The second says that only the request's own handler, or no thread being
  left, keeps a request from its answer.
* `AcceptsExactly` and `RoundTrip` leave out a word that the file ends within, which
  is what `AcceptsOnlyValid` is about: `Parse` returns true for exactly the files
  that are valid without it, and loses nothing else.
* `EveryRequestEnds`: a request may also hang on itself, where `generateEntityId`
  locks the mutex that an exception of `copy_file` left locked. The property says
  that there is no other place in which a request waits for ever. `StaysUp` says
  that none does if requests do not overlap and no call fails.
* `SuccessIsBacked`: a POST or PUT that was told success has opened its object,
  if library calls do not fail. The handlers ignore what `writeObject` returns, so
  with a failing `open` it does not hold. Nor do the properties of ids, which are
  checked with no failing calls for the same reason (see the premises in
  section 4).
* `ShownIsOfThisSubmission` has the premise that no reader of an earlier result
  is still loading at the submit; such a reader puts the old result back.
* `SelectionExplained` tells exactly what a failed call does: its code replaces
  the index of the best image so far and is the answer, unless a later image
  scores higher than every one before it.

### Bounds, and why they are enough

* Logging buffer: with three messages a producer can have messages in both
  queues at once and go round all swap states; two producers are the least that
  can collide. The proofs lift both bounds.
* CRUD: ids are below `IdSpace` = 8, which no run reaches (4 requests, ids in
  URLs up to 2), so `NextId` never wraps in them; it would after a PUT with id
  2^64-1. Four requests are enough for PUT above the recorded id, POST, DELETE,
  POST on one name; PUT ids 0 and 2 lie below, at and above the next id. Two names
  make lines of other names part of the file. `ThreadPool` limits the model to
  two workers, as many as the program has, because what a worker sees of a
  removed `temp` is exact for two only.
* `MaxWriters` and `CrashPoint` are the premises of `crud_one_writer`: the two
  violated CRUD runs show that without either the properties fail, so this run
  says how far the code keeps them.
* Server: session objects for two connections and one for the next accept. Two
  connections with a request each keep both threads in handlers, so that both can
  hang or one hang while the other answers. `SignalLoad` of `MCServer` is the number of
  connections and of requests that a run with a signal has: one of each meets the
  shutdown at every point, with the second thread in an accept or in the
  handler of the signal. Accepts, reads and writes fail only while no second
  connection has been accepted.
* Routing: three characters of location and six of target contain every
  relation a location and a target can have here (equal, prefix, prefix in the
  middle of a piece, slash at the end, doubled slash). The values of `listen` lie
  at both ends of the range, inside it and one outside each end. Scanning compares
  locations pairwise, so two statements are all a disagreement needs. Six characters
  are the least in which a location other than `/` is followed by a name and an id
  (`/x/x/x`); with five, `EntityIsInTarget` would never meet an id.

* Config parser: a block inside a block with a statement in it, `a{b{c;}}`, has
  eight characters; a comment or a quoted word has two that are not plain, and two
  pieces of white space or one of each can meet. A word of one or two characters
  behaves as any longer one.
* App: three files are the least with an image before and one after a failed
  call; scores 0 to 2 give ties, none, and a best above another. Two submissions
  let what is left of the first meet the second.

### Fairness

`LoggingBuffer`, `CrudStore` and `Server` assume weak fairness of every thread:
the operating system runs a thread that can run. For the logging lock weak
fairness is enough although a mutex promises no order, because each producer
has finitely many messages. A thread whose request handler has hung takes no step,
so nothing is assumed of it: in `Server` it is `stuck`, in `CrudStore` fairness is
of `Step(w) /\ ~HangsOnItself(w)`. Whether a handler throws or hangs is free. Nothing is assumed of clients or signals:
`Connect`, `RequestArrives`, `HangUp`, `Sent` and `Signal` may never happen.
`AppPost` assumes that a reader ends, with or without success, and that the page
and the server run; a remote call may stay unanswered for ever, as neither
`fetch` nor curl is given a timeout, and `SubmissionEnds` says that nothing else
keeps the form disabled. `Routing` and `ConfigParser` are sequential and are
checked for safety only.
Deadlock checking is off where the system may stop: when all requests have been
served, after the process has ended, or after a configuration was refused.

## 4. Proofs

The theorems hold for every value of the constants that satisfies the named
assumptions `ThreadsDistinct` and `MaxMessagesIsNat` (`LoggingBuffer`),
`ConstantsOK` and, for the theorems about one writer, `ThreadPool` (`CrudStore`),
`ServerConstants` (`Server`), `CharactersOK` and `LengthsOK` (`Routing`) and
`BoundsAreNat` (`AppPost`, `ConfigParser`).

| Theorem | States |
|---|---|
| `LoggingBufferProofs!TypeCorrect` | `Spec => []TypeOK` |
| `LoggingBufferProofs!NoDataRaceHolds` | `Spec => []NoDataRace` |
| `LoggingBufferProofs!OrderKept` | `Spec => []InOrderExactlyOnce` |
| `LoggingBufferProofs!Implementation` | `Spec => ImplementsFifo` |
| `ServerProofs!TypeCorrect` | `Spec => []TypeOK` |
| `ServerProofs!OneHandlerAtATime` | `Spec => []OneHandlerPerSession` |
| `ServerProofs!AcceptChainKept` | `Spec => []OneAcceptChain` |
| `ServerProofs!MainLeavesLast` | `Spec => []NothingOutlivesMain` |
| `ServerProofs!FlushedBeforeExit` | `Spec => []FlushedAtExit` |
| `ServerProofs!AllOrNothingLogged` | `Spec => []LogsAllOrNothing` |
| `CrudStoreProofs!TypeCorrect` | `Spec => []TypeOK` |
| `CrudStoreProofs!BlankIsTemporary` | `Spec => []BlankIsBeingWritten` |
| `CrudStoreProofs!OneDeleteIsTold` | `Spec => OneDeleteWins` |
| `CrudWriterProofs!SuccessHasFile` | `Spec => []SuccessIsBacked`, if `open` and `mkdir` do not fail |
| `CrudWriterProofs!LoneWriterStaysUp` | `Spec => []StaysUp`, for one writer, ids that are numbers, no failing `open`, no crash |
| `CrudWriterProofs!LoneWriterTakesFreshIds` | `Spec /\ []IdsLeft => []PostIdIsFresh`, for one writer (see below) |
| `CrudWriterProofs!DirectoriesAreRecorded` | `Spec /\ []IdsLeft => []DirectoryRecorded`, the same |
| `CrudWriterProofs!IdsAreRecorded` | `Spec /\ []IdsLeft => []IdsRecorded`, the same |
| `CrudWriterProofs!LinesOfANameAgree` | `Spec /\ []IdsLeft => []LinesAgree`, the same |
| `CrudWriterProofs!SerialImplementsStore` | `Spec /\ []IdsLeft => ImplementsStore`, for one request at a time |
| `RoutingProofs!TypeCorrect` | `Spec => []TypeOK` |
| `RoutingProofs!ConfigurationDecides` | `Spec => []StartsAsConfigured` |
| `RoutingProofs!LongestDecides` | `Spec => []LongestMatchDecides` |
| `RoutingProofs!HandlersFindTheSame` | `Spec => []HandlersAgree` |
| `RoutingProofs!TargetsAreCanonical` | `Spec => []CleanIsCanonical` |
| `RoutingProofs!EntityIsCutOut` | `Spec => []EntityIsInTarget` |
| `ConfigParserProofs!TypeCorrect` | `Spec => []TypeOK` |
| `ConfigParserProofs!MeaningCorrect` | `Spec => []ParserInv`: the tokens read leave open exactly the files that stack and last token allow |
| `ConfigParserProofs!AcceptsExactlyTheFiles` | `Spec => []AcceptsExactly` |
| `ConfigParserProofs!UndefinedRightly` | `Spec => []UndefinedOnlyIfInvalid` |
| `ConfigParserProofs!RoundTripCorrect` | `Spec => []RoundTrip` |
| `AppPostProofs!TypeCorrect` | `Spec => []TypeOK` |
| `AppPostProofs!IndexIsExplained` | `Spec => []SelectionExplained` |
| `AppPostProofs!InOrderTheBestIsShown` | `Spec => []OrderedShowsBest` |
| `AppPostProofs!PatientSeesOwnAnswer` | `Spec => []ShownIsOfThisSubmission` |

**Logging buffer.** `NoDataRace` is not inductive. The invariant `IInv` adds to
`TypeOK` who holds the lock at each program counter (`LockOwned`), that a producer
about to emplace has the available queue as target (`TargetAvailable`), that the
queue which is not available is empty unless the logging thread is draining it
(`QueueTaken`), and that a producer inside has a message left (`OneToSend`).
`QueueTaken` makes `Pending` (drained queue, then available queue) one queue, so the
refinement of `LogFifo` is step by step: `Emplace` is `Add`, `WriteFront` is
`Write`, and the swap changes nothing because one of the two queues is empty.
That nothing is reordered follows from a second invariant (`Ordered`): `Accepted`
only grows at its end, and holds of each producer the numbers up to `sent`.

**Server.** Three invariants, for any pool and any number of sessions.
`SessionInv`: a thread has a session exactly while it runs a handler of it, a
session has one user at a time, and the one accept is either outstanding on one
session or about to be started by one thread (`AcceptHeld`); it does not fork,
since only the handler of an accept starts the next one. `ShutdownInv` says what the thread
that runs `kill_server` has done by then: nobody leaves the pool before `stop()`,
somebody is in `kill_server` until the logging thread has ended, so `main`
passes its joins last. `LogInv` follows a message into the log: the logging thread
looks at the flag before it looks at the buffer, so what was stored when the flag
was set (`storedAt`) is written when it ends.

**CRUD, any number of writers.** `TypeOK` is not inductive: an action that reads
`maxEntityIds` or `temp` has a value only if the file is there, and an id is a
number only where `std::stoull` has accepted it. `InControl(w)` says, for each
program counter, what the worker has found out by then, and that what it relies on
cannot have been undone by another worker: `maxEntityIds` is never removed, and a
`temp` that is removed while open is marked unnamed. `IInv` is `TypeOK` with
`InControl` of every worker; one lemma per action shows that it is kept.
`BlankIsTemporary` is inductive beside `IInv`; its key lemma, `WritersKept`, covers
all actions that neither create an object nor end a writer. `OneDeleteIsTold` goes
through the actions that answer a request. `SuccessHasFile` needs `Backed`: from
the test or the creation of the directory until the object is opened the
directory is there, for nothing removes one.

**CRUD, one writer.** With `MaxWriters` = 1 at most one POST or PUT is in progress
(`Alone`), so nobody else touches `temp` or `maxEntityIds`: `Rewrite` says what they
hold between the calls of `writeEntityId`, and `copy_file` finds what was written,
if it can be opened. So no exception leaves the mutex locked, and a request that
calls a function that locks it does not hold it (`AliveInv`). That gives
`LoneWriterStaysUp`. The other four theorems are about one fact:
`Covers`, that every directory has a line, the lines of a name agree, and none is
below an id that was ever opened under the name. It holds of `maxEntityIds`, or of
`temp` while the copy has begun (`RecordsInv`), and has to be proved together with
what the writer knows at each call (`Informed`): a POST that has read the file has
an id that was never taken. The proofs show which premises this rests on, and each
is one the code does not give:

* `OneWriter`: the mutex excludes nobody; `crud_two_posts` shows the failure.
* `"copyData" \notin CrashPoint`: no kill between the two halves of `copy_file`;
  `crud_crash_in_copy` shows the failure. Kills anywhere else, in any number, are
  covered.
* `DirectoriesAreMade`: `writeObject` writes the line first and makes the directory
  after it, and goes on when `create_directories` has thrown; the proofs follow
  the directory from there to the object (`Backed`).
* `FilesAreOpened`: with `maxEntityIds` not open `generateEntityId` returns 1 (line
  126), which may have been taken, and `writeEntityId` makes a directory without a
  line (171), for which no line is ever added, or does not record the id (185).
* `[]IdsLeft`: no id 2^64-1 was recorded when `generateEntityId` reads the file;
  the id after it is 0, which may have been taken.

**The refinement.** `SerialImplementsStore` needs requests that do not overlap and
a process that nothing brings down (`Undisturbed`). `SerialInv` says what a request
that is alone knows of its object at each call; the steps of the file manager
before the object is opened do nothing to the store (`PreparingIsUnseen`), opening
it is `Post` or `Put` (`OpeningStores`: the body that is about to be written counts
as stored, for nobody can see the object in between), and each answer of the
handlers is the store's. That POST answers an id that is not in the store is
`LoneWriterTakesFreshIds` again.

**Routing.** The loops are recursive functions over their rounds. That such a
function has a value, and what it computes, is proved by induction; the library's
induction theorems take an operator, so `Induction` states it for a set of
numbers and gets it from the well-foundedness of < on Nat. On it rest
`PortOfLastListen`, `CollapseHasNoPairs` and `ScanIsBest`: a scan of some lists of
locations is a longest match in them, or there is none. `RoutingInv` adds to the
types that no location is in two lists (`Disjoint`, kept because `used_locations`
holds the lists while they are made), that what the dispatcher decided is a longest
match (`Decided`), and where the entity of an answer comes from (`Cut`).
`TargetsAreCanonical` compares the loop over the characters, which knows only what it
has kept so far, with the positions of the pieces. `Runs` says where the pieces of the
first n characters begin and end, the last of which may go on; `Collapsing` says
that the loop holds these pieces, each behind one slash, and one more slash if the
last character was one. There is a lemma for each of the three kinds of next
character (a slash, the first of a piece, another one of a piece), and `PiecesAre`
shows that counting beginnings, as the reference does, finds the same pieces.
`HandlersFindTheSame` follows with `SameBest`: the two longest matches have one
length and are prefixes of one target, so they are one location, and it is in one
list. `EntityIsCutOut` is a fact about `Split` and clean targets.
`ConfigurationDecides` rests on `ConfigInv`: all statements before the next could
be read, and `used` holds just their locations.

**Config parser.** For files of every length and blocks of every depth, from the
assumption that the bounds are numbers. The recursive functions of the reference
have a value, and obey their equations, because a text depends on shorter texts
only (`LexemesAre`, `IsBlockIs`); both are shown by building the function up to a
length and `Induction`.

* `ParserInv` speaks of all continuations at once. `Scanned(toks)` says: for every
  u, the tokens of the text with u behind it are toks, the token on its way, and
  what the state of `ParseToken` makes of u (`Rest`); `ReadChar` and `ReadAhead` show
  it for one more character. `Follows(toks, last, n)` says which tokens may come
  after toks: those of a language that depends on the last token and on the number
  n of open blocks only. The language for one block more is `Closing` of the one
  below (a block, a brace, then the rest), and what `Parse` relies on is the same
  for all of them (`Grammatical`: a word may begin a statement or a block, `;` and `{`
  need a word before them, `}` does not follow a word). So a token that `Parse`
  refuses has no continuation, and at the end of the file n and the last token tell
  whether it is valid. `AcceptsExactlyTheFiles` and `UndefinedRightly` follow, as
  `Viable` asks for some of the continuations. The tokens read are none of them cut
  (`NoneCut`), and the text so far has a cut one at most at its end, which is the
  one that `Uncut` takes away and the parser drops.
* `RoundTripCorrect` needs the tree that is not finished yet. `IsTree` (a child
  block has a higher number than its parent) gives `ConfigToString` a value, the
  text `Flat` of the statements of a block (`ConfigToStringIs`). `OpenBlocks` says that
  the blocks on the stack are distinct and each is the child of the last statement
  of the one below. `Printed(toks)` says: whatever f prints the blocks that are closed,
  the tokens read so far are the text of the root up to its last statement, a
  brace, the text of the block in that statement up to its last one, and so on to
  the words of the statement on the top (`Printing`). An open block has no text of
  its own yet, so f is any function; at the end of the file it is `ConfigToString`.

Neither invariant is one TLC could check beforehand: they quantify over all texts
and all functions. TLC checks what follows from them.

**App.** `SelectionExplained` speaks of the end of the loop; `LoopInv` says the same
of the images scored so far, together with what `max_score` is then, which the code
keeps when a call fails. `InOrderTheBestIsShown` takes it to the page: positions
among the posted images are positions among the chosen files if the readers ended
in order. `CurrentInv` adds to what is shown what may still be shown, the readers
that are loading.

Every safety invariant, action property and refinement of the passing runs is stated
by a theorem. Checked by TLC only:

* liveness: `EveryMessageIsWritten`, `EveryRequestEnds`, `SignalEndsServer`,
  `RequestsAreAnswered`, `SubmissionEnds` (fairness and ENABLED are out of the
  prover's reach);
* what the violated runs refute: `AcceptsOnlyValid`, `ShownIsCaptioned`, and `PostIdIsFresh`
  without the premises of its theorem.

## 5. Abstractions

* A response is its status and what matters of its body; JSON, MIME types,
  headers and the texts of log messages are left out. JSON parsing of request
  bodies happens nowhere in the CRUD handler.
* `readObject` (open and read to the end) is one step, and so is a directory
  listing; a reader that overlaps a writer sees the file before or after a call of
  the writer.
* All lines of `maxEntityIds` have one width, so an overlay of lines is an overlay
  of records. A name with a colon, which would match another name's line, is not
  modelled.
* The data directory exists from the start; the code makes it before its first
  use and never removes it, and creating it does not fail. Of the calls that can
  fail in `CrudStore`, the model has opening and making an entity's directory;
  failing tests, removals, reads, writes and closings are left out.
* Undefined behaviour: `server.cc:24` adds the port number to the address of a string
  literal; the model lets it log some message. `kill_server` has no return
  statement; the model lets it return. `empty()` reads both queues without the
  lock while a producer may insert; the model takes it for one atomic test.
* In `Routing` a configuration is one server block of location and listen
  statements; query strings are part of no target. Values of roots, keys and URLs
  are left out: only whether they are given, and once, is kept. A `listen`
  argument is a number if `std::stoi` takes it for one, trailing characters
  included. Opening a directory as a static file succeeds and ends in 404, one of
  the two outcomes `HandleStatic` has.
* In `ConfigParser` a character is its class and a word its number. Tabs are left
  out: they are white space like the blank, in and between tokens.
* In `AppPost` an image is its position, a caption the image that was sent for it,
  the remote model any sequence of outcomes. The texts of prompts and answers, and
  the parsing of the form and of JSON, are left out; a form that cannot be parsed
  is in `Routing` (`FormMissing`).
* The handlers' memory is never freed by the code; memory is not modelled.

Not modelled: the command line and the registration of factories in `main`; the
bodies and content types of the stateless handlers; the logger's set-up (library
calls without state of ours) and the dead signal handler; libcurl's global state;
HTTP parsing and sockets (Boost); build files, containers and tests.

## 6. Plan

Done, in this order: `LogFifo` and `LoggingBuffer` with proofs (everything logs
through it), `EntityStore` and `CrudStore` with the first proofs (the only part
with persistent state), `Server` (threads and shutdown), `Routing` with the start
of the server, `ConfigParser`, `AppPost`.

Proved, in this order: the logging buffer and its refinement, `CrudStore` for any
number of writers, `Server`, `AppPost`, `CrudStore` for one writer, its refinement
of `EntityStore`, `Routing`, `ConfigParser`.

Next: a composition of `Server` and `CrudStore` in which a signal stops the server
between two file-system calls of a request (`stop` lets the handler finish).
