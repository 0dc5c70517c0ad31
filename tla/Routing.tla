------------------------------- MODULE Routing -------------------------------
(***************************************************************************)
(* Which handler answers a request, and what it makes of the target:       *)
(* ConfigInterpreter::setServerPaths and getPort (config_interpreter.cc)   *)
(* when main starts the server, then                                       *)
(* RequestDispatcher (request_dispatcher.cc) and the handlers that it      *)
(* calls.  The dispatcher and each handler clean and scan the target on    *)
(* their own, over different lists of locations; what could go wrong is    *)
(* that they disagree.                                                     *)
(*                                                                         *)
(* Abstracted: a path is a sequence of characters, and a character is a    *)
(* slash or one of a few letters; a configuration is the sequence of the   *)
(* location and listen statements in its server block; the files of static *)
(* and app handlers are there or not, as the disk has it at the time of    *)
(* the call.                                                               *)
(***************************************************************************)
EXTENDS Integers, SequencesExt

CONSTANTS Slash, Letter,  \* the characters of a path
          MaxLocation,    \* bound: length of a location
          MaxTarget,      \* bound: length of a request's target
          MaxStatements   \* bound: statements of a configuration

ASSUME CharactersOK == Slash \notin Letter /\ Letter # {}
ASSUME LengthsOK == MaxLocation \in Nat /\ MaxTarget \in Nat /\ MaxStatements \in Nat

Path(n) == {p \in BoundedSeq(Letter \cup {Slash}, n) : p # <<>> /\ p[1] = Slash}

Handler == {"Static", "CRUD", "Echo", "Health", "Sleep", "App"}

\* The handlers with settings in the block of their location; the others never
\* look at a block.
Configured == {"Static", "CRUD", "App"}

\* roots: how often the block gives the setting (root, data_path; of App's two,
\* api_key or chatgpt_url); one without a value counts as 2, for both throw.
\* Bogus stands for a name that no handler has.
LocationStatement ==
  {s \in [kind : {"location"}, location : Path(MaxLocation), handler : Handler \cup {"Bogus"},
          block : BOOLEAN, roots : 0..2] :
     /\ s.handler \notin Configured => ~s.block
     /\ ~s.block => s.roots = 0}

\* A location without its handler or path, and listen with an argument that
\* std::stoi takes for a number or not (none, a word, too large for an int); a
\* port has 16 bits.
MaxPort == 256 * 256 - 1
ShortStatement == [kind |-> "short"]
NoNumber == [kind |-> "listen", number |-> FALSE, value |-> 0]
Number == {-1, 0, 8080, MaxPort, MaxPort + 1}
ListenStatement == {NoNumber} \cup [kind : {"listen"}, number : {TRUE}, value : Number]

Statement == LocationStatement \cup ListenStatement \cup {ShortStatement}

\* "put" is PUT or DELETE, "other" a verb that only echo, health and sleep
\* answer, "unknown" one that Beast does not know.
Method == {"get", "post", "put", "other", "unknown"}

VARIABLES config,   \* the statements of the configuration, until it is served
          next,     \* the statement that setServerPaths reads next
          used,     \* used_locations, until setServerPaths returns
          port,     \* what getPort returned, until the server is constructed
          paths,    \* server_paths_: the locations of each handler
          status,   \* "reading", "starting", "serving", "failed" after an
                    \* exception, or "undefined" after a null pointer is used
          step,     \* of the request: "none", "dispatch", "handle", "done"
          target, method,
          type, location,  \* what getRequestType found
          answer           \* the handler's answer

startVars == <<config, next, used, port, paths, status>>
requestVars == <<step, target, method, type, location, answer>>
vars == <<startVars, requestVars>>

NoEntity == [name |-> <<>>, id |-> <<>>]
NoAnswer == [status |-> 0, location |-> <<>>, entity |-> NoEntity]
Answer(s) == [NoAnswer EXCEPT !.status = s]

Init ==
  /\ config \in BoundedSeq(Statement, MaxStatements)
  /\ next = 1 /\ used = {} /\ port = 0
  /\ paths = [h \in Handler |-> {}]
  /\ status = "reading"
  /\ step = "none" /\ target = <<>> /\ method = "other"
  /\ type = "None" /\ location = <<>> /\ answer = NoAnswer
------------------------------------------------------------------------------
\* ConfigInterpreter::setServerPaths

Reads(kind) ==
  /\ status = "reading" /\ next <= Len(config) /\ config[next].kind = kind
  /\ UNCHANGED <<config, port, requestVars>>

\* Without a known handler, or the setting that Static and CRUD need, a
\* location is used up but serves nothing.
Registers(s) == IF s.handler \in {"Static", "CRUD"} THEN s.roots = 1 ELSE s.handler \in Handler
Readable(s) == (s.handler \in Configured => s.block) /\ s.roots < 2

\* Mistake: used_locations is not looked at.
ReadUnchecked ==
  LET s == config[next] IN
  /\ Reads("location") /\ Readable(s)
  /\ used' = used \cup {s.location}
  /\ paths' = IF Registers(s) THEN [paths EXCEPT ![s.handler] = @ \cup {s.location}] ELSE paths
  /\ next' = next + 1
  /\ UNCHANGED status

\* Mistake: the location is not put in used_locations.
ReadUnrecorded ==
  LET s == config[next] IN
  /\ Reads("location") /\ s.location \notin used /\ Readable(s)
  /\ paths' = IF Registers(s) THEN [paths EXCEPT ![s.handler] = @ \cup {s.location}] ELSE paths
  /\ next' = next + 1
  /\ UNCHANGED <<used, status>>

ReadLocation ==
  LET s == config[next] IN
  /\ Reads("location") /\ s.location \notin used /\ Readable(s)
  /\ used' = used \cup {s.location}
  /\ paths' = IF Registers(s) THEN [paths EXCEPT ![s.handler] = @ \cup {s.location}] ELSE paths
  /\ next' = next + 1
  /\ UNCHANGED status

\* Another statement is none of setServerPaths' business.
SkipListen ==
  /\ Reads("listen")
  /\ next' = next + 1
  /\ UNCHANGED <<used, paths, status>>

\* A location given twice or a second root (std::runtime_error), or a missing
\* token (std::out_of_range); main catches both and returns.
RejectConfig ==
  /\ \/ Reads("short")
     \/ Reads("location") /\ (config[next].location \in used \/ config[next].roots = 2)
  /\ status' = "failed"
  /\ UNCHANGED <<next, used, paths>>

\* child_block_ is null for a location that ends in a semicolon.
NoBlock ==
  /\ Reads("location") /\ config[next].location \notin used
  /\ config[next].handler \in Configured /\ ~config[next].block
  /\ status' = "undefined"
  /\ UNCHANGED <<next, used, paths>>

DefaultPort == 80
InRange(n) == 0 <= n /\ n <= MaxPort

\* Mistake: a bad listen statement leaves the port as it is.
PortKept(c) ==
  LET after[n \in 0..Len(c)] ==
        IF n > 0 /\ c[n].kind = "listen" /\ c[n].number /\ InRange(c[n].value) THEN c[n].value
        ELSE IF n = 0 THEN DefaultPort ELSE after[n - 1]
  IN after[Len(c)]

\* getPort: a bad listen statement sets the port back to the default.
Listens(p, s) ==
  IF s.kind # "listen" THEN p
  ELSE IF s.number /\ InRange(s.value) THEN s.value ELSE DefaultPort
Port(c) ==
  LET after[n \in 0..Len(c)] == IF n = 0 THEN DefaultPort ELSE Listens(after[n - 1], c[n])
  IN after[Len(c)]

\* setServerPaths has returned, and the port is an argument of the constructor.
GetPort ==
  /\ status = "reading" /\ next > Len(config)
  /\ port' = Port(config)
  /\ status' = "starting"
  /\ UNCHANGED <<config, next, used, paths, requestVars>>

Serve ==
  /\ status = "starting"
  /\ status' = "serving"
  /\ config' = <<>> /\ next' = 1 /\ used' = {} /\ port' = 0
  /\ UNCHANGED <<paths, requestVars>>
------------------------------------------------------------------------------
\* Pure helpers of the dispatcher, each written out in three functions there.

\* Slashes in a row become one.
Unrepeated(r, c) == IF c = Slash /\ r # <<>> /\ Last(r) = Slash THEN r ELSE Append(r, c)
Collapse(t) ==
  LET after[n \in 0..Len(t)] == IF n = 0 THEN <<>> ELSE Unrepeated(after[n - 1], t[n])
  IN after[Len(t)]

\* Mistake: slashes at the end stay.
CollapseOnly(t) == Collapse(t)

\* No slash at the end, unless it is the only character.
Clean(t) ==
  IF Len(Collapse(t)) > 1 /\ Last(Collapse(t)) = Slash THEN Front(Collapse(t)) ELSE Collapse(t)

\* Of a handler's locations that the target starts with, the longest.
LongestOf(handler, t) ==
  LET found == {l \in paths[handler] : IsPrefix(l, t)} IN
  IF found = {} THEN <<>> ELSE CHOOSE l \in found : \A k \in found : Len(k) <= Len(l)

NoMatch == [type |-> "None", location |-> <<>>]

\* Mistake: a match in a later list replaces every match in an earlier one.
Latest(best, handler, t) ==
  LET l == LongestOf(handler, t) IN
  IF l # <<>> THEN [type |-> handler, location |-> l] ELSE best

\* A longer match in the next list replaces the best so far.
Longer(best, handler, t) ==
  LET l == LongestOf(handler, t) IN
  IF Len(l) > Len(best.location) THEN [type |-> handler, location |-> l] ELSE best

\* The lists of the handlers are scanned one after the other.
Scan(handlers, t) ==
  LET best[n \in 0..Len(handlers)] ==
        IF n = 0 THEN NoMatch ELSE Longer(best[n - 1], handlers[n], t)
  IN best[Len(handlers)]

Rest(t, l) == SubSeq(t, Len(l) + 1, Len(t))
------------------------------------------------------------------------------
\* session::handle_read and RequestDispatcher::dispatch_request

Receive ==
  /\ status = "serving" /\ step = "none"
  /\ target' \in Path(MaxTarget) /\ method' \in Method
  /\ step' = "dispatch"
  /\ UNCHANGED <<startVars, type, location, answer>>

AllHandlers == <<"Static", "CRUD", "Echo", "Health", "Sleep", "App">>

\* A static file that cannot be opened makes the request one for nobody.
GetRequestType ==
  LET found == Scan(AllHandlers, Clean(target)) IN
  /\ step = "dispatch"
  /\ \/ type' = found.type
     \/ found.type = "Static" /\ type' = "None"
  /\ location' = found.location
  /\ step' = "handle"
  /\ UNCHANGED <<startVars, target, method, answer>>

Reply(a) ==
  /\ answer' = a
  /\ step' = "done"
  /\ UNCHANGED <<startVars, target, method, type, location>>

\* An unknown verb is refused whatever the type; otherwise the handler that is
\* registered for the type answers.
UnknownVerb == step = "handle" /\ method = "unknown" /\ Reply(Answer(400))
Handles(handler) ==
  status = "serving" /\ step = "handle" /\ method # "unknown" /\ type = handler

NotFound == Handles("None") /\ Reply(Answer(404))

\* Echo and health ignore the method, sleep waits a second first.
Always200 == (Handles("Echo") \/ Handles("Health") \/ Handles("Sleep")) /\ Reply(Answer(200))

\* StaticHandler: getStaticFilePath scans static and echo locations only.  The
\* file may have gone since getRequestType opened it, or have no known type.
StaticHandlers == <<"Static", "Echo">>
HandleStatic ==
  LET found == Scan(StaticHandlers, Clean(target)) IN
  /\ Handles("Static")
  /\ IF method # "get" THEN Reply(Answer(400))
     ELSE IF found.type # "Static" THEN Reply(Answer(404))
     ELSE \E s \in {200, 404} : Reply([Answer(s) EXCEPT !.location = found.location])

\* Mistake: the name ends with the slash that ends it.
SplitKeepsSlash(r) ==
  LET slash == SelectInSubSeq(r, 2, Len(r), LAMBDA c : c = Slash) IN
  IF slash > 0 THEN [name |-> SubSeq(r, 2, slash), id |-> SubSeq(r, slash + 1, Len(r))]
  ELSE [name |-> SubSeq(r, 2, Len(r)), id |-> <<>>]

\* Entity name and id: what is before and after the first slash that is not the
\* first character; the first character itself is dropped, whatever it is.
Split(r) ==
  LET slash == SelectInSubSeq(r, 2, Len(r), LAMBDA c : c = Slash) IN
  IF slash > 0 THEN [name |-> SubSeq(r, 2, slash - 1), id |-> SubSeq(r, slash + 1, Len(r))]
  ELSE [name |-> SubSeq(r, 2, Len(r)), id |-> <<>>]

\* CrudHandler: getCrudEntityPath scans static, echo and CRUD locations; the
\* request goes on in CrudStore (answer 0 here) unless it is refused.
CrudHandlers == <<"Static", "Echo", "CRUD">>
HandleCrud ==
  LET found == Scan(CrudHandlers, Clean(target))
      entity == IF found.type = "CRUD" THEN Split(Rest(Clean(target), found.location))
                                       ELSE NoEntity IN
  /\ Handles("CRUD")
  /\ IF method = "other" \/ entity.name = <<>>
       THEN Reply(Answer(400))
       ELSE Reply([status |-> 0, location |-> found.location, entity |-> entity])

\* generate_landing_page compares the target as it came, not cleaned, with its
\* pages, which are clean; the file of a page may be missing.
LandingPage ==
  \E s \in (IF target = Clean(target) THEN {200, 400, 404} ELSE {400}) : Reply(Answer(s))

\* AppHandler; process_post answers 200 whatever becomes of the images and the
\* caption.
AppHandle ==
  /\ Handles("App")
  /\ \/ method = "get" /\ LandingPage
     \/ method = "post" /\ Reply(Answer(200))
     \/ method \in {"put", "other"} /\ Reply(Answer(400))

\* A POST without the form's fields: std::stoi or substr throws in get_images or
\* get_relevant_information, nothing catches it and the process ends.
FormMissing ==
  /\ Handles("App") /\ method = "post"
  /\ status' = "failed"
  /\ UNCHANGED <<config, next, used, port, paths, requestVars>>

\* The session writes the response and reads the next request.
Respond ==
  /\ step = "done"
  /\ step' = "none" /\ target' = <<>> /\ method' = "other"
  /\ type' = "None" /\ location' = <<>> /\ answer' = NoAnswer
  /\ UNCHANGED startVars

SetServerPaths == ReadLocation \/ SkipListen \/ RejectConfig \/ NoBlock
Start == SetServerPaths \/ GetPort \/ Serve
HandleRequest ==
  \/ UnknownVerb \/ NotFound \/ Always200 \/ HandleStatic \/ HandleCrud
  \/ AppHandle \/ FormMissing

Next == Start \/ Receive \/ GetRequestType \/ HandleRequest \/ Respond

Spec == Init /\ [][Next]_vars
------------------------------------------------------------------------------
\* Properties.

TypeOK ==
  /\ config \in Seq(Statement)
  /\ next \in 1..Len(config) + 1 /\ port \in 0..MaxPort
  /\ used \subseteq Path(MaxLocation)
  /\ paths \in [Handler -> SUBSET Path(MaxLocation)]
  /\ config # <<>> => \A h \in Handler : paths[h] \subseteq used
  /\ status \in {"reading", "starting", "serving", "failed", "undefined"}
  /\ step \in {"none", "dispatch", "handle", "done"}
  /\ target \in Path(MaxTarget) \cup {<<>>} /\ method \in Method
  /\ type \in Handler \cup {"None"}
  /\ location \in Path(MaxLocation) \cup {<<>>}
  /\ answer.status \in {0, 200, 400, 404}
  /\ answer.location \in Path(MaxLocation) \cup {<<>>}
  /\ Len(answer.entity.name) <= MaxTarget /\ Len(answer.entity.id) <= MaxTarget

\* The first statement that cannot be read decides: the process starts only if
\* there is none, ends with an exception, or uses a null pointer where a block
\* is missing; a server that starts listens on its last listen statement's
\* port, or on 80 if there is none or the last has no port.
StartsAsConfigured ==
  LET throws(i) == \/ config[i].kind = "short"
                   \/ /\ config[i].kind = "location"
                      /\ \/ config[i].roots = 2
                         \/ \E j \in 1..i - 1 : /\ config[j].kind = "location"
                                               /\ config[j].location = config[i].location
      blockless(i) == /\ config[i].kind = "location"
                      /\ config[i].handler \in Configured /\ ~config[i].block
      first == Min({i \in DOMAIN config : throws(i) \/ blockless(i)} \cup {Len(config) + 1})
      listens == {i \in DOMAIN config : config[i].kind = "listen"}
      bound == config[Max(listens)]
  IN
  /\ status = "failed" /\ config # <<>> => throws(first)
  /\ status = "undefined" => blockless(first) /\ ~throws(first)
  /\ status = "starting" =>
       /\ first = Len(config) + 1
       /\ port = IF listens # {} /\ bound.number /\ bound.value \in 0..MaxPort THEN bound.value ELSE 80

\* The registered location with the most characters in common decides, whatever
\* handler it has and in whatever order the statements came; no match and a
\* missing static file, and nothing else, are answered by the 404 handler.
LongestMatchDecides ==
  LET matches == {l \in UNION {paths[h] : h \in Handler} : IsPrefix(l, Clean(target))} IN
  step \in {"handle", "done"} =>
    IF matches = {} THEN type = "None" /\ location = <<>>
    ELSE /\ location \in matches /\ \A l \in matches : Len(l) <= Len(location)
         /\ location \in paths[IF type = "None" THEN "Static" ELSE type]

\* A handler finds the location that the dispatcher found, although it scans
\* fewer lists: "getStaticFilePath was called for a non-static request" and
\* "getCrudEntityID was called for a non-CRUD request" are never logged.
HandlersAgree ==
  step \in {"handle", "done"} =>
    /\ type = "Static" => Scan(StaticHandlers, Clean(target)) = [type |-> type, location |-> location]
    /\ type = "CRUD" => Scan(CrudHandlers, Clean(target)) = [type |-> type, location |-> location]

\* The pieces of a target between its slashes.
Pieces(t) ==
  LET starts == {i \in 1..Len(t) : t[i] # Slash /\ (i = 1 \/ t[i - 1] = Slash)}
      ends(i) == {j \in i..Len(t) : t[j] # Slash /\ (j = Len(t) \/ t[j + 1] = Slash)}
  IN [k \in 1..Cardinality(starts) |->
        LET i == CHOOSE i \in starts : Cardinality({j \in starts : j <= i}) = k
        IN SubSeq(t, i, Min(ends(i)))]

\* Two targets that differ in the number of slashes only are one target to the
\* dispatcher, and no others are: what Clean leaves is its pieces, each behind
\* one slash.
CleanIsCanonical ==
  step = "dispatch" =>
    Clean(target) = IF Pieces(target) = <<>> THEN <<Slash>>
                    ELSE FlattenSeq([k \in DOMAIN Pieces(target) |-> <<Slash>> \o Pieces(target)[k]])

\* If the location ends where a piece of the target does, then location, entity
\* name and id make up the target and the name is one piece of it: two targets
\* never share an entity.
EntityIsInTarget ==
  LET clean == Clean(target)
      entity == answer.entity IN
  step = "done" /\ entity # NoEntity /\ Rest(clean, location)[1] = Slash =>
    /\ clean = location \o <<Slash>> \o entity.name
                 \o (IF entity.id = <<>> THEN <<>> ELSE <<Slash>> \o entity.id)
    /\ ~Contains(entity.name, Slash)
==============================================================================
