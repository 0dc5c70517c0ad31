---------------------------- MODULE ConfigParser ----------------------------
(***************************************************************************)
(* src/src/config_parser.cc: the parser of the configuration file.         *)
(* ParseToken reads characters until it has a token, and may put the last  *)
(* one back; Parse takes one token at a time and builds a tree of blocks   *)
(* and statements, with a stack of the blocks that are open.               *)
(*                                                                         *)
(* Abstracted: a character is the class of characters ParseToken tells     *)
(* apart, and a word is the number of the token that it was.  The file is  *)
(* read lazily: each read chooses the next character, or that there is     *)
(* none, so that every file within the bounds is covered.                  *)
(***************************************************************************)
EXTENDS Integers, Sequences, SequencesExt

CONSTANTS MaxText,  \* bound: characters in the file
          MaxOther  \* bound: those of them that are neither plain nor a symbol

ASSUME BoundsAreNat == MaxText \in Nat /\ MaxOther \in Nat

Symbol == {";", "{", "}"}
Quote == {"'", "\""}
Space == {"blank", "newline", "return"}
\* A carriage return is white space between tokens, but part of a word.
WordEnd == {"blank", "newline"} \cup Symbol
CommentEnd == {"newline", "return"}
Other == {"#"} \cup Quote \cup Space
Char == {"plain"} \cup Symbol \cup Other

VARIABLES
  text,    \* what was read of the file
  ended,   \* and that there is no more
  held,    \* the character that unget put back, or "none"
  state,   \* the state of ParseToken; in a quote, the character that began it
  token,   \* what ParseToken returned to Parse, "none" while it runs
  last,    \* last_token_type
  words,   \* NORMAL tokens so far
  blocks,  \* every NginxConfig made so far, as the sequence of its statements
  stack,   \* config_stack, the top last
  result   \* of Parse; "undefined" after top() or pop() of an empty stack

lexer == <<text, ended, held, state>>
tree == <<words, blocks, stack>>
vars == <<lexer, token, last, tree, result>>

Root == 1
NewStatement == [words |-> <<>>, child |-> 0]

Init ==
  /\ text = <<>> /\ ended = FALSE /\ held = "none"
  /\ state = "space" /\ token = "none" /\ last = "start"
  /\ words = 0 /\ blocks = <<<<>>>> /\ stack = <<Root>>
  /\ result = "unopened"

\* The overload that takes a file name.
Open ==
  /\ result = "unopened"
  /\ result' \in {"parsing", "false"}
  /\ ended' = (result' = "false")
  /\ UNCHANGED <<text, held, state, token, last, tree>>
------------------------------------------------------------------------------
\* ParseToken

HasRoomFor(c) ==
  /\ Len(text) < MaxText
  /\ c \in Other => Len(SelectSeq(text, LAMBDA d : d \in Other)) < MaxOther

\* The next character is c: the one put back, or one more of the file.
Reads(c) ==
  /\ result = "parsing" /\ token = "none"
  /\ \/ held = c /\ UNCHANGED text
     \/ held = "none" /\ HasRoomFor(c) /\ text' = Append(text, c)
  /\ UNCHANGED <<ended, last, tree, result>>

Deliver(t) == token' = t /\ state' = "space"

SkipSpace(c) ==
  /\ Reads(c) /\ state = "space" /\ c \in Space
  /\ held' = "none"
  /\ UNCHANGED <<state, token>>

ReadSymbol(c) ==
  /\ Reads(c) /\ state = "space" /\ c \in Symbol
  /\ held' = "none"
  /\ Deliver(c)

BeginToken(c) ==
  /\ Reads(c) /\ state = "space" /\ c \notin Space \cup Symbol
  /\ held' = "none"
  /\ state' = IF c \in Quote THEN c ELSE IF c = "#" THEN "comment" ELSE "word"
  /\ UNCHANGED token

\* Mistake: any quotation mark ends a quoted token.
EndAtAnyQuote(c) ==
  /\ Reads(c) /\ state \in Quote
  /\ held' = "none"
  /\ IF c \in Quote THEN Deliver("word") ELSE UNCHANGED <<state, token>>

ReadQuoted(c) ==
  /\ Reads(c) /\ state \in Quote
  /\ held' = "none"
  /\ IF c = state THEN Deliver("word") ELSE UNCHANGED <<state, token>>

ReadComment(c) ==
  /\ Reads(c) /\ state = "comment"
  /\ held' = "none"
  /\ IF c \in CommentEnd THEN Deliver("comment") ELSE UNCHANGED <<state, token>>

ReadWord(c) ==
  /\ Reads(c) /\ state = "word"
  /\ IF c \in WordEnd THEN held' = c /\ Deliver("word")
                      ELSE held' = "none" /\ UNCHANGED <<state, token>>

\* Only an open quote is an error: a word that the end of the file cuts off is
\* dropped, and so is a comment.
EndOfInput ==
  /\ result = "parsing" /\ token = "none" /\ held = "none"
  /\ ended' = TRUE
  /\ Deliver(IF state \in Quote THEN "error" ELSE "eof")
  /\ UNCHANGED <<text, held, last, tree, result>>

ParseToken ==
  \/ \E c \in Char : \/ SkipSpace(c) \/ ReadSymbol(c) \/ BeginToken(c)
                     \/ ReadQuoted(c) \/ ReadComment(c) \/ ReadWord(c)
  \/ EndOfInput
------------------------------------------------------------------------------
\* Parse

Taken(t) == result = "parsing" /\ token = t /\ token' = "none"
Return(r) == result' = r /\ UNCHANGED <<lexer, last, tree>>

Top == stack[Len(stack)]

\* Mistake: a comment counts as the last token.
RememberComment ==
  /\ Taken("comment")
  /\ last' = "comment"
  /\ UNCHANGED <<lexer, tree, result>>

SkipComment ==
  /\ Taken("comment")
  /\ UNCHANGED <<lexer, last, tree, result>>

\* Mistake: a word after a block goes to the statement of the block.
ExtendedAfterBlock(statements, n) ==
  LET open == IF last \in {"word", "}"} THEN statements ELSE Append(statements, NewStatement) IN
  [open EXCEPT ![Len(open)].words = Append(@, n)]

\* The statements of a block with one more word: a new statement begins after
\* anything but a word.
Extended(statements, n) ==
  LET open == IF last = "word" THEN statements ELSE Append(statements, NewStatement) IN
  [open EXCEPT ![Len(open)].words = Append(@, n)]

AddWord ==
  /\ Taken("word") /\ stack # <<>>
  /\ words' = words + 1
  /\ blocks' = [blocks EXCEPT ![Top] = Extended(@, words + 1)]
  /\ last' = "word"
  /\ UNCHANGED <<lexer, stack, result>>

EndStatement ==
  /\ Taken(";") /\ last = "word"
  /\ last' = ";"
  /\ UNCHANGED <<lexer, tree, result>>

\* Mistake: the new block is not pushed.
OpenUnpushed ==
  /\ Taken("{") /\ last = "word"
  /\ blocks' = Append([blocks EXCEPT ![Top][Len(blocks[Top])].child = Len(blocks) + 1], <<>>)
  /\ last' = "{"
  /\ UNCHANGED <<lexer, words, stack, result>>

OpenBlock ==
  /\ Taken("{") /\ last = "word"
  /\ blocks' = Append([blocks EXCEPT ![Top][Len(blocks[Top])].child = Len(blocks) + 1], <<>>)
  /\ stack' = Append(stack, Len(blocks) + 1)
  /\ last' = "{"
  /\ UNCHANGED <<lexer, words, result>>

\* Nothing asks whether the block to close is the root.
CloseBlock ==
  /\ Taken("}") /\ last \in {";", "}", "{"} /\ stack # <<>>
  /\ stack' = Front(stack)
  /\ last' = "}"
  /\ UNCHANGED <<lexer, words, blocks, result>>

\* top() for a word, pop() for a closing brace, when the root has been popped.
EmptyStack ==
  /\ \/ Taken("word")
     \/ Taken("}") /\ last \in {";", "}", "{"}
  /\ stack = <<>>
  /\ Return("undefined")

Accept ==
  /\ Taken("eof") /\ Len(stack) = 1 /\ last \in {";", "}"}
  /\ Return("true")

Reject ==
  /\ \/ Taken("error")
     \/ Taken(";") /\ last # "word"
     \/ Taken("{") /\ last # "word"
     \/ Taken("}") /\ last \notin {";", "}", "{"}
     \/ Taken("eof") /\ (Len(stack) # 1 \/ last \notin {";", "}"})
  /\ Return("false")

Parse ==
  \/ SkipComment \/ AddWord \/ EndStatement \/ OpenBlock \/ CloseBlock
  \/ EmptyStack \/ Accept \/ Reject

Next == Open \/ ParseToken \/ Parse

Spec == Init /\ [][Next]_vars
------------------------------------------------------------------------------
\* ToString, as the sequence of the tokens it prints.

Lexeme(k, n) == [kind |-> k, no |-> n]

\* The text of a statement, that of its child block in between.
StatementToString(s, child) ==
  [i \in 1..Len(s.words) |-> Lexeme("word", s.words[i])] \o
  (IF s.child # 0 THEN <<Lexeme("{", 0)>> \o child \o <<Lexeme("}", 0)>> ELSE <<Lexeme(";", 0)>>)

ConfigToString[b \in 1..Len(blocks)] ==
  FlattenSeq([i \in 1..Len(blocks[b]) |->
    LET s == blocks[b][i] IN
    StatementToString(s, IF s.child # 0 THEN ConfigToString[s.child] ELSE <<>>)])
------------------------------------------------------------------------------
\* Reference: what the text means, without the parser's states.

From(t, i) == SubSeq(t, i, Len(t))
FirstOf(t, chars) == SelectInSeq(t, LAMBDA c : c \in chars)

\* The tokens of a text; a word that the end of the text cuts off is "cut".
Lexemes[t \in Seq(Char)] ==
  IF t = <<>> THEN <<>>
  ELSE LET c == t[1]
           rest == Tail(t)
       IN  CASE c \in Space  -> Lexemes[rest]
             [] c \in Symbol -> <<c>> \o Lexemes[rest]
             [] c = "#"      -> LET i == FirstOf(rest, CommentEnd) IN
                                IF i = 0 THEN <<>> ELSE Lexemes[From(rest, i + 1)]
             [] c \in Quote  -> LET i == FirstOf(rest, {c}) IN
                                IF i = 0 THEN <<"unclosed">>
                                         ELSE <<"word">> \o Lexemes[From(rest, i + 1)]
             [] OTHER        -> LET i == FirstOf(rest, WordEnd) IN
                                IF i = 0 THEN <<"cut">>
                                         ELSE <<"word">> \o Lexemes[From(rest, i)]

Kind == {"word", "unclosed", "cut"} \cup Symbol

\* The tokens of a text without the word that is cut off.
IsCutOff(t) == Lexemes[t] # <<>> /\ Last(Lexemes[t]) = "cut"
Uncut(t) == IF IsCutOff(t) THEN Front(Lexemes[t]) ELSE Lexemes[t]

\* The first tokens are words, one at least, and the i-th is t.
WordsThen(l, i, t) == i > 1 /\ l[i] = t /\ \A j \in 1..i - 1 : l[j] = "word"

\* block = nothing | word+ ";" block | word+ "{" block "}" block
IsBlock[l \in Seq(Kind)] ==
  \/ l = <<>>
  \/ \E i \in 1..Len(l) : WordsThen(l, i, ";") /\ IsBlock[From(l, i + 1)]
  \/ \E i \in 1..Len(l) : \E n \in i + 1..Len(l) :
       /\ WordsThen(l, i, "{") /\ l[n] = "}"
       /\ IsBlock[SubSeq(l, i + 1, n - 1)] /\ IsBlock[From(l, n + 1)]

IsFile(l) == l # <<>> /\ IsBlock[l]

\* Some continuation makes a valid file of the text: the token it ends within
\* is closed, then the statement, then the blocks.
Viable(t) ==
  \E q \in {<<>>, <<"'">>, <<"\"">>, <<"newline">>},
     s \in {<<>>, <<";">>, <<"plain", ";">>}, n \in 0..Len(SelectSeq(t, LAMBDA c : c = "{")) :
    IsFile(Lexemes[t \o q \o s \o [i \in 1..n |-> "}"]])

Words(l) == {i \in 1..Len(l) : l[i] = "word"}
Numbered(l) ==
  [i \in 1..Len(l) |-> Lexeme(l[i], IF l[i] = "word" THEN Cardinality(Words(SubSeq(l, 1, i))) ELSE 0)]
------------------------------------------------------------------------------
\* Properties.

TypeOK ==
  /\ text \in Seq(Char) /\ ended \in BOOLEAN
  /\ held \in Char \cup {"none"}
  /\ state \in {"space", "comment", "word"} \cup Quote
  /\ token \in {"none", "word", "comment", "eof", "error"} \cup Symbol
  /\ last \in {"start", "word"} \cup Symbol
  /\ words \in Nat
  /\ blocks \in Seq(Seq([words : Seq(1..words), child : 0..Len(blocks)]))
  /\ stack \in Seq(1..Len(blocks))
  /\ result \in {"unopened", "parsing", "true", "false", "undefined"}

\* Parse accepts a file exactly if its tokens, without a word that the end of
\* the file cuts off, are statements in balanced blocks, one at least
\* (config_parser.cc:147, :226); and it gives up before the end only if no
\* continuation makes a valid file.
AcceptsExactly ==
  /\ result = "true" => IsFile(Uncut(text))
  /\ result = "false" /\ ended => ~IsFile(Uncut(text))
  /\ result = "false" /\ ~ended => ~Viable(text)

\* NginxConfig::ToString of an accepted file prints the tokens of the file in
\* their order, each in its statement and its block; the only one that is lost
\* is a word that the end of the file cuts off (config_parser.cc:31, :61).
RoundTrip ==
  result = "true" => ConfigToString[Root] = Numbered(Uncut(text))

\* What the header says, "Returns true iff the input config file is valid"
\* (config_parser.h:34): a file that is accepted is statements in balanced
\* blocks.  The code accepts "a;b", where b is a statement that does not end.
AcceptsOnlyValid ==
  result = "true" => IsFile(Lexemes[text])

\* top() and pop() meet an empty stack only in a text that no continuation
\* makes valid: one that closes more blocks than it opens (config_parser.cc:209).
UndefinedOnlyIfInvalid ==
  result = "undefined" => ~Viable(text)
==============================================================================
