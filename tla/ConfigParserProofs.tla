------------------------- MODULE ConfigParserProofs --------------------------
(***************************************************************************)
(* Proofs about ConfigParser, for files of every length: Parse accepts     *)
(* exactly the files whose tokens, without a word that the end of the file *)
(* cuts off, are statements in balanced blocks; no continuation makes a    *)
(* valid file of a text that it gave up or that emptied its stack; and     *)
(* ToString of an accepted file prints its tokens, but for that word.      *)
(***************************************************************************)
EXTENDS ConfigParser, SequenceLemmas, FiniteSetTheorems

------------------------------------------------------------------------------
\* Sequences.

LEMMA FromIs ==
  ASSUME NEW S, NEW s \in Seq(S), NEW i \in 1..Len(s) + 1
  PROVE  /\ From(s, i) \in Seq(S) /\ Len(From(s, i)) = Len(s) - i + 1
         /\ \A j \in 1..Len(s) - i + 1 : From(s, i)[j] = s[i + j - 1]
<1>1. PICK n \in Nat : n = Len(s)
  BY LenProperties
<1>2. \A j \in i..n : s[j] \in S
  BY <1>1, ElementOfSeq
<1>3. /\ SubSeq(s, i, n) \in Seq(S) /\ Len(SubSeq(s, i, n)) = IF i <= n THEN n - i + 1 ELSE 0
      /\ \A j \in 1..n - i + 1 : SubSeq(s, i, n)[j] = s[i + j - 1]
  BY <1>1, <1>2, SubSeqProperties
<1>4. (IF i <= n THEN n - i + 1 ELSE 0) = n - i + 1
  BY <1>1
<1> QED BY <1>1, <1>3, <1>4 DEF From

\* The first i - 1 elements.
LEMMA HeadIs ==
  ASSUME NEW S, NEW s \in Seq(S), NEW i \in 1..Len(s) + 1
  PROVE  /\ SubSeq(s, 1, i - 1) \in Seq(S) /\ Len(SubSeq(s, 1, i - 1)) = i - 1
         /\ \A j \in 1..i - 1 : SubSeq(s, 1, i - 1)[j] = s[j]
<1>1. PICK n \in Nat : n = i - 1 /\ n <= Len(s)
  BY LenProperties
<1>2. Len(s) \in Nat /\ \A j \in 1..n : s[j] \in S
  BY <1>1, ElementOfSeq, LenProperties
<1>3. /\ SubSeq(s, 1, n) \in Seq(S) /\ Len(SubSeq(s, 1, n)) = IF 1 <= n THEN n - 1 + 1 ELSE 0
      /\ \A j \in 1..n - 1 + 1 : SubSeq(s, 1, n)[j] = s[1 + j - 1]
  BY <1>2, SubSeqProperties
<1>4. (IF 1 <= n THEN n - 1 + 1 ELSE 0) = n /\ \A j \in 1..n : j \in 1..n - 1 + 1 /\ 1 + j - 1 = j
  OBVIOUS
<1> QED BY <1>1, <1>3, <1>4

\* One more element in front.
LEMMA ConsIs ==
  ASSUME NEW S, NEW c \in S, NEW u \in Seq(S)
  PROVE  /\ <<c>> \o u \in Seq(S) /\ <<c>> \o u # <<>> /\ Len(<<c>> \o u) = Len(u) + 1
         /\ (<<c>> \o u)[1] = c /\ \A i \in 1..Len(u) : (<<c>> \o u)[i + 1] = u[i]
<1>1. <<c>> \in Seq(S) /\ Len(<<c>>) = 1 /\ <<c>>[1] = c /\ Len(u) \in Nat
  BY LenProperties
<1>2. PICK n \in Nat : n = Len(u)
  BY <1>1
<1>3. PICK s \in Seq(S) : s = <<c>>
  BY <1>1
<1>4. /\ s \o u \in Seq(S) /\ Len(s \o u) = Len(s) + Len(u)
      /\ \A i \in 1..Len(s) + Len(u) : (s \o u)[i] = IF i <= Len(s) THEN s[i] ELSE u[i - Len(s)]
  BY ConcatProperties
<1>5. PICK x \in Seq(S) : x = s \o u
  BY <1>4
<1>6. Len(x) = 1 + n /\ \A i \in 1..1 + n : x[i] = IF i <= 1 THEN c ELSE u[i - 1]
  BY <1>1, <1>2, <1>3, <1>4, <1>5
<1>7. x # <<>>
  <2>1. Len(x) # 0
    BY <1>6
  <2> QED BY <2>1, EmptySeq
<1>8. x[1] = c /\ \A i \in 1..n : x[i + 1] = u[i]
  <2>1. 1 \in 1..1 + n /\ \A i \in 1..n : i + 1 \in 1..1 + n /\ ~(i + 1 <= 1) /\ (i + 1) - 1 = i
    OBVIOUS
  <2> QED BY <1>6, <2>1
<1>9. Len(x) = n + 1
  BY <1>6
<1> QED BY <1>2, <1>3, <1>5, <1>7, <1>8, <1>9

LEMMA ConsParts ==
  ASSUME NEW S, NEW c \in S, NEW u \in Seq(S)
  PROVE  /\ Tail(<<c>> \o u) = u
         /\ From(<<c>> \o u, 1) = <<c>> \o u
         /\ \A i \in 1..Len(u) + 1 : From(<<c>> \o u, i + 1) = From(u, i)
         /\ From(u, 1) = u
<1>1. PICK x \in Seq(S) : x = <<c>> \o u
  BY ConsIs
<1>2. x # <<>> /\ Len(x) = Len(u) + 1 /\ \A i \in 1..Len(u) : x[i + 1] = u[i]
  BY <1>1, ConsIs
<1>3. PICK n \in Nat : n = Len(u)
  BY LenProperties
<1>4. Tail(x) = u
  <2>1. /\ Tail(x) \in Seq(S) /\ Len(Tail(x)) = Len(x) - 1
        /\ \A i \in 1..Len(Tail(x)) : Tail(x)[i] = x[i + 1]
    BY <1>2, HeadTailProperties
  <2>2. Len(Tail(x)) = Len(u)
    BY <1>2, <1>3, <2>1
  <2> QED BY <1>2, <2>1, <2>2, SeqEqual
<1>5. From(x, 1) = x /\ From(u, 1) = u
  BY SubSeqFull DEF From
<1>6. ASSUME NEW i \in 1..n + 1 PROVE From(x, i + 1) = From(u, i)
  <2>1. /\ From(u, i) \in Seq(S) /\ Len(From(u, i)) = n - i + 1
        /\ \A j \in 1..n - i + 1 : From(u, i)[j] = u[i + j - 1]
    BY <1>3, FromIs
  <2>2. PICK k \in Nat : k = i + 1 /\ k \in 1..Len(x) + 1
    BY <1>2, <1>3
  <2>3. /\ From(x, k) \in Seq(S) /\ Len(From(x, k)) = Len(x) - k + 1
        /\ \A j \in 1..Len(x) - k + 1 : From(x, k)[j] = x[k + j - 1]
    BY <2>2, FromIs
  <2>4. Len(x) - k + 1 = n - i + 1
    BY <1>2, <1>3, <2>2
  <2>5. ASSUME NEW j \in 1..n - i + 1 PROVE From(x, k)[j] = From(u, i)[j]
    <3>1. i + j - 1 \in 1..n /\ k + j - 1 = (i + j - 1) + 1
      BY <2>2
    <3>2. x[k + j - 1] = u[i + j - 1]
      BY <1>2, <1>3, <3>1
    <3> QED BY <2>1, <2>3, <2>4, <3>2
  <2>6. From(x, k) = From(u, i)
    BY <2>1, <2>3, <2>4, <2>5, SeqEqual
  <2> QED BY <2>2, <2>6
<1> QED BY <1>1, <1>3, <1>4, <1>5, <1>6

------------------------------------------------------------------------------
\* Types.

\* Statements of the first n words, with child blocks among the first m.
Statement(n, m) == [words : Seq(1..n), child : 0..m]

\* A statement that a word has begun is the last of the block on the top.
WordIsPlaced == last = "word" => stack # <<>> /\ blocks[Top] # <<>>

LEMMA StatementsGrow ==
  ASSUME NEW n \in Nat, NEW m \in Nat, NEW n1 \in Nat, NEW m1 \in Nat, n <= n1, m <= m1
  PROVE  /\ Statement(n, m) \subseteq Statement(n1, m1)
         /\ \A b \in Seq(Statement(n, m)) : b \in Seq(Statement(n1, m1))
         /\ \A b \in Seq(Seq(Statement(n, m))) : b \in Seq(Seq(Statement(n1, m1)))
<1>1. \A s \in Seq(1..n) : s \in Seq(1..n1)
  BY SeqMonotonic
<1>2. Statement(n, m) \subseteq Statement(n1, m1)
  BY <1>1 DEF Statement
<1>3. \A b \in Seq(Statement(n, m)) : b \in Seq(Statement(n1, m1))
  BY <1>2, SeqMonotonic
<1> QED BY <1>2, <1>3, SeqMonotonic

LEMMA TopIsABlock ==
  ASSUME TypeOK, stack # <<>>
  PROVE  /\ Len(stack) \in Nat \ {0} /\ Top \in 1..Len(blocks)
         /\ blocks[Top] \in Seq(Statement(words, Len(blocks)))
<1>1. stack \in Seq(1..Len(blocks)) /\ blocks \in Seq(Seq(Statement(words, Len(blocks))))
  BY DEF TypeOK, Statement
<1>2. Len(stack) \in Nat \ {0} /\ Len(stack) \in 1..Len(stack)
  BY <1>1, EmptySeq
<1>3. Top \in 1..Len(blocks)
  BY <1>1, <1>2, ElementOfSeq DEF Top
<1> QED BY <1>1, <1>2, <1>3, ElementOfSeq

\* The last statement of a block changed in one of its fields.
LEMMA LastStatement ==
  ASSUME NEW n \in Nat, NEW m \in Nat, NEW b \in Seq(Statement(n, m)), b # <<>>
  PROVE  /\ Len(b) \in Nat \ {0} /\ b[Len(b)] \in Statement(n, m)
         /\ \A s \in Statement(n, m) :
              /\ [b EXCEPT ![Len(b)] = s] \in Seq(Statement(n, m))
              /\ Len([b EXCEPT ![Len(b)] = s]) = Len(b)
              /\ [b EXCEPT ![Len(b)] = s] # <<>>
<1>1. Len(b) \in Nat \ {0} /\ Len(b) \in 1..Len(b)
  BY EmptySeq
<1>2. b[Len(b)] \in Statement(n, m)
  BY <1>1, ElementOfSeq
<1>3. ASSUME NEW s \in Statement(n, m)
      PROVE  /\ [b EXCEPT ![Len(b)] = s] \in Seq(Statement(n, m))
             /\ Len([b EXCEPT ![Len(b)] = s]) = Len(b)
  BY <1>1, ExceptSeq
<1>4. ASSUME NEW s \in Statement(n, m)
      PROVE  [b EXCEPT ![Len(b)] = s] # <<>>
  <2>1. Len([b EXCEPT ![Len(b)] = s]) # 0
    BY <1>1, <1>3
  <2>2. Len(<<>>) = 0
    BY EmptySeq
  <2> QED BY <2>1, <2>2
<1> QED BY <1>1, <1>2, <1>3, <1>4

LEMMA ExtendedTyped ==
  ASSUME NEW n \in Nat, NEW m \in Nat, NEW b \in Seq(Statement(n, m)), last = "word" => b # <<>>
  PROVE  Extended(b, n + 1) \in Seq(Statement(n + 1, m)) /\ Extended(b, n + 1) # <<>>
<1> DEFINE open == IF last = "word" THEN b ELSE Append(b, NewStatement)
           s == open[Len(open)]
           t == [words |-> Append(s.words, n + 1), child |-> s.child]
<1>1. NewStatement \in Statement(n, m)
  BY DEF NewStatement, Statement
<1>2. open \in Seq(Statement(n, m)) /\ open # <<>>
  BY <1>1, AppendProperties
<1> HIDE DEF open
<1>3. s \in Statement(n, m) /\ open \in Seq(Statement(n + 1, m))
  BY <1>2, LastStatement, StatementsGrow
<1>4. s.words \in Seq(1..n) /\ s.child \in 0..m
  BY <1>3 DEF Statement
<1> HIDE DEF s
<1>5. s.words \in Seq(1..n + 1) /\ n + 1 \in 1..n + 1
  BY <1>4, SeqMonotonic
<1>6. Append(s.words, n + 1) \in Seq(1..n + 1)
  BY <1>5, AppendProperties
<1>7. t \in Statement(n + 1, m)
  BY <1>4, <1>6 DEF Statement
<1>8. [open EXCEPT ![Len(open)].words = Append(@, n + 1)] = [open EXCEPT ![Len(open)] = t]
  <2>1. PICK w \in Seq(1..n), c \in 0..m : s = [words |-> w, child |-> c]
    BY <1>3 DEF Statement
  <2>2. [s EXCEPT !.words = Append(@, n + 1)] = t
    <3>1. s.words = w /\ t = [words |-> Append(w, n + 1), child |-> c]
      BY <2>1
    <3>2. \A x : [[words |-> w, child |-> c] EXCEPT !.words = x] = [words |-> x, child |-> c]
      OBVIOUS
    <3>3. [s EXCEPT !.words = Append(w, n + 1)] = t
      <4> HIDE DEF t
      <4> QED BY <2>1, <3>1, <3>2
    <3> HIDE DEF t
    <3> QED BY <3>1, <3>3
  <2> HIDE DEF t
  <2> QED BY <2>2 DEF s
<1>9. Extended(b, n + 1) = [open EXCEPT ![Len(open)] = t]
  <2> HIDE DEF t, s
  <2> QED BY <1>8 DEF Extended, open
<1> HIDE DEF t
<1>10. PICK k \in Nat : k = n + 1
  OBVIOUS
<1>11. /\ [open EXCEPT ![Len(open)] = t] \in Seq(Statement(k, m))
       /\ [open EXCEPT ![Len(open)] = t] # <<>>
  BY <1>2, <1>3, <1>7, <1>10, LastStatement
<1> QED BY <1>9, <1>10, <1>11

LEMMA AddWordTyped ==
  ASSUME TypeOK, WordIsPlaced, AddWord PROVE TypeOK' /\ WordIsPlaced'
<1> DEFINE m == Len(blocks)
           b == blocks[Top]
           e == Extended(b, words + 1)
<1>1. Top \in 1..m /\ b \in Seq(Statement(words, m)) /\ stack # <<>>
  BY TopIsABlock DEF AddWord
<1>2. words \in Nat /\ m \in Nat /\ words + 1 \in Nat
  BY DEF TypeOK
<1>3. e \in Seq(Statement(words + 1, m)) /\ e # <<>>
  BY <1>1, <1>2, ExtendedTyped DEF AddWord, WordIsPlaced
<1>4. blocks \in Seq(Seq(Statement(words + 1, m)))
  <2>1. blocks \in Seq(Seq(Statement(words, m))) /\ words <= words + 1 /\ m <= m
    BY <1>2 DEF TypeOK, Statement
  <2> HIDE DEF m
  <2> QED BY <1>2, <2>1, StatementsGrow
<1>5. words' = words + 1 /\ stack' = stack /\ last' = "word" /\ blocks' = [blocks EXCEPT ![Top] = e]
  BY DEF AddWord
<1> HIDE DEF e
<1>6. /\ blocks' \in Seq(Seq(Statement(words + 1, m))) /\ Len(blocks') = m
      /\ blocks'[Top] = e
  BY <1>1, <1>3, <1>4, <1>5, ExceptSeq
<1>7. WordIsPlaced'
  BY <1>1, <1>3, <1>5, <1>6 DEF WordIsPlaced, Top
<1>8. blocks' \in Seq(Seq([words : Seq(1..words'), child : 0..Len(blocks')]))
  BY <1>5, <1>6 DEF Statement
<1> QED BY <1>2, <1>5, <1>6, <1>7, <1>8 DEF TypeOK, AddWord, Taken, lexer

LEMMA OpenBlockTyped ==
  ASSUME TypeOK, WordIsPlaced, OpenBlock PROVE TypeOK' /\ WordIsPlaced'
<1> DEFINE m == Len(blocks)
           b == blocks[Top]
           s == b[Len(b)]
           t == [words |-> s.words, child |-> m + 1]
           c == [b EXCEPT ![Len(b)] = t]
           d == [blocks EXCEPT ![Top] = c]
<1>1. Top \in 1..m /\ b \in Seq(Statement(words, m)) /\ b # <<>>
  BY TopIsABlock DEF OpenBlock, WordIsPlaced
<1>2. words \in Nat /\ m \in Nat /\ m + 1 \in Nat /\ m <= m + 1 /\ words <= words
  BY DEF TypeOK
<1>3. s \in Statement(words, m)
  BY <1>1, <1>2, LastStatement
<1>4. t \in Statement(words, m + 1)
  BY <1>2, <1>3 DEF Statement
<1>5. blocks \in Seq(Seq(Statement(words, m + 1))) /\ b \in Seq(Statement(words, m + 1))
  <2>1. blocks \in Seq(Seq(Statement(words, m)))
    BY DEF TypeOK, Statement
  <2> HIDE DEF m, b
  <2> QED BY <1>1, <1>2, <2>1, StatementsGrow
<1>6. blocks' = Append(d, <<>>)
  <2>1. [s EXCEPT !.child = m + 1] = t
    <3>1. s = [words |-> s.words, child |-> s.child]
      BY <1>3 DEF Statement
    <3> QED BY <3>1
  <2>2. [blocks EXCEPT ![Top][Len(blocks[Top])].child = Len(blocks) + 1] = d
    <3> HIDE DEF t, Top
    <3> QED BY <2>1
  <2> QED BY <2>2 DEF OpenBlock
<1>7. c \in Seq(Statement(words, m + 1))
  <2> HIDE DEF m, b, t
  <2> QED BY <1>1, <1>2, <1>4, <1>5, LastStatement
<1>8. d \in Seq(Seq(Statement(words, m + 1))) /\ Len(d) = m
  <2> HIDE DEF c
  <2> QED BY <1>1, <1>5, <1>7, ExceptSeq
<1>9. blocks' \in Seq(Seq(Statement(words, m + 1))) /\ Len(blocks') = m + 1
  <2>1. <<>> \in Seq(Statement(words, m + 1))
    BY EmptySeq
  <2> HIDE DEF d, m
  <2> QED BY <1>6, <1>8, <2>1, AppendProperties
<1>10. stack' \in Seq(1..m + 1)
  <2>1. stack \in Seq(1..m + 1) /\ m + 1 \in 1..m + 1
    BY <1>2, SeqMonotonic DEF TypeOK
  <2> HIDE DEF m
  <2>2. Append(stack, m + 1) \in Seq(1..m + 1)
    BY <2>1, AppendProperties
  <2> QED BY <2>2 DEF OpenBlock, m
<1>11. /\ blocks' \in Seq(Seq([words : Seq(1..words'), child : 0..Len(blocks')]))
       /\ stack' \in Seq(1..Len(blocks'))
  BY <1>9, <1>10 DEF Statement, OpenBlock
<1> QED BY <1>2, <1>11 DEF TypeOK, OpenBlock, Taken, lexer, WordIsPlaced

LEMMA ReadingTyped ==
  ASSUME TypeOK, WordIsPlaced, ParseToken PROVE TypeOK' /\ WordIsPlaced'
<1>1. UNCHANGED <<last, words, blocks, stack, result>>
  BY DEF ParseToken, SkipSpace, ReadSymbol, BeginToken, ReadQuoted, ReadComment, ReadWord, Reads,
         EndOfInput, tree
<1>2. text' \in Seq(Char) /\ ended' \in BOOLEAN
  <2>1. ASSUME NEW c \in Char, Reads(c) PROVE text' \in Seq(Char) /\ ended' \in BOOLEAN
    <3>1. text \in Seq(Char) /\ ended \in BOOLEAN
      BY DEF TypeOK
    <3>2. Append(text, c) \in Seq(Char)
      BY <3>1, AppendProperties
    <3> QED BY <2>1, <3>1, <3>2 DEF Reads
  <2>2. CASE EndOfInput
    BY <2>2 DEF EndOfInput, TypeOK
  <2> QED BY <2>1, <2>2 DEF ParseToken, SkipSpace, ReadSymbol, BeginToken, ReadQuoted, ReadComment,
                            ReadWord
<1>3. /\ held' \in Char \cup {"none"}
      /\ state' \in {"space", "comment", "word"} \cup Quote
      /\ token' \in {"none", "word", "comment", "eof", "error"} \cup Symbol
  <2> USE DEF TypeOK, Deliver
  <2>1. CASE EndOfInput
    BY <2>1 DEF EndOfInput
  <2>2. ASSUME NEW c \in Char, SkipSpace(c) \/ ReadSymbol(c) \/ BeginToken(c)
        PROVE  <1>3!:
    BY <2>2 DEF SkipSpace, ReadSymbol, BeginToken
  <2>3. ASSUME NEW c \in Char, ReadQuoted(c) \/ ReadComment(c) \/ ReadWord(c)
        PROVE  <1>3!:
    BY <2>3 DEF ReadQuoted, ReadComment, ReadWord
  <2> QED BY <2>1, <2>2, <2>3 DEF ParseToken
<1>4. WordIsPlaced'
  BY <1>1 DEF WordIsPlaced, Top
<1>5. /\ blocks' \in Seq(Seq([words : Seq(1..words'), child : 0..Len(blocks')]))
      /\ stack' \in Seq(1..Len(blocks')) /\ words' \in Nat
      /\ last' \in {"start", "word"} \cup Symbol
      /\ result' \in {"unopened", "parsing", "true", "false", "undefined"}
  BY <1>1 DEF TypeOK
<1> QED BY <1>2, <1>3, <1>4, <1>5 DEF TypeOK

\* The steps of Parse that leave the tree and the stack alone, but for a pop.
LEMMA ParsingTyped ==
  ASSUME TypeOK, WordIsPlaced, Parse, ~AddWord, ~OpenBlock
  PROVE  TypeOK' /\ WordIsPlaced'
<1>1. /\ UNCHANGED <<lexer, words, blocks>> /\ token' = "none"
      /\ last' \in {last} \cup {";", "}"}
      /\ stack' = stack \/ (stack # <<>> /\ stack' = Front(stack) /\ last' = "}")
      /\ result' \in {"parsing", "undefined", "true", "false"}
  BY DEF Parse, SkipComment, EndStatement, CloseBlock, EmptyStack, Accept, Reject, Taken, Return,
         tree, TypeOK
<1>2. stack' \in Seq(1..Len(blocks))
  <2>1. CASE stack' = stack
    BY <2>1 DEF TypeOK
  <2>2. CASE stack # <<>> /\ stack' = Front(stack)
    BY <2>2, FrontIs DEF TypeOK
  <2> QED BY <1>1, <2>1, <2>2
<1>3. last' = "word" => last = "word" /\ stack' = stack
  BY <1>1
<1>4. WordIsPlaced'
  BY <1>1, <1>3 DEF WordIsPlaced, Top
<1>5. last' \in {"start", "word"} \cup Symbol
  BY <1>1 DEF TypeOK, Symbol
<1> QED BY <1>1, <1>2, <1>4, <1>5 DEF TypeOK, lexer

LEMMA InitTyped == Init => TypeOK /\ WordIsPlaced
<1> SUFFICES ASSUME Init PROVE TypeOK /\ WordIsPlaced
  OBVIOUS
<1>1. blocks \in Seq(Seq([words : Seq(1..words), child : 0..Len(blocks)])) /\ Len(blocks) = 1
  BY EmptySeq DEF Init
<1>2. stack \in Seq(1..Len(blocks))
  BY <1>1 DEF Init, Root
<1> QED BY <1>1, <1>2, EmptySeq DEF Init, TypeOK, WordIsPlaced

LEMMA TypedStep == TypeOK /\ WordIsPlaced /\ [Next]_vars => (TypeOK /\ WordIsPlaced)'
<1> SUFFICES ASSUME TypeOK, WordIsPlaced, [Next]_vars PROVE TypeOK' /\ WordIsPlaced'
  OBVIOUS
<1>1. CASE Open
  BY <1>1 DEF Open, TypeOK, WordIsPlaced, Top, tree
<1>2. CASE Parse
  BY <1>2, AddWordTyped, OpenBlockTyped, ParsingTyped
<1>3. CASE UNCHANGED vars
  BY <1>3 DEF vars, lexer, tree, TypeOK, WordIsPlaced, Top
<1> QED BY <1>1, <1>2, <1>3, ReadingTyped DEF Next

\* Every variable keeps its type, whatever the file and however long it is; no
\* word is added to a block or a statement that is not there while the stack
\* is not empty.
THEOREM TypeCorrect == Spec => []TypeOK
BY InitTyped, TypedStep, PTL DEF Spec

------------------------------------------------------------------------------
\* The first character of a kind.

LEMMA FirstOfIs ==
  ASSUME NEW u \in Seq(Char), NEW C
  PROVE  /\ FirstOf(u, C) \in 0..Len(u)
         /\ FirstOf(u, C) = 0 => \A j \in 1..Len(u) : u[j] \notin C
         /\ FirstOf(u, C) # 0 => /\ u[FirstOf(u, C)] \in C
                                 /\ \A j \in 1..FirstOf(u, C) - 1 : u[j] \notin C
<1> DEFINE I == {i \in 1..Len(u) : u[i] \in C}
<1>1. FirstOf(u, C) = IF I # {} THEN Min(I) ELSE 0
  BY DEF FirstOf, SelectInSeq
<1>2. Len(u) \in Nat
  BY LenProperties
<1>3. CASE I = {}
  BY <1>1, <1>2, <1>3
<1>4. CASE I # {}
  <2>1. I \in SUBSET Nat
    OBVIOUS
  <2>2. PICK x \in I : \A y \in I : x <= y
    <3> HIDE DEF I
    <3> QED BY <1>4, <2>1, HasLeast
  <2>3. Min(I) \in I /\ \A y \in I : Min(I) <= y
    <3> HIDE DEF I
    <3> QED BY <2>2 DEF Min
  <2>4. PICK m \in I : m = Min(I)
    BY <2>3
  <2>5. \A j \in 1..m - 1 : j \in 1..Len(u) /\ ~(m <= j)
    BY <1>2
  <2>6. \A j \in 1..m - 1 : j \notin I
    <3> HIDE DEF I
    <3> QED BY <2>3, <2>4, <2>5
  <2> QED BY <1>1, <1>2, <1>4, <2>4, <2>5, <2>6
<1> QED BY <1>3, <1>4

LEMMA FirstOfCons ==
  ASSUME NEW c \in Char, NEW u \in Seq(Char), NEW C
  PROVE  /\ c \in C => FirstOf(<<c>> \o u, C) = 1
         /\ c \notin C /\ FirstOf(u, C) = 0 => FirstOf(<<c>> \o u, C) = 0
         /\ c \notin C /\ FirstOf(u, C) # 0 => FirstOf(<<c>> \o u, C) = FirstOf(u, C) + 1
<1>1. PICK x \in Seq(Char) : x = <<c>> \o u
  BY ConsIs
<1>2. PICK n \in Nat : n = Len(u)
  BY LenProperties
<1>3. Len(x) = n + 1 /\ x[1] = c /\ \A i \in 1..n : x[i + 1] = u[i]
  BY <1>1, <1>2, ConsIs
<1>4. PICK f \in 0..n : f = FirstOf(u, C)
  BY <1>2, FirstOfIs
<1>5. /\ f = 0 => \A j \in 1..n : u[j] \notin C
      /\ f # 0 => u[f] \in C /\ \A j \in 1..f - 1 : u[j] \notin C
  BY <1>2, <1>4, FirstOfIs
<1>6. PICK g \in 0..n + 1 : g = FirstOf(x, C)
  BY <1>3, FirstOfIs
<1>7. /\ g = 0 => \A j \in 1..n + 1 : x[j] \notin C
      /\ g # 0 => x[g] \in C /\ \A j \in 1..g - 1 : x[j] \notin C
  BY <1>3, <1>6, FirstOfIs
<1>8. CASE c \in C
  <2>1. g # 0
    BY <1>3, <1>7, <1>8
  <2>2. ~(g > 1)
    BY <1>3, <1>7, <1>8, <2>1
  <2> QED BY <1>1, <1>6, <1>8, <2>1, <2>2
<1>9. CASE c \notin C
  <2>1. g # 0 => /\ g # 1 /\ g - 1 \in 1..n /\ u[g - 1] \in C
                 /\ \A j \in 1..g - 2 : u[j] \notin C
    <3> SUFFICES ASSUME g # 0 PROVE /\ g # 1 /\ g - 1 \in 1..n /\ u[g - 1] \in C
                                    /\ \A j \in 1..g - 2 : u[j] \notin C
      OBVIOUS
    <3>1. g # 1
      BY <1>3, <1>7, <1>9
    <3>2. g - 1 \in 1..n /\ (g - 1) + 1 = g
      BY <3>1
    <3>3. u[g - 1] \in C
      BY <1>3, <1>7, <3>2
    <3>4. ASSUME NEW j \in 1..g - 2 PROVE u[j] \notin C
      <4>1. j + 1 \in 1..g - 1 /\ j \in 1..n
        OBVIOUS
      <4> QED BY <1>3, <1>7, <4>1
    <3> QED BY <3>1, <3>2, <3>3, <3>4
  <2>2. f = 0 => g = 0
    BY <1>5, <2>1
  <2>3. f # 0 => g = f + 1
    <3> SUFFICES ASSUME f # 0 PROVE g = f + 1
      OBVIOUS
    <3>1. f \in 1..n /\ f + 1 \in 1..n + 1
      OBVIOUS
    <3>2. x[f + 1] \in C
      BY <1>3, <1>5, <3>1
    <3>3. g # 0
      BY <1>7, <3>1, <3>2
    <3>4. ~(g > f + 1)
      <4>1. g > f + 1 => f + 1 \in 1..g - 1
        OBVIOUS
      <4> QED BY <1>7, <3>2, <3>3, <4>1
    <3>5. ~(g < f + 1)
      <4>1. g < f + 1 => g - 1 \in 1..f - 1
        BY <2>1, <3>3
      <4> QED BY <1>5, <2>1, <3>3, <4>1
    <3> QED BY <3>4, <3>5
  <2> QED BY <1>1, <1>4, <1>6, <1>9, <2>2, <2>3
<1> QED BY <1>8, <1>9

------------------------------------------------------------------------------
\* The tokens of a text: the recursive function has a value.

\* What follows in a text, after a character that begins a token of the kind.
AfterComment(f, u) ==
  LET i == FirstOf(u, CommentEnd) IN IF i = 0 THEN <<>> ELSE f[From(u, i + 1)]
AfterQuote(f, c, u) ==
  LET i == FirstOf(u, {c}) IN IF i = 0 THEN <<"unclosed">> ELSE <<"word">> \o f[From(u, i + 1)]
AfterPlain(f, u) ==
  LET i == FirstOf(u, WordEnd) IN IF i = 0 THEN <<"cut">> ELSE <<"word">> \o f[From(u, i)]

After(f, c, u) ==
  CASE c \in Space  -> f[u]
    [] c \in Symbol -> <<c>> \o f[u]
    [] c = "#"      -> AfterComment(f, u)
    [] c \in Quote  -> AfterQuote(f, c, u)
    [] OTHER        -> AfterPlain(f, u)

TokensOf(f, t) == IF t = <<>> THEN <<>> ELSE After(f, t[1], Tail(t))

LEMMA AfterIs ==
  ASSUME NEW f, NEW c, NEW u
  PROVE  /\ c \in Space => After(f, c, u) = f[u]
         /\ c \in Symbol => After(f, c, u) = <<c>> \o f[u]
         /\ c = "#" => After(f, c, u) = AfterComment(f, u)
         /\ c \in Quote => After(f, c, u) = AfterQuote(f, c, u)
         /\ c \notin Space \cup Symbol \cup Quote \cup {"#"} => After(f, c, u) = AfterPlain(f, u)
BY DEF After, Space, Symbol, Quote

\* Only shorter texts matter.
LEMMA TokensOfShorter ==
  ASSUME NEW f, NEW g, NEW t \in Seq(Char),
         \A u \in Seq(Char) : Len(u) < Len(t) => f[u] = g[u] /\ f[u] \in Seq(Kind)
  PROVE  TokensOf(f, t) = TokensOf(g, t) /\ TokensOf(f, t) \in Seq(Kind)
<1>1. CASE t = <<>>
  BY <1>1, EmptySeq DEF TokensOf
<1>2. CASE t # <<>>
  <2> DEFINE c == t[1]
             r == Tail(t)
  <2>1. r \in Seq(Char) /\ Len(r) = Len(t) - 1 /\ Len(t) \in Nat \ {0} /\ Len(r) \in Nat
    BY <1>2, HeadTailProperties, EmptySeq
  <2>2. c \in Char
    BY <2>1, ElementOfSeq
  <2> HIDE DEF c, r
  <2>3. ASSUME NEW i \in 1..Len(r) + 1
        PROVE  f[From(r, i)] = g[From(r, i)] /\ f[From(r, i)] \in Seq(Kind)
    <3>1. From(r, i) \in Seq(Char) /\ Len(From(r, i)) = Len(r) - i + 1
      BY <2>1, FromIs
    <3>2. Len(From(r, i)) < Len(t)
      BY <2>1, <3>1
    <3> QED BY <3>1, <3>2
  <2>4. f[r] = g[r] /\ f[r] \in Seq(Kind)
    BY <2>1
  <2>5. ASSUME NEW C PROVE FirstOf(r, C) \in 0..Len(r)
    BY <2>1, FirstOfIs
  <2>6. ASSUME NEW k \in Kind, NEW s \in Seq(Kind) PROVE <<k>> \o s \in Seq(Kind)
    BY ConsIs
  <2>7. "word" \in Kind /\ <<"unclosed">> \in Seq(Kind) /\ <<"cut">> \in Seq(Kind) /\ <<>> \in Seq(Kind)
    BY EmptySeq DEF Kind
  <2>8. AfterComment(f, r) = AfterComment(g, r) /\ AfterComment(f, r) \in Seq(Kind)
    <3>1. PICK i \in 0..Len(r) : i = FirstOf(r, CommentEnd)
      BY <2>5
    <3>2. CASE i = 0
      BY <2>7, <3>1, <3>2 DEF AfterComment
    <3>3. CASE i # 0
      <4>1. i + 1 \in 1..Len(r) + 1
        BY <2>1, <3>3
      <4> QED BY <2>3, <3>1, <3>3, <4>1 DEF AfterComment
    <3> QED BY <3>2, <3>3
  <2>9. AfterQuote(f, c, r) = AfterQuote(g, c, r) /\ AfterQuote(f, c, r) \in Seq(Kind)
    <3>1. PICK i \in 0..Len(r) : i = FirstOf(r, {c})
      BY <2>5
    <3>2. CASE i = 0
      BY <2>7, <3>1, <3>2 DEF AfterQuote
    <3>3. CASE i # 0
      <4>1. i + 1 \in 1..Len(r) + 1
        BY <2>1, <3>3
      <4>2. f[From(r, i + 1)] = g[From(r, i + 1)] /\ f[From(r, i + 1)] \in Seq(Kind)
        BY <2>3, <4>1
      <4>3. <<"word">> \o f[From(r, i + 1)] \in Seq(Kind)
        BY <2>6, <2>7, <4>2
      <4> QED BY <3>1, <3>3, <4>2, <4>3 DEF AfterQuote
    <3> QED BY <3>2, <3>3
  <2>10. AfterPlain(f, r) = AfterPlain(g, r) /\ AfterPlain(f, r) \in Seq(Kind)
    <3>1. PICK i \in 0..Len(r) : i = FirstOf(r, WordEnd)
      BY <2>5
    <3>2. CASE i = 0
      BY <2>7, <3>1, <3>2 DEF AfterPlain
    <3>3. CASE i # 0
      <4>1. i \in 1..Len(r) + 1
        BY <2>1, <3>3
      <4>2. f[From(r, i)] = g[From(r, i)] /\ f[From(r, i)] \in Seq(Kind)
        BY <2>3, <4>1
      <4>3. <<"word">> \o f[From(r, i)] \in Seq(Kind)
        BY <2>6, <2>7, <4>2
      <4> QED BY <3>1, <3>3, <4>2, <4>3 DEF AfterPlain
    <3> QED BY <3>2, <3>3
  <2>11. c \in Symbol => <<c>> \o f[r] \in Seq(Kind)
    BY <2>4, <2>6 DEF Kind
  <2>12. After(f, c, r) = After(g, c, r) /\ After(f, c, r) \in Seq(Kind)
    <3>1. CASE c \in Space
      <4>1. After(f, c, r) = f[r] /\ After(g, c, r) = g[r]
        BY <3>1, AfterIs
      <4> QED BY <2>4, <4>1
    <3>2. CASE c \in Symbol
      <4>1. After(f, c, r) = <<c>> \o f[r] /\ After(g, c, r) = <<c>> \o g[r]
        BY <3>2, AfterIs
      <4> QED BY <2>4, <2>11, <3>2, <4>1
    <3>3. CASE c = "#"
      <4>1. After(f, c, r) = AfterComment(f, r) /\ After(g, c, r) = AfterComment(g, r)
        BY <3>3, AfterIs
      <4> QED BY <2>8, <4>1
    <3>4. CASE c \in Quote
      <4>1. After(f, c, r) = AfterQuote(f, c, r) /\ After(g, c, r) = AfterQuote(g, c, r)
        BY <3>4, AfterIs
      <4> QED BY <2>9, <4>1
    <3>5. CASE c \notin Space \cup Symbol \cup Quote \cup {"#"}
      <4>1. After(f, c, r) = AfterPlain(f, r) /\ After(g, c, r) = AfterPlain(g, r)
        BY <3>5, AfterIs
      <4> QED BY <2>10, <4>1
    <3> QED BY <3>1, <3>2, <3>3, <3>4, <3>5
  <2> QED BY <1>2, <2>12 DEF TokensOf, c, r
<1> QED BY <1>1, <1>2

\* The tokens of the texts of at most m characters.
ShortText(m) == {t \in Seq(Char) : Len(t) <= m}
Tokens(g, m) == g \in [ShortText(m) -> Seq(Kind)] /\ \A t \in ShortText(m) : g[t] = TokensOf(g, t)

LEMMA TokensExist == \A m \in Nat : \E g : Tokens(g, m)
<1> DEFINE S == {m \in Nat : \E g : Tokens(g, m)}
<1>1. 0 \in S
  <2> DEFINE g == [t \in ShortText(0) |-> <<>>]
  <2>1. \A t \in ShortText(0) : t = <<>>
    BY LenProperties, EmptySeq DEF ShortText
  <2>2. g \in [ShortText(0) -> Seq(Kind)] /\ \A t \in ShortText(0) : g[t] = <<>>
    BY EmptySeq
  <2> HIDE DEF g
  <2>3. \A t \in ShortText(0) : TokensOf(g, t) = <<>>
    BY <2>1 DEF TokensOf
  <2>4. Tokens(g, 0)
    BY <2>2, <2>3 DEF Tokens
  <2> QED BY <2>4
<1>2. ASSUME NEW m \in Nat, m \in S PROVE m + 1 \in S
  <2>1. PICK g : Tokens(g, m)
    BY <1>2
  <2> DEFINE h == [t \in ShortText(m + 1) |-> TokensOf(g, t)]
  <2>2. ASSUME NEW t \in ShortText(m) PROVE t \in ShortText(m + 1) /\ h[t] = g[t] /\ g[t] \in Seq(Kind)
    <3>1. t \in Seq(Char) /\ Len(t) \in Nat /\ Len(t) <= m
      BY LenProperties DEF ShortText
    <3>2. t \in ShortText(m + 1)
      BY <3>1 DEF ShortText
    <3> QED BY <2>1, <3>2 DEF Tokens
  <2>3. ASSUME NEW t \in ShortText(m + 1)
        PROVE  TokensOf(g, t) = TokensOf(h, t) /\ TokensOf(g, t) \in Seq(Kind)
    <3> HIDE DEF h
    <3>1. t \in Seq(Char) /\ Len(t) \in Nat /\ Len(t) <= m + 1
      BY LenProperties DEF ShortText
    <3>2. ASSUME NEW u \in Seq(Char), Len(u) < Len(t) PROVE g[u] = h[u] /\ g[u] \in Seq(Kind)
      <4>1. u \in ShortText(m)
        BY <3>1, <3>2, LenProperties DEF ShortText
      <4> QED BY <2>2, <4>1
    <3> QED BY <3>1, <3>2, TokensOfShorter
  <2>4. h \in [ShortText(m + 1) -> Seq(Kind)] /\ \A t \in ShortText(m + 1) : h[t] = TokensOf(g, t)
    BY <2>3
  <2> HIDE DEF h
  <2>5. Tokens(h, m + 1)
    BY <2>3, <2>4 DEF Tokens
  <2> QED BY <2>5
<1> HIDE DEF S
<1>3. \A m \in Nat : m \in S
  BY <1>1, <1>2, Induction
<1> QED BY <1>3 DEF S

LEMMA TokensAgree ==
  ASSUME NEW m \in Nat, NEW n \in Nat, NEW g, NEW h, Tokens(g, m), Tokens(h, n),
         NEW t \in Seq(Char), Len(t) <= m, Len(t) <= n
  PROVE  g[t] = h[t]
<1> DEFINE S == {k \in Nat : \A u \in Seq(Char) : Len(u) <= k /\ Len(u) <= m /\ Len(u) <= n => g[u] = h[u]}
<1>1. ASSUME NEW k \in Nat,
             \A u \in Seq(Char) : Len(u) < k /\ Len(u) <= m /\ Len(u) <= n => g[u] = h[u],
             NEW u \in Seq(Char), Len(u) <= k, Len(u) <= m, Len(u) <= n
      PROVE  g[u] = h[u]
  <2>1. u \in ShortText(m) /\ u \in ShortText(n) /\ Len(u) \in Nat
    BY <1>1, LenProperties DEF ShortText
  <2>2. ASSUME NEW v \in Seq(Char), Len(v) < Len(u) PROVE g[v] = h[v] /\ g[v] \in Seq(Kind)
    <3>1. Len(v) \in Nat
      BY LenProperties
    <3>2. Len(v) < k /\ Len(v) <= m /\ Len(v) <= n
      BY <1>1, <2>1, <2>2, <3>1
    <3>3. v \in ShortText(m)
      BY <3>2 DEF ShortText
    <3> QED BY <1>1, <3>2, <3>3 DEF Tokens
  <2>3. TokensOf(g, u) = TokensOf(h, u)
    BY <2>2, TokensOfShorter
  <2> QED BY <2>1, <2>3 DEF Tokens
<1>2. 0 \in S
  <2>1. \A u \in Seq(Char) : ~(Len(u) < 0)
    BY LenProperties
  <2> QED BY <1>1, <2>1
<1>3. ASSUME NEW k \in Nat, k \in S PROVE k + 1 \in S
  <2>1. \A u \in Seq(Char) : Len(u) < k + 1 => Len(u) <= k
    BY LenProperties
  <2>2. \A u \in Seq(Char) : Len(u) < k + 1 /\ Len(u) <= m /\ Len(u) <= n => g[u] = h[u]
    BY <1>3, <2>1
  <2>3. k + 1 \in Nat
    OBVIOUS
  <2>4. \A u \in Seq(Char) : Len(u) <= k + 1 /\ Len(u) <= m /\ Len(u) <= n => g[u] = h[u]
    BY <1>1, <2>2, <2>3
  <2> QED BY <2>3, <2>4
<1>4. Len(t) \in Nat /\ Len(t) <= Len(t)
  BY LenProperties
<1> HIDE DEF S
<1>5. Len(t) \in S
  BY <1>2, <1>3, <1>4, Induction
<1> USE DEF S
<1> QED BY <1>4, <1>5

LEMMA LexemesAre ==
  /\ Lexemes \in [Seq(Char) -> Seq(Kind)]
  /\ \A t \in Seq(Char) : Lexemes[t] = TokensOf(Lexemes, t)
<1> DEFINE G(m) == CHOOSE g : Tokens(g, m)
           f == [t \in Seq(Char) |-> G(Len(t))[t]]
<1>1. \A m \in Nat : Tokens(G(m), m)
  BY TokensExist
<1>2. \A t \in Seq(Char) : Len(t) \in Nat
  BY LenProperties
<1>3. \A t \in Seq(Char) : f[t] = G(Len(t))[t]
  OBVIOUS
<1> HIDE DEF G, f
<1>4. ASSUME NEW t \in Seq(Char) PROVE f[t] = TokensOf(f, t) /\ f[t] \in Seq(Kind)
  <2>1. PICK m \in Nat : m = Len(t)
    BY <1>2
  <2>2. PICK g : g = G(m) /\ Tokens(g, m)
    BY <1>1
  <2>3. ASSUME NEW u \in Seq(Char), Len(u) < Len(t) PROVE g[u] = f[u] /\ g[u] \in Seq(Kind)
    <3>1. PICK n \in Nat : n = Len(u)
      BY <1>2
    <3>2. PICK h : h = G(n) /\ Tokens(h, n)
      BY <1>1
    <3>3. Len(u) <= m /\ Len(u) <= n
      BY <2>1, <2>3, <3>1
    <3>4. g[u] = h[u]
      BY <2>2, <3>2, <3>3, TokensAgree
    <3>5. u \in ShortText(m)
      BY <3>3 DEF ShortText
    <3> QED BY <1>3, <2>2, <3>1, <3>2, <3>4, <3>5 DEF Tokens
  <2>4. TokensOf(g, t) = TokensOf(f, t)
    BY <2>3, TokensOfShorter
  <2>5. t \in ShortText(m)
    BY <2>1 DEF ShortText
  <2> QED BY <1>3, <2>1, <2>2, <2>4, <2>5 DEF Tokens
<1>5. f = [t \in Seq(Char) |-> TokensOf(f, t)]
  BY <1>4 DEF f
<1>6. \E g : g = [t \in Seq(Char) |-> TokensOf(g, t)]
  BY <1>5
<1>7. Lexemes = [t \in Seq(Char) |-> TokensOf(Lexemes, t)]
  BY <1>6 DEF Lexemes, TokensOf, After, AfterComment, AfterQuote, AfterPlain
<1>8. \A t \in Seq(Char) : Lexemes[t] = TokensOf(Lexemes, t)
  BY <1>7
<1> DEFINE S == {k \in Nat : \A t \in Seq(Char) : Len(t) <= k => Lexemes[t] \in Seq(Kind)}
<1>9. ASSUME NEW t \in Seq(Char), \A u \in Seq(Char) : Len(u) < Len(t) => Lexemes[u] \in Seq(Kind)
      PROVE  Lexemes[t] \in Seq(Kind)
  BY <1>8, <1>9, TokensOfShorter
<1>10. 0 \in S
  <2>1. \A t, u \in Seq(Char) : Len(t) <= 0 => ~(Len(u) < Len(t))
    BY <1>2
  <2> QED BY <1>9, <2>1
<1>11. ASSUME NEW k \in Nat, k \in S PROVE k + 1 \in S
  <2>1. \A t, u \in Seq(Char) : Len(t) <= k + 1 /\ Len(u) < Len(t) => Len(u) <= k
    BY <1>2
  <2>2. \A t \in Seq(Char) : Len(t) <= k + 1 => Lexemes[t] \in Seq(Kind)
    BY <1>9, <1>11, <2>1
  <2> QED BY <2>2
<1>12. ASSUME NEW t \in Seq(Char) PROVE Lexemes[t] \in Seq(Kind)
  <2>1. PICK m \in Nat : m = Len(t)
    BY <1>2
  <2>2. Len(t) <= m
    BY <2>1
  <2>3. m \in S
    <3> HIDE DEF S
    <3> QED BY <1>10, <1>11, Induction
  <2> QED BY <2>2, <2>3
<1> QED BY <1>7, <1>8, <1>12

------------------------------------------------------------------------------
\* The tokens of the rest u of a text, in each state of ParseToken.

Rest(s, u) ==
  IF s = "space" THEN Lexemes[u]
  ELSE IF s = "word" THEN AfterPlain(Lexemes, u)
  ELSE IF s = "comment" THEN AfterComment(Lexemes, u)
  ELSE AfterQuote(Lexemes, s, u)

LEMMA RestTyped == ASSUME NEW s, NEW u \in Seq(Char) PROVE Rest(s, u) \in Seq(Kind)
<1>1. \A v \in Seq(Char) : Lexemes[v] \in Seq(Kind)
  BY LexemesAre
<1>2. ASSUME NEW k \in Kind, NEW v \in Seq(Kind) PROVE <<k>> \o v \in Seq(Kind)
  BY ConsIs
<1>3. "word" \in Kind /\ <<"unclosed">> \in Seq(Kind) /\ <<"cut">> \in Seq(Kind) /\ <<>> \in Seq(Kind)
  BY EmptySeq DEF Kind
<1>4. \A i \in 1..Len(u) + 1 : From(u, i) \in Seq(Char)
  BY FromIs
<1>5. Len(u) \in Nat /\ \A C : FirstOf(u, C) \in 0..Len(u)
  BY LenProperties, FirstOfIs
<1>6. \A C : FirstOf(u, C) # 0 => /\ Lexemes[From(u, FirstOf(u, C))] \in Seq(Kind)
                                  /\ Lexemes[From(u, FirstOf(u, C) + 1)] \in Seq(Kind)
  <2> TAKE C
  <2>1. PICK i \in 0..Len(u) : i = FirstOf(u, C)
    BY <1>5
  <2>2. i # 0 => i \in 1..Len(u) + 1 /\ i + 1 \in 1..Len(u) + 1
    BY <1>5
  <2> QED BY <1>1, <1>4, <2>1, <2>2
<1>7. AfterPlain(Lexemes, u) \in Seq(Kind)
  BY <1>2, <1>3, <1>6 DEF AfterPlain
<1>8. AfterComment(Lexemes, u) \in Seq(Kind)
  BY <1>3, <1>6 DEF AfterComment
<1>9. AfterQuote(Lexemes, s, u) \in Seq(Kind)
  BY <1>2, <1>3, <1>6 DEF AfterQuote
<1> QED BY <1>1, <1>7, <1>8, <1>9 DEF Rest

\* At the end of the text.
LEMMA RestOfNothing ==
  ASSUME NEW s \in {"space", "comment", "word"} \cup Quote
  PROVE  /\ s \in Quote => Rest(s, <<>>) = <<"unclosed">>
         /\ s = "word" => Rest(s, <<>>) = <<"cut">>
         /\ s \notin Quote \cup {"word"} => Rest(s, <<>>) = <<>>
<1>1. <<>> \in Seq(Char) /\ Len(<<>>) = 0
  BY EmptySeq
<1>2. \A C : FirstOf(<<>>, C) = 0
  <2> TAKE C
  <2>1. FirstOf(<<>>, C) \in 0..Len(<<>>)
    BY <1>1, FirstOfIs
  <2> QED BY <1>1, <2>1
<1>3. Lexemes[<<>>] = <<>>
  BY <1>1, LexemesAre DEF TokensOf
<1> QED BY <1>2, <1>3 DEF Rest, AfterPlain, AfterComment, AfterQuote, Quote

LEMMA RestAtSpace ==
  ASSUME NEW c \in Char, NEW u \in Seq(Char)
  PROVE  /\ c \in Space => Rest("space", <<c>> \o u) = Rest("space", u)
         /\ c \in Symbol => Rest("space", <<c>> \o u) = <<c>> \o Rest("space", u)
         /\ c = "#" => Rest("space", <<c>> \o u) = Rest("comment", u)
         /\ c \in Quote => Rest("space", <<c>> \o u) = Rest(c, u)
         /\ c \notin Space \cup Symbol \cup Quote \cup {"#"} =>
              Rest("space", <<c>> \o u) = Rest("word", u)
<1>1. PICK x \in Seq(Char) : x = <<c>> \o u
  BY ConsIs
<1>2. x # <<>> /\ x[1] = c /\ Tail(x) = u
  BY <1>1, ConsIs, ConsParts
<1>3. Lexemes[x] = After(Lexemes, c, u)
  BY <1>2, LexemesAre DEF TokensOf
<1>4. \A v : Rest("space", v) = Lexemes[v]
  BY DEF Rest
<1>5. c \in Quote => Rest(c, u) = AfterQuote(Lexemes, c, u)
  BY DEF Rest, Quote
<1>6. Rest("comment", u) = AfterComment(Lexemes, u) /\ Rest("word", u) = AfterPlain(Lexemes, u)
  BY DEF Rest
<1>7. /\ c \in Space => Lexemes[x] = Lexemes[u]
      /\ c \in Symbol => Lexemes[x] = <<c>> \o Lexemes[u]
      /\ c = "#" => Lexemes[x] = AfterComment(Lexemes, u)
      /\ c \in Quote => Lexemes[x] = AfterQuote(Lexemes, c, u)
      /\ c \notin Space \cup Symbol \cup Quote \cup {"#"} => Lexemes[x] = AfterPlain(Lexemes, u)
  BY <1>3, AfterIs
<1> QED BY <1>1, <1>4, <1>5, <1>6, <1>7, Zenon

LEMMA RestInWord ==
  ASSUME NEW c \in Char, NEW u \in Seq(Char)
  PROVE  /\ c \in WordEnd => Rest("word", <<c>> \o u) = <<"word">> \o Rest("space", <<c>> \o u)
         /\ c \notin WordEnd => Rest("word", <<c>> \o u) = Rest("word", u)
<1>1. PICK x \in Seq(Char) : x = <<c>> \o u
  BY ConsIs
<1>2. \A v : Rest("word", v) = AfterPlain(Lexemes, v) /\ Rest("space", v) = Lexemes[v]
  BY DEF Rest
<1>3. ASSUME c \in WordEnd PROVE AfterPlain(Lexemes, x) = <<"word">> \o Lexemes[x]
  <2>1. FirstOf(x, WordEnd) = 1 /\ From(x, 1) = x
    BY <1>1, <1>3, FirstOfCons, ConsParts
  <2> QED BY <2>1 DEF AfterPlain
<1>4. ASSUME c \notin WordEnd PROVE AfterPlain(Lexemes, x) = AfterPlain(Lexemes, u)
  <2>1. PICK i \in 0..Len(u) : i = FirstOf(u, WordEnd)
    BY FirstOfIs
  <2>2. CASE i = 0
    BY <1>1, <1>4, <2>1, <2>2, FirstOfCons DEF AfterPlain
  <2>3. CASE i # 0
    <3>1. i \in 1..Len(u) + 1 /\ i + 1 # 0
      BY <2>3, LenProperties
    <3>2. FirstOf(x, WordEnd) = i + 1
      BY <1>1, <1>4, <2>1, <2>3, FirstOfCons
    <3>3. From(x, i + 1) = From(u, i)
      BY <1>1, <3>1, ConsParts
    <3> QED BY <2>1, <2>3, <3>1, <3>2, <3>3 DEF AfterPlain
  <2> QED BY <2>2, <2>3
<1> QED BY <1>1, <1>2, <1>3, <1>4

LEMMA RestInComment ==
  ASSUME NEW c \in Char, NEW u \in Seq(Char)
  PROVE  /\ c \in CommentEnd => Rest("comment", <<c>> \o u) = Rest("space", u)
         /\ c \notin CommentEnd => Rest("comment", <<c>> \o u) = Rest("comment", u)
<1>1. PICK x \in Seq(Char) : x = <<c>> \o u
  BY ConsIs
<1>2. \A v : Rest("comment", v) = AfterComment(Lexemes, v) /\ Rest("space", v) = Lexemes[v]
  BY DEF Rest
<1>3. Len(u) \in Nat /\ 1 \in 1..Len(u) + 1
  BY LenProperties
<1>4. ASSUME c \in CommentEnd PROVE AfterComment(Lexemes, x) = Lexemes[u]
  <2>1. FirstOf(x, CommentEnd) = 1
    BY <1>1, <1>4, FirstOfCons
  <2>2. From(x, 1 + 1) = u
    BY <1>1, <1>3, ConsParts
  <2> QED BY <2>1, <2>2 DEF AfterComment
<1>5. ASSUME c \notin CommentEnd PROVE AfterComment(Lexemes, x) = AfterComment(Lexemes, u)
  <2>1. PICK i \in 0..Len(u) : i = FirstOf(u, CommentEnd)
    BY FirstOfIs
  <2>2. CASE i = 0
    BY <1>1, <1>5, <2>1, <2>2, FirstOfCons DEF AfterComment
  <2>3. CASE i # 0
    <3>1. i + 1 \in 1..Len(u) + 1 /\ i + 1 # 0
      BY <1>3, <2>3
    <3>2. FirstOf(x, CommentEnd) = i + 1
      BY <1>1, <1>5, <2>1, <2>3, FirstOfCons
    <3>3. PICK k \in 1..Len(u) + 1 : k = i + 1
      BY <3>1
    <3>4. From(x, k + 1) = From(u, k)
      BY <1>1, ConsParts
    <3> QED BY <2>1, <2>3, <3>1, <3>2, <3>3, <3>4 DEF AfterComment
  <2> QED BY <2>2, <2>3
<1> QED BY <1>1, <1>2, <1>4, <1>5

LEMMA RestInQuote ==
  ASSUME NEW q \in Quote, NEW c \in Char, NEW u \in Seq(Char)
  PROVE  /\ c = q => Rest(q, <<c>> \o u) = <<"word">> \o Rest("space", u)
         /\ c # q => Rest(q, <<c>> \o u) = Rest(q, u)
<1>1. PICK x \in Seq(Char) : x = <<c>> \o u
  BY ConsIs
<1>2. \A v : Rest(q, v) = AfterQuote(Lexemes, q, v) /\ Rest("space", v) = Lexemes[v]
  BY DEF Rest, Quote
<1>3. Len(u) \in Nat /\ 1 \in 1..Len(u) + 1
  BY LenProperties
<1>4. ASSUME c = q PROVE AfterQuote(Lexemes, q, x) = <<"word">> \o Lexemes[u]
  <2>1. PICK i \in 1..Len(u) + 1 : i = 1 /\ i = FirstOf(x, {q})
    BY <1>1, <1>3, <1>4, FirstOfCons
  <2>2. From(x, i + 1) = From(u, i) /\ From(u, i) = u
    BY <1>1, <2>1, ConsParts
  <2>3. AfterQuote(Lexemes, q, x) = IF i = 0 THEN <<"unclosed">>
                                    ELSE <<"word">> \o Lexemes[From(x, i + 1)]
    BY <2>1 DEF AfterQuote
  <2>4. i # 0
    BY <2>1
  <2>5. From(x, i + 1) = u
    BY <2>2
  <2>6. AfterQuote(Lexemes, q, x) = <<"word">> \o Lexemes[From(x, i + 1)]
    BY <2>3, <2>4, Zenon
  <2> QED BY <2>5, <2>6, Zenon
<1>5. ASSUME c # q PROVE AfterQuote(Lexemes, q, x) = AfterQuote(Lexemes, q, u)
  <2>1. PICK i \in 0..Len(u) : i = FirstOf(u, {q})
    BY FirstOfIs
  <2>2. CASE i = 0
    BY <1>1, <1>5, <2>1, <2>2, FirstOfCons DEF AfterQuote
  <2>3. CASE i # 0
    <3>1. i + 1 \in 1..Len(u) + 1 /\ i + 1 # 0
      BY <1>3, <2>3
    <3>2. FirstOf(x, {q}) = i + 1
      BY <1>1, <1>5, <2>1, <2>3, FirstOfCons
    <3>3. PICK k \in 1..Len(u) + 1 : k = i + 1
      BY <3>1
    <3>4. From(x, k + 1) = From(u, k)
      BY <1>1, ConsParts
    <3> QED BY <2>1, <2>3, <3>1, <3>2, <3>3, <3>4 DEF AfterQuote
  <2> QED BY <2>2, <2>3
<1> QED BY <1>1, <1>2, <1>4, <1>5

------------------------------------------------------------------------------
\* The grammar: the recursive function has a value.

LEMMA PartIs ==
  ASSUME NEW S, NEW s \in Seq(S), NEW i \in 1..Len(s) + 1, NEW n \in i - 1..Len(s)
  PROVE  /\ SubSeq(s, i, n) \in Seq(S) /\ Len(SubSeq(s, i, n)) = n - i + 1
         /\ \A j \in 1..n - i + 1 : SubSeq(s, i, n)[j] = s[i + j - 1]
<1>1. Len(s) \in Nat
  BY LenProperties
<1>2. \A j \in i..n : j \in 1..Len(s)
  BY <1>1
<1>3. \A j \in i..n : s[j] \in S
  BY <1>2, ElementOfSeq
<1>4. i \in Int /\ n \in Int
  BY <1>1
<1>5. /\ SubSeq(s, i, n) \in Seq(S) /\ Len(SubSeq(s, i, n)) = IF i <= n THEN n - i + 1 ELSE 0
      /\ \A j \in 1..n - i + 1 : SubSeq(s, i, n)[j] = s[i + j - 1]
  BY <1>1, <1>3, <1>4, SubSeqProperties
<1>6. (IF i <= n THEN n - i + 1 ELSE 0) = n - i + 1
  BY <1>1
<1> QED BY <1>5, <1>6

BlockBody(f, l) ==
  \/ l = <<>>
  \/ \E i \in 1..Len(l) : WordsThen(l, i, ";") /\ f[From(l, i + 1)]
  \/ \E i \in 1..Len(l) : \E n \in i + 1..Len(l) :
       /\ WordsThen(l, i, "{") /\ l[n] = "}"
       /\ f[SubSeq(l, i + 1, n - 1)] /\ f[From(l, n + 1)]

LEMMA ShorterParts ==
  ASSUME NEW l \in Seq(Kind)
  PROVE  /\ \A i \in 1..Len(l) : From(l, i + 1) \in Seq(Kind) /\ Len(From(l, i + 1)) < Len(l)
         /\ \A i \in 1..Len(l) : \A n \in i + 1..Len(l) :
              SubSeq(l, i + 1, n - 1) \in Seq(Kind) /\ Len(SubSeq(l, i + 1, n - 1)) < Len(l)
<1>1. PICK m \in Nat : m = Len(l)
  BY LenProperties
<1>2. ASSUME NEW i \in 1..m PROVE From(l, i + 1) \in Seq(Kind) /\ Len(From(l, i + 1)) < m
  <2>1. PICK j \in 1..m + 1 : j = i + 1
    OBVIOUS
  <2>2. From(l, j) \in Seq(Kind) /\ Len(From(l, j)) = m - j + 1
    BY <1>1, FromIs
  <2>3. m - j + 1 < m
    BY <2>1
  <2> QED BY <2>1, <2>2, <2>3
<1>3. ASSUME NEW i \in 1..m, NEW n \in i + 1..m
      PROVE  SubSeq(l, i + 1, n - 1) \in Seq(Kind) /\ Len(SubSeq(l, i + 1, n - 1)) < m
  <2>1. PICK j \in 1..m + 1 : j = i + 1
    OBVIOUS
  <2>2. PICK k \in j - 1..m : k = n - 1
    BY <2>1
  <2>3. SubSeq(l, j, k) \in Seq(Kind) /\ Len(SubSeq(l, j, k)) = k - j + 1
    BY <1>1, PartIs
  <2>4. k - j + 1 < m
    BY <2>1, <2>2
  <2> QED BY <2>1, <2>2, <2>3, <2>4
<1> QED BY <1>1, <1>2, <1>3

\* Only shorter sequences matter.
LEMMA BlockOfShorter ==
  ASSUME NEW f, NEW g, NEW l \in Seq(Kind),
         \A u \in Seq(Kind) : Len(u) < Len(l) => f[u] = g[u]
  PROVE  BlockBody(f, l) = BlockBody(g, l)
<1>1. \A i \in 1..Len(l) : f[From(l, i + 1)] = g[From(l, i + 1)]
  BY ShorterParts
<1>2. \A i \in 1..Len(l) : \A n \in i + 1..Len(l) :
        f[SubSeq(l, i + 1, n - 1)] = g[SubSeq(l, i + 1, n - 1)]
  BY ShorterParts
<1>3. \A i \in 1..Len(l) : \A n \in i + 1..Len(l) : n \in 1..Len(l)
  BY LenProperties
<1> QED BY <1>1, <1>2, <1>3 DEF BlockBody

\* The blocks among the sequences of at most m tokens.
ShortLex(m) == {l \in Seq(Kind) : Len(l) <= m}
Blocks(g, m) == g \in [ShortLex(m) -> BOOLEAN] /\ \A l \in ShortLex(m) : g[l] = BlockBody(g, l)

LEMMA BlocksExist == \A m \in Nat : \E g : Blocks(g, m)
<1> DEFINE S == {m \in Nat : \E g : Blocks(g, m)}
<1>1. 0 \in S
  <2> DEFINE g == [l \in ShortLex(0) |-> TRUE]
  <2>1. \A l \in ShortLex(0) : l = <<>>
    BY LenProperties, EmptySeq DEF ShortLex
  <2>2. g \in [ShortLex(0) -> BOOLEAN] /\ \A l \in ShortLex(0) : g[l] = TRUE
    OBVIOUS
  <2> HIDE DEF g
  <2>3. \A l \in ShortLex(0) : BlockBody(g, l) = TRUE
    BY <2>1 DEF BlockBody
  <2>4. Blocks(g, 0)
    BY <2>2, <2>3 DEF Blocks
  <2> QED BY <2>4
<1>2. ASSUME NEW m \in Nat, m \in S PROVE m + 1 \in S
  <2>1. PICK g : Blocks(g, m)
    BY <1>2
  <2> DEFINE h == [l \in ShortLex(m + 1) |-> BlockBody(g, l)]
  <2>2. ASSUME NEW l \in ShortLex(m) PROVE h[l] = g[l]
    <3>1. l \in Seq(Kind) /\ Len(l) \in Nat /\ Len(l) <= m
      BY LenProperties DEF ShortLex
    <3>2. l \in ShortLex(m + 1)
      BY <3>1 DEF ShortLex
    <3> QED BY <2>1, <3>2 DEF Blocks
  <2>3. ASSUME NEW l \in ShortLex(m + 1) PROVE BlockBody(g, l) = BlockBody(h, l)
    <3> HIDE DEF h
    <3>1. l \in Seq(Kind) /\ Len(l) \in Nat /\ Len(l) <= m + 1
      BY LenProperties DEF ShortLex
    <3>2. ASSUME NEW u \in Seq(Kind), Len(u) < Len(l) PROVE g[u] = h[u]
      <4>1. u \in ShortLex(m)
        BY <3>1, <3>2, LenProperties DEF ShortLex
      <4> QED BY <2>2, <4>1
    <3> QED BY <3>1, <3>2, BlockOfShorter
  <2>4. h \in [ShortLex(m + 1) -> BOOLEAN] /\ \A l \in ShortLex(m + 1) : h[l] = BlockBody(g, l)
    <3>1. \A l : BlockBody(g, l) \in BOOLEAN
      BY DEF BlockBody
    <3> QED BY <3>1
  <2> HIDE DEF h
  <2>5. Blocks(h, m + 1)
    BY <2>3, <2>4 DEF Blocks
  <2> QED BY <2>5
<1> HIDE DEF S
<1>3. \A m \in Nat : m \in S
  BY <1>1, <1>2, Induction
<1> QED BY <1>3 DEF S

LEMMA BlocksAgree ==
  ASSUME NEW m \in Nat, NEW n \in Nat, NEW g, NEW h, Blocks(g, m), Blocks(h, n),
         NEW t \in Seq(Kind), Len(t) <= m, Len(t) <= n
  PROVE  g[t] = h[t]
<1> DEFINE S == {k \in Nat : \A u \in Seq(Kind) : Len(u) <= k /\ Len(u) <= m /\ Len(u) <= n => g[u] = h[u]}
<1>1. ASSUME NEW k \in Nat,
             \A u \in Seq(Kind) : Len(u) < k /\ Len(u) <= m /\ Len(u) <= n => g[u] = h[u],
             NEW u \in Seq(Kind), Len(u) <= k, Len(u) <= m, Len(u) <= n
      PROVE  g[u] = h[u]
  <2>1. u \in ShortLex(m) /\ u \in ShortLex(n) /\ Len(u) \in Nat
    BY <1>1, LenProperties DEF ShortLex
  <2>2. ASSUME NEW v \in Seq(Kind), Len(v) < Len(u) PROVE g[v] = h[v]
    <3>1. Len(v) \in Nat
      BY LenProperties
    <3>2. Len(v) < k /\ Len(v) <= m /\ Len(v) <= n
      BY <1>1, <2>1, <2>2, <3>1
    <3> QED BY <1>1, <3>2
  <2>3. BlockBody(g, u) = BlockBody(h, u)
    BY <2>2, BlockOfShorter
  <2> QED BY <2>1, <2>3 DEF Blocks
<1>2. 0 \in S
  <2>1. \A u \in Seq(Kind) : ~(Len(u) < 0)
    BY LenProperties
  <2> QED BY <1>1, <2>1
<1>3. ASSUME NEW k \in Nat, k \in S PROVE k + 1 \in S
  <2>1. \A u \in Seq(Kind) : Len(u) < k + 1 => Len(u) <= k
    BY LenProperties
  <2>2. \A u \in Seq(Kind) : Len(u) < k + 1 /\ Len(u) <= m /\ Len(u) <= n => g[u] = h[u]
    BY <1>3, <2>1
  <2>3. k + 1 \in Nat
    OBVIOUS
  <2>4. \A u \in Seq(Kind) : Len(u) <= k + 1 /\ Len(u) <= m /\ Len(u) <= n => g[u] = h[u]
    BY <1>1, <2>2, <2>3
  <2> QED BY <2>3, <2>4
<1>4. Len(t) \in Nat /\ Len(t) <= Len(t)
  BY LenProperties
<1> HIDE DEF S
<1>5. Len(t) \in S
  BY <1>2, <1>3, <1>4, Induction
<1> USE DEF S
<1> QED BY <1>4, <1>5

LEMMA IsBlockIs ==
  /\ IsBlock \in [Seq(Kind) -> BOOLEAN]
  /\ \A l \in Seq(Kind) : IsBlock[l] = BlockBody(IsBlock, l)
<1> DEFINE G(m) == CHOOSE g : Blocks(g, m)
           f == [l \in Seq(Kind) |-> G(Len(l))[l]]
<1>1. \A m \in Nat : Blocks(G(m), m)
  BY BlocksExist
<1>2. \A l \in Seq(Kind) : Len(l) \in Nat
  BY LenProperties
<1>3. \A l \in Seq(Kind) : f[l] = G(Len(l))[l]
  OBVIOUS
<1> HIDE DEF G, f
<1>4. ASSUME NEW l \in Seq(Kind) PROVE f[l] = BlockBody(f, l)
  <2>1. PICK m \in Nat : m = Len(l)
    BY <1>2
  <2>2. PICK g : g = G(m) /\ Blocks(g, m)
    BY <1>1
  <2>3. ASSUME NEW u \in Seq(Kind), Len(u) < Len(l) PROVE g[u] = f[u]
    <3>1. PICK n \in Nat : n = Len(u)
      BY <1>2
    <3>2. PICK h : h = G(n) /\ Blocks(h, n)
      BY <1>1
    <3>3. Len(u) <= m /\ Len(u) <= n
      BY <2>1, <2>3, <3>1
    <3>4. g[u] = h[u]
      BY <2>2, <3>2, <3>3, BlocksAgree
    <3> QED BY <1>3, <3>1, <3>2, <3>4
  <2>4. BlockBody(g, l) = BlockBody(f, l)
    BY <2>3, BlockOfShorter
  <2>5. l \in ShortLex(m)
    BY <2>1 DEF ShortLex
  <2>6. g[l] = BlockBody(g, l)
    BY <2>2, <2>5 DEF Blocks
  <2>7. f[l] = g[l]
    BY <1>3, <2>1, <2>2
  <2> QED BY <2>4, <2>6, <2>7
<1>5. f = [l \in Seq(Kind) |-> BlockBody(f, l)]
  BY <1>4 DEF f
<1>6. \E g : g = [l \in Seq(Kind) |-> BlockBody(g, l)]
  BY <1>5
<1>7. IsBlock = [l \in Seq(Kind) |-> BlockBody(IsBlock, l)]
  BY <1>6 DEF IsBlock, BlockBody
<1>8. \A l : BlockBody(IsBlock, l) \in BOOLEAN
  BY DEF BlockBody
<1> QED BY <1>7, <1>8

------------------------------------------------------------------------------
\* Parts of sequences.

LEMMA PartOfPart ==
  ASSUME NEW S, NEW s \in Seq(S), NEW a \in 1..Len(s) + 1, NEW b \in a - 1..Len(s),
         NEW c \in 1..b - a + 2, NEW d \in c - 1..b - a + 1
  PROVE  SubSeq(SubSeq(s, a, b), c, d) = SubSeq(s, a + c - 1, a + d - 1)
<1>1. PICK m \in Nat : m = Len(s)
  BY LenProperties
<1>2. PICK t \in Seq(S) : t = SubSeq(s, a, b)
  BY PartIs
<1>3. Len(t) = b - a + 1 /\ \A j \in 1..b - a + 1 : t[j] = s[a + j - 1]
  BY <1>2, PartIs
<1>4. c \in 1..Len(t) + 1 /\ d \in c - 1..Len(t)
  BY <1>1, <1>3
<1>5. /\ SubSeq(t, c, d) \in Seq(S) /\ Len(SubSeq(t, c, d)) = d - c + 1
      /\ \A j \in 1..d - c + 1 : SubSeq(t, c, d)[j] = t[c + j - 1]
  BY <1>4, PartIs
<1>6. PICK x \in 1..Len(s) + 1 : x = a + c - 1
  BY <1>1
<1>7. PICK y \in x - 1..Len(s) : y = a + d - 1
  BY <1>1, <1>6
<1>8. y - x + 1 = d - c + 1
  BY <1>1, <1>6, <1>7
<1>9. /\ SubSeq(s, x, y) \in Seq(S) /\ Len(SubSeq(s, x, y)) = d - c + 1
      /\ \A j \in 1..d - c + 1 : SubSeq(s, x, y)[j] = s[x + j - 1]
  <2>1. /\ SubSeq(s, x, y) \in Seq(S) /\ Len(SubSeq(s, x, y)) = y - x + 1
        /\ \A j \in 1..y - x + 1 : SubSeq(s, x, y)[j] = s[x + j - 1]
    BY PartIs
  <2> QED BY <1>8, <2>1
<1>10. ASSUME NEW j \in 1..d - c + 1 PROVE SubSeq(t, c, d)[j] = SubSeq(s, x, y)[j]
  <2>1. PICK k \in 1..b - a + 1 : k = c + j - 1
    BY <1>1
  <2>2. a + k - 1 = x + j - 1
    BY <1>1, <1>6, <2>1
  <2>3. t[k] = s[x + j - 1]
    BY <1>3, <2>2
  <2> QED BY <1>5, <1>9, <2>1, <2>3
<1>11. SubSeq(t, c, d) = SubSeq(s, x, y)
  BY <1>5, <1>9, <1>10, SeqEqual
<1> QED BY <1>2, <1>6, <1>7, <1>11

LEMMA PartOfCons ==
  ASSUME NEW S, NEW c \in S, NEW u \in Seq(S), NEW i \in 1..Len(u) + 1, NEW n \in i - 1..Len(u)
  PROVE  SubSeq(<<c>> \o u, i + 1, n + 1) = SubSeq(u, i, n)
<1>1. PICK m \in Nat : m = Len(u)
  BY LenProperties
<1>2. PICK x \in Seq(S) : x = <<c>> \o u
  BY ConsIs
<1>3. Len(x) = m + 1 /\ \A j \in 1..m : x[j + 1] = u[j]
  BY <1>1, <1>2, ConsIs
<1>4. PICK i1 \in 1..Len(x) + 1 : i1 = i + 1
  BY <1>1, <1>3
<1>5. PICK n1 \in i1 - 1..Len(x) : n1 = n + 1
  BY <1>1, <1>3, <1>4
<1>6. n1 - i1 + 1 = n - i + 1
  BY <1>1, <1>4, <1>5
<1>7. /\ SubSeq(x, i1, n1) \in Seq(S) /\ Len(SubSeq(x, i1, n1)) = n - i + 1
      /\ \A j \in 1..n - i + 1 : SubSeq(x, i1, n1)[j] = x[i1 + j - 1]
  <2>1. /\ SubSeq(x, i1, n1) \in Seq(S) /\ Len(SubSeq(x, i1, n1)) = n1 - i1 + 1
        /\ \A j \in 1..n1 - i1 + 1 : SubSeq(x, i1, n1)[j] = x[i1 + j - 1]
    BY PartIs
  <2> QED BY <1>6, <2>1
<1>8. /\ SubSeq(u, i, n) \in Seq(S) /\ Len(SubSeq(u, i, n)) = n - i + 1
      /\ \A j \in 1..n - i + 1 : SubSeq(u, i, n)[j] = u[i + j - 1]
  BY PartIs
<1>9. ASSUME NEW j \in 1..n - i + 1 PROVE SubSeq(x, i1, n1)[j] = SubSeq(u, i, n)[j]
  <2>1. PICK k \in 1..m : k = i + j - 1
    BY <1>1
  <2>2. i1 + j - 1 = k + 1
    BY <1>1, <1>4, <2>1
  <2>3. x[i1 + j - 1] = u[k]
    BY <1>3, <2>2
  <2> QED BY <1>7, <1>8, <2>1, <2>3
<1>10. SubSeq(x, i1, n1) = SubSeq(u, i, n)
  BY <1>7, <1>8, <1>9, SeqEqual
<1> QED BY <1>2, <1>4, <1>5, <1>10

LEMMA HeadOfCons ==
  ASSUME NEW S, NEW c \in S, NEW u \in Seq(S), NEW n \in 0..Len(u)
  PROVE  SubSeq(<<c>> \o u, 1, n + 1) = <<c>> \o SubSeq(u, 1, n)
<1>1. PICK m \in Nat : m = Len(u)
  BY LenProperties
<1>2. PICK x \in Seq(S) : x = <<c>> \o u
  BY ConsIs
<1>3. Len(x) = m + 1 /\ x[1] = c /\ \A j \in 1..m : x[j + 1] = u[j]
  BY <1>1, <1>2, ConsIs
<1>4. PICK k \in 1..Len(u) + 1 : k = n + 1 /\ k - 1 = n
  BY <1>1
<1>5. PICK v \in Seq(S) : v = SubSeq(u, 1, n) /\ Len(v) = n /\ \A j \in 1..n : v[j] = u[j]
  <2>1. /\ SubSeq(u, 1, k - 1) \in Seq(S) /\ Len(SubSeq(u, 1, k - 1)) = k - 1
        /\ \A j \in 1..k - 1 : SubSeq(u, 1, k - 1)[j] = u[j]
    BY HeadIs
  <2> QED BY <1>4, <2>1
<1>6. PICK y \in Seq(S) : y = <<c>> \o v
  BY ConsIs
<1>7. Len(y) = n + 1 /\ y[1] = c /\ \A j \in 1..n : y[j + 1] = v[j]
  BY <1>5, <1>6, ConsIs
<1>8. PICK n1 \in 1..Len(x) : n1 = n + 1
  BY <1>1, <1>3
<1>9. PICK k1 \in 1..Len(x) + 1 : k1 = n1 + 1 /\ k1 - 1 = n1
  BY <1>3, <1>8
<1>10. PICK z \in Seq(S) : z = SubSeq(x, 1, n1) /\ Len(z) = n1 /\ \A j \in 1..n1 : z[j] = x[j]
  <2>1. /\ SubSeq(x, 1, k1 - 1) \in Seq(S) /\ Len(SubSeq(x, 1, k1 - 1)) = k1 - 1
        /\ \A j \in 1..k1 - 1 : SubSeq(x, 1, k1 - 1)[j] = x[j]
    BY HeadIs
  <2> QED BY <1>9, <2>1
<1>11. ASSUME NEW j \in 1..n1 PROVE z[j] = y[j]
  <2>1. CASE j = 1
    BY <1>3, <1>7, <1>10, <2>1
  <2>2. CASE j # 1
    <3>1. PICK i \in 1..n : j = i + 1
      <4>1. j - 1 \in 1..n /\ j = (j - 1) + 1
        BY <1>1, <1>8, <2>2
      <4> QED BY <4>1
    <3>2. i \in 1..m
      BY <1>1
    <3> QED BY <1>3, <1>5, <1>7, <1>10, <3>1, <3>2
  <2> QED BY <2>1, <2>2
<1>12. z = y
  BY <1>7, <1>8, <1>10, <1>11, SeqEqual
<1> QED BY <1>2, <1>5, <1>6, <1>8, <1>10, <1>12

------------------------------------------------------------------------------
\* The grammar, one token at a time.

\* y is v with the tokens c and d in front of it.
Longer(y, c, d, v) ==
  /\ y \in Seq(Kind) /\ Len(y) = Len(v) + 2 /\ y[1] = c /\ y[2] = d
  /\ \A j \in 1..Len(v) : y[j + 2] = v[j]
  /\ \A i \in 1..Len(v) + 1 : \A n \in i - 1..Len(v) : SubSeq(y, i + 2, n + 2) = SubSeq(v, i, n)
  /\ \A i \in 1..Len(v) + 1 : From(y, i + 2) = From(v, i)

LEMMA TwoInFront ==
  ASSUME NEW c \in Kind, NEW d \in Kind, NEW v \in Seq(Kind)
  PROVE  Longer(<<c>> \o (<<d>> \o v), c, d, v)
<1>1. PICK m \in Nat : m = Len(v)
  BY LenProperties
<1>2. PICK x \in Seq(Kind) : x = <<d>> \o v
  BY ConsIs
<1>3. Len(x) = m + 1 /\ x[1] = d /\ \A j \in 1..m : x[j + 1] = v[j]
  BY <1>1, <1>2, ConsIs
<1>4. PICK y \in Seq(Kind) : y = <<c>> \o x
  BY ConsIs
<1>5. Len(y) = Len(x) + 1 /\ y[1] = c /\ \A j \in 1..Len(x) : y[j + 1] = x[j]
  BY <1>4, ConsIs
<1>6. Len(y) = m + 2
  BY <1>3, <1>5
<1>7. y[2] = d
  <2>1. 1 \in 1..m + 1 /\ 1 + 1 = 2
    OBVIOUS
  <2> QED BY <1>3, <1>5, <2>1
<1>8. ASSUME NEW j \in 1..m PROVE y[j + 2] = v[j]
  <2>1. j + 1 \in 1..m + 1 /\ (j + 1) + 1 = j + 2
    OBVIOUS
  <2> QED BY <1>3, <1>5, <2>1
<1>9. ASSUME NEW i \in 1..m + 1, NEW n \in i - 1..m
      PROVE  SubSeq(y, i + 2, n + 2) = SubSeq(v, i, n)
  <2>1. PICK i1 \in 1..Len(x) + 1 : i1 = i + 1 /\ i1 + 1 = i + 2
    BY <1>3
  <2>2. PICK n1 \in i1 - 1..Len(x) : n1 = n + 1 /\ n1 + 1 = n + 2
    BY <1>3, <2>1
  <2>3. SubSeq(y, i1 + 1, n1 + 1) = SubSeq(x, i1, n1)
    BY <1>4, PartOfCons
  <2>4. SubSeq(x, i + 1, n + 1) = SubSeq(v, i, n)
    BY <1>1, <1>2, PartOfCons
  <2> QED BY <2>1, <2>2, <2>3, <2>4
<1>10. ASSUME NEW i \in 1..m + 1 PROVE From(y, i + 2) = From(v, i)
  <2>1. m \in i - 1..m
    OBVIOUS
  <2>2. SubSeq(y, i + 2, m + 2) = SubSeq(v, i, m)
    BY <1>9, <2>1
  <2> QED BY <1>1, <1>6, <2>2 DEF From
<1>11. Longer(y, c, d, v)
  BY <1>1, <1>5, <1>6, <1>7, <1>8, <1>9, <1>10 DEF Longer
<1> QED BY <1>2, <1>4, <1>11

LEMMA BlockBeginsWithWord ==
  /\ IsBlock[<<>>]
  /\ \A k \in Kind \ {"word"} : \A v \in Seq(Kind) : ~IsBlock[<<k>> \o v]
  /\ ~IsBlock[<<"word">> \o <<>>]
<1>1. IsBlock[<<>>]
  BY IsBlockIs, EmptySeq DEF BlockBody
<1>2. ASSUME NEW k \in Kind \ {"word"}, NEW v \in Seq(Kind) PROVE ~IsBlock[<<k>> \o v]
  <2>1. PICK y \in Seq(Kind) : y = <<k>> \o v
    BY ConsIs
  <2>2. y # <<>> /\ y[1] = k
    BY <2>1, ConsIs
  <2>3. \A i \in 1..Len(y) : \A t : ~WordsThen(y, i, t)
    BY <2>2, LenProperties DEF WordsThen
  <2> QED BY <2>1, <2>2, <2>3, IsBlockIs DEF BlockBody
<1>3. ~IsBlock[<<"word">> \o <<>>]
  <2>1. "word" \in Kind /\ <<>> \in Seq(Kind) /\ Len(<<>>) = 0
    BY EmptySeq DEF Kind
  <2>2. PICK y \in Seq(Kind) : y = <<"word">> \o <<>> /\ y # <<>> /\ Len(y) = 0 + 1
    BY <2>1, ConsIs
  <2>3. \A i \in 1..Len(y) : \A t : ~WordsThen(y, i, t)
    BY <2>2 DEF WordsThen
  <2> QED BY <2>2, <2>3, IsBlockIs DEF BlockBody
<1> QED BY <1>1, <1>2, <1>3

\* What follows the only word of a statement.
OneWordThen(y, k) ==
  /\ 2 \in 1..Len(y) /\ y # <<>>
  /\ \A i \in 1..Len(y), t \in Symbol : WordsThen(y, i, t) <=> i = 2 /\ t = k

LEMMA OneWordThenIs ==
  ASSUME NEW k \in Kind \ {"word"}, NEW v \in Seq(Kind), NEW y, Longer(y, "word", k, v)
  PROVE  OneWordThen(y, k)
<1>1. \A t \in Symbol : t # "word"
  BY DEF Symbol
<1>2. PICK m \in Nat : m = Len(v)
  BY LenProperties
<1>3. y \in Seq(Kind) /\ Len(y) = m + 2 /\ y[1] = "word" /\ y[2] = k /\ 2 \in 1..m + 2
  BY <1>2 DEF Longer
<1>4. y # <<>>
  BY <1>3, EmptySeq
<1>5. ASSUME NEW i \in 1..m + 2, NEW t \in Symbol, WordsThen(y, i, t) PROVE i = 2 /\ t = k
  <2>1. i > 1 /\ y[i] = t /\ \A j \in 1..i - 1 : y[j] = "word"
    BY <1>5 DEF WordsThen
  <2>2. i > 2 => 2 \in 1..i - 1
    OBVIOUS
  <2>3. ~(i > 2)
    BY <1>3, <2>1, <2>2
  <2>4. i = 2
    BY <2>1, <2>3
  <2> QED BY <1>3, <2>1, <2>4
<1>6. k \in Symbol => WordsThen(y, 2, k)
  <2>1. \A j \in 1..2 - 1 : j = 1
    OBVIOUS
  <2> QED BY <1>3, <2>1 DEF WordsThen
<1> QED BY <1>3, <1>4, <1>5, <1>6 DEF OneWordThen

LEMMA StatementEnds ==
  ASSUME NEW v \in Seq(Kind) PROVE IsBlock[<<"word">> \o (<<";">> \o v)] <=> IsBlock[v]
<1>1. ";" \in Kind \ {"word"} /\ "word" \in Kind /\ ";" \in Symbol /\ "{" \in Symbol
  BY DEF Kind, Symbol
<1>2. PICK m \in Nat : m = Len(v)
  BY LenProperties
<1>3. PICK y : y = <<"word">> \o (<<";">> \o v) /\ Longer(y, "word", ";", v)
  BY <1>1, TwoInFront
<1>4. From(y, 2 + 1) = v
  <2>1. 1 \in 1..m + 1 /\ 1 + 2 = 2 + 1
    OBVIOUS
  <2>2. From(v, 1) = v
    BY <1>1, ConsParts
  <2> QED BY <1>2, <1>3, <2>1, <2>2 DEF Longer
<1>5. /\ 2 \in 1..Len(y) /\ y # <<>>
      /\ \A i \in 1..Len(y), t \in Symbol : WordsThen(y, i, t) <=> i = 2 /\ t = ";"
  <2>1. OneWordThen(y, ";")
    BY <1>1, <1>3, OneWordThenIs
  <2> QED BY <2>1 DEF OneWordThen
<1>6. \A i \in 1..Len(y) : ~WordsThen(y, i, "{")
  BY <1>1, <1>5
<1>7. \A i \in 1..Len(y) : WordsThen(y, i, ";") <=> i = 2
  BY <1>1, <1>5
<1>8. BlockBody(IsBlock, y) <=> IsBlock[From(y, 2 + 1)]
  BY <1>5, <1>6, <1>7 DEF BlockBody
<1>9. IsBlock[y] <=> BlockBody(IsBlock, y)
  BY <1>3, IsBlockIs DEF Longer
<1> QED BY <1>3, <1>4, <1>8, <1>9

LEMMA WordThenNoBlock ==
  ASSUME NEW k \in {"}", "unclosed"}, NEW v \in Seq(Kind)
  PROVE  ~IsBlock[<<"word">> \o (<<k>> \o v)]
<1>1. k \in Kind \ {"word"} /\ "word" \in Kind /\ ";" \in Symbol /\ "{" \in Symbol /\ k \notin {";", "{"}
  BY DEF Kind, Symbol
<1>2. PICK y : y = <<"word">> \o (<<k>> \o v) /\ Longer(y, "word", k, v)
  BY <1>1, TwoInFront
<1>3. y \in Seq(Kind)
  BY <1>2 DEF Longer
<1>4. /\ y # <<>>
      /\ \A i \in 1..Len(y), t \in Symbol : WordsThen(y, i, t) <=> i = 2 /\ t = k
  <2>1. OneWordThen(y, k)
    BY <1>1, <1>2, OneWordThenIs
  <2> QED BY <2>1 DEF OneWordThen
<1>5. \A i \in 1..Len(y) : ~WordsThen(y, i, "{") /\ ~WordsThen(y, i, ";")
  BY <1>1, <1>4
<1> QED BY <1>3, <1>2, <1>4, <1>5, IsBlockIs DEF BlockBody

\* The SMT translation does not take this string: a name for it.
Brace == "}"

\* The sequences that close one block and go on in the language L.
Closing(L) ==
  {v \in Seq(Kind) : \E i \in 1..Len(v) :
     v[i] = Brace /\ IsBlock[SubSeq(v, 1, i - 1)] /\ From(v, i + 1) \in L}

BlockLanguage == {v \in Seq(Kind) : IsBlock[v]}

LEMMA BlockOpens ==
  ASSUME NEW v \in Seq(Kind)
  PROVE  IsBlock[<<"word">> \o (<<"{">> \o v)] <=> v \in Closing(BlockLanguage)
<1>1. "{" \in Kind \ {"word"} /\ "word" \in Kind /\ ";" \in Symbol /\ "{" \in Symbol /\ ";" # "{"
  BY DEF Kind, Symbol
<1>2. PICK m \in Nat : m = Len(v)
  BY LenProperties
<1>3. PICK y : y = <<"word">> \o (<<"{">> \o v) /\ Longer(y, "word", "{", v)
  BY <1>1, TwoInFront
<1>4. /\ y \in Seq(Kind) /\ Len(y) = m + 2 /\ \A j \in 1..m : y[j + 2] = v[j]
      /\ \A i \in 1..m + 1 : \A n \in i - 1..m : SubSeq(y, i + 2, n + 2) = SubSeq(v, i, n)
      /\ \A i \in 1..m + 1 : From(y, i + 2) = From(v, i)
  BY <1>2, <1>3 DEF Longer
<1>5. /\ 2 \in 1..Len(y) /\ y # <<>>
      /\ \A i \in 1..Len(y), t \in Symbol : WordsThen(y, i, t) <=> i = 2 /\ t = "{"
  <2>1. OneWordThen(y, "{")
    BY <1>1, <1>3, OneWordThenIs
  <2> QED BY <2>1 DEF OneWordThen
<1>6. \A i \in 1..Len(y) : ~WordsThen(y, i, ";") /\ (WordsThen(y, i, "{") <=> i = 2)
  BY <1>1, <1>5
<1>7. BlockBody(IsBlock, y) <=> \E n \in 2 + 1..Len(y) :
        y[n] = "}" /\ IsBlock[SubSeq(y, 2 + 1, n - 1)] /\ IsBlock[From(y, n + 1)]
  BY <1>5, <1>6 DEF BlockBody
<1>8. ASSUME NEW i \in 1..m
      PROVE  /\ i + 2 \in 2 + 1..Len(y) /\ y[i + 2] = v[i]
             /\ SubSeq(y, 2 + 1, (i + 2) - 1) = SubSeq(v, 1, i - 1)
             /\ From(y, (i + 2) + 1) = From(v, i + 1) /\ From(v, i + 1) \in Seq(Kind)
  <2>1. i - 1 \in 1 - 1..m /\ 1 \in 1..m + 1 /\ 1 + 2 = 2 + 1 /\ (i - 1) + 2 = (i + 2) - 1
    OBVIOUS
  <2>2. PICK k \in 1..m + 1 : k = i + 1 /\ k + 2 = (i + 2) + 1
    OBVIOUS
  <2>3. SubSeq(y, 1 + 2, (i - 1) + 2) = SubSeq(v, 1, i - 1)
    BY <1>4, <2>1
  <2>4. From(y, k + 2) = From(v, k) /\ From(v, k) \in Seq(Kind)
    BY <1>2, <1>4, FromIs
  <2>5. i + 2 \in 2 + 1..Len(y) /\ y[i + 2] = v[i]
    BY <1>4
  <2> QED BY <2>1, <2>2, <2>3, <2>4, <2>5
<1>9. ASSUME v \in Closing(BlockLanguage) PROVE BlockBody(IsBlock, y)
  <2>1. PICK i \in 1..m : v[i] = "}" /\ IsBlock[SubSeq(v, 1, i - 1)] /\ IsBlock[From(v, i + 1)]
    BY <1>2, <1>9 DEF Closing, BlockLanguage, Brace
  <2>2. PICK n \in 2 + 1..Len(y) : n = i + 2
    BY <1>8
  <2>3. y[n] = "}" /\ IsBlock[SubSeq(y, 2 + 1, n - 1)] /\ IsBlock[From(y, n + 1)]
    BY <1>8, <2>1, <2>2
  <2> QED BY <1>7, <2>3
<1>10. ASSUME BlockBody(IsBlock, y) PROVE v \in Closing(BlockLanguage)
  <2>1. PICK n \in 2 + 1..Len(y) :
          y[n] = "}" /\ IsBlock[SubSeq(y, 2 + 1, n - 1)] /\ IsBlock[From(y, n + 1)]
    BY <1>7, <1>10
  <2>2. PICK i \in 1..m : n = i + 2
    <3>1. n - 2 \in 1..m /\ n = (n - 2) + 2
      BY <1>4
    <3> QED BY <3>1
  <2>3. v[i] = "}" /\ IsBlock[SubSeq(v, 1, i - 1)] /\ From(v, i + 1) \in BlockLanguage
    BY <1>8, <2>1, <2>2 DEF BlockLanguage
  <2> QED BY <1>2, <2>3 DEF Closing, Brace
<1>11. IsBlock[y] <=> BlockBody(IsBlock, y)
  BY <1>4, IsBlockIs
<1> QED BY <1>3, <1>9, <1>10, <1>11

LEMMA SecondWord ==
  ASSUME NEW v \in Seq(Kind)
  PROVE  IsBlock[<<"word">> \o (<<"word">> \o v)] <=> IsBlock[<<"word">> \o v]
<1>1. "word" \in Kind /\ \A t \in Symbol : t # "word"
  BY DEF Kind, Symbol
<1>2. PICK x \in Seq(Kind) : x = <<"word">> \o v /\ x # <<>> /\ x[1] = "word"
  <2>1. PICK x \in Seq(Kind) : x = <<"word">> \o v
    BY <1>1, ConsIs
  <2>2. x # <<>> /\ x[1] = "word"
    BY <1>1, <2>1, ConsIs
  <2> QED BY <2>1, <2>2, Zenon
<1>3. PICK y \in Seq(Kind) : y = <<"word">> \o x /\ y # <<>> /\ y[1] = "word"
  <2>1. PICK y \in Seq(Kind) : y = <<"word">> \o x
    BY <1>1, ConsIs
  <2>2. y # <<>> /\ y[1] = "word"
    BY <1>1, <2>1, ConsIs
  <2> QED BY <2>1, <2>2, Zenon
<1>4. PICK m \in Nat : m = Len(x)
  BY LenProperties
<1>5. Len(y) = m + 1 /\ \A i \in 1..m : y[i + 1] = x[i]
  BY <1>1, <1>3, <1>4, ConsIs
<1>6. ASSUME NEW t \in Symbol, NEW i \in 1..m
      PROVE  WordsThen(y, i + 1, t) <=> WordsThen(x, i, t)
  <2>1. ASSUME WordsThen(x, i, t) PROVE WordsThen(y, i + 1, t)
    <3>1. i > 1 /\ x[i] = t /\ \A j \in 1..i - 1 : x[j] = "word"
      BY <2>1 DEF WordsThen
    <3>2. ASSUME NEW j \in 1..i PROVE y[j] = "word"
      <4>1. CASE j = 1
        BY <1>3, <4>1
      <4>2. CASE j # 1
        <5>1. PICK k \in 1..i - 1 : j = k + 1
          <6>1. j - 1 \in 1..i - 1 /\ j = (j - 1) + 1
            BY <4>2
          <6> QED BY <6>1
        <5>2. k \in 1..m
          OBVIOUS
        <5> QED BY <1>5, <3>1, <5>1, <5>2
      <4> QED BY <4>1, <4>2
    <3>3. (i + 1) - 1 = i /\ i + 1 > 1
      OBVIOUS
    <3> QED BY <1>5, <3>1, <3>2, <3>3 DEF WordsThen
  <2>2. ASSUME WordsThen(y, i + 1, t) PROVE WordsThen(x, i, t)
    <3>1. y[i + 1] = t /\ \A j \in 1..(i + 1) - 1 : y[j] = "word"
      BY <2>2 DEF WordsThen
    <3>2. x[i] = t
      BY <1>5, <3>1
    <3>3. i > 1
      BY <1>1, <1>2, <3>2
    <3>4. ASSUME NEW j \in 1..i - 1 PROVE x[j] = "word"
      <4>1. j + 1 \in 1..(i + 1) - 1 /\ j \in 1..m
        OBVIOUS
      <4> QED BY <1>5, <3>1, <4>1
    <3> QED BY <3>2, <3>3, <3>4 DEF WordsThen
  <2> QED BY <2>1, <2>2
<1>7. \A t \in Symbol : ~WordsThen(y, 1, t)
  BY DEF WordsThen
<1>8. ASSUME NEW i \in 1..m PROVE i + 1 \in 1..Len(y) /\ From(y, (i + 1) + 1) = From(x, i + 1)
  <2>1. PICK k \in 1..m + 1 : k = i + 1
    OBVIOUS
  <2>2. From(y, k + 1) = From(x, k)
    BY <1>1, <1>3, <1>4, ConsParts
  <2> QED BY <1>5, <2>1, <2>2
<1>9. ASSUME NEW i \in 1..m, NEW n \in i + 1..m
      PROVE  SubSeq(y, (i + 1) + 1, (n + 1) - 1) = SubSeq(x, i + 1, n - 1)
  <2>1. PICK a \in 1..m + 1 : a = i + 1
    OBVIOUS
  <2>2. PICK b \in a - 1..m : b = n - 1 /\ b + 1 = (n + 1) - 1
    BY <2>1
  <2>3. SubSeq(y, a + 1, b + 1) = SubSeq(x, a, b)
    BY <1>1, <1>3, <1>4, PartOfCons
  <2> QED BY <2>1, <2>2, <2>3
<1>10. ";" \in Symbol /\ "{" \in Symbol
  BY DEF Symbol
<1>11. ASSUME NEW j \in 2..m + 1 PROVE \E i \in 1..m : j = i + 1
  <2>1. j - 1 \in 1..m /\ j = (j - 1) + 1
    OBVIOUS
  <2> QED BY <2>1
<1>12. (\E i \in 1..Len(y) : WordsThen(y, i, ";") /\ IsBlock[From(y, i + 1)])
       <=> \E i \in 1..Len(x) : WordsThen(x, i, ";") /\ IsBlock[From(x, i + 1)]
  <2>1. ASSUME NEW j \in 1..Len(y), WordsThen(y, j, ";"), IsBlock[From(y, j + 1)]
        PROVE  \E i \in 1..m : WordsThen(x, i, ";") /\ IsBlock[From(x, i + 1)]
    <3>1. j \in 2..m + 1
      <4>1. j # 1 /\ j \in 1..m + 1
        BY <1>5, <1>7, <1>10, <2>1
      <4> QED BY <4>1
    <3>2. PICK i \in 1..m : j = i + 1
      BY <1>11, <3>1
    <3> QED BY <1>6, <1>8, <1>10, <2>1, <3>2
  <2>2. ASSUME NEW i \in 1..m, WordsThen(x, i, ";"), IsBlock[From(x, i + 1)]
        PROVE  \E j \in 1..Len(y) : WordsThen(y, j, ";") /\ IsBlock[From(y, j + 1)]
    BY <1>6, <1>8, <1>10, <2>2
  <2> QED BY <1>4, <2>1, <2>2
<1>13. (\E i \in 1..Len(y) : \E n \in i + 1..Len(y) :
           WordsThen(y, i, "{") /\ y[n] = "}"
           /\ IsBlock[SubSeq(y, i + 1, n - 1)] /\ IsBlock[From(y, n + 1)])
       <=> \E i \in 1..Len(x) : \E n \in i + 1..Len(x) :
           WordsThen(x, i, "{") /\ x[n] = "}"
           /\ IsBlock[SubSeq(x, i + 1, n - 1)] /\ IsBlock[From(x, n + 1)]
  <2>1. ASSUME NEW j \in 1..Len(y), NEW k \in j + 1..Len(y), WordsThen(y, j, "{"), y[k] = "}",
               IsBlock[SubSeq(y, j + 1, k - 1)], IsBlock[From(y, k + 1)]
        PROVE  \E i \in 1..m : \E n \in i + 1..m :
                 WordsThen(x, i, "{") /\ x[n] = "}"
                 /\ IsBlock[SubSeq(x, i + 1, n - 1)] /\ IsBlock[From(x, n + 1)]
    <3>1. j \in 2..m + 1 /\ k \in 2..m + 1
      <4>1. j # 1 /\ j \in 1..m + 1 /\ k \in j + 1..m + 1
        BY <1>5, <1>7, <1>10, <2>1
      <4> QED BY <4>1
    <3>2. PICK i \in 1..m : j = i + 1
      BY <1>11, <3>1
    <3>3. PICK n \in 1..m : k = n + 1
      BY <1>11, <3>1
    <3>4. n \in i + 1..m
      BY <3>2, <3>3
    <3>5. WordsThen(x, i, "{") /\ x[n] = "}"
      BY <1>5, <1>6, <1>10, <2>1, <3>2, <3>3
    <3>6. IsBlock[SubSeq(x, i + 1, n - 1)] /\ IsBlock[From(x, n + 1)]
      BY <1>8, <1>9, <2>1, <3>2, <3>3, <3>4
    <3> QED BY <3>4, <3>5, <3>6
  <2>2. ASSUME NEW i \in 1..m, NEW n \in i + 1..m, WordsThen(x, i, "{"), x[n] = "}",
               IsBlock[SubSeq(x, i + 1, n - 1)], IsBlock[From(x, n + 1)]
        PROVE  \E j \in 1..Len(y) : \E k \in j + 1..Len(y) :
                 WordsThen(y, j, "{") /\ y[k] = "}"
                 /\ IsBlock[SubSeq(y, j + 1, k - 1)] /\ IsBlock[From(y, k + 1)]
    <3>1. PICK j \in 1..Len(y) : j = i + 1
      BY <1>8
    <3>2. n \in 1..m
      OBVIOUS
    <3>3. PICK k \in j + 1..Len(y) : k = n + 1
      BY <1>5, <3>1
    <3>4. WordsThen(y, j, "{") /\ y[k] = "}"
      BY <1>5, <1>6, <1>10, <2>2, <3>1, <3>2, <3>3
    <3>5. IsBlock[SubSeq(y, j + 1, k - 1)] /\ IsBlock[From(y, k + 1)]
      BY <1>8, <1>9, <2>2, <3>1, <3>2, <3>3
    <3> QED BY <3>4, <3>5
  <2> QED BY <1>4, <2>1, <2>2
<1>14. BlockBody(IsBlock, y) <=> BlockBody(IsBlock, x)
  <2> DEFINE Ended(z) == \E i \in 1..Len(z) : WordsThen(z, i, ";") /\ IsBlock[From(z, i + 1)]
             Opened(z) == \E i \in 1..Len(z) : \E n \in i + 1..Len(z) :
                            /\ WordsThen(z, i, "{") /\ z[n] = "}"
                            /\ IsBlock[SubSeq(z, i + 1, n - 1)] /\ IsBlock[From(z, n + 1)]
  <2>1. \A z : BlockBody(IsBlock, z) <=> z = <<>> \/ Ended(z) \/ Opened(z)
    BY Zenon DEF BlockBody
  <2>2. (Ended(y) <=> Ended(x)) /\ (Opened(y) <=> Opened(x))
    BY <1>12, <1>13, Zenon
  <2> HIDE DEF Ended, Opened
  <2> QED BY <1>2, <1>3, <2>1, <2>2, Zenon
<1>15. (IsBlock[y] <=> BlockBody(IsBlock, y)) /\ (IsBlock[x] <=> BlockBody(IsBlock, x))
  BY IsBlockIs
<1> QED BY <1>2, <1>3, <1>14, <1>15

------------------------------------------------------------------------------
\* The languages of what may follow: Closing(L), after a block that is open.

LEMMA ClosingCons ==
  ASSUME NEW L, NEW c \in Kind, c # Brace, NEW u \in Seq(Kind)
  PROVE  <<c>> \o u \in Closing(L) <=>
         \E i \in 1..Len(u) :
           u[i] = Brace /\ IsBlock[<<c>> \o SubSeq(u, 1, i - 1)] /\ From(u, i + 1) \in L
<1>1. PICK m \in Nat : m = Len(u)
  BY LenProperties
<1>2. PICK x \in Seq(Kind) : x = <<c>> \o u
  BY ConsIs
<1>3. Len(x) = m + 1 /\ x[1] = c /\ \A i \in 1..m : x[i + 1] = u[i]
  BY <1>1, <1>2, ConsIs
<1>4. ASSUME NEW i \in 1..m, NEW k \in Nat, k = i + 1
      PROVE  /\ k \in 1..Len(x) /\ x[k] = u[i]
             /\ SubSeq(x, 1, k - 1) = <<c>> \o SubSeq(u, 1, i - 1)
             /\ From(x, k + 1) = From(u, i + 1)
  <2>1. k \in 1..Len(x) /\ x[k] = u[i]
    BY <1>3, <1>4
  <2>2. PICK n \in 0..m : n = i - 1 /\ n + 1 = k - 1
    BY <1>4
  <2>3. SubSeq(x, 1, n + 1) = <<c>> \o SubSeq(u, 1, n)
    BY <1>1, <1>2, HeadOfCons
  <2>4. k \in 1..m + 1
    BY <1>4
  <2>5. From(x, k + 1) = From(u, k)
    BY <1>1, <1>2, <2>4, ConsParts
  <2> QED BY <1>4, <2>1, <2>2, <2>3, <2>5
<1>5. ASSUME x \in Closing(L)
      PROVE  \E i \in 1..m : u[i] = Brace /\ IsBlock[<<c>> \o SubSeq(u, 1, i - 1)] /\ From(u, i + 1) \in L
  <2>1. PICK k \in 1..Len(x) : x[k] = Brace /\ IsBlock[SubSeq(x, 1, k - 1)] /\ From(x, k + 1) \in L
    BY <1>5 DEF Closing
  <2>2. k # 1 /\ k \in 1..m + 1
    BY <1>3, <2>1
  <2>3. PICK i \in 1..m : k = i + 1
    <3>1. k - 1 \in 1..m /\ k = (k - 1) + 1
      BY <2>2
    <3> QED BY <3>1
  <2>4. k \in Nat
    BY <1>3
  <2>5. /\ k \in 1..Len(x) /\ x[k] = u[i]
        /\ SubSeq(x, 1, k - 1) = <<c>> \o SubSeq(u, 1, i - 1)
        /\ From(x, k + 1) = From(u, i + 1)
    BY <1>4, <2>3, <2>4
  <2>6. u[i] = Brace /\ IsBlock[<<c>> \o SubSeq(u, 1, i - 1)] /\ From(u, i + 1) \in L
    BY <2>1, <2>5
  <2> QED BY <2>6
<1>6. ASSUME NEW i \in 1..m, u[i] = Brace, IsBlock[<<c>> \o SubSeq(u, 1, i - 1)], From(u, i + 1) \in L
      PROVE  x \in Closing(L)
  <2>1. PICK k \in 1..Len(x) : k = i + 1
    BY <1>3
  <2>2. k \in Nat
    BY <1>3
  <2>3. /\ k \in 1..Len(x) /\ x[k] = u[i]
        /\ SubSeq(x, 1, k - 1) = <<c>> \o SubSeq(u, 1, i - 1)
        /\ From(x, k + 1) = From(u, i + 1)
    BY <1>4, <2>1, <2>2
  <2>4. x[k] = Brace /\ IsBlock[SubSeq(x, 1, k - 1)] /\ From(x, k + 1) \in L
    BY <1>6, <2>3
  <2> QED BY <2>4 DEF Closing
<1> QED BY <1>1, <1>2, <1>5, <1>6

LEMMA ClosingTwo ==
  ASSUME NEW L, NEW c \in Kind, c # Brace, NEW d \in Kind, d # Brace, NEW v \in Seq(Kind)
  PROVE  <<c>> \o (<<d>> \o v) \in Closing(L) <=>
         \E i \in 1..Len(v) :
           v[i] = Brace /\ IsBlock[<<c>> \o (<<d>> \o SubSeq(v, 1, i - 1))] /\ From(v, i + 1) \in L
<1>1. PICK m \in Nat : m = Len(v)
  BY LenProperties
<1>2. PICK u \in Seq(Kind) : u = <<d>> \o v
  BY ConsIs
<1>3. Len(u) = m + 1 /\ u[1] = d /\ \A i \in 1..m : u[i + 1] = v[i]
  BY <1>1, <1>2, ConsIs
<1>4. ASSUME NEW i \in 1..m, NEW k \in Nat, k = i + 1
      PROVE  /\ k \in 1..Len(u) /\ u[k] = v[i]
             /\ SubSeq(u, 1, k - 1) = <<d>> \o SubSeq(v, 1, i - 1)
             /\ From(u, k + 1) = From(v, i + 1)
  <2>1. k \in 1..Len(u) /\ u[k] = v[i]
    BY <1>3, <1>4
  <2>2. PICK n \in 0..m : n = i - 1 /\ n + 1 = k - 1
    BY <1>4
  <2>3. SubSeq(u, 1, n + 1) = <<d>> \o SubSeq(v, 1, n)
    BY <1>1, <1>2, HeadOfCons
  <2>4. k \in 1..m + 1
    BY <1>4
  <2>5. From(u, k + 1) = From(v, k)
    BY <1>1, <1>2, <2>4, ConsParts
  <2> QED BY <1>4, <2>1, <2>2, <2>3, <2>5
<1>5. <<c>> \o u \in Closing(L) <=>
      \E k \in 1..Len(u) : u[k] = Brace /\ IsBlock[<<c>> \o SubSeq(u, 1, k - 1)] /\ From(u, k + 1) \in L
  BY ClosingCons
<1>6. ASSUME NEW k \in 1..Len(u), u[k] = Brace, IsBlock[<<c>> \o SubSeq(u, 1, k - 1)], From(u, k + 1) \in L
      PROVE  \E i \in 1..m :
               v[i] = Brace /\ IsBlock[<<c>> \o (<<d>> \o SubSeq(v, 1, i - 1))] /\ From(v, i + 1) \in L
  <2>1. k # 1 /\ k \in 1..m + 1
    BY <1>3, <1>6
  <2>2. PICK i \in 1..m : k = i + 1
    <3>1. k - 1 \in 1..m /\ k = (k - 1) + 1
      BY <2>1
    <3> QED BY <3>1
  <2>3. k \in Nat
    BY <1>3
  <2>4. /\ k \in 1..Len(u) /\ u[k] = v[i]
        /\ SubSeq(u, 1, k - 1) = <<d>> \o SubSeq(v, 1, i - 1)
        /\ From(u, k + 1) = From(v, i + 1)
    BY <1>4, <2>2, <2>3
  <2>5. v[i] = Brace /\ IsBlock[<<c>> \o (<<d>> \o SubSeq(v, 1, i - 1))] /\ From(v, i + 1) \in L
    BY <1>6, <2>4
  <2> QED BY <2>5
<1>7. ASSUME NEW i \in 1..m, v[i] = Brace, IsBlock[<<c>> \o (<<d>> \o SubSeq(v, 1, i - 1))],
             From(v, i + 1) \in L
      PROVE  \E k \in 1..Len(u) :
               u[k] = Brace /\ IsBlock[<<c>> \o SubSeq(u, 1, k - 1)] /\ From(u, k + 1) \in L
  <2>1. PICK k \in 1..Len(u) : k = i + 1
    BY <1>3
  <2>2. k \in Nat
    BY <1>3
  <2>3. /\ k \in 1..Len(u) /\ u[k] = v[i]
        /\ SubSeq(u, 1, k - 1) = <<d>> \o SubSeq(v, 1, i - 1)
        /\ From(u, k + 1) = From(v, i + 1)
    BY <1>4, <2>1, <2>2
  <2>4. u[k] = Brace /\ IsBlock[<<c>> \o SubSeq(u, 1, k - 1)] /\ From(u, k + 1) \in L
    BY <1>7, <2>3
  <2> QED BY <2>4
<1> QED BY <1>1, <1>2, <1>5, <1>6, <1>7

\* A closing brace ends the open block.
LEMMA ClosingBrace ==
  ASSUME NEW L, NEW v \in Seq(Kind)
  PROVE  /\ <<Brace>> \o v \in Closing(L) <=> v \in L
         /\ <<>> \notin Closing(L)
         /\ <<"word">> \o (<<Brace>> \o v) \notin Closing(L)
<1>1. PICK m \in Nat : m = Len(v)
  BY LenProperties
<1>2. Brace \in Kind \ {"word"} /\ "word" \in Kind \ {Brace}
  BY DEF Kind, Symbol, Brace
<1>3. PICK x \in Seq(Kind) : x = <<Brace>> \o v
  BY <1>2, ConsIs
<1>4. Len(x) = m + 1 /\ x[1] = Brace
  BY <1>1, <1>2, <1>3, ConsIs
<1>5. \A k \in 1..m + 1 : SubSeq(x, 1, k - 1) = IF k = 1 THEN <<>> ELSE <<Brace>> \o SubSeq(v, 1, k - 2)
  <2> TAKE k \in 1..m + 1
  <2>1. CASE k = 1
    <3>1. k \in 1..Len(x) + 1 /\ k - 1 = 0
      BY <1>4, <2>1
    <3>2. SubSeq(x, 1, k - 1) \in Seq(Kind) /\ Len(SubSeq(x, 1, k - 1)) = 0
      BY <3>1, HeadIs
    <3>3. SubSeq(x, 1, k - 1) = <<>>
      BY <3>2, EmptySeq
    <3> QED BY <2>1, <3>3
  <2>2. CASE k # 1
    <3>1. PICK n \in 0..m : n = k - 2 /\ n + 1 = k - 1
      BY <2>2
    <3>2. SubSeq(x, 1, n + 1) = <<Brace>> \o SubSeq(v, 1, n)
      BY <1>1, <1>2, <1>3, HeadOfCons
    <3> QED BY <2>2, <3>1, <3>2
  <2> QED BY <2>1, <2>2
<1>6. \A k \in 1..m + 1 : k # 1 => SubSeq(v, 1, k - 2) \in Seq(Kind)
  <2> TAKE k \in 1..m + 1
  <2> SUFFICES ASSUME k # 1 PROVE SubSeq(v, 1, k - 2) \in Seq(Kind)
    OBVIOUS
  <2>1. PICK i \in 1..Len(v) + 1 : i - 1 = k - 2
    <3>1. k - 1 \in 1..Len(v) + 1 /\ (k - 1) - 1 = k - 2
      BY <1>1
    <3> QED BY <3>1
  <2>2. SubSeq(v, 1, i - 1) \in Seq(Kind)
    BY HeadIs
  <2> QED BY <2>1, <2>2
<1>7. From(x, 1 + 1) = v
  <2>1. PICK i \in 1..Len(v) + 1 : i = 1
    BY <1>1
  <2>2. From(x, i + 1) = From(v, i) /\ From(v, 1) = v
    BY <1>2, <1>3, ConsParts
  <2> QED BY <2>1, <2>2
<1>8. ASSUME v \in L PROVE x \in Closing(L)
  <2>1. 1 \in 1..Len(x) /\ 1 \in 1..m + 1
    BY <1>4
  <2>2. SubSeq(x, 1, 1 - 1) = <<>>
    BY <1>5, <2>1
  <2>3. x[1] = Brace /\ IsBlock[SubSeq(x, 1, 1 - 1)] /\ From(x, 1 + 1) \in L
    BY <1>4, <1>7, <1>8, <2>2, BlockBeginsWithWord
  <2> QED BY <2>1, <2>3 DEF Closing
<1>9. ASSUME x \in Closing(L) PROVE v \in L
  <2>1. PICK k \in 1..m + 1 : IsBlock[SubSeq(x, 1, k - 1)] /\ From(x, k + 1) \in L
    BY <1>4, <1>9 DEF Closing
  <2>2. k = 1
    <3> SUFFICES ASSUME k # 1 PROVE FALSE
      OBVIOUS
    <3>1. ~IsBlock[<<Brace>> \o SubSeq(v, 1, k - 2)]
      BY <1>2, <1>6, BlockBeginsWithWord
    <3> QED BY <1>5, <2>1, <3>1
  <2> QED BY <1>7, <2>1, <2>2
<1>10. <<>> \notin Closing(L)
  <2>1. \A i \in 1..Len(<<>>) : FALSE
    BY EmptySeq
  <2> QED BY <2>1 DEF Closing
<1>11. <<"word">> \o x \notin Closing(L)
  <2> SUFFICES ASSUME <<"word">> \o x \in Closing(L) PROVE FALSE
    OBVIOUS
  <2>1. PICK k \in 1..m + 1 : IsBlock[<<"word">> \o SubSeq(x, 1, k - 1)]
    BY <1>2, <1>4, ClosingCons
  <2>2. CASE k = 1
    BY <1>5, <2>1, <2>2, BlockBeginsWithWord
  <2>3. CASE k # 1
    <3>1. ~IsBlock[<<"word">> \o (<<Brace>> \o SubSeq(v, 1, k - 2))]
      BY <1>6, <2>3, WordThenNoBlock DEF Brace
    <3> QED BY <1>5, <2>1, <2>3, <3>1
  <2> QED BY <2>2, <2>3
<1> QED BY <1>3, <1>8, <1>9, <1>10, <1>11

\* v in two parts: s before the position j, and w after the position i before it,
\* where j is the k-th of w.
Parted(v, i, j, s, w, k) ==
  /\ s \in Seq(Kind) /\ i \in 1..Len(s) /\ s[i] = v[i]
  /\ SubSeq(s, 1, i - 1) = SubSeq(v, 1, i - 1) /\ From(s, i + 1) = SubSeq(v, i + 1, j - 1)
  /\ SubSeq(v, i + 1, j - 1) \in Seq(Kind)
  /\ w \in Seq(Kind) /\ k \in 1..Len(w) /\ w[k] = v[j]
  /\ SubSeq(w, 1, k - 1) = SubSeq(v, i + 1, j - 1) /\ From(w, k + 1) = From(v, j + 1)

\* Two blocks are closed in either order of reading: the part before the second
\* closing brace closes the first block.
LEMMA ClosingTwice ==
  ASSUME NEW L, NEW v \in Seq(Kind)
  PROVE  v \in Closing(Closing(L)) <=>
         \E j \in 1..Len(v) :
           v[j] = Brace /\ SubSeq(v, 1, j - 1) \in Closing(BlockLanguage) /\ From(v, j + 1) \in L
<1>1. PICK m \in Nat : m = Len(v)
  BY LenProperties
<1>2. ASSUME NEW i \in 1..m, NEW j \in i + 1..m, NEW s, NEW w, NEW k \in Nat,
             s = SubSeq(v, 1, j - 1), w = From(v, i + 1), k = j - i
      PROVE  Parted(v, i, j, s, w, k)
  <2>1. PICK a \in 1..m + 1 : a = i + 1
    OBVIOUS
  <2>2. PICK b \in a - 1..m : b = j - 1
    BY <2>1
  <2>3. s \in Seq(Kind) /\ Len(s) = b /\ \A n \in 1..b : s[n] = v[n]
    <3>1. /\ j \in 1..Len(v) + 1
      BY <1>1
    <3>2. /\ SubSeq(v, 1, j - 1) \in Seq(Kind) /\ Len(SubSeq(v, 1, j - 1)) = j - 1
          /\ \A n \in 1..j - 1 : SubSeq(v, 1, j - 1)[n] = v[n]
      BY <3>1, HeadIs
    <3> QED BY <1>2, <2>2, <3>2
  <2>4. w \in Seq(Kind) /\ Len(w) = m - a + 1 /\ \A n \in 1..m - a + 1 : w[n] = v[a + n - 1]
    BY <1>1, <1>2, <2>1, FromIs
  <2>5. i \in 1..Len(s) /\ s[i] = v[i]
    BY <2>1, <2>2, <2>3
  <2>6. k \in 1..Len(w) /\ w[k] = v[j]
    <3>1. k \in 1..m - a + 1 /\ a + k - 1 = j
      BY <1>2, <2>1
    <3> QED BY <2>4, <3>1
  <2>7. SubSeq(v, a, b) \in Seq(Kind)
    BY <1>1, PartIs
  <2>8. SubSeq(s, 1, i - 1) = SubSeq(v, 1, i - 1)
    <3>1. PICK d \in 0..b : d = i - 1
      BY <2>1, <2>2
    <3>2. /\ 1 \in 1..Len(v) + 1 /\ b \in 1 - 1..Len(v) /\ 1 \in 1..b - 1 + 2 /\ d \in 1 - 1..b - 1 + 1
          /\ 1 + 1 - 1 = 1 /\ 1 + d - 1 = d
      BY <1>1, <2>1, <2>2, <3>1
    <3>3. SubSeq(SubSeq(v, 1, b), 1, d) = SubSeq(v, 1 + 1 - 1, 1 + d - 1)
      BY <3>2, PartOfPart
    <3> QED BY <1>2, <2>2, <3>1, <3>2, <3>3
  <2>9. From(s, i + 1) = SubSeq(v, a, b)
    <3>1. /\ 1 \in 1..Len(v) + 1 /\ b \in 1 - 1..Len(v) /\ a \in 1..b - 1 + 2 /\ b \in a - 1..b - 1 + 1
          /\ 1 + a - 1 = a /\ 1 + b - 1 = b
      BY <1>1, <2>1, <2>2
    <3>2. SubSeq(SubSeq(v, 1, b), a, b) = SubSeq(v, 1 + a - 1, 1 + b - 1)
      BY <3>1, PartOfPart
    <3> QED BY <1>2, <2>1, <2>2, <2>3, <3>1, <3>2 DEF From
  <2>10. SubSeq(w, 1, k - 1) = SubSeq(v, a, b)
    <3>1. PICK d \in 0..m - a + 1 : d = k - 1 /\ a + d - 1 = b
      BY <1>2, <2>1, <2>2
    <3>2. /\ a \in 1..Len(v) + 1 /\ m \in a - 1..Len(v) /\ 1 \in 1..m - a + 2 /\ d \in 1 - 1..m - a + 1
          /\ a + 1 - 1 = a
      BY <1>1, <2>1, <3>1
    <3>3. SubSeq(SubSeq(v, a, m), 1, d) = SubSeq(v, a + 1 - 1, a + d - 1)
      BY <3>2, PartOfPart
    <3> QED BY <1>1, <1>2, <2>1, <3>1, <3>2, <3>3 DEF From
  <2>11. From(w, k + 1) = From(v, j + 1)
    <3>1. PICK c \in 1..m - a + 2 : c = k + 1 /\ a + c - 1 = j + 1
      BY <1>2, <2>1
    <3>2. PICK d \in c - 1..m - a + 1 : d = m - a + 1 /\ a + d - 1 = m
      BY <2>1, <3>1
    <3>3. a \in 1..Len(v) + 1 /\ m \in a - 1..Len(v)
      BY <1>1, <2>1
    <3>4. SubSeq(SubSeq(v, a, m), c, d) = SubSeq(v, a + c - 1, a + d - 1)
      BY <3>3, PartOfPart
    <3> QED BY <1>1, <1>2, <2>1, <2>4, <3>1, <3>2, <3>4 DEF From
  <2> QED BY <2>1, <2>2, <2>3, <2>4, <2>5, <2>6, <2>7, <2>8, <2>9, <2>10, <2>11 DEF Parted
<1>3. ASSUME v \in Closing(Closing(L))
      PROVE  \E j \in 1..m :
               v[j] = Brace /\ SubSeq(v, 1, j - 1) \in Closing(BlockLanguage) /\ From(v, j + 1) \in L
  <2>1. PICK i \in 1..m : v[i] = Brace /\ IsBlock[SubSeq(v, 1, i - 1)] /\ From(v, i + 1) \in Closing(L)
    BY <1>1, <1>3 DEF Closing
  <2>2. PICK w : w = From(v, i + 1)
    OBVIOUS
  <2>3. PICK k \in 1..Len(w) : w[k] = Brace /\ IsBlock[SubSeq(w, 1, k - 1)] /\ From(w, k + 1) \in L
    BY <2>1, <2>2 DEF Closing
  <2>4. Len(w) = m - i
    <3>1. PICK a \in 1..m + 1 : a = i + 1
      OBVIOUS
    <3>2. Len(From(v, a)) = m - a + 1
      BY <1>1, FromIs
    <3> QED BY <2>2, <3>1, <3>2
  <2>5. PICK j \in i + 1..m : j = k + i /\ k = j - i
    BY <2>4
  <2>6. PICK s : s = SubSeq(v, 1, j - 1)
    OBVIOUS
  <2>7. i \in 1..m /\ k \in Nat
    BY <2>4
  <2>8. Parted(v, i, j, s, w, k)
    BY <1>2, <2>2, <2>5, <2>6, <2>7
  <2>9. /\ s \in Seq(Kind) /\ i \in 1..Len(s) /\ s[i] = v[i]
        /\ SubSeq(s, 1, i - 1) = SubSeq(v, 1, i - 1) /\ From(s, i + 1) = SubSeq(v, i + 1, j - 1)
        /\ SubSeq(v, i + 1, j - 1) \in Seq(Kind) /\ w[k] = v[j]
        /\ SubSeq(w, 1, k - 1) = SubSeq(v, i + 1, j - 1) /\ From(w, k + 1) = From(v, j + 1)
    BY <2>8 DEF Parted
  <2>10. From(s, i + 1) \in BlockLanguage
    BY <2>3, <2>9 DEF BlockLanguage
  <2>11. s \in Closing(BlockLanguage)
    BY <2>1, <2>9, <2>10 DEF Closing
  <2>12. j \in 1..m /\ v[j] = Brace /\ From(v, j + 1) \in L
    BY <2>3, <2>9
  <2> QED BY <2>6, <2>11, <2>12
<1>4. ASSUME NEW j \in 1..m, v[j] = Brace, SubSeq(v, 1, j - 1) \in Closing(BlockLanguage),
             From(v, j + 1) \in L
      PROVE  v \in Closing(Closing(L))
  <2>1. PICK s : s = SubSeq(v, 1, j - 1)
    OBVIOUS
  <2>2. PICK i \in 1..Len(s) : s[i] = Brace /\ IsBlock[SubSeq(s, 1, i - 1)] /\ From(s, i + 1) \in BlockLanguage
    BY <1>4, <2>1 DEF Closing
  <2>3. Len(s) = j - 1
    <3>1. j \in 1..Len(v) + 1
      BY <1>1
    <3> QED BY <2>1, <3>1, HeadIs
  <2>4. i \in 1..m /\ j \in i + 1..m
    BY <2>3
  <2>5. PICK w, k : w = From(v, i + 1) /\ k = j - i
    OBVIOUS
  <2>6. k \in Nat
    BY <2>4, <2>5
  <2>7. Parted(v, i, j, s, w, k)
    BY <1>2, <2>1, <2>4, <2>5, <2>6
  <2>8. /\ s[i] = v[i] /\ SubSeq(s, 1, i - 1) = SubSeq(v, 1, i - 1)
        /\ From(s, i + 1) = SubSeq(v, i + 1, j - 1)
        /\ w \in Seq(Kind) /\ k \in 1..Len(w) /\ w[k] = v[j]
        /\ SubSeq(w, 1, k - 1) = SubSeq(v, i + 1, j - 1) /\ From(w, k + 1) = From(v, j + 1)
    BY <2>7 DEF Parted
  <2>9. IsBlock[SubSeq(w, 1, k - 1)]
    BY <2>2, <2>8 DEF BlockLanguage
  <2>10. w \in Closing(L)
    BY <1>4, <2>8, <2>9 DEF Closing
  <2> QED BY <1>1, <2>2, <2>4, <2>5, <2>8, <2>10 DEF Closing
<1> QED BY <1>1, <1>3, <1>4

\* What a token at the front means, in a language of blocks.
Grammatical(L) ==
  /\ L \subseteq Seq(Kind)
  /\ <<"word">> \o <<>> \notin L
  /\ \A v \in Seq(Kind) :
       /\ \A k \in {";", "{", "unclosed"} : <<k>> \o v \notin L
       /\ \A k \in {"}", "unclosed"} : <<"word">> \o (<<k>> \o v) \notin L
       /\ <<"word">> \o (<<"word">> \o v) \in L <=> <<"word">> \o v \in L
       /\ <<"word">> \o (<<";">> \o v) \in L <=> v \in L
       /\ <<"word">> \o (<<"{">> \o v) \in L <=> v \in Closing(L)

LEMMA ConsTyped ==
  /\ {";", "{", "}", "unclosed", "word"} \subseteq Kind
  /\ <<>> \in Seq(Kind)
  /\ \A k \in Kind : \A v \in Seq(Kind) : <<k>> \o v \in Seq(Kind)
<1>1. {";", "{", "}", "unclosed", "word"} \subseteq Kind
  BY Zenon DEF Kind, Symbol
<1>2. <<>> \in Seq(Kind)
  BY EmptySeq
<1>3. \A k \in Kind : \A v \in Seq(Kind) : <<k>> \o v \in Seq(Kind)
  BY ConsIs
<1> QED BY <1>1, <1>2, <1>3

LEMMA BlocksAreGrammatical == Grammatical(BlockLanguage)
<1>1. BlockLanguage \subseteq Seq(Kind)
  BY DEF BlockLanguage
<1>2. <<"word">> \o <<>> \notin BlockLanguage
  BY BlockBeginsWithWord DEF BlockLanguage
<1>3. ASSUME NEW v \in Seq(Kind), NEW k \in {";", "{", "unclosed"} PROVE <<k>> \o v \notin BlockLanguage
  <2>1. k \in Kind \ {"word"}
    BY Zenon DEF Kind, Symbol
  <2> QED BY <2>1, BlockBeginsWithWord, Zenon DEF BlockLanguage
<1>4. ASSUME NEW v \in Seq(Kind), NEW k \in {"}", "unclosed"}
      PROVE  <<"word">> \o (<<k>> \o v) \notin BlockLanguage
  BY WordThenNoBlock, Zenon DEF BlockLanguage
<1>5. ASSUME NEW v \in Seq(Kind), NEW k \in Kind
      PROVE  <<"word">> \o (<<k>> \o v) \in Seq(Kind) /\ <<"word">> \o v \in Seq(Kind)
  BY ConsTyped
<1>6. ASSUME NEW v \in Seq(Kind)
      PROVE  <<"word">> \o (<<"word">> \o v) \in BlockLanguage <=> <<"word">> \o v \in BlockLanguage
  <2>1. IsBlock[<<"word">> \o (<<"word">> \o v)] <=> IsBlock[<<"word">> \o v]
    BY SecondWord
  <2>2. "word" \in Kind
    BY ConsTyped
  <2> QED BY <1>5, <2>1, <2>2 DEF BlockLanguage
<1>7. ASSUME NEW v \in Seq(Kind)
      PROVE  <<"word">> \o (<<";">> \o v) \in BlockLanguage <=> v \in BlockLanguage
  <2>1. IsBlock[<<"word">> \o (<<";">> \o v)] <=> IsBlock[v]
    BY StatementEnds
  <2>2. ";" \in Kind
    BY ConsTyped, Zenon
  <2> QED BY <1>5, <2>1, <2>2, Zenon DEF BlockLanguage
<1>8. ASSUME NEW v \in Seq(Kind)
      PROVE  <<"word">> \o (<<"{">> \o v) \in BlockLanguage <=> v \in Closing(BlockLanguage)
  <2>1. IsBlock[<<"word">> \o (<<"{">> \o v)] <=> v \in Closing(BlockLanguage)
    BY BlockOpens
  <2>2. "{" \in Kind
    BY ConsTyped, Zenon
  <2> QED BY <1>5, <2>1, <2>2, Zenon DEF BlockLanguage
<1> QED BY <1>1, <1>2, <1>3, <1>4, <1>6, <1>7, <1>8, Zenon DEF Grammatical

LEMMA ClosingIsGrammatical ==
  ASSUME NEW L, L \subseteq Seq(Kind)
  PROVE  Grammatical(Closing(L))
<1>1. Closing(L) \subseteq Seq(Kind)
  BY DEF Closing
<1> DEFINE P(v, i) == SubSeq(v, 1, i - 1)
<1>2. ASSUME NEW v \in Seq(Kind), NEW i \in 1..Len(v) PROVE P(v, i) \in Seq(Kind)
  <2>1. i \in 1..Len(v) + 1
    BY LenProperties
  <2> QED BY <2>1, HeadIs
<1>3. ASSUME NEW c \in Kind, c # Brace, NEW d \in Kind, d # Brace, NEW v \in Seq(Kind)
      PROVE  <<c>> \o (<<d>> \o v) \in Closing(L) <=>
             \E i \in 1..Len(v) : v[i] = Brace /\ IsBlock[<<c>> \o (<<d>> \o P(v, i))] /\ From(v, i + 1) \in L
  BY <1>3, ClosingTwo
<1>4. ASSUME NEW c \in Kind, c # Brace, NEW v \in Seq(Kind)
      PROVE  <<c>> \o v \in Closing(L) <=>
             \E i \in 1..Len(v) : v[i] = Brace /\ IsBlock[<<c>> \o P(v, i)] /\ From(v, i + 1) \in L
  BY <1>4, ClosingCons
<1> HIDE DEF P
<1>5. \A k \in {";", "{", "unclosed", "word"} : k \in Kind /\ k # Brace
  BY ConsTyped, Zenon DEF Brace
<1>6. <<"word">> \o <<>> \notin Closing(L)
  <2>1. <<>> \in Seq(Kind) /\ \A i \in 1..Len(<<>>) : FALSE
    BY EmptySeq
  <2>2. "word" \in Kind /\ "word" # Brace
    BY <1>5
  <2> QED BY <1>4, <2>1, <2>2, Zenon
<1>7. ASSUME NEW v \in Seq(Kind), NEW k \in {";", "{", "unclosed"} PROVE <<k>> \o v \notin Closing(L)
  <2>1. \A i \in 1..Len(v) : ~IsBlock[<<k>> \o P(v, i)]
    <3>1. k \in Kind \ {"word"}
      BY <1>5, Zenon
    <3> QED BY <1>2, <3>1, BlockBeginsWithWord, Zenon
  <2>2. k \in Kind /\ k # Brace
    BY <1>5, Zenon
  <2> QED BY <1>4, <2>1, <2>2, Zenon
<1>8. ASSUME NEW v \in Seq(Kind), NEW k \in {"}", "unclosed"}
      PROVE  <<"word">> \o (<<k>> \o v) \notin Closing(L)
  <2>1. CASE k = "}"
    <3>1. <<"word">> \o (<<Brace>> \o v) \notin Closing(L)
      BY ClosingBrace
    <3> QED BY <2>1, <3>1, Zenon DEF Brace
  <2>2. CASE k = "unclosed"
    <3>1. \A i \in 1..Len(v) : ~IsBlock[<<"word">> \o (<<k>> \o P(v, i))]
      BY <1>2, WordThenNoBlock, Zenon
    <3>2. k \in Kind /\ k # Brace /\ "word" \in Kind /\ "word" # Brace
      BY <1>5, <2>2, Zenon
    <3> QED BY <1>3, <3>1, <3>2, Zenon
  <2> QED BY <2>1, <2>2, Zenon
<1>9. ASSUME NEW v \in Seq(Kind)
      PROVE  <<"word">> \o (<<"word">> \o v) \in Closing(L) <=> <<"word">> \o v \in Closing(L)
  <2>1. \A i \in 1..Len(v) : IsBlock[<<"word">> \o (<<"word">> \o P(v, i))] <=> IsBlock[<<"word">> \o P(v, i)]
    BY <1>2, SecondWord, Zenon
  <2>2. "word" \in Kind /\ "word" # Brace
    BY <1>5
  <2> QED BY <1>3, <1>4, <2>1, <2>2, Zenon
<1>10. ASSUME NEW v \in Seq(Kind)
       PROVE  <<"word">> \o (<<";">> \o v) \in Closing(L) <=> v \in Closing(L)
  <2>1. \A i \in 1..Len(v) : IsBlock[<<"word">> \o (<<";">> \o P(v, i))] <=> IsBlock[P(v, i)]
    BY <1>2, StatementEnds, Zenon
  <2>2. "word" \in Kind /\ "word" # Brace /\ ";" \in Kind /\ ";" # Brace
    BY <1>5, Zenon
  <2>3. v \in Closing(L) <=> \E i \in 1..Len(v) : v[i] = Brace /\ IsBlock[P(v, i)] /\ From(v, i + 1) \in L
    BY Zenon DEF Closing, P
  <2> QED BY <1>3, <2>1, <2>2, <2>3, Zenon
<1>11. ASSUME NEW v \in Seq(Kind)
       PROVE  <<"word">> \o (<<"{">> \o v) \in Closing(L) <=> v \in Closing(Closing(L))
  <2>1. \A i \in 1..Len(v) : IsBlock[<<"word">> \o (<<"{">> \o P(v, i))] <=> P(v, i) \in Closing(BlockLanguage)
    BY <1>2, BlockOpens, Zenon
  <2>2. "word" \in Kind /\ "word" # Brace /\ "{" \in Kind /\ "{" # Brace
    BY <1>5, Zenon
  <2>3. v \in Closing(Closing(L)) <=>
        \E i \in 1..Len(v) : v[i] = Brace /\ P(v, i) \in Closing(BlockLanguage) /\ From(v, i + 1) \in L
    BY ClosingTwice, Zenon DEF P
  <2> QED BY <1>3, <2>1, <2>2, <2>3, Zenon
<1> QED BY <1>1, <1>6, <1>7, <1>8, <1>9, <1>10, <1>11, Zenon DEF Grammatical

\* r[n] is the language of what may follow with n blocks open, up to k of them.
Language(r, k) ==
  /\ r[0] = BlockLanguage
  /\ \A n \in 1..k : r[n] = Closing(r[n - 1])

LEMMA LanguageIsGrammatical ==
  ASSUME NEW r, NEW k \in Nat, Language(r, k), NEW n \in 0..k
  PROVE  Grammatical(r[n])
<1> DEFINE S == {m \in Nat : m <= k => Grammatical(r[m])}
<1>1. 0 \in S
  BY BlocksAreGrammatical DEF Language
<1>2. ASSUME NEW m \in Nat, m \in S PROVE m + 1 \in S
  <2>1. CASE m + 1 <= k
    <3>1. Grammatical(r[m])
      BY <1>2, <2>1
    <3>2. r[m] \subseteq Seq(Kind)
      BY <3>1 DEF Grammatical
    <3>3. PICK j \in 1..k : j = m + 1 /\ j - 1 = m
      BY <2>1
    <3>4. r[j] = Closing(r[m])
      BY <3>3 DEF Language
    <3>5. Grammatical(r[j])
      BY <3>2, <3>4, ClosingIsGrammatical
    <3> QED BY <3>3, <3>5
  <2>2. CASE ~(m + 1 <= k)
    BY <2>2
  <2> QED BY <2>1, <2>2
<1> HIDE DEF S
<1>3. n \in S
  BY <1>1, <1>2, Induction
<1> USE DEF S
<1> QED BY <1>3

------------------------------------------------------------------------------
\* Parse reads the language: the tokens so far, the last of them and the number
\* of blocks on the stack determine what may follow.

LEMMA Positive ==
  /\ \A m \in Nat : m # 0 => m > 0 /\ m \in Nat \ {0}
  /\ 1 - 1 = 0
OBVIOUS

\* A word that began a statement is part of what follows.
Begun(lst) == IF lst = "word" THEN <<"word">> ELSE <<>>

Follows(toks, lst, n) ==
  /\ toks \in Seq(Kind)
  /\ lst = "start" <=> toks = <<>>
  /\ lst = "start" => n = 1
  /\ lst = "{" => n > 1
  /\ n = 0 => \A v \in Seq(Kind) : ~IsBlock[toks \o v]
  /\ n > 0 => \E r : /\ Language(r, n - 1)
                     /\ \A v \in Seq(Kind) : IsBlock[toks \o v] <=> Begun(lst) \o v \in r[n - 1]

\* The language of what may follow the tokens, with n blocks on the stack.
LEMMA TopLanguage ==
  ASSUME NEW toks, NEW lst, NEW n \in Nat \ {0}, Follows(toks, lst, n)
  PROVE  \E r, L :
           /\ Language(r, n - 1) /\ L = r[n - 1] /\ Grammatical(L)
           /\ lst # "word" => \A v \in Seq(Kind) : IsBlock[toks \o v] <=> v \in L
           /\ lst = "word" => \A v \in Seq(Kind) : IsBlock[toks \o v] <=> <<"word">> \o v \in L
<1>1. PICK r : /\ Language(r, n - 1)
               /\ \A v \in Seq(Kind) : IsBlock[toks \o v] <=> Begun(lst) \o v \in r[n - 1]
  <2>1. n > 0
    OBVIOUS
  <2> QED BY <2>1, Zenon DEF Follows
<1>2. PICK k \in Nat : k = n - 1
  OBVIOUS
<1>3. Grammatical(r[k])
  <2>1. k \in 0..k
    OBVIOUS
  <2> QED BY <1>1, <1>2, <2>1, LanguageIsGrammatical
<1>4. \A v \in Seq(Kind) : <<>> \o v = v
  BY ConcatEmptySeq
<1> QED BY <1>1, <1>2, <1>3, <1>4, Zenon DEF Begun

LEMMA AfterToken ==
  ASSUME NEW toks \in Seq(Kind), NEW t \in Kind
  PROVE  /\ toks \o <<t>> \in Seq(Kind) /\ toks \o <<t>> # <<>>
         /\ \A v \in Seq(Kind) : (toks \o <<t>>) \o v = toks \o (<<t>> \o v) /\ <<t>> \o v \in Seq(Kind)
<1>1. PICK s \in Seq(Kind) : s = <<t>> /\ Len(s) = 1
  <2>1. <<t>> \in Seq(Kind) /\ Len(<<t>>) = 1
    OBVIOUS
  <2> QED BY <2>1, Zenon
<1>2. \A v \in Seq(Kind) : (toks \o s) \o v = toks \o (s \o v)
  BY ConcatAssociative
<1>3. toks \o s \in Seq(Kind) /\ Len(toks \o s) = Len(toks) + 1
  BY <1>1, ConcatProperties
<1>4. toks \o s # <<>>
  <2>1. Len(toks) \in Nat
    BY LenProperties
  <2>2. Len(toks \o s) # 0
    BY <1>3, <2>1
  <2> QED BY <2>2, EmptySeq
<1> QED BY <1>1, <1>2, <1>3, <1>4, ConsTyped

LEMMA FollowsWord ==
  ASSUME NEW toks, NEW lst, NEW n \in Nat \ {0}, Follows(toks, lst, n)
  PROVE  Follows(toks \o <<"word">>, "word", n)
<1>1. PICK r, L :
        /\ Language(r, n - 1) /\ L = r[n - 1] /\ Grammatical(L)
        /\ lst # "word" => \A v \in Seq(Kind) : IsBlock[toks \o v] <=> v \in L
        /\ lst = "word" => \A v \in Seq(Kind) : IsBlock[toks \o v] <=> <<"word">> \o v \in L
  BY TopLanguage
<1>2. toks \in Seq(Kind) /\ "word" \in Kind
  BY ConsTyped DEF Follows
<1>3. /\ toks \o <<"word">> \in Seq(Kind) /\ toks \o <<"word">> # <<>>
      /\ \A v \in Seq(Kind) : /\ (toks \o <<"word">>) \o v = toks \o (<<"word">> \o v)
                              /\ <<"word">> \o v \in Seq(Kind)
  BY <1>2, AfterToken
<1>4. ASSUME NEW v \in Seq(Kind)
      PROVE  IsBlock[(toks \o <<"word">>) \o v] <=> Begun("word") \o v \in r[n - 1]
  <2>1. <<"word">> \o (<<"word">> \o v) \in L <=> <<"word">> \o v \in L
    BY <1>1, Zenon DEF Grammatical
  <2>2. IsBlock[toks \o (<<"word">> \o v)] <=> <<"word">> \o v \in L
    BY <1>1, <1>3, <2>1, Zenon
  <2> QED BY <1>1, <1>3, <2>2, Zenon DEF Begun
<1>5. n # 0
  OBVIOUS
<1>6. \E q : /\ Language(q, n - 1)
             /\ \A v \in Seq(Kind) : IsBlock[(toks \o <<"word">>) \o v] <=> Begun("word") \o v \in q[n - 1]
  BY <1>1, <1>4, Zenon
<1> QED BY <1>3, <1>5, <1>6, Zenon DEF Follows

LEMMA FollowsEnd ==
  ASSUME NEW toks, NEW n \in Nat \ {0}, Follows(toks, "word", n)
  PROVE  Follows(toks \o <<";">>, ";", n)
<1>1. PICK r, L :
        /\ Language(r, n - 1) /\ L = r[n - 1] /\ Grammatical(L)
        /\ \A v \in Seq(Kind) : IsBlock[toks \o v] <=> <<"word">> \o v \in L
  BY TopLanguage, Zenon
<1>2. toks \in Seq(Kind) /\ ";" \in Kind
  BY ConsTyped, Zenon DEF Follows
<1>3. /\ toks \o <<";">> \in Seq(Kind) /\ toks \o <<";">> # <<>>
      /\ \A v \in Seq(Kind) : /\ (toks \o <<";">>) \o v = toks \o (<<";">> \o v)
                              /\ <<";">> \o v \in Seq(Kind)
  BY <1>2, AfterToken, Zenon
<1>4. ASSUME NEW v \in Seq(Kind)
      PROVE  IsBlock[(toks \o <<";">>) \o v] <=> Begun(";") \o v \in r[n - 1]
  <2>1. <<"word">> \o (<<";">> \o v) \in L <=> v \in L
    BY <1>1, Zenon DEF Grammatical
  <2>2. IsBlock[toks \o (<<";">> \o v)] <=> v \in L
    BY <1>1, <1>3, <2>1, Zenon
  <2>3. Begun(";") \o v = v
    <3>1. <<>> \o v = v
      BY ConcatEmptySeq
    <3> QED BY <3>1, Zenon DEF Begun
  <2> QED BY <1>1, <1>3, <2>2, <2>3, Zenon
<1>5. n # 0
  OBVIOUS
<1>6. \E q : /\ Language(q, n - 1)
             /\ \A v \in Seq(Kind) : IsBlock[(toks \o <<";">>) \o v] <=> Begun(";") \o v \in q[n - 1]
  BY <1>1, <1>4, Zenon
<1> QED BY <1>3, <1>5, <1>6, Zenon DEF Follows

LEMMA FollowsOpen ==
  ASSUME NEW toks, NEW n \in Nat \ {0}, Follows(toks, "word", n)
  PROVE  Follows(toks \o <<"{">>, "{", n + 1)
<1>1. PICK r, L :
        /\ Language(r, n - 1) /\ L = r[n - 1] /\ Grammatical(L)
        /\ \A v \in Seq(Kind) : IsBlock[toks \o v] <=> <<"word">> \o v \in L
  BY TopLanguage, Zenon
<1>2. toks \in Seq(Kind) /\ "{" \in Kind
  BY ConsTyped, Zenon DEF Follows
<1>3. /\ toks \o <<"{">> \in Seq(Kind) /\ toks \o <<"{">> # <<>>
      /\ \A v \in Seq(Kind) : /\ (toks \o <<"{">>) \o v = toks \o (<<"{">> \o v)
                              /\ <<"{">> \o v \in Seq(Kind)
  BY <1>2, AfterToken, Zenon
<1> DEFINE q == [i \in 0..n |-> IF i = n THEN Closing(L) ELSE r[i]]
<1>4. q[n] = Closing(L) /\ \A i \in 0..n - 1 : q[i] = r[i]
  OBVIOUS
<1> HIDE DEF q
<1>5. Language(q, n)
  <2>1. q[0] = BlockLanguage
    <3>1. 0 \in 0..n - 1
      OBVIOUS
    <3> QED BY <1>1, <1>4, <3>1 DEF Language
  <2>2. ASSUME NEW i \in 1..n PROVE q[i] = Closing(q[i - 1])
    <3>1. i - 1 \in 0..n - 1
      OBVIOUS
    <3>2. CASE i = n
      BY <1>1, <1>4, <3>1, <3>2
    <3>3. CASE i # n
      <4>1. i \in 0..n - 1 /\ i \in 1..n - 1
        BY <3>3
      <4>2. r[i] = Closing(r[i - 1])
        BY <1>1, <4>1 DEF Language
      <4>3. q[i] = r[i] /\ q[i - 1] = r[i - 1]
        BY <1>4, <3>1, <4>1
      <4> QED BY <4>2, <4>3
    <3> QED BY <3>2, <3>3
  <2> QED BY <2>1, <2>2 DEF Language
<1>6. ASSUME NEW v \in Seq(Kind)
      PROVE  IsBlock[(toks \o <<"{">>) \o v] <=> Begun("{") \o v \in q[n]
  <2>1. <<"word">> \o (<<"{">> \o v) \in L <=> v \in Closing(L)
    BY <1>1, Zenon DEF Grammatical
  <2>2. IsBlock[toks \o (<<"{">> \o v)] <=> v \in Closing(L)
    BY <1>1, <1>3, <2>1, Zenon
  <2>3. Begun("{") \o v = v
    <3>1. <<>> \o v = v
      BY ConcatEmptySeq
    <3> QED BY <3>1, Zenon DEF Begun
  <2> QED BY <1>3, <1>4, <2>2, <2>3, Zenon
<1>7. n + 1 # 0 /\ n + 1 > 1 /\ (n + 1) - 1 = n
  OBVIOUS
<1>8. \E p : /\ Language(p, (n + 1) - 1)
             /\ \A v \in Seq(Kind) : IsBlock[(toks \o <<"{">>) \o v] <=> Begun("{") \o v \in p[(n + 1) - 1]
  BY <1>5, <1>6, <1>7, Zenon
<1> QED BY <1>3, <1>7, <1>8, Zenon DEF Follows

LEMMA FollowsClose ==
  ASSUME NEW toks, NEW lst, lst # "word", NEW n \in Nat \ {0}, Follows(toks, lst, n)
  PROVE  Follows(toks \o <<"}">>, "}", n - 1)
<1>1. PICK r, L :
        /\ Language(r, n - 1) /\ L = r[n - 1] /\ Grammatical(L)
        /\ \A v \in Seq(Kind) : IsBlock[toks \o v] <=> v \in L
  BY TopLanguage, Zenon
<1>2. toks \in Seq(Kind) /\ "}" \in Kind
  BY ConsTyped, Zenon DEF Follows
<1>3. /\ toks \o <<"}">> \in Seq(Kind) /\ toks \o <<"}">> # <<>>
      /\ \A v \in Seq(Kind) : /\ (toks \o <<"}">>) \o v = toks \o (<<"}">> \o v)
                              /\ <<"}">> \o v \in Seq(Kind)
  BY <1>2, AfterToken, Zenon
<1>4. ASSUME n = 1, NEW v \in Seq(Kind) PROVE ~IsBlock[(toks \o <<"}">>) \o v]
  <2>1. L = BlockLanguage
    BY <1>1, <1>4 DEF Language
  <2>2. <<"}">> \o v \notin BlockLanguage
    <3>1. "}" \in Kind \ {"word"}
      BY <1>2, Zenon
    <3> QED BY <3>1, BlockBeginsWithWord, Zenon DEF BlockLanguage
  <2> QED BY <1>1, <1>3, <2>1, <2>2, Zenon
<1>5. ASSUME n # 1
      PROVE  \E p : /\ Language(p, (n - 1) - 1)
                    /\ \A v \in Seq(Kind) :
                         IsBlock[(toks \o <<"}">>) \o v] <=> Begun("}") \o v \in p[(n - 1) - 1]
  <2>1. n - 1 \in 1..n - 1 /\ 1..(n - 1) - 1 \subseteq 1..n - 1
    BY <1>5
  <2>2. L = Closing(r[(n - 1) - 1]) /\ Language(r, (n - 1) - 1)
    BY <1>1, <2>1 DEF Language
  <2>3. ASSUME NEW v \in Seq(Kind)
        PROVE  IsBlock[(toks \o <<"}">>) \o v] <=> Begun("}") \o v \in r[(n - 1) - 1]
    <3>1. <<Brace>> \o v \in L <=> v \in r[(n - 1) - 1]
      BY <2>2, ClosingBrace
    <3>2. IsBlock[toks \o (<<"}">> \o v)] <=> v \in r[(n - 1) - 1]
      BY <1>1, <1>3, <3>1, Zenon DEF Brace
    <3>3. Begun("}") \o v = v
      <4>1. <<>> \o v = v
        BY ConcatEmptySeq
      <4> QED BY <4>1, Zenon DEF Begun
    <3> QED BY <1>3, <3>2, <3>3, Zenon
  <2> QED BY <2>2, <2>3, Zenon
<1>6. n - 1 = 0 => n = 1
  OBVIOUS
<1>7. n - 1 > 0 => n # 1
  OBVIOUS
<1> QED BY <1>3, <1>4, <1>5, <1>6, <1>7, Zenon DEF Follows

\* No continuation makes a file of tokens that Parse rejects.
LEMMA NothingFollows ==
  ASSUME NEW toks, NEW lst, NEW n \in Nat, Follows(toks, lst, n),
         NEW t \in {";", "{", "}", "unclosed", "word"},
         n > 0 => \/ t \in {";", "{"} /\ lst # "word"
                  \/ t = "}" /\ lst \in {"start", "word"}
                  \/ t = "unclosed"
  PROVE  \A v \in Seq(Kind) : ~IsBlock[toks \o (<<t>> \o v)]
<1> SUFFICES ASSUME NEW v \in Seq(Kind) PROVE ~IsBlock[toks \o (<<t>> \o v)]
  OBVIOUS
<1>1. t \in Kind /\ <<t>> \o v \in Seq(Kind)
  BY ConsTyped, Zenon
<1>2. CASE n = 0
  BY <1>1, <1>2, Zenon DEF Follows
<1>3. CASE n # 0
  <2>1. n > 0 /\ n \in Nat \ {0}
    BY <1>3, Positive, Zenon
  <2>2. PICK r, L :
          /\ Language(r, n - 1) /\ L = r[n - 1] /\ Grammatical(L)
          /\ lst # "word" => \A w \in Seq(Kind) : IsBlock[toks \o w] <=> w \in L
          /\ lst = "word" => \A w \in Seq(Kind) : IsBlock[toks \o w] <=> <<"word">> \o w \in L
    BY <2>1, TopLanguage, Zenon
  <2>3. CASE t \in {";", "{"} /\ lst # "word"
    <3>1. <<t>> \o v \notin L
      BY <2>2, <2>3, Zenon DEF Grammatical
    <3> QED BY <1>1, <2>2, <2>3, <3>1, Zenon
  <2>4. CASE t = "unclosed"
    <3>1. <<t>> \o v \notin L /\ <<"word">> \o (<<t>> \o v) \notin L
      BY <2>2, <2>4, Zenon DEF Grammatical
    <3> QED BY <1>1, <2>2, <3>1, Zenon
  <2>5. CASE t = "}" /\ lst = "word"
    <3>1. <<"word">> \o (<<t>> \o v) \notin L
      BY <2>2, <2>5, Zenon DEF Grammatical
    <3> QED BY <1>1, <2>2, <2>5, <3>1, Zenon
  <2>6. CASE t = "}" /\ lst = "start"
    <3>1. n = 1
      BY <2>6, Zenon DEF Follows
    <3>2. n - 1 = 0
      BY <3>1, Positive, Zenon
    <3>3. L = BlockLanguage
      BY <2>2, <3>2 DEF Language
    <3>4. <<t>> \o v \notin BlockLanguage
      <4>1. t \in Kind \ {"word"}
        BY <1>1, <2>6, Zenon
      <4> QED BY <4>1, BlockBeginsWithWord, Zenon DEF BlockLanguage
    <3>5. lst # "word"
      BY <2>6, Zenon
    <3> QED BY <1>1, <2>2, <3>3, <3>4, <3>5, Zenon
  <2> QED BY <2>1, <2>3, <2>4, <2>5, <2>6, Zenon
<1> QED BY <1>2, <1>3

\* The tokens are a file exactly if Parse accepts at their end.
LEMMA FileEnds ==
  ASSUME NEW toks, NEW lst \in {"start", "word"} \cup Symbol, NEW n \in Nat, Follows(toks, lst, n)
  PROVE  IsFile(toks) <=> n = 1 /\ lst \in {";", "}"}
<1>1. toks \in Seq(Kind) /\ <<>> \in Seq(Kind)
  BY ConsTyped DEF Follows
<1>2. toks \o <<>> = toks
  BY <1>1, ConcatEmptySeq
<1>3. CASE n = 0
  <2>1. ~IsBlock[toks]
    BY <1>1, <1>2, <1>3, Zenon DEF Follows
  <2>2. n # 1
    BY <1>3
  <2> QED BY <2>1, <2>2, Zenon DEF IsFile
<1>4. CASE n # 0
  <2>1. n \in Nat \ {0}
    BY <1>4
  <2>2. PICK r, L :
          /\ Language(r, n - 1) /\ L = r[n - 1] /\ Grammatical(L)
          /\ lst # "word" => \A w \in Seq(Kind) : IsBlock[toks \o w] <=> w \in L
          /\ lst = "word" => \A w \in Seq(Kind) : IsBlock[toks \o w] <=> <<"word">> \o w \in L
    BY <2>1, TopLanguage, Zenon
  <2>3. CASE lst = "word"
    <3>1. <<"word">> \o <<>> \notin L
      BY <2>2, Zenon DEF Grammatical
    <3>2. IsBlock[toks \o <<>>] <=> <<"word">> \o <<>> \in L
      BY <1>1, <2>2, <2>3, Zenon
    <3>3. ~IsBlock[toks]
      BY <1>2, <3>1, <3>2, Zenon
    <3> QED BY <2>3, <3>3, Zenon DEF IsFile
  <2>4. CASE lst = "start"
    <3>1. toks = <<>>
      BY <2>4, Zenon DEF Follows
    <3> QED BY <2>4, <3>1, Zenon DEF IsFile
  <2>5. CASE lst \in Symbol
    <3>1. lst # "word" /\ lst # "start"
      BY <2>5, Zenon DEF Symbol
    <3>2. toks # <<>>
      BY <3>1, Zenon DEF Follows
    <3>3. IsBlock[toks] <=> <<>> \in L
      BY <1>1, <1>2, <2>2, <3>1, Zenon
    <3>4. <<>> \in L <=> n = 1
      <4>1. CASE n = 1
        <5>1. n - 1 = 0
          BY <4>1
        <5>2. L = BlockLanguage
          BY <2>2, <5>1 DEF Language
        <5> QED BY <1>1, <4>1, <5>2, BlockBeginsWithWord DEF BlockLanguage
      <4>2. CASE n # 1
        <5>1. n - 1 \in 1..n - 1
          BY <2>1, <4>2
        <5>2. L = Closing(r[(n - 1) - 1])
          BY <2>2, <5>1 DEF Language
        <5>3. <<>> \notin Closing(r[(n - 1) - 1])
          BY <1>1, ClosingBrace
        <5> QED BY <4>2, <5>2, <5>3, Zenon
      <4> QED BY <4>1, <4>2
    <3>5. n = 1 => lst # "{"
      <4>1. lst = "{" => n > 1
        BY Zenon DEF Follows
      <4>2. n > 1 => n # 1
        OBVIOUS
      <4> QED BY <4>1, <4>2, Zenon
    <3> QED BY <2>5, <3>2, <3>3, <3>4, <3>5, Zenon DEF IsFile, Symbol
  <2> QED BY <2>3, <2>4, <2>5, Zenon
<1> QED BY <1>3, <1>4

------------------------------------------------------------------------------
\* ParseToken reads the tokens: what it delivered, what it holds and its state
\* determine the tokens of every continuation.

Given(tk) == IF tk \in {"word"} \cup Symbol THEN <<tk>> ELSE <<>>
Ahead(h, s, u) == IF h = "none" THEN Rest(s, u) ELSE Lexemes[<<h>> \o u]

LEMMA Names ==
  /\ "none" \notin Char /\ "none" \notin {"word"} \cup Symbol
  /\ \A t \in {"none", "comment", "eof", "error"} : Given(t) = <<>>
  /\ \A t \in {"word"} \cup Symbol : Given(t) = <<t>> /\ t \notin {"none", "eof", "error"}
  /\ {"word"} \cup Symbol \subseteq Kind
<1>1. "none" \notin Char /\ "none" \notin {"word"} \cup Symbol
  BY Zenon DEF Char, Symbol, Other, Quote, Space
<1>2. ASSUME NEW t \in {"none", "comment", "eof", "error"} PROVE Given(t) = <<>>
  BY Zenon DEF Given, Symbol
<1>3. ASSUME NEW t \in {"word"} \cup Symbol PROVE Given(t) = <<t>> /\ t \notin {"none", "eof", "error"}
  BY Zenon DEF Given, Symbol
<1>4. {"word"} \cup Symbol \subseteq Kind
  BY Zenon DEF Kind
<1> QED BY <1>1, <1>2, <1>3, <1>4, Zenon

\* The tokens read are whole: only the end of the file cuts a word off.
NoneCut(toks) == toks # <<>> => Last(toks) # "cut"

Scanned(toks) ==
  /\ toks \in Seq(Kind) /\ NoneCut(toks)
  /\ held # "none" => state = "space"
  /\ token # "none" => state = "space"
  /\ ended <=> token \in {"eof", "error"}
  /\ ~ended => \A u \in Seq(Char) :
                 Lexemes[text \o u] = toks \o (Given(token) \o Ahead(held, state, u))
  /\ ended => Uncut(text) = toks \o (IF token = "error" THEN <<"unclosed">> ELSE <<>>)

LEMMA ThenOne ==
  ASSUME NEW toks \in Seq(Kind), NEW k \in Kind
  PROVE  LET l == toks \o <<k>> IN l # <<>> /\ Last(l) = k /\ Front(l) = toks
<1>1. PICK n \in Nat : n = Len(toks)
  BY LenProperties
<1>2. PICK l : l = toks \o <<k>>
  OBVIOUS
<1>3. l \in Seq(Kind) /\ Len(l) = n + 1 /\ l[n + 1] = k /\ \A i \in 1..n : l[i] = toks[i]
  BY <1>1, <1>2, ConcatProperties
<1>4. l # <<>> /\ Last(l) = k
  BY <1>3, EmptySeq DEF Last
<1>5. Front(l) \in Seq(Kind) /\ Len(Front(l)) = n /\ \A i \in 1..n : Front(l)[i] = toks[i]
  BY <1>3, <1>4, FrontIs
<1>6. Front(l) = toks
  BY <1>1, <1>5, SeqEqual
<1> QED BY <1>2, <1>4, <1>6

\* The tokens of a text without the word that is cut off, if one is.
LEMMA UncutIs ==
  ASSUME NEW toks \in Seq(Kind), NoneCut(toks), NEW t
  PROVE  /\ Lexemes[t] = toks => Uncut(t) = toks
         /\ Lexemes[t] = toks \o <<"cut">> => Uncut(t) = toks
         /\ Lexemes[t] = toks \o <<"unclosed">> => Uncut(t) = toks \o <<"unclosed">>
<1>1. "cut" \in Kind /\ "unclosed" \in Kind /\ "cut" # "unclosed"
  BY Zenon DEF Kind
<1>2. toks \o <<"cut">> # <<>> /\ Last(toks \o <<"cut">>) = "cut" /\ Front(toks \o <<"cut">>) = toks
  BY <1>1, ThenOne, Zenon
<1>3. Last(toks \o <<"unclosed">>) = "unclosed"
  BY <1>1, ThenOne, Zenon
<1>4. Lexemes[t] = toks => Uncut(t) = toks
  BY Zenon DEF Uncut, IsCutOff, NoneCut
<1>5. Lexemes[t] = toks \o <<"cut">> => Uncut(t) = toks
  BY <1>2, Zenon DEF Uncut, IsCutOff
<1>6. Lexemes[t] = toks \o <<"unclosed">> => Uncut(t) = toks \o <<"unclosed">>
  BY <1>1, <1>3, Zenon DEF Uncut, IsCutOff
<1> QED BY <1>4, <1>5, <1>6, Zenon

LEMMA AheadTyped ==
  ASSUME TypeOK, NEW u \in Seq(Char) PROVE Ahead(held, state, u) \in Seq(Kind)
<1>1. held \in Char => <<held>> \o u \in Seq(Char)
  BY ConsIs
<1>2. held \in Char => Lexemes[<<held>> \o u] \in Seq(Kind)
  BY <1>1, LexemesAre
<1>3. held \in Char \/ held = "none"
  BY Zenon DEF TypeOK
<1> QED BY <1>2, <1>3, RestTyped, Zenon DEF Ahead

\* One character.
LEMMA ReadChar ==
  ASSUME TypeOK, NEW toks, Scanned(toks), NEW c \in Char, Reads(c)
  PROVE  \A u \in Seq(Char) : Lexemes[text' \o u] = toks \o Rest(state, <<c>> \o u)
<1> SUFFICES ASSUME NEW u \in Seq(Char)
             PROVE  Lexemes[text' \o u] = toks \o Rest(state, <<c>> \o u)
  OBVIOUS
<1>1. <<c>> \o u \in Seq(Char)
  BY ConsIs
<1>2. token = "none" /\ ~ended /\ (held = c \/ held = "none")
  <2>1. token = "none" /\ (held = c \/ held = "none")
    BY Zenon DEF Reads
  <2> QED BY <2>1, Zenon DEF Scanned
<1>3. \A v \in Seq(Char) : Lexemes[text \o v] = toks \o Ahead(held, state, v)
  <2> SUFFICES ASSUME NEW v \in Seq(Char) PROVE Lexemes[text \o v] = toks \o Ahead(held, state, v)
    OBVIOUS
  <2>1. Lexemes[text \o v] = toks \o (Given(token) \o Ahead(held, state, v))
    BY <1>2, Zenon DEF Scanned
  <2>2. Given(token) = <<>>
    BY <1>2, Names, Zenon
  <2>3. Ahead(held, state, v) \in Seq(Kind)
    BY AheadTyped
  <2>4. <<>> \o Ahead(held, state, v) = Ahead(held, state, v)
    BY <2>3, ConcatEmptySeq
  <2> QED BY <2>1, <2>2, <2>4, Zenon
<1>4. CASE held = "none"
  <2>1. text' = Append(text, c)
    BY <1>4, Names, Zenon DEF Reads
  <2>2. Append(text, c) \o u = text \o (<<c>> \o u)
    <3>1. PICK s \in Seq(Char) : s = <<c>>
      <4>1. <<c>> \in Seq(Char)
        OBVIOUS
      <4> QED BY <4>1, Zenon
    <3>2. text \in Seq(Char)
      BY Zenon DEF TypeOK
    <3>3. Append(text, c) = text \o s
      BY <3>1, <3>2, AppendIsConcat
    <3>4. (text \o s) \o u = text \o (s \o u)
      BY <3>2, ConcatAssociative
    <3> QED BY <3>1, <3>3, <3>4, Zenon
  <2> QED BY <1>1, <1>3, <1>4, <2>1, <2>2, Zenon DEF Ahead
<1>5. CASE held # "none"
  <2>1. held = c /\ text' = text /\ state = "space"
    BY <1>2, <1>5, Zenon DEF Reads, Scanned
  <2>2. Ahead(held, state, u) = Lexemes[<<c>> \o u]
    BY <1>5, <2>1, Zenon DEF Ahead
  <2>3. Rest(state, <<c>> \o u) = Lexemes[<<c>> \o u]
    BY <2>1, Zenon DEF Rest
  <2> QED BY <1>3, <2>1, <2>2, <2>3, Zenon
<1> QED BY <1>4, <1>5

\* What is delivered and what lies ahead are the tokens of the rest of the text.
LEMMA ReadAhead ==
  ASSUME TypeOK, NEW c \in Char, NEW u \in Seq(Char),
         \/ SkipSpace(c) \/ ReadSymbol(c) \/ BeginToken(c)
         \/ ReadQuoted(c) \/ ReadComment(c) \/ ReadWord(c)
  PROVE  Given(token') \o Ahead(held', state', u) = Rest(state, <<c>> \o u)
<1>1. \A s, v : Ahead("none", s, v) = Rest(s, v)
  BY Zenon DEF Ahead
<1>2. \A s : <<>> \o Rest(s, u) = Rest(s, u)
  BY RestTyped, ConcatEmptySeq
<1>3. Given("none") = <<>> /\ Given("comment") = <<>> /\ Given("word") = <<"word">>
  BY Names, Zenon
<1>4. \A s, t : token' = t /\ Given(t) = <<>> /\ held' = "none" /\ state' = s =>
              Given(token') \o Ahead(held', state', u) = Rest(s, u)
  BY <1>1, <1>2, Zenon
<1>5. Reads(c) => token = "none"
  BY Zenon DEF Reads
<1>6. CASE SkipSpace(c)
  <2>1. Reads(c) /\ state = "space" /\ c \in Space /\ held' = "none" /\ state' = state /\ token' = token
    BY <1>6, Zenon DEF SkipSpace
  <2>2. token' = "none" /\ state' = "space"
    BY <1>5, <2>1, Zenon
  <2>3. Given(token') \o Ahead(held', state', u) = Rest("space", u)
    BY <1>3, <1>4, <2>1, <2>2, Zenon
  <2>4. Rest("space", <<c>> \o u) = Rest("space", u)
    BY <2>1, RestAtSpace
  <2> QED BY <2>1, <2>3, <2>4, Zenon
<1>7. CASE ReadSymbol(c)
  <2>1. state = "space" /\ c \in Symbol /\ held' = "none" /\ state' = "space" /\ token' = c
    BY <1>7, Zenon DEF ReadSymbol, Deliver
  <2>2. Given(c) = <<c>>
    BY <2>1, Names, Zenon
  <2>3. Rest(state, <<c>> \o u) = <<c>> \o Rest("space", u)
    BY <2>1, RestAtSpace, Zenon
  <2> QED BY <1>1, <2>1, <2>2, <2>3, Zenon
<1>8. CASE BeginToken(c)
  <2>1. /\ Reads(c) /\ state = "space" /\ c \notin Space \cup Symbol /\ held' = "none" /\ token' = token
        /\ state' = IF c \in Quote THEN c ELSE IF c = "#" THEN "comment" ELSE "word"
    BY <1>8, Zenon DEF BeginToken
  <2>2. "#" \notin Quote
    BY Zenon DEF Quote
  <2>3. Rest("space", <<c>> \o u) = Rest(state', u)
    <3>1. CASE c \in Quote
      BY <2>1, <3>1, RestAtSpace, Zenon
    <3>2. CASE c = "#"
      BY <2>1, <2>2, <3>2, RestAtSpace, Zenon
    <3>3. CASE c \notin Quote /\ c # "#"
      <4>1. c \notin Space \cup Symbol \cup Quote \cup {"#"} /\ state' = "word"
        BY <2>1, <3>3, Zenon
      <4> QED BY <4>1, RestAtSpace, Zenon
    <3> QED BY <3>1, <3>2, <3>3, Zenon
  <2> QED BY <1>3, <1>4, <1>5, <2>1, <2>3, Zenon
<1>9. CASE ReadQuoted(c)
  <2>1. /\ Reads(c) /\ state \in Quote /\ held' = "none"
        /\ c = state => token' = "word" /\ state' = "space"
        /\ c # state => token' = token /\ state' = state
    BY <1>9, Zenon DEF ReadQuoted, Deliver
  <2>2. CASE c = state
    <3>1. Rest(state, <<c>> \o u) = <<"word">> \o Rest("space", u)
      BY <2>1, <2>2, RestInQuote, Zenon
    <3> QED BY <1>1, <1>3, <2>1, <2>2, <3>1, Zenon
  <2>3. CASE c # state
    <3>1. Rest(state, <<c>> \o u) = Rest(state, u)
      BY <2>1, <2>3, RestInQuote, Zenon
    <3> QED BY <1>3, <1>4, <1>5, <2>1, <2>3, <3>1, Zenon
  <2> QED BY <2>2, <2>3, Zenon
<1>10. CASE ReadComment(c)
  <2>1. /\ Reads(c) /\ state = "comment" /\ held' = "none"
        /\ c \in CommentEnd => token' = "comment" /\ state' = "space"
        /\ c \notin CommentEnd => token' = token /\ state' = state
    BY <1>10, Zenon DEF ReadComment, Deliver
  <2>2. CASE c \in CommentEnd
    <3>1. Rest("comment", <<c>> \o u) = Rest("space", u)
      BY <2>2, RestInComment, Zenon
    <3> QED BY <1>3, <1>4, <2>1, <2>2, <3>1, Zenon
  <2>3. CASE c \notin CommentEnd
    <3>1. Rest("comment", <<c>> \o u) = Rest("comment", u)
      BY <2>3, RestInComment, Zenon
    <3> QED BY <1>3, <1>4, <1>5, <2>1, <2>3, <3>1, Zenon
  <2> QED BY <2>2, <2>3, Zenon
<1>11. CASE ReadWord(c)
  <2>1. /\ Reads(c) /\ state = "word"
        /\ c \in WordEnd => held' = c /\ token' = "word" /\ state' = "space"
        /\ c \notin WordEnd => held' = "none" /\ token' = token /\ state' = state
    BY <1>11, Zenon DEF ReadWord, Deliver
  <2>2. CASE c \in WordEnd
    <3>1. Rest("word", <<c>> \o u) = <<"word">> \o Rest("space", <<c>> \o u)
      BY <2>2, RestInWord, Zenon
    <3>2. Rest("space", <<c>> \o u) = Lexemes[<<c>> \o u]
      BY Zenon DEF Rest
    <3>3. Ahead(held', state', u) = Lexemes[<<c>> \o u]
      BY <2>1, <2>2, Names, Zenon DEF Ahead
    <3> QED BY <1>3, <2>1, <2>2, <3>1, <3>2, <3>3, Zenon
  <2>3. CASE c \notin WordEnd
    <3>1. Rest("word", <<c>> \o u) = Rest("word", u)
      BY <2>3, RestInWord, Zenon
    <3> QED BY <1>3, <1>4, <1>5, <2>1, <2>3, <3>1, Zenon
  <2> QED BY <2>2, <2>3, Zenon
<1> QED BY <1>6, <1>7, <1>8, <1>9, <1>10, <1>11, Zenon

LEMMA ScanChar ==
  ASSUME TypeOK, NEW toks, Scanned(toks), NEW c \in Char,
         \/ SkipSpace(c) \/ ReadSymbol(c) \/ BeginToken(c)
         \/ ReadQuoted(c) \/ ReadComment(c) \/ ReadWord(c)
  PROVE  Scanned(toks)'
<1>1. Reads(c)
  BY Zenon DEF SkipSpace, ReadSymbol, BeginToken, ReadQuoted, ReadComment, ReadWord
<1>2. token = "none" /\ ended' = ended /\ ~ended
  BY <1>1, Zenon DEF Reads, Scanned
<1>3. \A u \in Seq(Char) : Lexemes[text' \o u] = toks \o (Given(token') \o Ahead(held', state', u))
  <2> SUFFICES ASSUME NEW u \in Seq(Char)
               PROVE  Lexemes[text' \o u] = toks \o (Given(token') \o Ahead(held', state', u))
    OBVIOUS
  <2>1. Lexemes[text' \o u] = toks \o Rest(state, <<c>> \o u)
    BY <1>1, ReadChar
  <2>2. Given(token') \o Ahead(held', state', u) = Rest(state, <<c>> \o u)
    BY ReadAhead
  <2> QED BY <2>1, <2>2, Zenon
<1>4. held' # "none" => state' = "space"
  BY Zenon DEF SkipSpace, ReadSymbol, BeginToken, ReadQuoted, ReadComment, ReadWord, Deliver
<1>5. token' \in {"none", "word", "comment", c} /\ (token' # "none" => state' = "space")
      /\ (token' = c => token' \in {"none"} \cup Symbol)
  <2>1. CASE SkipSpace(c) \/ BeginToken(c)
    BY <1>2, <2>1, Names, Zenon DEF SkipSpace, BeginToken
  <2>2. CASE ReadSymbol(c)
    BY <2>2, Zenon DEF ReadSymbol, Deliver
  <2>3. CASE ReadQuoted(c) \/ ReadComment(c) \/ ReadWord(c)
    <3>1. token' \in {"none", "word", "comment"} /\ (token' # "none" => state' = "space")
      BY <1>2, <2>3, Zenon DEF ReadQuoted, ReadComment, ReadWord, Deliver
    <3>2. c # "word" /\ c # "comment"
      BY Zenon DEF Char, Symbol, Other, Quote, Space
    <3> QED BY <3>1, <3>2, Zenon
  <2> QED BY <2>1, <2>2, <2>3, Zenon
<1>6. token' \notin {"eof", "error"}
  <2>1. \A t \in Symbol : t \notin {"eof", "error"}
    BY Names, Zenon
  <2> QED BY <1>5, <2>1, Zenon
<1> QED BY <1>2, <1>3, <1>4, <1>5, <1>6, Zenon DEF Scanned

LEMMA ScanEnd ==
  ASSUME TypeOK, NEW toks, Scanned(toks), EndOfInput
  PROVE  Scanned(toks)'
<1>1. /\ token = "none" /\ held = "none" /\ ended' = TRUE /\ text' = text /\ held' = held
      /\ state' = "space" /\ token' = IF state \in Quote THEN "error" ELSE "eof"
  BY Zenon DEF EndOfInput, Deliver
<1>2. ~ended
  BY <1>1, Zenon DEF Scanned
<1>3. text \in Seq(Char) /\ <<>> \in Seq(Char) /\ text \o <<>> = text
  <2>1. text \in Seq(Char)
    BY Zenon DEF TypeOK
  <2> QED BY <2>1, ConcatEmptySeq, EmptySeq
<1>4. Lexemes[text] = toks \o (<<>> \o Rest(state, <<>>))
  <2>1. Lexemes[text \o <<>>] = toks \o (Given(token) \o Ahead(held, state, <<>>))
    BY <1>2, <1>3, Zenon DEF Scanned
  <2>2. Given(token) = <<>> /\ Ahead(held, state, <<>>) = Rest(state, <<>>)
    BY <1>1, Names, Zenon DEF Ahead
  <2> QED BY <1>3, <2>1, <2>2, Zenon
<1>5. <<>> \o Rest(state, <<>>) = Rest(state, <<>>)
  BY <1>3, RestTyped, ConcatEmptySeq
<1>6. /\ state \in Quote => Rest(state, <<>>) = <<"unclosed">>
      /\ state = "word" => Rest(state, <<>>) = <<"cut">>
      /\ state \notin Quote \cup {"word"} => Rest(state, <<>>) = <<>>
  <2>1. state \in {"space", "comment", "word"} \cup Quote
    BY Zenon DEF TypeOK
  <2> QED BY <2>1, RestOfNothing, Zenon
<1>7. Lexemes[text] = toks \o Rest(state, <<>>)
  BY <1>4, <1>5, Zenon
<1>8. toks \in Seq(Kind) /\ NoneCut(toks) /\ toks \o <<>> = toks
  <2>1. toks \in Seq(Kind) /\ NoneCut(toks)
    BY Zenon DEF Scanned
  <2> QED BY <2>1, ConcatEmptySeq
<1>9. "word" \notin Quote
  BY Zenon DEF Quote
<1>10. Uncut(text) = toks \o (IF state \in Quote THEN <<"unclosed">> ELSE <<>>)
  <2>1. CASE state \in Quote
    BY <1>6, <1>7, <1>8, <2>1, UncutIs, Zenon
  <2>2. CASE state = "word"
    BY <1>6, <1>7, <1>8, <1>9, <2>2, UncutIs, Zenon
  <2>3. CASE state \notin Quote \cup {"word"}
    BY <1>6, <1>7, <1>8, <2>3, UncutIs, Zenon
  <2> QED BY <2>1, <2>2, <2>3, Zenon
<1>11. Uncut(text') = toks \o (IF token' = "error" THEN <<"unclosed">> ELSE <<>>)
  <2>1. token' = "error" <=> state \in Quote
    BY <1>1, Zenon
  <2> QED BY <1>1, <1>10, <2>1, Zenon
<1> QED BY <1>1, <1>8, <1>11, Zenon DEF Scanned

------------------------------------------------------------------------------
\* The invariant: the tokens of every continuation are those read, then those
\* ahead, and after those read the stack and the last token say what may follow.

Understood == \E toks : Scanned(toks) /\ Follows(toks, last, Len(stack))

Judged ==
  /\ result = "true" => IsFile(Uncut(text))
  /\ result = "false" /\ ended => ~IsFile(Uncut(text))
  /\ result = "undefined" \/ (result = "false" /\ ~ended) =>
       \A u \in Seq(Char) : ~IsFile(Lexemes[text \o u])

Meaning ==
  /\ result = "unopened" => text = <<>> /\ token = "none"
  /\ result \in {"unopened", "parsing"} => Understood
  /\ Judged

ParserInv == TypeOK /\ WordIsPlaced /\ Meaning

\* The tokens read, at the start and through the steps that take none.
LEMMA InitScanned == ASSUME Init PROVE Scanned(<<>>)
<1>1. text = <<>> /\ ended = FALSE /\ held = "none" /\ state = "space" /\ token = "none"
  BY Zenon DEF Init
<1>2. <<>> \in Seq(Kind) /\ <<>> \in Seq(Char)
  BY EmptySeq
<1>3. ASSUME NEW u \in Seq(Char)
      PROVE  Lexemes[<<>> \o u] = <<>> \o (Given("none") \o Ahead("none", "space", u))
  <2>1. <<>> \o u = u /\ <<>> \o Lexemes[u] = Lexemes[u]
    BY LexemesAre, ConcatEmptySeq
  <2>2. Given("none") = <<>> /\ Ahead("none", "space", u) = Lexemes[u]
    BY Names, Zenon DEF Ahead, Rest
  <2> QED BY <2>1, <2>2, Zenon
<1>4. "none" \notin {"eof", "error"}
  BY Zenon
<1>5. NoneCut(<<>>)
  BY Zenon DEF NoneCut
<1> QED BY <1>1, <1>2, <1>3, <1>4, <1>5, Zenon DEF Scanned

LEMMA OpenScanned ==
  ASSUME TypeOK, token = "none", Open, result' = "parsing", NEW toks, Scanned(toks)
  PROVE  Scanned(toks)'
<1>1. ended' = (result' = "false") /\ text' = text /\ held' = held /\ state' = state /\ token' = token
  BY Zenon DEF Open
<1>2. ~ended /\ ended \in BOOLEAN
  BY Zenon DEF Scanned, TypeOK
<1>3. ended' = ended
  BY <1>1, <1>2, Zenon
<1> QED BY <1>1, <1>3, Zenon DEF Scanned

LEMMA ReadScanned == ASSUME TypeOK, ParseToken, NEW toks, Scanned(toks) PROVE Scanned(toks)'
<1>1. CASE EndOfInput
  BY <1>1, ScanEnd
<1>2. CASE \E c \in Char : \/ SkipSpace(c) \/ ReadSymbol(c) \/ BeginToken(c)
                           \/ ReadQuoted(c) \/ ReadComment(c) \/ ReadWord(c)
  BY <1>2, ScanChar
<1> QED BY <1>1, <1>2, Zenon DEF ParseToken

LEMMA CommentScanned == ASSUME SkipComment, NEW toks, Scanned(toks) PROVE Scanned(toks)'
<1>1. token = "comment" /\ token' = "none"
  BY Zenon DEF SkipComment, Taken
<1>2. text' = text /\ ended' = ended /\ held' = held /\ state' = state
  BY Zenon DEF SkipComment, lexer
<1>3. Given(token) = <<>> /\ Given(token') = <<>>
  BY <1>1, Names, Zenon
<1>4. token \notin {"eof", "error"} /\ token' \notin {"eof", "error"}
  BY <1>1, Zenon
<1>5. ~ended
  BY <1>4, Zenon DEF Scanned
<1> QED BY <1>1, <1>2, <1>3, <1>4, <1>5, Zenon DEF Scanned

\* Parse takes a token that counts.
LEMMA TakeToken ==
  ASSUME TypeOK, NEW toks, Scanned(toks), NEW t \in {"word"} \cup Symbol, token = t, token' = "none",
         UNCHANGED lexer
  PROVE  Scanned(toks \o <<t>>)'
<1>1. text' = text /\ ended' = ended /\ held' = held /\ state' = state
  BY Zenon DEF lexer
<1>2. toks \in Seq(Kind) /\ t \in Kind /\ Given(t) = <<t>> /\ ~ended /\ state = "space"
  BY Names, Zenon DEF Scanned
<1>3. ASSUME NEW u \in Seq(Char)
      PROVE  Lexemes[text' \o u] = (toks \o <<t>>) \o (Given(token') \o Ahead(held', state', u))
  <2>1. Lexemes[text \o u] = toks \o (<<t>> \o Ahead(held, state, u))
    BY <1>2, Zenon DEF Scanned
  <2>2. Ahead(held, state, u) \in Seq(Kind)
    BY AheadTyped
  <2>3. (toks \o <<t>>) \o Ahead(held, state, u) = toks \o (<<t>> \o Ahead(held, state, u))
    BY <1>2, <2>2, AfterToken, Zenon
  <2>4. <<>> \o Ahead(held, state, u) = Ahead(held, state, u)
    BY <2>2, ConcatEmptySeq
  <2>5. Given(token') = <<>>
    BY Names, Zenon
  <2> QED BY <1>1, <2>1, <2>3, <2>4, <2>5, Zenon
<1>4. toks \o <<t>> \in Seq(Kind)
  BY <1>2, AfterToken, Zenon
<1>5. token' \notin {"eof", "error"} /\ ~ended'
  BY <1>1, <1>2, Zenon
<1>6. NoneCut(toks \o <<t>>)
  <2>1. Last(toks \o <<t>>) = t
    BY <1>2, ThenOne, Zenon
  <2>2. t # "cut"
    BY Zenon DEF Symbol
  <2> QED BY <2>1, <2>2, Zenon DEF NoneCut
<1> QED BY <1>1, <1>2, <1>3, <1>4, <1>5, <1>6, Zenon DEF Scanned

\* A token that nothing may follow.
LEMMA NoContinuation ==
  ASSUME TypeOK, NEW toks, Scanned(toks), NEW t \in {"word"} \cup Symbol, token = t,
         \A v \in Seq(Kind) : ~IsBlock[toks \o (<<t>> \o v)]
  PROVE  ~ended /\ \A u \in Seq(Char) : ~IsFile(Lexemes[text \o u])
<1>1. Given(t) = <<t>> /\ ~ended
  BY Names, Zenon DEF Scanned
<1>2. ASSUME NEW u \in Seq(Char) PROVE ~IsFile(Lexemes[text \o u])
  <2>1. Lexemes[text \o u] = toks \o (<<t>> \o Ahead(held, state, u))
    BY <1>1, Zenon DEF Scanned
  <2>2. Ahead(held, state, u) \in Seq(Kind)
    BY AheadTyped
  <2> QED BY <2>1, <2>2, Zenon DEF IsFile
<1> QED BY <1>1, <1>2, Zenon

LEMMA StackLength ==
  ASSUME TypeOK
  PROVE  /\ Len(stack) \in Nat /\ (stack = <<>> <=> Len(stack) = 0)
         /\ \A b : Len(Append(stack, b)) = Len(stack) + 1
         /\ stack # <<>> => Len(Front(stack)) = Len(stack) - 1
<1>1. PICK n : n = Len(blocks)
  OBVIOUS
<1>2. stack \in Seq(1..n)
  BY <1>1 DEF TypeOK
<1>3. Len(stack) \in Nat /\ (stack = <<>> <=> Len(stack) = 0)
  BY <1>2, EmptySeq
<1>4. stack # <<>> => Len(Front(stack)) = Len(stack) - 1
  BY <1>2, FrontIs
<1>5. \A b : Len(Append(stack, b)) = Len(stack) + 1
  <2> TAKE b
  <2>1. stack \in Seq(1..n \cup {b})
    BY <1>2, SeqMonotonic
  <2> QED BY <2>1, AppendProperties
<1> QED BY <1>3, <1>4, <1>5

LEMMA InitUnderstood == Init => ParserInv
<1> SUFFICES ASSUME Init PROVE ParserInv
  OBVIOUS
<1>1. /\ text = <<>> /\ ended = FALSE /\ held = "none" /\ state = "space" /\ token = "none"
      /\ last = "start" /\ stack = <<Root>> /\ result = "unopened"
  BY Zenon DEF Init
<1>2. TypeOK /\ WordIsPlaced
  BY InitTyped
<1>3. Scanned(<<>>)
  BY InitScanned
<1>4. Follows(<<>>, "start", 1)
  <2> DEFINE r == [i \in {0} |-> BlockLanguage]
  <2>1. r[0] = BlockLanguage
    OBVIOUS
  <2> HIDE DEF r
  <2>2. Language(r, 0)
    <3>1. 1..0 = {}
      OBVIOUS
    <3> QED BY <2>1, <3>1, Zenon DEF Language
  <2>3. ASSUME NEW v \in Seq(Kind) PROVE IsBlock[<<>> \o v] <=> Begun("start") \o v \in r[0]
    <3>1. <<>> \o v = v
      BY ConcatEmptySeq
    <3> QED BY <2>1, <3>1, Zenon DEF Begun, BlockLanguage
  <2>4. 1 - 1 = 0 /\ 1 # 0
    OBVIOUS
  <2>5. <<>> \in Seq(Kind)
    BY EmptySeq
  <2>6. \E q : Language(q, 1 - 1) /\ \A v \in Seq(Kind) : IsBlock[<<>> \o v] <=> Begun("start") \o v \in q[1 - 1]
    BY <2>2, <2>3, <2>4, Zenon
  <2> QED BY <2>4, <2>5, <2>6, Zenon DEF Follows
<1>5. Len(stack) = 1
  BY <1>1
<1>6. Understood
  BY <1>1, <1>3, <1>4, <1>5, Zenon DEF Understood
<1>7. Judged
  BY <1>1, Zenon DEF Judged
<1> QED BY <1>1, <1>2, <1>6, <1>7, Zenon DEF ParserInv, Meaning

LEMMA OpenUnderstood == ASSUME ParserInv, Open PROVE Meaning'
<1>1. /\ result = "unopened" /\ result' \in {"parsing", "false"} /\ ended' = (result' = "false")
      /\ text' = text /\ held' = held /\ state' = state /\ token' = token /\ last' = last
      /\ stack' = stack
  BY Zenon DEF Open, tree
<1>2. Understood /\ text = <<>> /\ token = "none"
  BY <1>1, Zenon DEF ParserInv, Meaning
<1>3. PICK toks : Scanned(toks) /\ Follows(toks, last, Len(stack))
  BY <1>2, Zenon DEF Understood
<1>4. CASE result' = "parsing"
  <2>1. TypeOK
    BY Zenon DEF ParserInv
  <2>2. Scanned(toks)'
    BY <1>2, <1>3, <1>4, <2>1, OpenScanned
  <2>3. Understood'
    BY <1>1, <1>3, <2>2, Zenon DEF Understood
  <2> QED BY <1>4, <2>3, Zenon DEF Meaning, Judged
<1>5. CASE result' = "false"
  <2>1. Lexemes[text'] = <<>>
    <3>1. <<>> \in Seq(Char)
      BY EmptySeq
    <3> QED BY <1>1, <1>2, <3>1, LexemesAre DEF TokensOf
  <2>2. Uncut(text') = <<>>
    BY <2>1, Zenon DEF Uncut, IsCutOff
  <2>3. ~IsFile(Uncut(text'))
    BY <2>2, Zenon DEF IsFile
  <2> QED BY <1>1, <1>5, <2>3, Zenon DEF Meaning, Judged
<1> QED BY <1>1, <1>4, <1>5

LEMMA ReadUnderstood == ASSUME ParserInv, ParseToken PROVE Meaning'
<1>1. result = "parsing" /\ result' = result /\ last' = last /\ stack' = stack
  BY Zenon DEF ParseToken, SkipSpace, ReadSymbol, BeginToken, ReadQuoted, ReadComment, ReadWord,
               Reads, EndOfInput, tree
<1>2. TypeOK /\ Understood
  BY <1>1, Zenon DEF ParserInv, Meaning
<1>3. PICK toks : Scanned(toks) /\ Follows(toks, last, Len(stack))
  BY <1>2, Zenon DEF Understood
<1>4. Scanned(toks)'
  BY <1>2, <1>3, ReadScanned
<1>5. Understood'
  BY <1>1, <1>3, <1>4, Zenon DEF Understood
<1> QED BY <1>1, <1>5, Zenon DEF Meaning, Judged

\* Parse goes on.
LEMMA ParseUnderstood ==
  ASSUME ParserInv, SkipComment \/ AddWord \/ EndStatement \/ OpenBlock \/ CloseBlock
  PROVE  Meaning'
<1>1. result = "parsing" /\ result' = result /\ token' = "none" /\ UNCHANGED lexer
  BY Zenon DEF SkipComment, AddWord, EndStatement, OpenBlock, CloseBlock, Taken
<1>2. TypeOK /\ WordIsPlaced /\ Understood
  BY <1>1, Zenon DEF ParserInv, Meaning
<1>3. PICK toks : Scanned(toks) /\ Follows(toks, last, Len(stack))
  BY <1>2, Zenon DEF Understood
<1>4. PICK n : n = Len(stack)
  OBVIOUS
<1>5. n \in Nat /\ (stack # <<>> => n \in Nat \ {0})
  BY <1>2, <1>4, StackLength
<1>6. last = "word" => n \in Nat \ {0}
  BY <1>2, <1>5, Zenon DEF WordIsPlaced
<1>7. \A t : token = t /\ t \in {"word"} \cup Symbol => Scanned(toks \o <<t>>)'
  BY <1>1, <1>2, <1>3, TakeToken
<1>8. {";", "{", "}", "word"} \subseteq {"word"} \cup Symbol
  BY Zenon DEF Symbol
<1>9. CASE SkipComment
  <2>1. last' = last /\ stack' = stack
    BY <1>9, Zenon DEF SkipComment, tree
  <2>2. Scanned(toks)'
    BY <1>3, <1>9, CommentScanned
  <2>3. Understood'
    BY <1>3, <2>1, <2>2, Zenon DEF Understood
  <2> QED BY <1>1, <2>3, Zenon DEF Meaning, Judged
<1>10. CASE AddWord
  <2>1. token = "word" /\ last' = "word" /\ stack' = stack /\ stack # <<>>
    BY <1>10, Zenon DEF AddWord, Taken
  <2>2. Scanned(toks \o <<"word">>)'
    BY <1>7, <1>8, <2>1, Zenon
  <2>3. Follows(toks \o <<"word">>, "word", n)
    BY <1>3, <1>4, <1>5, <2>1, FollowsWord
  <2>4. Understood'
    BY <1>4, <2>1, <2>2, <2>3, Zenon DEF Understood
  <2> QED BY <1>1, <2>4, Zenon DEF Meaning, Judged
<1>11. CASE EndStatement
  <2>1. token = ";" /\ last = "word" /\ last' = ";" /\ stack' = stack
    BY <1>11, Zenon DEF EndStatement, Taken, tree
  <2>2. Scanned(toks \o <<";">>)'
    BY <1>7, <1>8, <2>1, Zenon
  <2>3. Follows(toks \o <<";">>, ";", n)
    BY <1>3, <1>4, <1>6, <2>1, FollowsEnd, Zenon
  <2>4. Understood'
    BY <1>4, <2>1, <2>2, <2>3, Zenon DEF Understood
  <2> QED BY <1>1, <2>4, Zenon DEF Meaning, Judged
<1>12. CASE OpenBlock
  <2>1. token = "{" /\ last = "word" /\ last' = "{" /\ stack' = Append(stack, Len(blocks) + 1)
    BY <1>12, Zenon DEF OpenBlock, Taken
  <2>2. Len(stack') = n + 1
    <3>1. Len(Append(stack, Len(blocks) + 1)) = n + 1
      BY <1>2, <1>4, StackLength
    <3> QED BY <2>1, <3>1, Zenon
  <2>3. Scanned(toks \o <<"{">>)'
    BY <1>7, <1>8, <2>1, Zenon
  <2>4. Follows(toks \o <<"{">>, "{", n + 1)
    BY <1>3, <1>4, <1>6, <2>1, FollowsOpen, Zenon
  <2>5. Understood'
    BY <2>1, <2>2, <2>3, <2>4, Zenon DEF Understood
  <2> QED BY <1>1, <2>5, Zenon DEF Meaning, Judged
<1>13. CASE CloseBlock
  <2>1. token = "}" /\ last # "word" /\ last' = "}" /\ stack # <<>> /\ stack' = Front(stack)
    BY <1>13, Zenon DEF CloseBlock, Taken
  <2>2. Len(stack') = n - 1
    <3>1. stack # <<>> => Len(Front(stack)) = n - 1
      BY <1>2, <1>4, StackLength
    <3> QED BY <2>1, <3>1, Zenon
  <2>3. Scanned(toks \o <<"}">>)'
    BY <1>7, <1>8, <2>1, Zenon
  <2>4. Follows(toks \o <<"}">>, "}", n - 1)
    BY <1>3, <1>4, <1>5, <2>1, FollowsClose, Zenon
  <2>5. Understood'
    BY <2>1, <2>2, <2>3, <2>4, Zenon DEF Understood
  <2> QED BY <1>1, <2>5, Zenon DEF Meaning, Judged
<1> QED BY <1>9, <1>10, <1>11, <1>12, <1>13

\* Parse returns, or meets the empty stack.
LEMMA ReturnUnderstood ==
  ASSUME ParserInv, EmptyStack \/ Accept \/ Reject
  PROVE  Meaning'
<1>1. result = "parsing" /\ result' \in {"undefined", "true", "false"} /\ UNCHANGED lexer
  BY Zenon DEF EmptyStack, Accept, Reject, Taken, Return
<1>2. TypeOK /\ Understood /\ text' = text /\ ended' = ended
  BY <1>1, Zenon DEF ParserInv, Meaning, lexer
<1>3. PICK toks : Scanned(toks) /\ Follows(toks, last, Len(stack))
  BY <1>2, Zenon DEF Understood
<1>4. PICK n : n = Len(stack)
  OBVIOUS
<1>5. n \in Nat /\ (stack = <<>> <=> n = 0) /\ (n > 0 <=> n # 0)
  BY <1>2, <1>4, StackLength
<1>6. toks \in Seq(Kind) /\ last \in {"start", "word"} \cup Symbol /\ Follows(toks, last, n)
  BY <1>2, <1>3, <1>4, Zenon DEF Scanned, TypeOK
<1>7. {";", "{", "}", "word"} \subseteq {"word"} \cup Symbol
  BY Zenon DEF Symbol
<1>8. ASSUME token = "eof" PROVE ended /\ (IsFile(Uncut(text)) <=> n = 1 /\ last \in {";", "}"})
  <2>1. ended
    BY <1>3, <1>8, Zenon DEF Scanned
  <2>2. Uncut(text) = toks \o <<>>
    BY <1>3, <1>8, <2>1, Zenon DEF Scanned
  <2>3. toks \o <<>> = toks
    BY <1>6, ConcatEmptySeq
  <2>4. IsFile(toks) <=> n = 1 /\ last \in {";", "}"}
    BY <1>5, <1>6, FileEnds
  <2> QED BY <2>1, <2>2, <2>3, <2>4, Zenon
<1>9. ASSUME NEW t \in {";", "{", "}", "word"}, token = t,
             n # 0 => \/ t \in {";", "{"} /\ last # "word"
                      \/ t = "}" /\ last \in {"start", "word"}
      PROVE  ~ended /\ \A u \in Seq(Char) : ~IsFile(Lexemes[text \o u])
  <2>1. t \in {";", "{", "}", "unclosed", "word"} /\ t \in {"word"} \cup Symbol
    BY <1>7, Zenon
  <2>2. n > 0 => \/ t \in {";", "{"} /\ last # "word"
                 \/ t = "}" /\ last \in {"start", "word"}
                 \/ t = "unclosed"
    BY <1>5, <1>9, Zenon
  <2>3. \A v \in Seq(Kind) : ~IsBlock[toks \o (<<t>> \o v)]
    BY <1>5, <1>6, <2>1, <2>2, NothingFollows, Zenon
  <2> QED BY <1>2, <1>3, <1>9, <2>1, <2>3, NoContinuation, Zenon
<1>10. CASE EmptyStack
  <2>1. result' = "undefined" /\ token \in {"word", "}"} /\ n = 0
    BY <1>5, <1>10, Zenon DEF EmptyStack, Return, Taken
  <2>2. PICK t : t = token
    OBVIOUS
  <2>3. \A u \in Seq(Char) : ~IsFile(Lexemes[text \o u])
    BY <1>9, <2>1, <2>2, Zenon
  <2> QED BY <1>2, <2>1, <2>3, Zenon DEF Meaning, Judged
<1>11. CASE Accept
  <2>1. result' = "true" /\ token = "eof" /\ n = 1 /\ last \in {";", "}"}
    BY <1>4, <1>11, Zenon DEF Accept, Return, Taken
  <2> QED BY <1>2, <1>8, <2>1, Zenon DEF Meaning, Judged
<1>12. CASE Reject
  <2>1. result' = "false"
    BY <1>12, Zenon DEF Reject, Return
  <2>2. CASE token = "error"
    <3>1. ended /\ Uncut(text) = toks \o <<"unclosed">>
      BY <1>3, <2>2, Zenon DEF Scanned
    <3>2. <<"unclosed">> \o <<>> = <<"unclosed">> /\ <<>> \in Seq(Kind)
      BY ConcatEmptySeq, EmptySeq
    <3>3. "unclosed" \in {";", "{", "}", "unclosed", "word"}
      BY Zenon
    <3>4. \A v \in Seq(Kind) : ~IsBlock[toks \o (<<"unclosed">> \o v)]
      BY <1>5, <1>6, <3>3, NothingFollows, Zenon
    <3>5. ~IsFile(Uncut(text))
      BY <3>1, <3>2, <3>4, Zenon DEF IsFile
    <3> QED BY <1>2, <2>1, <3>1, <3>5, Zenon DEF Meaning, Judged
  <2>3. CASE token = "eof" /\ (n # 1 \/ last \notin {";", "}"})
    BY <1>2, <1>8, <2>1, <2>3, Zenon DEF Meaning, Judged
  <2>4. CASE \/ token \in {";", "{"} /\ last # "word"
             \/ token = "}" /\ last \notin {";", "}", "{"}
    <3>1. PICK t : t = token
      OBVIOUS
    <3>2. \/ t \in {";", "{"} /\ last # "word"
          \/ t = "}" /\ last \in {"start", "word"}
      BY <1>6, <2>4, <3>1, Zenon DEF Symbol
    <3>3. ~ended /\ \A u \in Seq(Char) : ~IsFile(Lexemes[text \o u])
      BY <1>9, <3>1, <3>2, Zenon
    <3> QED BY <1>2, <2>1, <3>3, Zenon DEF Meaning, Judged
  <2> QED BY <1>4, <1>12, <2>2, <2>3, <2>4, Zenon DEF Reject, Taken
<1> QED BY <1>10, <1>11, <1>12

LEMMA MeaningStep == ParserInv /\ [Next]_vars => ParserInv'
<1> SUFFICES ASSUME ParserInv, [Next]_vars PROVE ParserInv'
  OBVIOUS
<1>1. TypeOK' /\ WordIsPlaced'
  BY TypedStep DEF ParserInv
<1>2. ASSUME Parse PROVE Meaning'
  <2>1. CASE SkipComment \/ AddWord \/ EndStatement \/ OpenBlock \/ CloseBlock
    BY <2>1, ParseUnderstood
  <2>2. CASE EmptyStack \/ Accept \/ Reject
    BY <2>2, ReturnUnderstood
  <2> QED BY <1>2, <2>1, <2>2, Zenon DEF Parse
<1>3. ASSUME UNCHANGED vars PROVE Meaning'
  <2>1. /\ text' = text /\ ended' = ended /\ held' = held /\ state' = state /\ token' = token
        /\ last' = last /\ stack' = stack /\ result' = result
    BY <1>3, Zenon DEF vars, lexer, tree
  <2>2. \A toks : Scanned(toks) => Scanned(toks)'
    BY <2>1, Zenon DEF Scanned
  <2>3. Understood => Understood'
    BY <2>1, <2>2, Zenon DEF Understood
  <2>4. Judged => Judged'
    BY <2>1, Zenon DEF Judged
  <2> QED BY <2>1, <2>3, <2>4, Zenon DEF ParserInv, Meaning
<1>4. Meaning'
  <2>1. CASE Open
    BY <2>1, OpenUnderstood
  <2>2. CASE ParseToken
    BY <2>2, ReadUnderstood
  <2> QED BY <1>2, <1>3, <2>1, <2>2, Zenon DEF Next
<1> QED BY <1>1, <1>4 DEF ParserInv

\* No continuation at all makes a valid file of a text that Parse gave up or that
\* emptied its stack, and the tokens read so far leave open exactly the files
\* that the blocks on the stack and the last token allow (config_parser.cc:165).
THEOREM MeaningCorrect == Spec => []ParserInv
BY InitUnderstood, MeaningStep, PTL DEF Spec

LEMMA Texts ==
  ASSUME NEW S, NEW t \in Seq(S), NEW q \in Seq(S), NEW s \in Seq(S), NEW b \in Seq(S)
  PROVE  ((t \o q) \o s) \o b = t \o (q \o (s \o b)) /\ q \o (s \o b) \in Seq(S)
<1>1. PICK x \in Seq(S) : x = s \o b
  BY ConcatProperties
<1>2. PICK y \in Seq(S) : y = t \o q
  BY ConcatProperties
<1>3. (y \o s) \o b = y \o (s \o b)
  BY ConcatAssociative, SMTT(30)
<1>4. (t \o q) \o x = t \o (q \o x)
  BY ConcatAssociative, SMTT(30)
<1>5. q \o x \in Seq(S)
  BY ConcatProperties
<1> QED BY <1>1, <1>2, <1>3, <1>4, <1>5

LEMMA ShortTexts ==
  ASSUME NEW S
  PROVE  /\ <<>> \in Seq(S)
         /\ \A a \in S : <<a>> \in Seq(S)
         /\ \A a, c \in S : <<a, c>> \in Seq(S)
         /\ \A a \in S : \A k : \A n \in 0..k : [i \in 1..n |-> a] \in Seq(S)
<1>1. <<>> \in Seq(S) /\ \A a, c \in S : <<a>> \in Seq(S) /\ <<a, c>> \in Seq(S)
  OBVIOUS
<1>2. ASSUME NEW a \in S, NEW k, NEW n \in 0..k PROVE [i \in 1..n |-> a] \in Seq(S)
  <2>1. n \in Nat
    OBVIOUS
  <2> QED BY <2>1
<1> QED BY <1>1, <1>2

\* The continuations that Viable tries are texts.
LEMMA ViableContinues ==
  ASSUME NEW t \in Seq(Char), Viable(t)
  PROVE  \E u \in Seq(Char) : IsFile(Lexemes[t \o u])
<1>1. PICK q \in {<<>>, <<"'">>, <<"\"">>, <<"newline">>}, s \in {<<>>, <<";">>, <<"plain", ";">>},
           n \in 0..Len(SelectSeq(t, LAMBDA c : c = "{")) :
        IsFile(Lexemes[t \o q \o s \o [i \in 1..n |-> "}"]])
  BY Zenon DEF Viable
<1> DEFINE b == [i \in 1..n |-> "}"]
<1>2. {"'", "\"", "newline", ";", "plain", "}"} \subseteq Char
  BY Zenon DEF Char, Symbol, Other, Quote, Space
<1>3. q \in Seq(Char) /\ s \in Seq(Char) /\ b \in Seq(Char)
  BY <1>2, ShortTexts, Zenon
<1> HIDE DEF b
<1>4. t \o q \o s \o b = t \o (q \o (s \o b)) /\ q \o (s \o b) \in Seq(Char)
  BY <1>3, Texts, Zenon
<1>5. IsFile(Lexemes[t \o q \o s \o b])
  BY <1>1, Zenon DEF b
<1> QED BY <1>4, <1>5, Zenon

LEMMA JudgedRightly == ParserInv => AcceptsExactly /\ UndefinedOnlyIfInvalid
<1> SUFFICES ASSUME ParserInv PROVE AcceptsExactly /\ UndefinedOnlyIfInvalid
  OBVIOUS
<1>1. text \in Seq(Char) /\ Judged
  BY Zenon DEF ParserInv, TypeOK, Meaning
<1>2. Viable(text) => \E u \in Seq(Char) : IsFile(Lexemes[text \o u])
  BY <1>1, ViableContinues
<1> QED BY <1>1, <1>2, Zenon DEF Judged, AcceptsExactly, UndefinedOnlyIfInvalid

\* Parse accepts a file exactly if its tokens are statements in balanced blocks,
\* one at least, or are so once the word that the end of the file cuts off is
\* left out: a valid file is accepted, and of the others only those, such as
\* "a;b" (config_parser.cc:147).  It gives up before the end only if the text has
\* no valid continuation.  For files of every length and blocks of every depth.
THEOREM AcceptsExactlyTheFiles == Spec => []AcceptsExactly
BY MeaningCorrect, JudgedRightly, PTL

\* top() or pop() of an empty stack is reached only by a text that has no valid
\* continuation.
THEOREM UndefinedRightly == Spec => []UndefinedOnlyIfInvalid
BY MeaningCorrect, JudgedRightly, PTL

------------------------------------------------------------------------------
\* Numbered, for one more token.

Printable == [kind : Kind, no : Nat]
Counted(toks) == Cardinality(Words(toks))

LEMMA CountedAppend ==
  ASSUME NEW toks \in Seq(Kind), NEW t \in Kind
  PROVE  /\ Counted(toks) \in Nat
         /\ Counted(Append(toks, t)) = IF t = "word" THEN Counted(toks) + 1 ELSE Counted(toks)
<1>1. PICK n \in Nat : n = Len(toks)
  BY LenProperties
<1>2. PICK a \in Seq(Kind) : a = Append(toks, t)
  BY AppendProperties
<1>3. Len(a) = n + 1 /\ (\A i \in 1..n : a[i] = toks[i]) /\ a[n + 1] = t
  BY <1>1, <1>2, AppendProperties
<1>4. PICK k \in Nat : k = n + 1 /\ k \notin 1..n /\ 1..k = 1..n \cup {k}
  OBVIOUS
<1>5. IsFiniteSet(Words(toks)) /\ Counted(toks) \in Nat
  <2>1. IsFiniteSet(1..n) /\ Words(toks) \in SUBSET (1..n)
    BY <1>1, FS_Interval DEF Words
  <2> QED BY <2>1, FS_Subset, FS_CardinalityType DEF Counted
<1>6. Words(a) = IF t = "word" THEN Words(toks) \cup {k} ELSE Words(toks)
  <2>1. Words(a) = {i \in 1..n \cup {k} : a[i] = "word"} /\ Words(toks) = {i \in 1..n : toks[i] = "word"}
    BY <1>1, <1>3, <1>4 DEF Words
  <2>2. (\A i \in 1..n : a[i] = toks[i]) /\ a[k] = t
    BY <1>3, <1>4
  <2> QED BY <2>1, <2>2
<1>7. k \notin Words(toks)
  BY <1>1, <1>4 DEF Words
<1>8. Cardinality(Words(toks) \cup {k}) = Cardinality(Words(toks)) + 1
  BY <1>5, <1>7, FS_AddElement
<1> QED BY <1>2, <1>5, <1>6, <1>8 DEF Counted

\* The token after toks, numbered.
NextNumbered(toks, t) == Lexeme(t, IF t = "word" THEN Counted(toks) + 1 ELSE 0)

LEMMA NumberedIs ==
  ASSUME NEW toks \in Seq(Kind)
  PROVE  /\ Numbered(toks) \in Seq(Printable) /\ Len(Numbered(toks)) = Len(toks)
         /\ \A i \in 1..Len(toks) :
              Numbered(toks)[i] = Lexeme(toks[i], IF toks[i] = "word" THEN Counted(SubSeq(toks, 1, i)) ELSE 0)
<1>1. PICK n \in Nat : n = Len(toks)
  BY LenProperties
<1>2. ASSUME NEW i \in 1..n
      PROVE  Lexeme(toks[i], IF toks[i] = "word" THEN Counted(SubSeq(toks, 1, i)) ELSE 0) \in Printable
  <2>1. toks[i] \in Kind
    BY <1>1, ElementOfSeq
  <2>2. PICK k \in 1..Len(toks) + 1 : k - 1 = i
    BY <1>1
  <2>3. SubSeq(toks, 1, i) \in Seq(Kind)
    BY <2>2, HeadIs
  <2>4. Counted(SubSeq(toks, 1, i)) \in Nat
    BY <2>1, <2>3, CountedAppend
  <2> QED BY <2>1, <2>4 DEF Printable, Lexeme
<1>3. Numbered(toks) = [i \in 1..n |-> Lexeme(toks[i], IF toks[i] = "word" THEN Counted(SubSeq(toks, 1, i)) ELSE 0)]
  BY <1>1 DEF Numbered, Counted
<1> QED BY <1>1, <1>2, <1>3

LEMMA NumberedAppend ==
  ASSUME NEW toks \in Seq(Kind), NEW t \in Kind
  PROVE  /\ Numbered(toks) \in Seq(Printable) /\ NextNumbered(toks, t) \in Printable
         /\ Numbered(Append(toks, t)) = Append(Numbered(toks), NextNumbered(toks, t))
<1>1. PICK n \in Nat : n = Len(toks)
  BY LenProperties
<1>2. PICK a \in Seq(Kind) : a = Append(toks, t)
  BY AppendProperties
<1>3. PICK k \in Nat : k = n + 1
  OBVIOUS
<1>4. Len(a) = k /\ (\A i \in 1..n : a[i] = toks[i]) /\ a[k] = t
  BY <1>1, <1>2, <1>3, AppendProperties
<1>5. Counted(toks) \in Nat /\ Counted(a) = IF t = "word" THEN Counted(toks) + 1 ELSE Counted(toks)
  BY <1>2, CountedAppend
<1>6. NextNumbered(toks, t) \in Printable
  BY <1>5 DEF NextNumbered, Printable, Lexeme
<1>7. PICK x \in Seq(Printable) : x = Numbered(toks)
  BY NumberedIs
<1>8. PICK y \in Seq(Printable) : y = Numbered(a)
  BY NumberedIs
<1>9. PICK z \in Seq(Printable) : z = Append(x, NextNumbered(toks, t))
  BY <1>6, AppendProperties
<1>10. /\ Len(x) = n
       /\ \A i \in 1..n : x[i] = Lexeme(toks[i], IF toks[i] = "word" THEN Counted(SubSeq(toks, 1, i)) ELSE 0)
  BY <1>1, <1>7, NumberedIs
<1>11. /\ Len(y) = k
       /\ \A i \in 1..k : y[i] = Lexeme(a[i], IF a[i] = "word" THEN Counted(SubSeq(a, 1, i)) ELSE 0)
  BY <1>4, <1>8, NumberedIs
<1>12. Len(z) = k /\ (\A i \in 1..n : z[i] = x[i]) /\ z[k] = NextNumbered(toks, t)
  BY <1>3, <1>6, <1>9, <1>10, AppendProperties
<1>13. ASSUME NEW i \in 1..n PROVE y[i] = z[i]
  <2>1. SubSeq(a, 1, i) = SubSeq(toks, 1, i)
    <3>1. toks \in Seq(Kind) /\ <<t>> \in Seq(Kind) /\ a = toks \o <<t>>
      BY <1>2, AppendIsConcat
    <3>2. 1 \in 1..Len(toks) /\ i \in 1..Len(toks)
      BY <1>1
    <3> QED BY <3>1, <3>2, SubSeqOfConcat1
  <2>2. a[i] = toks[i] /\ i \in 1..k
    BY <1>3, <1>4
  <2> QED BY <1>10, <1>11, <1>12, <2>1, <2>2
<1>14. y[k] = z[k]
  <2>1. SubSeq(a, 1, k) = a
    BY <1>4, SubSeqFull
  <2>2. k \in 1..k
    BY <1>3
  <2>3. y[k] = Lexeme(t, IF t = "word" THEN Counted(a) ELSE 0)
    BY <1>4, <1>11, <2>1, <2>2
  <2> QED BY <1>5, <1>12, <2>3 DEF NextNumbered
<1>15. \A i \in 1..k : i \in 1..n \/ i = k
  BY <1>3
<1>16. y = z
  BY <1>11, <1>12, <1>13, <1>14, <1>15, SeqEqual
<1> QED BY <1>2, <1>6, <1>7, <1>8, <1>9, <1>16

------------------------------------------------------------------------------
\* What ToString prints of statements, with f for the text of every block.

Opening == Lexeme("{", 0)
Ending == Lexeme("}", 0)
Stop == Lexeme(";", 0)
WordsOf(ws) == [i \in 1..Len(ws) |-> Lexeme("word", ws[i])]
Stm(f, s) == StatementToString(s, IF s.child # 0 THEN f[s.child] ELSE <<>>)
Flat(f, b) == FlattenSeq([i \in 1..Len(b) |-> Stm(f, b[i])])
Prints(f, m) == \A b \in 1..m : f[b] \in Seq(Printable)

LEMMA Punctuation ==
  /\ Opening \in Printable /\ Ending \in Printable /\ Stop \in Printable
  /\ \A toks : /\ NextNumbered(toks, "{") = Opening /\ NextNumbered(toks, "}") = Ending
               /\ NextNumbered(toks, ";") = Stop
<1>1. 0 \in Nat
  OBVIOUS
<1>2. Opening \in Printable /\ Ending \in Printable /\ Stop \in Printable
  <2>1. "{" \in Kind /\ "}" \in Kind /\ ";" \in Kind
    BY Zenon DEF Kind, Symbol
  <2>2. \A k \in Kind : Lexeme(k, 0) \in Printable
    BY <1>1 DEF Lexeme, Printable
  <2> QED BY <2>1, <2>2, Zenon DEF Opening, Ending, Stop
<1>3. "{" # "word" /\ "}" # "word" /\ ";" # "word"
  BY Zenon
<1> QED BY <1>2, <1>3, Zenon DEF NextNumbered, Opening, Ending, Stop

LEMMA WordsOfAppend ==
  ASSUME NEW n \in Nat, NEW ws \in Seq(1..n), NEW k \in Nat
  PROVE  /\ WordsOf(ws) \in Seq(Printable) /\ WordsOf(<<>>) = <<>>
         /\ Lexeme("word", k) \in Printable
         /\ WordsOf(Append(ws, k)) = Append(WordsOf(ws), Lexeme("word", k))
<1>1. \A j \in Nat : Lexeme("word", j) \in Printable
  <2>1. "word" \in Kind
    BY Zenon DEF Kind
  <2> QED BY <2>1 DEF Printable, Lexeme
<1>2. ws \in Seq(Nat)
  <2>1. 1..n \subseteq Nat
    OBVIOUS
  <2> QED BY <2>1, SeqMonotonic
<1>3. ASSUME NEW vs \in Seq(Nat)
      PROVE  /\ WordsOf(vs) \in Seq(Printable) /\ Len(WordsOf(vs)) = Len(vs)
             /\ \A i \in 1..Len(vs) : WordsOf(vs)[i] = Lexeme("word", vs[i])
  <2>1. PICK l \in Nat : l = Len(vs)
    BY LenProperties
  <2>2. \A i \in 1..l : vs[i] \in Nat
    BY <2>1, ElementOfSeq
  <2>3. WordsOf(vs) = [i \in 1..l |-> Lexeme("word", vs[i])]
    BY <2>1 DEF WordsOf
  <2>4. \A i \in 1..l : Lexeme("word", vs[i]) \in Printable
    BY <1>1, <2>2
  <2> QED BY <2>1, <2>3, <2>4
<1>4. WordsOf(<<>>) = <<>>
  <2>1. <<>> \in Seq(Nat) /\ Len(<<>>) = 0
    BY EmptySeq
  <2>2. Len(WordsOf(<<>>)) = 0 /\ WordsOf(<<>>) \in Seq(Printable)
    BY <1>3, <2>1
  <2> QED BY <2>2, EmptySeq
<1>5. PICK l \in Nat : l = Len(ws)
  BY <1>2, LenProperties
<1>6. PICK m \in Nat : m = l + 1
  OBVIOUS
<1>7. PICK a \in Seq(Nat) : a = Append(ws, k)
  BY <1>2, AppendProperties
<1>8. Len(a) = m /\ (\A i \in 1..l : a[i] = ws[i]) /\ a[m] = k
  BY <1>2, <1>5, <1>6, <1>7, AppendProperties
<1>9. PICK x \in Seq(Printable) : x = WordsOf(ws)
  BY <1>2, <1>3
<1>10. Len(x) = l /\ \A i \in 1..l : x[i] = Lexeme("word", ws[i])
  BY <1>2, <1>3, <1>5, <1>9
<1>11. PICK y \in Seq(Printable) : y = WordsOf(a)
  BY <1>3
<1>12. Len(y) = m /\ \A i \in 1..m : y[i] = Lexeme("word", a[i])
  BY <1>3, <1>8, <1>11
<1>13. PICK z \in Seq(Printable) : z = Append(x, Lexeme("word", k))
  BY <1>1, AppendProperties
<1>14. Len(z) = m /\ (\A i \in 1..l : z[i] = x[i]) /\ z[m] = Lexeme("word", k)
  BY <1>1, <1>6, <1>10, <1>13, AppendProperties
<1>15. \A i \in 1..m : i \in 1..l \/ i = m
  BY <1>6
<1>16. \A i \in 1..m : y[i] = z[i]
  BY <1>8, <1>10, <1>12, <1>14, <1>15
<1>17. y = z
  BY <1>12, <1>14, <1>16, SeqEqual
<1> QED BY <1>1, <1>4, <1>7, <1>9, <1>11, <1>13, <1>17

LEMMA StatementPrinted ==
  ASSUME NEW f, NEW ws
  PROVE  /\ Stm(f, [words |-> ws, child |-> 0]) = WordsOf(ws) \o <<Stop>>
         /\ \A c : c # 0 => Stm(f, [words |-> ws, child |-> c])
                            = WordsOf(ws) \o (<<Opening>> \o f[c] \o <<Ending>>)
<1>1. \A c : [words |-> ws, child |-> c].words = ws /\ [words |-> ws, child |-> c].child = c
  OBVIOUS
<1>2. \A s : /\ s.child = 0 => Stm(f, s) = WordsOf(s.words) \o <<Stop>>
             /\ s.child # 0 => Stm(f, s) = WordsOf(s.words) \o (<<Opening>> \o f[s.child] \o <<Ending>>)
  BY Zenon DEF Stm, StatementToString, WordsOf, Opening, Ending, Stop
<1> QED BY <1>1, <1>2

LEMMA StatementPrintable ==
  ASSUME NEW n \in Nat, NEW m \in Nat, NEW s \in Statement(n, m), NEW f, Prints(f, m)
  PROVE  Stm(f, s) \in Seq(Printable)
<1>1. PICK ws \in Seq(1..n), c \in 0..m : s = [words |-> ws, child |-> c]
  BY DEF Statement
<1>2. WordsOf(ws) \in Seq(Printable)
  BY WordsOfAppend
<1>3. <<Opening>> \in Seq(Printable) /\ <<Ending>> \in Seq(Printable) /\ <<Stop>> \in Seq(Printable)
  <2>1. \A p \in Printable : <<p>> \in Seq(Printable)
    OBVIOUS
  <2> QED BY <2>1, Punctuation
<1>4. CASE c = 0
  <2>1. WordsOf(ws) \o <<Stop>> \in Seq(Printable)
    BY <1>2, <1>3, ConcatProperties
  <2>2. Stm(f, s) = WordsOf(ws) \o <<Stop>>
    BY <1>1, <1>4, StatementPrinted
  <2> QED BY <2>1, <2>2
<1>5. CASE c # 0
  <2>1. f[c] \in Seq(Printable)
    BY <1>5 DEF Prints
  <2>2. <<Opening>> \o f[c] \in Seq(Printable)
    BY <1>3, <2>1, ConcatProperties
  <2>3. <<Opening>> \o f[c] \o <<Ending>> \in Seq(Printable)
    BY <1>3, <2>2, ConcatProperties
  <2>4. WordsOf(ws) \o (<<Opening>> \o f[c] \o <<Ending>>) \in Seq(Printable)
    BY <1>2, <2>3, ConcatProperties
  <2> QED BY <1>1, <1>5, <2>4, StatementPrinted
<1> QED BY <1>4, <1>5

LEMMA FlatAppend ==
  ASSUME NEW n \in Nat, NEW m \in Nat, NEW b \in Seq(Statement(n, m)), NEW s \in Statement(n, m),
         NEW f, Prints(f, m)
  PROVE  /\ Flat(f, b) \in Seq(Printable) /\ Flat(f, <<>>) = <<>>
         /\ Flat(f, Append(b, s)) = Flat(f, b) \o Stm(f, s)
<1> DEFINE Map(d) == [i \in 1..Len(d) |-> Stm(f, d[i])]
<1>1. ASSUME NEW d \in Seq(Statement(n, m))
      PROVE  /\ Map(d) \in Seq(Seq(Printable)) /\ Len(Map(d)) = Len(d)
             /\ \A i \in 1..Len(d) : Map(d)[i] = Stm(f, d[i])
  <2>1. PICK l \in Nat : l = Len(d)
    BY LenProperties
  <2>2. \A i \in 1..l : Stm(f, d[i]) \in Seq(Printable)
    <3>1. \A i \in 1..l : d[i] \in Statement(n, m)
      BY <2>1, ElementOfSeq
    <3> QED BY <3>1, StatementPrintable
  <2>3. Map(d) = [i \in 1..l |-> Stm(f, d[i])]
    BY <2>1
  <2> HIDE DEF Map
  <2> QED BY <2>1, <2>2, <2>3
<1> HIDE DEF Map
<1>2. Map(<<>>) = <<>>
  <2>1. <<>> \in Seq(Statement(n, m)) /\ Len(<<>>) = 0
    BY EmptySeq
  <2>2. Len(Map(<<>>)) = 0 /\ Map(<<>>) \in Seq(Seq(Printable))
    BY <1>1, <2>1
  <2> QED BY <2>2, EmptySeq
<1>3. Stm(f, s) \in Seq(Printable)
  BY StatementPrintable
<1>4. Map(Append(b, s)) = Append(Map(b), Stm(f, s))
  <2>1. PICK l \in Nat : l = Len(b)
    BY LenProperties
  <2>2. PICK k \in Nat : k = l + 1
    OBVIOUS
  <2>3. PICK a \in Seq(Statement(n, m)) : a = Append(b, s)
    BY AppendProperties
  <2>4. Len(a) = k /\ (\A i \in 1..l : a[i] = b[i]) /\ a[k] = s
    BY <2>1, <2>2, <2>3, AppendProperties
  <2>5. PICK x \in Seq(Seq(Printable)) : x = Map(b)
    BY <1>1
  <2>6. Len(x) = l /\ \A i \in 1..l : x[i] = Stm(f, b[i])
    BY <1>1, <2>1, <2>5
  <2>7. PICK y \in Seq(Seq(Printable)) : y = Map(a)
    BY <1>1
  <2>8. Len(y) = k /\ \A i \in 1..k : y[i] = Stm(f, a[i])
    BY <1>1, <2>4, <2>7
  <2>9. PICK z \in Seq(Seq(Printable)) : z = Append(x, Stm(f, s))
    BY <1>3, AppendProperties
  <2>10. Len(z) = k /\ (\A i \in 1..l : z[i] = x[i]) /\ z[k] = Stm(f, s)
    BY <1>3, <2>2, <2>6, <2>9, AppendProperties
  <2>11. \A i \in 1..k : i \in 1..l \/ i = k
    BY <2>2
  <2>12. \A i \in 1..k : y[i] = z[i]
    BY <2>4, <2>6, <2>8, <2>10, <2>11
  <2>13. y = z
    BY <2>8, <2>10, <2>12, SeqEqual
  <2> QED BY <2>3, <2>5, <2>7, <2>9, <2>13
<1>5. \A d : Flat(f, d) = FlattenSeq(Map(d))
  BY Zenon DEF Flat, Map
<1>6. Map(b) \in Seq(Seq(Printable))
  BY <1>1
<1>7. FlattenSeq(Map(b)) \in Seq(Printable) /\ FlattenSeq(Append(Map(b), Stm(f, s))) = FlattenSeq(Map(b)) \o Stm(f, s)
  BY <1>3, <1>6, FlattenAppend
<1> QED BY <1>2, <1>4, <1>5, <1>7, FlattenNothing, Zenon

------------------------------------------------------------------------------
\* ConfigToString of a tree.

\* Statements of block b: a child block is made after its parent.
StatementOf(n, m, b) == [words : Seq(1..n), child : {0} \cup (b + 1..m)]
IsTree == \A b \in 1..Len(blocks) : blocks[b] \in Seq(StatementOf(words, Len(blocks), b))

LEMMA StatementOfIs ==
  ASSUME NEW n \in Nat, NEW m \in Nat, NEW b \in 1..m
  PROVE  StatementOf(n, m, b) \subseteq Statement(n, m)
<1>1. {0} \cup (b + 1..m) \subseteq 0..m
  OBVIOUS
<1> QED BY <1>1 DEF StatementOf, Statement

LEMMA FlatSame ==
  ASSUME NEW n \in Nat, NEW m \in Nat, NEW b \in 1..m, NEW d \in Seq(StatementOf(n, m, b)), NEW f, NEW g,
         \A c \in 1..m : c > b => f[c] = g[c]
  PROVE  Flat(f, d) = Flat(g, d)
<1>1. PICK l \in Nat : l = Len(d)
  BY LenProperties
<1>2. ASSUME NEW i \in 1..l PROVE Stm(f, d[i]) = Stm(g, d[i])
  <2>1. d[i] \in StatementOf(n, m, b)
    BY <1>1, ElementOfSeq
  <2>2. PICK s : s = d[i]
    OBVIOUS
  <2>3. s.child \in {0} \cup (b + 1..m)
    BY <2>1, <2>2 DEF StatementOf
  <2>4. s.child # 0 => s.child \in 1..m /\ s.child > b
    BY <2>3
  <2>5. s.child # 0 => f[s.child] = g[s.child]
    BY <2>4
  <2>6. (IF s.child # 0 THEN f[s.child] ELSE <<>>) = (IF s.child # 0 THEN g[s.child] ELSE <<>>)
    BY <2>5
  <2> QED BY <2>2, <2>6, Zenon DEF Stm
<1>3. [i \in 1..l |-> Stm(f, d[i])] = [i \in 1..l |-> Stm(g, d[i])]
  BY <1>2
<1> QED BY <1>1, <1>3 DEF Flat

LEMMA TreePrints ==
  ASSUME NEW n \in Nat, NEW m \in Nat, \A b \in 1..m : blocks[b] \in Seq(StatementOf(n, m, b))
  PROVE  \E F : F \in [1..m -> Seq(Printable)] /\ \A b \in 1..m : F[b] = Flat(F, blocks[b])
<1>1. ASSUME NEW b \in 1..m, NEW F, Prints(F, m) PROVE Flat(F, blocks[b]) \in Seq(Printable)
  <2>1. blocks[b] \in Seq(StatementOf(n, m, b))
    OBVIOUS
  <2>2. blocks[b] \in Seq(Statement(n, m))
    BY <2>1, StatementOfIs, SeqMonotonic
  <2>3. PICK s : s \in Statement(n, m)
    <3>1. <<>> \in Seq(1..n) /\ 0 \in 0..m
      BY EmptySeq
    <3>2. [words |-> <<>>, child |-> 0] \in Statement(n, m)
      BY <3>1 DEF Statement
    <3> QED BY <3>2
  <2> QED BY <1>1, <2>2, <2>3, FlatAppend
<1> DEFINE Good(F, k) == /\ F \in [1..m -> Seq(Printable)]
                         /\ \A b \in 1..m : b > m - k => F[b] = Flat(F, blocks[b])
           K == {k \in Nat : k <= m => \E F : Good(F, k)}
<1>2. 0 \in K
  <2>1. <<>> \in Seq(Printable)
    BY EmptySeq
  <2>2. [b \in 1..m |-> <<>>] \in [1..m -> Seq(Printable)]
    BY <2>1
  <2>3. \A b \in 1..m : ~(b > m - 0)
    OBVIOUS
  <2>4. Good([b \in 1..m |-> <<>>], 0)
    BY <2>2, <2>3
  <2> HIDE DEF Good
  <2> QED BY <2>4
<1>3. ASSUME NEW k \in Nat, k \in K PROVE k + 1 \in K
  <2> SUFFICES ASSUME k + 1 <= m PROVE \E F : Good(F, k + 1)
    <3> HIDE DEF Good
    <3> QED OBVIOUS
  <2>1. PICK F : Good(F, k)
    <3>1. k <= m
      OBVIOUS
    <3> HIDE DEF Good
    <3> QED BY <1>3, <3>1
  <2>2. PICK c \in 1..m : c = m - k
    OBVIOUS
  <2>3. PICK x \in Seq(Printable) : x = Flat(F, blocks[c])
    BY <1>1, <2>1 DEF Prints
  <2> DEFINE G == [F EXCEPT ![c] = x]
  <2>4. G \in [1..m -> Seq(Printable)]
    BY <2>1
  <2>5. G[c] = x /\ \A b \in 1..m : b > c => G[b] = F[b]
    BY <2>1
  <2>6. ASSUME NEW b \in 1..m, b > m - (k + 1) PROVE G[b] = Flat(G, blocks[b])
    <3>1. b = c \/ b > c
      BY <2>2, <2>6
    <3>2. \A a \in 1..m : a > b => G[a] = F[a]
      BY <2>5, <3>1
    <3>3. Flat(G, blocks[b]) = Flat(F, blocks[b])
      <4>1. blocks[b] \in Seq(StatementOf(n, m, b))
        OBVIOUS
      <4> HIDE DEF G
      <4> QED BY <3>2, <4>1, FlatSame
    <3>4. b > c => F[b] = Flat(F, blocks[b])
      BY <2>1, <2>2
    <3> HIDE DEF G
    <3> QED BY <2>3, <2>5, <3>1, <3>3, <3>4
  <2>7. Good(G, k + 1)
    <3> HIDE DEF G
    <3> QED BY <2>4, <2>6
  <2> HIDE DEF Good, G
  <2> QED BY <2>7
<1>4. m \in K
  <2> HIDE DEF K
  <2> QED BY <1>2, <1>3, Induction
<1>5. PICK F : Good(F, m)
  <2> HIDE DEF Good
  <2> QED BY <1>4
<1>6. \A b \in 1..m : b > m - m
  OBVIOUS
<1> QED BY <1>5, <1>6

LEMMA ConfigToStringIs ==
  ASSUME TypeOK, IsTree
  PROVE  /\ Prints(ConfigToString, Len(blocks))
         /\ \A b \in 1..Len(blocks) : ConfigToString[b] = Flat(ConfigToString, blocks[b])
<1>1. PICK m : m = Len(blocks)
  OBVIOUS
<1>2. m \in Nat /\ words \in Nat /\ \A b \in 1..m : blocks[b] \in Seq(StatementOf(words, m, b))
  BY <1>1, LenProperties DEF TypeOK, IsTree
<1>3. PICK F : F \in [1..m -> Seq(Printable)] /\ \A b \in 1..m : F[b] = Flat(F, blocks[b])
  BY <1>2, TreePrints
<1> DEFINE Eq(G) == G = [b \in 1..Len(blocks) |-> Flat(G, blocks[b])]
<1>4. Eq(F)
  BY <1>1, <1>3
<1>5. ConfigToString = CHOOSE G : Eq(G)
  BY DEF ConfigToString, Flat, Stm
<1>6. Eq(ConfigToString)
  <2> HIDE DEF Eq
  <2> QED BY <1>4, <1>5
<1>7. PICK G : G = ConfigToString
  OBVIOUS
<1>8. \A b \in 1..m : G[b] = Flat(G, blocks[b])
  BY <1>1, <1>6, <1>7
<1> DEFINE K == {k \in Nat : \A b \in 1..m : b > m - k => G[b] = F[b]}
<1>9. 0 \in K
  BY <1>2
<1>10. ASSUME NEW k \in Nat, k \in K PROVE k + 1 \in K
  <2> SUFFICES ASSUME NEW b \in 1..m, b > m - (k + 1) PROVE G[b] = F[b]
    OBVIOUS
  <2>1. \A a \in 1..m : a > b => a > m - k
    BY <1>2, <1>10
  <2>2. \A a \in 1..m : a > b => G[a] = F[a]
    BY <1>10, <2>1
  <2>3. Flat(G, blocks[b]) = Flat(F, blocks[b])
    <3>1. blocks[b] \in Seq(StatementOf(words, m, b))
      BY <1>2
    <3> QED BY <1>2, <2>2, <3>1, FlatSame
  <2> QED BY <1>3, <1>8, <2>3
<1>11. m \in K
  <2> HIDE DEF K
  <2> QED BY <1>2, <1>9, <1>10, Induction
<1>12. \A b \in 1..m : G[b] = F[b]
  <2>1. \A b \in 1..m : b > m - m
    BY <1>2
  <2> QED BY <1>11, <2>1
<1>13. Prints(G, m)
  BY <1>3, <1>12 DEF Prints
<1> QED BY <1>1, <1>7, <1>8, <1>13

------------------------------------------------------------------------------
\* The tree while it is built.

\* The statements that are whole, and the words of the one that is not.
Whole(b, lst) == IF lst = "word" THEN Front(b) ELSE b
Pending(b, lst) == IF lst = "word" THEN WordsOf(Last(b).words) ELSE <<>>

\* The open blocks are distinct, and each is the child of the last statement of
\* the one below.
OpenBlocks ==
  /\ stack # <<>> => stack[1] = Root
  /\ \A i, j \in 1..Len(stack) : stack[i] = stack[j] => i = j
  /\ \A i \in 1..Len(stack) - 1 :
       blocks[stack[i]] # <<>> /\ Last(blocks[stack[i]]).child = stack[i + 1]
  /\ last = "word" => Last(blocks[Top]).child = 0

LEMMA StatementsOfGrow ==
  ASSUME NEW n \in Nat, NEW m \in Nat, NEW n1 \in Nat, NEW m1 \in Nat, n <= n1, m <= m1, NEW b \in 1..m
  PROVE  /\ StatementOf(n, m, b) \subseteq StatementOf(n1, m1, b)
         /\ \A d \in Seq(StatementOf(n, m, b)) : d \in Seq(StatementOf(n1, m1, b))
<1>1. \A s \in Seq(1..n) : s \in Seq(1..n1)
  BY SeqMonotonic
<1>2. {0} \cup (b + 1..m) \subseteq {0} \cup (b + 1..m1)
  OBVIOUS
<1>3. StatementOf(n, m, b) \subseteq StatementOf(n1, m1, b)
  BY <1>1, <1>2 DEF StatementOf
<1> QED BY <1>3, SeqMonotonic

SetWords(s, vs) == [s EXCEPT !.words = vs]
SetChild(s, c) == [s EXCEPT !.child = c]
WithWords(a, vs) == [a EXCEPT ![Len(a)].words = vs]
WithChild(a, c) == [a EXCEPT ![Len(a)].child = c]

LEMMA LastChanged ==
  ASSUME NEW S, NEW h \in Seq(S), NEW s \in S
  PROVE  /\ Append(h, s)[Len(Append(h, s))] = s
         /\ \A vs : SetWords(s, vs) \in S => WithWords(Append(h, s), vs) = Append(h, SetWords(s, vs))
         /\ \A c : SetChild(s, c) \in S => WithChild(Append(h, s), c) = Append(h, SetChild(s, c))
<1>1. PICK a : a = Append(h, s)
  OBVIOUS
<1>2. a[Len(a)] = s /\ \A t \in S : [a EXCEPT ![Len(a)] = t] = Append(h, t)
  BY <1>1, AppendParts
<1>3. ASSUME NEW vs, SetWords(s, vs) \in S PROVE WithWords(a, vs) = Append(h, SetWords(s, vs))
  <2>1. WithWords(a, vs) = [a EXCEPT ![Len(a)] = SetWords(a[Len(a)], vs)]
    BY DEF WithWords, SetWords
  <2>2. PICK t \in S : t = SetWords(s, vs) /\ t = SetWords(a[Len(a)], vs)
    BY <1>2, <1>3
  <2> QED BY <1>2, <2>1, <2>2
<1>4. ASSUME NEW c, SetChild(s, c) \in S PROVE WithChild(a, c) = Append(h, SetChild(s, c))
  <2>1. WithChild(a, c) = [a EXCEPT ![Len(a)] = SetChild(a[Len(a)], c)]
    BY DEF WithChild, SetChild
  <2>2. PICK t \in S : t = SetChild(s, c) /\ t = SetChild(a[Len(a)], c)
    BY <1>2, <1>4
  <2> QED BY <1>2, <2>1, <2>2
<1> QED BY <1>1, <1>2, <1>3, <1>4

\* The block on the top, its whole statements and the words of the last one.
TopIs(n, m, h, ws) ==
  /\ h \in Seq(StatementOf(n, m, Top)) /\ ws \in Seq(1..n)
  /\ Whole(blocks[Top], last) = h /\ Pending(blocks[Top], last) = WordsOf(ws)
  /\ last = "word" => blocks[Top] = Append(h, [words |-> ws, child |-> 0])
  /\ last # "word" => blocks[Top] = h /\ ws = <<>>

LEMMA TopBlock ==
  ASSUME TypeOK, WordIsPlaced, IsTree, OpenBlocks, stack # <<>>, NEW n, n = words, NEW m, m = Len(blocks)
  PROVE  \E h, ws : TopIs(n, m, h, ws)
<1>1. n \in Nat /\ m \in Nat /\ Top \in 1..m
  BY TopIsABlock, LenProperties DEF TypeOK
<1>2. PICK b : b = blocks[Top]
  OBVIOUS
<1>3. b \in Seq(StatementOf(n, m, Top))
  BY <1>1, <1>2 DEF IsTree
<1>4. CASE last = "word"
  <2>1. b # <<>> /\ Last(b).child = 0
    BY <1>2, <1>4 DEF WordIsPlaced, OpenBlocks
  <2>2. PICK s : s = Last(b)
    OBVIOUS
  <2>3. Front(b) \in Seq(StatementOf(n, m, Top)) /\ s \in StatementOf(n, m, Top) /\ b = Append(Front(b), s)
    BY <1>3, <2>1, <2>2, FrontAndLast DEF Last
  <2>4. s.child = 0
    BY <2>1, <2>2
  <2>5. PICK ws \in Seq(1..n) : s = [words |-> ws, child |-> 0]
    BY <2>3, <2>4 DEF StatementOf
  <2>6. s.words = ws
    BY <2>5
  <2>7. Whole(b, last) = Front(b) /\ Pending(b, last) = WordsOf(ws)
    BY <1>4, <2>2, <2>6 DEF Whole, Pending
  <2>8. TopIs(n, m, Front(b), ws)
    BY <1>2, <1>4, <2>3, <2>5, <2>7 DEF TopIs
  <2> QED BY <2>8
<1>5. CASE last # "word"
  <2>1. <<>> \in Seq(1..n) /\ WordsOf(<<>>) = <<>>
    BY <1>1, EmptySeq, WordsOfAppend
  <2>2. Whole(b, last) = b /\ Pending(b, last) = <<>>
    BY <1>5 DEF Whole, Pending
  <2>3. TopIs(n, m, b, <<>>)
    BY <1>2, <1>3, <1>5, <2>1, <2>2 DEF TopIs
  <2> QED BY <2>3
<1> QED BY <1>4, <1>5

LEMMA WordAdded ==
  ASSUME NEW n \in Nat, NEW m \in Nat, NEW h, NEW ws, TopIs(n, m, h, ws), Top \in 1..m, NEW k, k = n + 1
  PROVE  /\ Extended(blocks[Top], k) = Append(h, [words |-> Append(ws, k), child |-> 0])
         /\ h \in Seq(StatementOf(k, m, Top)) /\ Append(ws, k) \in Seq(1..k)
         /\ [words |-> Append(ws, k), child |-> 0] \in StatementOf(k, m, Top)
<1>1. k \in Nat /\ n <= k /\ m <= m
  OBVIOUS
<1>2. h \in Seq(StatementOf(n, m, Top)) /\ ws \in Seq(1..n)
  BY DEF TopIs
<1>3. h \in Seq(StatementOf(k, m, Top))
  BY <1>1, <1>2, StatementsOfGrow
<1>4. ws \in Seq(1..k) /\ Append(ws, k) \in Seq(1..k)
  <2>1. ws \in Seq(1..k) /\ k \in 1..k
    BY <1>1, <1>2, SeqMonotonic
  <2> QED BY <2>1, AppendProperties
<1>5. \A vs \in Seq(1..k) : [words |-> vs, child |-> 0] \in StatementOf(k, m, Top)
  BY DEF StatementOf
<1>6. PICK s \in StatementOf(k, m, Top) : s = [words |-> ws, child |-> 0]
  BY <1>4, <1>5
<1>7. s.words = ws /\ SetWords(s, Append(ws, k)) = [words |-> Append(ws, k), child |-> 0]
  BY <1>6 DEF SetWords
<1> DEFINE open == IF last = "word" THEN blocks[Top] ELSE Append(blocks[Top], NewStatement)
<1>8. open = Append(h, s)
  BY <1>6 DEF TopIs, NewStatement
<1>9. Extended(blocks[Top], k) = WithWords(open, Append(open[Len(open)].words, k))
  BY DEF Extended, WithWords
<1> HIDE DEF open
<1>10. SetWords(s, Append(ws, k)) \in StatementOf(k, m, Top)
  BY <1>4, <1>5, <1>7
<1>11. WithWords(Append(h, s), Append(ws, k)) = Append(h, SetWords(s, Append(ws, k)))
  BY <1>3, <1>10, LastChanged
<1>12. open[Len(open)].words = ws
  BY <1>3, <1>7, <1>8, LastChanged
<1> QED BY <1>3, <1>4, <1>7, <1>8, <1>9, <1>10, <1>11, <1>12

LEMMA ChildAdded ==
  ASSUME NEW n \in Nat, NEW m \in Nat, NEW h, NEW ws, TopIs(n, m, h, ws), Top \in 1..m, last = "word",
         NEW k, k = m + 1
  PROVE  /\ WithChild(blocks[Top], k) = Append(h, [words |-> ws, child |-> k])
         /\ h \in Seq(StatementOf(n, k, Top))
         /\ [words |-> ws, child |-> k] \in StatementOf(n, k, Top)
<1>1. k \in Nat /\ m <= k /\ n <= n
  OBVIOUS
<1>2. h \in Seq(StatementOf(n, m, Top)) /\ ws \in Seq(1..n) /\ blocks[Top] = Append(h, [words |-> ws, child |-> 0])
  BY DEF TopIs
<1>3. h \in Seq(StatementOf(n, k, Top))
  BY <1>1, <1>2, StatementsOfGrow
<1>4. k \in {0} \cup (Top + 1..k) /\ 0 \in {0} \cup (Top + 1..k)
  OBVIOUS
<1>5. \A c \in {0, k} : [words |-> ws, child |-> c] \in StatementOf(n, k, Top)
  BY <1>2, <1>4 DEF StatementOf
<1>6. PICK s \in StatementOf(n, k, Top) : s = [words |-> ws, child |-> 0]
  BY <1>5
<1>7. SetChild(s, k) = [words |-> ws, child |-> k] /\ SetChild(s, k) \in StatementOf(n, k, Top)
  BY <1>5, <1>6 DEF SetChild
<1>8. WithChild(Append(h, s), k) = Append(h, SetChild(s, k))
  BY <1>3, <1>7, LastChanged
<1> QED BY <1>2, <1>3, <1>6, <1>7, <1>8

------------------------------------------------------------------------------
\* What the actions of Parse do to the tree, the stack not being empty.

Here(n, m, l, p) ==
  /\ n = words /\ n \in Nat /\ m = Len(blocks) /\ m \in Nat
  /\ l = Len(stack) /\ l \in Nat \ {0} /\ p = Top /\ p = stack[l] /\ p \in 1..m
  /\ \A i \in 1..l : stack[i] \in 1..m
  /\ \A i \in 1..l - 1 : stack[i] # p
  /\ \A b \in 1..m : blocks[b] \in Seq(StatementOf(n, m, b))

BuildInv == TypeOK /\ WordIsPlaced /\ IsTree /\ OpenBlocks

LEMMA HereIs ==
  ASSUME BuildInv, stack # <<>>
  PROVE  \E n, m, l, p, h, ws : Here(n, m, l, p) /\ TopIs(n, m, h, ws)
<1>1. TypeOK /\ WordIsPlaced /\ IsTree /\ OpenBlocks
  BY DEF BuildInv
<1>2. PICK n, m, l, p : n = words /\ m = Len(blocks) /\ l = Len(stack) /\ p = Top
  OBVIOUS
<1>3. l \in Nat \ {0} /\ p \in 1..m
  BY <1>1, <1>2, TopIsABlock
<1>4. n \in Nat /\ m \in Nat /\ stack \in Seq(1..m) /\ p = stack[l]
  BY <1>1, <1>2, LenProperties DEF TypeOK, Top
<1>5. \A i \in 1..l : stack[i] \in 1..m
  BY <1>2, <1>4, ElementOfSeq
<1>6. \A i \in 1..l - 1 : stack[i] # p
  <2>1. \A i \in 1..l - 1 : i \in 1..l /\ l \in 1..l /\ i # l
    BY <1>3
  <2> QED BY <1>1, <1>2, <1>4, <2>1 DEF OpenBlocks
<1>7. Here(n, m, l, p)
  BY <1>1, <1>2, <1>3, <1>4, <1>5, <1>6 DEF Here, IsTree
<1>8. \E h, ws : TopIs(n, m, h, ws)
  BY <1>1, <1>2, TopBlock
<1> QED BY <1>7, <1>8

LEMMA AddWordDoes ==
  ASSUME BuildInv, AddWord, NEW n, NEW m, NEW l, NEW p, NEW h, NEW ws, Here(n, m, l, p), TopIs(n, m, h, ws),
         NEW k, k = n + 1
  PROVE  /\ words' = k /\ stack' = stack /\ last' = "word" /\ Len(blocks') = m
         /\ blocks'[p] = Append(h, [words |-> Append(ws, k), child |-> 0])
         /\ \A b \in 1..m : b # p => blocks'[b] = blocks[b]
<1>1. PICK e : e = Extended(blocks[Top], k)
  OBVIOUS
<1>2. words' = k /\ stack' = stack /\ last' = "word" /\ blocks' = [blocks EXCEPT ![p] = e]
  BY <1>1 DEF AddWord, Here
<1>3. e = Append(h, [words |-> Append(ws, k), child |-> 0])
  <2>1. n \in Nat /\ m \in Nat /\ Top \in 1..m
    BY DEF Here
  <2>2. Extended(blocks[Top], k) = Append(h, [words |-> Append(ws, k), child |-> 0])
    BY <2>1, WordAdded
  <2> QED BY <1>1, <2>2
<1>4. DOMAIN blocks = 1..m /\ blocks \in Seq(Seq(Statement(n, m))) /\ p \in 1..m
  BY LenProperties DEF Here, BuildInv, TypeOK, Statement
<1>5. blocks'[p] = e /\ DOMAIN blocks' = 1..m /\ \A b \in 1..m : b # p => blocks'[b] = blocks[b]
  BY <1>2, <1>4
<1>6. Len(blocks') = m
  <2>1. h \in Seq(StatementOf(k, m, p)) /\ [words |-> Append(ws, k), child |-> 0] \in StatementOf(k, m, p)
    BY WordAdded DEF Here
  <2>2. k \in Nat /\ n <= k /\ m <= m
    BY DEF Here
  <2>3. e \in Seq(Statement(k, m))
    <3>1. e \in Seq(StatementOf(k, m, p))
      BY <1>3, <2>1, AppendProperties
    <3> QED BY <1>4, <2>2, <3>1, StatementOfIs, SeqMonotonic DEF Here
  <2>4. blocks \in Seq(Seq(Statement(k, m)))
    BY <1>4, <2>2, StatementsGrow DEF Here
  <2>5. Len([blocks EXCEPT ![p] = e]) = Len(blocks)
    BY <1>4, <2>3, <2>4, ExceptSeq DEF Here
  <2> QED BY <1>2, <2>5 DEF Here
<1> QED BY <1>2, <1>3, <1>5, <1>6

LEMMA OpenBlockDoes ==
  ASSUME BuildInv, OpenBlock, NEW n, NEW m, NEW l, NEW p, NEW h, NEW ws, Here(n, m, l, p), TopIs(n, m, h, ws),
         NEW k, k = m + 1
  PROVE  /\ words' = n /\ last = "word" /\ last' # "word" /\ Len(blocks') = k
         /\ blocks'[p] = Append(h, [words |-> ws, child |-> k]) /\ blocks'[k] = <<>>
         /\ \A b \in 1..m : b # p => blocks'[b] = blocks[b]
         /\ Len(stack') = l + 1 /\ (\A i \in 1..l : stack'[i] = stack[i]) /\ stack'[l + 1] = k
<1>1. last = "word" /\ last' # "word" /\ words' = words /\ stack' = Append(stack, Len(blocks) + 1)
  BY Zenon DEF OpenBlock
<1>2. PICK e : e = WithChild(blocks[Top], k)
  OBVIOUS
<1>3. PICK d : d = [blocks EXCEPT ![p] = e]
  OBVIOUS
<1>4. blocks' = Append(d, <<>>)
  <2>1. blocks' = Append([blocks EXCEPT ![Top][Len(blocks[Top])].child = Len(blocks) + 1], <<>>)
    BY Zenon DEF OpenBlock
  <2>2. p = Top /\ k = Len(blocks) + 1
    BY DEF Here
  <2>3. [blocks EXCEPT ![Top][Len(blocks[Top])].child = Len(blocks) + 1]
        = [blocks EXCEPT ![Top] = WithChild(blocks[Top], Len(blocks) + 1)]
    BY DEF WithChild
  <2> QED BY <1>2, <1>3, <2>1, <2>2, <2>3
<1>5. /\ e = Append(h, [words |-> ws, child |-> k]) /\ h \in Seq(StatementOf(n, k, p))
      /\ [words |-> ws, child |-> k] \in StatementOf(n, k, p)
  <2>1. n \in Nat /\ m \in Nat /\ Top \in 1..m /\ p = Top
    BY DEF Here
  <2>2. /\ WithChild(blocks[Top], k) = Append(h, [words |-> ws, child |-> k])
        /\ h \in Seq(StatementOf(n, k, Top)) /\ [words |-> ws, child |-> k] \in StatementOf(n, k, Top)
    BY <1>1, <2>1, ChildAdded
  <2> QED BY <1>2, <2>1, <2>2
<1>6. DOMAIN blocks = 1..m /\ blocks \in Seq(Seq(Statement(n, m))) /\ p \in 1..m
  BY LenProperties DEF Here, BuildInv, TypeOK, Statement
<1>7. d[p] = e /\ \A b \in 1..m : b # p => d[b] = blocks[b]
  BY <1>3, <1>6
<1>8. d \in Seq(Seq(Statement(n, k))) /\ Len(d) = m
  <2>1. k \in Nat /\ n \in Nat /\ n <= n /\ m <= k /\ p \in 1..k
    BY DEF Here
  <2>2. e \in Seq(Statement(n, k))
    <3>1. e \in Seq(StatementOf(n, k, p))
      BY <1>5, AppendProperties
    <3> QED BY <2>1, <3>1, StatementOfIs, SeqMonotonic
  <2>3. blocks \in Seq(Seq(Statement(n, k)))
    BY <1>6, <2>1, StatementsGrow DEF Here
  <2>4. p \in 1..Len(blocks) /\ m = Len(blocks)
    BY DEF Here
  <2> QED BY <1>3, <2>2, <2>3, <2>4, ExceptSeq
<1>9. Len(blocks') = k /\ blocks'[k] = <<>> /\ \A b \in 1..m : blocks'[b] = d[b]
  <2>1. <<>> \in Seq(Statement(n, k))
    BY EmptySeq
  <2> QED BY <1>4, <1>8, <2>1, AppendProperties
<1>10. Len(stack') = l + 1 /\ (\A i \in 1..l : stack'[i] = stack[i]) /\ stack'[l + 1] = k
  <2>1. stack \in Seq(Nat) /\ l = Len(stack)
    <3>1. 1..Len(blocks) \subseteq Nat /\ stack \in Seq(1..Len(blocks))
      BY DEF BuildInv, TypeOK
    <3> QED BY <3>1, SeqMonotonic DEF Here
  <2>2. k \in Nat /\ stack' = Append(stack, k)
    BY <1>1 DEF Here
  <2> QED BY <2>1, <2>2, AppendProperties
<1> QED BY <1>1, <1>5, <1>7, <1>9, <1>10 DEF Here

LEMMA CloseBlockDoes ==
  ASSUME BuildInv, CloseBlock, NEW n, NEW m, NEW l, NEW p, Here(n, m, l, p)
  PROVE  /\ words' = n /\ last # "word" /\ last' # "word" /\ blocks' = blocks
         /\ Len(stack') = l - 1 /\ \A i \in 1..l - 1 : stack'[i] = stack[i]
<1>1. last # "word" /\ last' # "word" /\ words' = words /\ blocks' = blocks /\ stack # <<>> /\ stack' = Front(stack)
  BY Zenon DEF CloseBlock
<1>2. stack \in Seq(1..Len(blocks)) /\ l = Len(stack)
  BY DEF BuildInv, TypeOK, Here
<1> QED BY <1>1, <1>2, FrontIs DEF Here

------------------------------------------------------------------------------
\* Every step keeps the tree a tree.

LEMMA AddWordBuilds ==
  ASSUME BuildInv, AddWord PROVE IsTree' /\ OpenBlocks'
<1>1. stack # <<>>
  BY Zenon DEF AddWord
<1>2. PICK n, m, l, p, h, ws : Here(n, m, l, p) /\ TopIs(n, m, h, ws)
  BY <1>1, HereIs
<1>3. PICK k : k = n + 1
  OBVIOUS
<1>4. PICK t : t = [words |-> Append(ws, k), child |-> 0]
  OBVIOUS
<1>5. /\ words' = k /\ stack' = stack /\ last' = "word" /\ Len(blocks') = m /\ blocks'[p] = Append(h, t)
      /\ \A b \in 1..m : b # p => blocks'[b] = blocks[b]
  BY <1>2, <1>3, <1>4, AddWordDoes
<1>6. n \in Nat /\ m \in Nat /\ p = Top /\ p \in 1..m /\ k \in Nat /\ n <= k /\ m <= m
  BY <1>2, <1>3 DEF Here
<1>7. h \in Seq(StatementOf(k, m, p)) /\ t \in StatementOf(k, m, p)
  <2>1. Top \in 1..m
    BY <1>6
  <2>2. h \in Seq(StatementOf(k, m, Top)) /\ t \in StatementOf(k, m, Top)
    BY <1>2, <1>3, <1>4, <1>6, <2>1, WordAdded
  <2> QED BY <1>6, <2>2
<1>8. Append(h, t) \in Seq(StatementOf(k, m, p)) /\ Append(h, t)[Len(Append(h, t))] = t
  BY <1>7, AppendParts
<1>9. IsTree'
  <2>1. ASSUME NEW b \in 1..m PROVE blocks'[b] \in Seq(StatementOf(k, m, b))
    <3>1. CASE b = p
      BY <1>5, <1>8, <3>1
    <3>2. CASE b # p
      <4>1. blocks[b] \in Seq(StatementOf(n, m, b))
        BY <1>2 DEF Here
      <4>2. blocks[b] \in Seq(StatementOf(k, m, b))
        BY <1>6, <4>1, StatementsOfGrow
      <4> QED BY <1>5, <3>2, <4>2
    <3> QED BY <3>1, <3>2
  <2> QED BY <1>5, <2>1 DEF IsTree
<1>10. t.child = 0
  BY <1>4
<1>11. Last(blocks'[p]) = t
  BY <1>5, <1>8 DEF Last
<1>12. Top' = p
  BY <1>5, <1>6 DEF Top
<1>13. OpenBlocks
  BY DEF BuildInv
<1>14. ASSUME NEW i \in 1..Len(stack) - 1
       PROVE  blocks'[stack[i]] # <<>> /\ Last(blocks'[stack[i]]).child = stack[i + 1]
  <2>1. l \in Nat /\ l = Len(stack) /\ \A j \in 1..l : stack[j] \in 1..m
    BY <1>2 DEF Here
  <2>2. i \in 1..l /\ i \in 1..l - 1
    BY <2>1
  <2>3. stack[i] \in 1..m /\ stack[i] # p
    BY <1>2, <2>1, <2>2 DEF Here
  <2>4. blocks'[stack[i]] = blocks[stack[i]]
    BY <1>5, <2>3
  <2> QED BY <1>13, <2>4 DEF OpenBlocks
<1>15. OpenBlocks'
  <2>1. stack' # <<>> => stack'[1] = Root
    BY <1>5, <1>13 DEF OpenBlocks
  <2>2. \A i, j \in 1..Len(stack') : stack'[i] = stack'[j] => i = j
    BY <1>5, <1>13 DEF OpenBlocks
  <2>3. \A i \in 1..Len(stack') - 1 : blocks'[stack'[i]] # <<>> /\ Last(blocks'[stack'[i]]).child = stack'[i + 1]
    BY <1>5, <1>14
  <2>4. Last(blocks'[Top']).child = 0
    BY <1>10, <1>11, <1>12
  <2> QED BY <2>1, <2>2, <2>3, <2>4, Zenon DEF OpenBlocks
<1> QED BY <1>9, <1>15

LEMMA OpenBlockBuilds ==
  ASSUME BuildInv, OpenBlock PROVE IsTree' /\ OpenBlocks'
<1>1. stack # <<>>
  <2>1. last = "word"
    BY Zenon DEF OpenBlock
  <2> QED BY <2>1 DEF BuildInv, WordIsPlaced
<1>2. PICK n, m, l, p, h, ws : Here(n, m, l, p) /\ TopIs(n, m, h, ws)
  BY <1>1, HereIs
<1>3. PICK k : k = m + 1
  OBVIOUS
<1>4. PICK t : t = [words |-> ws, child |-> k]
  OBVIOUS
<1>5. /\ words' = n /\ last = "word" /\ last' # "word" /\ Len(blocks') = k
      /\ blocks'[p] = Append(h, t) /\ blocks'[k] = <<>>
      /\ \A b \in 1..m : b # p => blocks'[b] = blocks[b]
      /\ Len(stack') = l + 1 /\ (\A i \in 1..l : stack'[i] = stack[i]) /\ stack'[l + 1] = k
  BY <1>2, <1>3, <1>4, OpenBlockDoes
<1>6. n \in Nat /\ m \in Nat /\ p = Top /\ p \in 1..m /\ k \in Nat /\ n <= n /\ m <= k
  BY <1>2, <1>3 DEF Here
<1>7. h \in Seq(StatementOf(n, k, p)) /\ t \in StatementOf(n, k, p)
  <2>1. Top \in 1..m
    BY <1>6
  <2>2. h \in Seq(StatementOf(n, k, Top)) /\ t \in StatementOf(n, k, Top)
    BY <1>2, <1>3, <1>4, <1>5, <1>6, <2>1, ChildAdded
  <2> QED BY <1>6, <2>2
<1>8. /\ Append(h, t) \in Seq(StatementOf(n, k, p)) /\ Append(h, t)[Len(Append(h, t))] = t
      /\ Append(h, t) # <<>>
  BY <1>7, AppendParts
<1>9. IsTree'
  <2>1. ASSUME NEW b \in 1..k PROVE blocks'[b] \in Seq(StatementOf(n, k, b))
    <3>1. CASE b = p
      BY <1>5, <1>8, <3>1
    <3>2. CASE b # p /\ b \in 1..m
      <4>1. blocks[b] \in Seq(StatementOf(n, m, b))
        BY <1>2, <3>2 DEF Here
      <4>2. blocks[b] \in Seq(StatementOf(n, k, b))
        BY <1>6, <3>2, <4>1, StatementsOfGrow
      <4> QED BY <1>5, <3>2, <4>2
    <3>3. CASE b = k
      <4>1. <<>> \in Seq(StatementOf(n, k, b))
        BY EmptySeq
      <4> QED BY <1>5, <3>3, <4>1
    <3>4. b \in 1..m \/ b = k
      BY <1>3, <1>6
    <3> QED BY <3>1, <3>2, <3>3, <3>4
  <2> QED BY <1>5, <2>1 DEF IsTree
<1>10. t.child = k /\ Last(blocks'[p]) = t
  BY <1>4, <1>5, <1>8 DEF Last
<1>11. OpenBlocks
  BY DEF BuildInv
<1>12. l \in Nat \ {0} /\ l = Len(stack) /\ stack[l] = p /\ \A j \in 1..l : stack[j] \in 1..m
  BY <1>2 DEF Here
<1>13. PICK l1 \in Nat : l1 = l + 1
  BY <1>12
<1>14. \A i \in 1..l1 : (i \in 1..l /\ i # l1) \/ i = l1
  BY <1>12, <1>13
<1>15. Len(stack') = l1 /\ stack'[l1] = k
  BY <1>5, <1>13
<1>16. stack'[1] = Root
  <2>1. 1 \in 1..l
    BY <1>12
  <2> QED BY <1>1, <1>5, <1>11, <2>1 DEF OpenBlocks
<1>17. ASSUME NEW i \in 1..l1, NEW j \in 1..l1, stack'[i] = stack'[j] PROVE i = j
  <2>1. k \notin 1..m
    BY <1>3, <1>6
  <2>2. \A a \in 1..l : stack'[a] = stack[a] /\ stack[a] \in 1..m
    BY <1>5, <1>12
  <2>3. \A a, b \in 1..l : stack[a] = stack[b] => a = b
    BY <1>11, <1>12 DEF OpenBlocks
  <2> QED BY <1>14, <1>15, <1>17, <2>1, <2>2, <2>3
<1>18. ASSUME NEW i \in 1..l
       PROVE  blocks'[stack'[i]] # <<>> /\ Last(blocks'[stack'[i]]).child = stack'[i + 1]
  <2>1. CASE i = l
    <3>1. stack'[i] = p /\ stack'[i + 1] = k
      BY <1>5, <1>12, <2>1
    <3> QED BY <1>5, <1>8, <1>10, <3>1
  <2>2. CASE i # l
    <3>1. i \in 1..l - 1 /\ i + 1 \in 1..l
      BY <1>12, <2>2
    <3>2. stack'[i] = stack[i] /\ stack'[i + 1] = stack[i + 1] /\ stack[i] \in 1..m
      BY <1>5, <1>12, <3>1
    <3>3. stack[i] # p
      BY <1>2, <3>1 DEF Here
    <3>4. blocks'[stack[i]] = blocks[stack[i]]
      BY <1>5, <3>2, <3>3
    <3>5. blocks[stack[i]] # <<>> /\ Last(blocks[stack[i]]).child = stack[i + 1]
      BY <1>11, <1>12, <3>1 DEF OpenBlocks
    <3> QED BY <3>2, <3>4, <3>5
  <2> QED BY <2>1, <2>2
<1>19. l1 - 1 = l
  BY <1>12, <1>13
<1>20. OpenBlocks'
  BY <1>5, <1>15, <1>16, <1>17, <1>18, <1>19 DEF OpenBlocks
<1> QED BY <1>9, <1>20

LEMMA CloseBlockBuilds ==
  ASSUME BuildInv, CloseBlock PROVE IsTree' /\ OpenBlocks'
<1>1. stack # <<>>
  BY Zenon DEF CloseBlock
<1>2. PICK n, m, l, p : Here(n, m, l, p)
  BY <1>1, HereIs
<1>3. /\ words' = n /\ last # "word" /\ last' # "word" /\ blocks' = blocks
      /\ Len(stack') = l - 1 /\ \A i \in 1..l - 1 : stack'[i] = stack[i]
  BY <1>2, CloseBlockDoes
<1>4. IsTree'
  BY <1>2, <1>3 DEF IsTree, Here
<1>5. OpenBlocks
  BY DEF BuildInv
<1>6. PICK j \in Nat : j = l - 1 /\ 1..j \subseteq 1..l /\ l = Len(stack) /\ \A i \in 1..j - 1 : i \in 1..j /\ i + 1 \in 1..j
  <2>1. l \in Nat \ {0} /\ l = Len(stack)
    BY <1>2 DEF Here
  <2>2. PICK j \in Nat : j = l - 1
    BY <2>1
  <2>3. 1..j \subseteq 1..l /\ \A i \in 1..j - 1 : i \in 1..j /\ i + 1 \in 1..j
    BY <2>1, <2>2
  <2> QED BY <2>1, <2>2, <2>3
<1>7. stack' # <<>> => stack'[1] = Root
  <2>1. stack' # <<>> => j # 0
    <3>1. TypeOK'
      BY TypedStep DEF BuildInv, Next, Parse
    <3>2. stack' \in Seq(1..Len(blocks'))
      BY <3>1 DEF TypeOK
    <3> QED BY <1>3, <1>6, <3>2, EmptySeq
  <2>2. j # 0 => 1 \in 1..j
    BY <1>6
  <2> QED BY <1>1, <1>3, <1>5, <1>6, <2>1, <2>2 DEF OpenBlocks
<1>8. \A i \in 1..j : stack'[i] = stack[i]
  BY <1>3, <1>6
<1>9. \A a, b \in 1..j : stack'[a] = stack'[b] => a = b
  BY <1>5, <1>6, <1>8 DEF OpenBlocks
<1>10. ASSUME NEW i \in 1..j - 1
       PROVE  blocks'[stack'[i]] # <<>> /\ Last(blocks'[stack'[i]]).child = stack'[i + 1]
  <2>1. i \in 1..l - 1 /\ stack'[i] = stack[i] /\ stack'[i + 1] = stack[i + 1]
    BY <1>6, <1>8
  <2> QED BY <1>3, <1>5, <1>6, <2>1 DEF OpenBlocks
<1>11. OpenBlocks'
  BY <1>3, <1>6, <1>7, <1>9, <1>10 DEF OpenBlocks
<1> QED BY <1>4, <1>11

LEMMA BuildInit == Init => BuildInv
<1> SUFFICES ASSUME Init PROVE BuildInv
  OBVIOUS
<1>1. TypeOK /\ WordIsPlaced
  BY InitTyped
<1>2. blocks = <<<<>>>> /\ stack = <<Root>> /\ words = 0 /\ last # "word"
  BY Zenon DEF Init
<1>3. IsTree
  <2>1. Len(blocks) = 1 /\ \A b \in 1..1 : blocks[b] = <<>>
    BY <1>2
  <2>2. \A b : <<>> \in Seq(StatementOf(words, 1, b))
    BY EmptySeq
  <2> QED BY <2>1, <2>2 DEF IsTree
<1>4. OpenBlocks
  BY <1>2 DEF OpenBlocks
<1> QED BY <1>1, <1>3, <1>4 DEF BuildInv

LEMMA BuildStep == BuildInv /\ [Next]_vars => BuildInv'
<1> SUFFICES ASSUME BuildInv, [Next]_vars PROVE BuildInv'
  OBVIOUS
<1>1. TypeOK' /\ WordIsPlaced'
  BY TypedStep, Zenon DEF BuildInv
<1>2. CASE AddWord \/ OpenBlock \/ CloseBlock
  BY <1>1, <1>2, AddWordBuilds, OpenBlockBuilds, CloseBlockBuilds, Zenon DEF BuildInv
<1>3. ASSUME words' = words, blocks' = blocks, stack' = stack, last' = last \/ last' # "word"
      PROVE  IsTree' /\ OpenBlocks'
  <2>1. Top' = Top
    BY <1>3 DEF Top
  <2> QED BY <1>3, <2>1 DEF BuildInv, IsTree, OpenBlocks
<1>4. CASE ~(AddWord \/ OpenBlock \/ CloseBlock)
  <2>1. words' = words /\ blocks' = blocks /\ stack' = stack /\ (last' = last \/ last' # "word")
    <3>1. CASE Open
      BY <3>1, Zenon DEF Open, tree
    <3>2. CASE ParseToken
      BY <3>2, Zenon DEF ParseToken, SkipSpace, ReadSymbol, BeginToken, ReadQuoted, ReadComment, ReadWord,
                        Reads, EndOfInput, tree
    <3>3. CASE SkipComment \/ EndStatement \/ EmptyStack \/ Accept \/ Reject
      BY <3>3, Zenon DEF SkipComment, EndStatement, EmptyStack, Accept, Reject, Return, tree
    <3>4. CASE UNCHANGED vars
      BY <3>4, Zenon DEF vars, tree
    <3> QED BY <1>4, <3>1, <3>2, <3>3, <3>4, Zenon DEF Next, Parse
  <2> QED BY <1>1, <1>3, <2>1, Zenon DEF BuildInv
<1> QED BY <1>2, <1>4

------------------------------------------------------------------------------
\* What is printed, with names that keep the provers from expanding sequences.

Output == Seq(Printable)
Cat(s, t) == s \o t
One(x) == <<x>>

LEMMA PrintLaws ==
  /\ <<>> \in Output /\ \A x \in Printable : One(x) \in Output
  /\ \A s \in Output : Cat(s, <<>>) = s /\ Cat(<<>>, s) = s
  /\ \A s, t \in Output : Cat(s, t) \in Output
  /\ \A s, t, u \in Output : Cat(Cat(s, t), u) = Cat(s, Cat(t, u))
<1>1. <<>> \in Output /\ \A x \in Printable : One(x) \in Output
  BY EmptySeq DEF Output, One
<1>2. \A s \in Output : Cat(s, <<>>) = s /\ Cat(<<>>, s) = s
  BY ConcatEmptySeq DEF Output, Cat
<1>3. \A s, t \in Output : Cat(s, t) \in Output
  BY ConcatProperties DEF Output, Cat
<1>4. \A s, t, u \in Output : Cat(Cat(s, t), u) = Cat(s, Cat(t, u))
  BY ConcatAssociative DEF Output, Cat
<1> QED BY <1>1, <1>2, <1>3, <1>4

LEMMA NumberedPrint ==
  ASSUME NEW toks \in Seq(Kind), NEW t \in Kind
  PROVE  /\ Numbered(toks) \in Output /\ NextNumbered(toks, t) \in Printable
         /\ Numbered(toks \o <<t>>) = Cat(Numbered(toks), One(NextNumbered(toks, t)))
<1>1. Numbered(toks) \in Seq(Printable) /\ NextNumbered(toks, t) \in Printable
  BY NumberedAppend
<1>2. PICK a : a = Append(toks, t)
  OBVIOUS
<1>3. a = toks \o <<t>>
  BY <1>2, AppendIsConcat
<1>4. PICK x \in Seq(Printable) : x = Numbered(toks)
  BY <1>1
<1>5. PICK y \in Printable : y = NextNumbered(toks, t)
  BY <1>1
<1>6. Numbered(a) = Append(x, y)
  BY <1>2, <1>4, <1>5, NumberedAppend
<1>7. Append(x, y) = x \o <<y>>
  BY AppendIsConcat
<1> QED BY <1>1, <1>3, <1>4, <1>5, <1>6, <1>7, Zenon DEF Output, Cat, One

LEMMA WordsPrint ==
  ASSUME NEW n \in Nat, NEW ws \in Seq(1..n), NEW k \in Nat
  PROVE  /\ WordsOf(ws) \in Output /\ Lexeme("word", k) \in Printable
         /\ WordsOf(Append(ws, k)) = Cat(WordsOf(ws), One(Lexeme("word", k)))
<1>1. PICK x \in Seq(Printable) : x = WordsOf(ws)
  BY WordsOfAppend
<1>2. PICK y \in Printable : y = Lexeme("word", k)
  BY WordsOfAppend
<1>3. WordsOf(Append(ws, k)) = Append(x, y)
  BY <1>1, <1>2, WordsOfAppend
<1>4. Append(x, y) = x \o <<y>>
  BY AppendIsConcat
<1> QED BY <1>1, <1>2, <1>3, <1>4, Zenon DEF Output, Cat, One

LEMMA StatementPrint ==
  ASSUME NEW f, NEW ws
  PROVE  /\ Stm(f, [words |-> ws, child |-> 0]) = Cat(WordsOf(ws), One(Stop))
         /\ \A c : c # 0 => Stm(f, [words |-> ws, child |-> c])
                            = Cat(WordsOf(ws), Cat(Cat(One(Opening), f[c]), One(Ending)))
BY StatementPrinted, Zenon DEF Cat, One

LEMMA FlatPrint ==
  ASSUME NEW n \in Nat, NEW m \in Nat, NEW b \in 1..m, NEW d \in Seq(StatementOf(n, m, b)), NEW f, Prints(f, m)
  PROVE  /\ Flat(f, d) \in Output /\ Flat(f, <<>>) = <<>>
         /\ \A s \in StatementOf(n, m, b) : Flat(f, Append(d, s)) = Cat(Flat(f, d), Stm(f, s))
<1>1. d \in Seq(Statement(n, m)) /\ \A s \in StatementOf(n, m, b) : s \in Statement(n, m)
  BY StatementOfIs, SeqMonotonic
<1>2. PICK s : s \in Statement(n, m)
  <2>1. <<>> \in Seq(1..n) /\ 0 \in 0..m
    BY EmptySeq
  <2>2. [words |-> <<>>, child |-> 0] \in Statement(n, m)
    BY <2>1 DEF Statement
  <2> QED BY <2>2
<1>3. Flat(f, d) \in Output /\ Flat(f, <<>>) = <<>>
  BY <1>1, <1>2, FlatAppend DEF Output
<1>4. ASSUME NEW t \in StatementOf(n, m, b) PROVE Flat(f, Append(d, t)) = Cat(Flat(f, d), Stm(f, t))
  BY <1>1, FlatAppend DEF Cat
<1> QED BY <1>3, <1>4

\* One more lexeme x after the text X before a block, the whole statements A of
\* the block and the words P.
LEMMA OneMore ==
  ASSUME NEW X \in Output, NEW A \in Output, NEW P \in Output, NEW x \in Output
  PROVE  /\ Cat(Cat(X, Cat(A, P)), x) = Cat(X, Cat(A, Cat(P, x)))
         /\ Cat(X, Cat(A, Cat(P, x))) = Cat(X, Cat(Cat(A, Cat(P, x)), <<>>))
         /\ Cat(X, Cat(A, Cat(P, x))) = Cat(Cat(X, Cat(A, Cat(P, x))), Cat(<<>>, <<>>))
<1>1. Cat(Cat(X, Cat(A, P)), x) = Cat(X, Cat(A, Cat(P, x)))
  BY PrintLaws
<1>2. Cat(A, Cat(P, x)) \in Output /\ Cat(X, Cat(A, Cat(P, x))) \in Output
  BY PrintLaws
<1>3. Cat(<<>>, <<>>) = <<>>
  BY PrintLaws
<1>4. Cat(Cat(A, Cat(P, x)), <<>>) = Cat(A, Cat(P, x))
  BY <1>2, PrintLaws
<1>5. Cat(Cat(X, Cat(A, Cat(P, x))), <<>>) = Cat(X, Cat(A, Cat(P, x)))
  BY <1>2, PrintLaws
<1> QED BY <1>1, <1>3, <1>4, <1>5

\* The lexeme x that ends the block of text C, which y began.
LEMMA OneBlockLess ==
  ASSUME NEW X \in Output, NEW A \in Output, NEW P \in Output, NEW C \in Output, NEW x \in Output, NEW y \in Output
  PROVE  Cat(Cat(Cat(X, Cat(A, Cat(P, y))), Cat(C, <<>>)), x)
         = Cat(X, Cat(Cat(A, Cat(P, Cat(Cat(y, C), x))), <<>>))
<1>1. PICK z : z = Cat(P, y) /\ z \in Output
  BY PrintLaws
<1>2. PICK v : v = Cat(A, z) /\ v \in Output
  BY <1>1, PrintLaws
<1>3. Cat(C, <<>>) = C /\ Cat(X, v) \in Output /\ Cat(C, x) \in Output /\ Cat(y, C) \in Output
  BY <1>2, PrintLaws
<1>4. Cat(Cat(Cat(X, v), C), x) = Cat(X, Cat(v, Cat(C, x)))
  <2>1. Cat(Cat(Cat(X, v), C), x) = Cat(Cat(X, v), Cat(C, x))
    BY <1>3, PrintLaws
  <2>2. Cat(Cat(X, v), Cat(C, x)) = Cat(X, Cat(v, Cat(C, x)))
    BY <1>2, <1>3, PrintLaws
  <2> QED BY <2>1, <2>2
<1>5. Cat(v, Cat(C, x)) = Cat(A, Cat(z, Cat(C, x)))
  BY <1>1, <1>2, <1>3, PrintLaws
<1>6. Cat(z, Cat(C, x)) = Cat(P, Cat(y, Cat(C, x)))
  BY <1>1, <1>3, PrintLaws
<1>7. Cat(y, Cat(C, x)) = Cat(Cat(y, C), x)
  BY PrintLaws
<1>8. PICK w : w = Cat(P, Cat(Cat(y, C), x)) /\ w \in Output
  BY <1>3, PrintLaws
<1>9. Cat(Cat(A, w), <<>>) = Cat(A, w)
  BY <1>8, PrintLaws
<1> QED BY <1>1, <1>2, <1>3, <1>4, <1>5, <1>6, <1>7, <1>8, <1>9

------------------------------------------------------------------------------
\* What has been printed when the blocks that are closed print what f says.

Sound(f) ==
  /\ Prints(f, Len(blocks))
  /\ \A b \in 1..Len(blocks) : (\A i \in 1..Len(stack) : stack[i] # b) => f[b] = Flat(f, blocks[b])

\* The text of a block up to the block in its last statement.
UptoChild(f, b) == Cat(Flat(f, Front(b)), Cat(WordsOf(Last(b).words), One(Opening)))

\* pre[i] is the text before the i-th open block.
Printing(f, pre, toks) ==
  /\ \A i \in 1..Len(stack) : pre[i] \in Output
  /\ pre[1] = <<>>
  /\ \A i \in 1..Len(stack) - 1 : pre[i + 1] = Cat(pre[i], UptoChild(f, blocks[stack[i]]))
  /\ Numbered(toks) = Cat(pre[Len(stack)], Cat(Flat(f, Whole(blocks[Top], last)), Pending(blocks[Top], last)))

Printed(toks) ==
  /\ words = Counted(toks)
  /\ stack # <<>> => \A f : Sound(f) => \E pre : Printing(f, pre, toks)

LEMMA OfLastStatement ==
  ASSUME NEW n, NEW m, NEW b, NEW d \in Seq(StatementOf(n, m, b)), NEW s \in StatementOf(n, m, b), NEW f
  PROVE  /\ Whole(Append(d, s), "word") = d /\ Pending(Append(d, s), "word") = WordsOf(s.words)
         /\ UptoChild(f, Append(d, s)) = Cat(Flat(f, d), Cat(WordsOf(s.words), One(Opening)))
         /\ Last(Append(d, s)) = s
<1>1. PICK a : a = Append(d, s)
  OBVIOUS
<1>2. Front(a) = d /\ a[Len(a)] = s
  BY <1>1, AppendParts
<1>3. Last(a) = s
  BY <1>2 DEF Last
<1>4. Whole(a, "word") = d /\ Pending(a, "word") = WordsOf(s.words)
  BY <1>2, <1>3 DEF Whole, Pending
<1>5. UptoChild(f, a) = Cat(Flat(f, d), Cat(WordsOf(s.words), One(Opening)))
  BY <1>2, <1>3, Zenon DEF UptoChild
<1> QED BY <1>1, <1>3, <1>4, <1>5

\* One more token: the number of words, and what it prints.
LEMMA TokenPrints ==
  ASSUME NEW toks \in Seq(Kind), NEW t \in {"word"} \cup Symbol
  PROVE  /\ Counted(toks) \in Nat /\ Numbered(toks) \in Output
         /\ Counted(toks \o <<t>>) = IF t = "word" THEN Counted(toks) + 1 ELSE Counted(toks)
         /\ Numbered(toks \o <<t>>) = Cat(Numbered(toks), One(NextNumbered(toks, t)))
<1>1. t \in Kind
  BY Names, Zenon
<1>2. PICK a : a = toks \o <<t>>
  OBVIOUS
<1>3. a = Append(toks, t)
  BY <1>1, <1>2, AppendIsConcat
<1>4. Counted(toks) \in Nat /\ Counted(a) = IF t = "word" THEN Counted(toks) + 1 ELSE Counted(toks)
  BY <1>1, <1>3, CountedAppend
<1>5. Numbered(toks) \in Output /\ Numbered(a) = Cat(Numbered(toks), One(NextNumbered(toks, t)))
  BY <1>1, <1>2, NumberedPrint
<1> QED BY <1>2, <1>4, <1>5

\* The text, in parts, when block p is on the top.
LEMMA PrintingIs ==
  ASSUME NEW n, NEW m, NEW l, NEW p, NEW h, NEW ws, Here(n, m, l, p), TopIs(n, m, h, ws),
         NEW f, NEW pre, NEW toks, Printing(f, pre, toks)
  PROVE  /\ \A i \in 1..l : pre[i] \in Output
         /\ pre[1] = <<>> /\ pre[l] \in Output
         /\ \A i \in 1..l - 1 : pre[i + 1] = Cat(pre[i], UptoChild(f, blocks[stack[i]]))
         /\ Numbered(toks) = Cat(pre[l], Cat(Flat(f, h), WordsOf(ws)))
<1>1. l = Len(stack) /\ l \in 1..l
  BY DEF Here
<1>2. Whole(blocks[Top], last) = h /\ Pending(blocks[Top], last) = WordsOf(ws)
  BY DEF TopIs
<1> QED BY <1>1, <1>2, Zenon DEF Printing

LEMMA PartsPrint ==
  ASSUME NEW n, NEW m, NEW l, NEW p, NEW h, NEW ws, Here(n, m, l, p), TopIs(n, m, h, ws), NEW f, Prints(f, m)
  PROVE  /\ Flat(f, h) \in Output /\ WordsOf(ws) \in Output
         /\ \A s \in StatementOf(n, m, p) : Flat(f, Append(h, s)) = Cat(Flat(f, h), Stm(f, s))
<1>1. n \in Nat /\ m \in Nat /\ p \in 1..m /\ p = Top
  BY DEF Here
<1>2. h \in Seq(StatementOf(n, m, p)) /\ ws \in Seq(1..n)
  BY <1>1 DEF TopIs
<1>3. WordsOf(ws) \in Output
  <2>1. 0 \in Nat
    OBVIOUS
  <2> QED BY <1>1, <1>2, <2>1, WordsPrint
<1>4. Flat(f, h) \in Output /\ \A s \in StatementOf(n, m, p) : Flat(f, Append(h, s)) = Cat(Flat(f, h), Stm(f, s))
  BY <1>1, <1>2, FlatPrint
<1> QED BY <1>3, <1>4

LEMMA AddWordPrints ==
  ASSUME BuildInv, AddWord, NEW toks \in Seq(Kind), Printed(toks), NEW tk, tk = toks \o <<"word">>
  PROVE  Printed(tk)'
<1>1. stack # <<>>
  BY Zenon DEF AddWord
<1>2. PICK n, m, l, p, h, ws : Here(n, m, l, p) /\ TopIs(n, m, h, ws)
  BY <1>1, HereIs
<1>3. PICK k \in Nat : k = n + 1
  BY <1>2 DEF Here
<1>4. PICK s : s = [words |-> Append(ws, k), child |-> 0]
  OBVIOUS
<1>5. /\ words' = k /\ stack' = stack /\ last' = "word" /\ Len(blocks') = m /\ blocks'[p] = Append(h, s)
      /\ \A b \in 1..m : b # p => blocks'[b] = blocks[b]
  BY <1>2, <1>3, <1>4, AddWordDoes
<1>6. n = words /\ n \in Nat /\ m \in Nat /\ m = Len(blocks) /\ l = Len(stack) /\ l \in Nat \ {0} /\ p = Top /\ p = stack[l] /\ p \in 1..m
  BY <1>2 DEF Here
<1>7. h \in Seq(StatementOf(k, m, p)) /\ s \in StatementOf(k, m, p)
  BY <1>2, <1>3, <1>4, <1>6, WordAdded
<1>8. ws \in Seq(1..n)
  BY <1>2 DEF TopIs
<1>9. words' = Counted(tk) /\ Numbered(tk) = Cat(Numbered(toks), One(Lexeme("word", k)))
  <2>1. n = Counted(toks)
    BY <1>6 DEF Printed
  <2>2. "word" \in {"word"} \cup Symbol
    OBVIOUS
  <2>3. Counted(tk) = Counted(toks) + 1 /\ Numbered(tk) = Cat(Numbered(toks), One(NextNumbered(toks, "word")))
    BY <2>2, TokenPrints
  <2>4. NextNumbered(toks, "word") = Lexeme("word", k)
    BY <1>3, <2>1 DEF NextNumbered
  <2> QED BY <1>3, <1>5, <2>1, <2>3, <2>4
<1>10. ASSUME NEW f, Sound(f)' PROVE \E pre : Printing(f, pre, tk)'
  <2>1. Prints(f, m)
    BY <1>5, <1>10 DEF Sound
  <2>2. Sound(f)
    <3>1. \A b \in 1..m : (\A i \in 1..l : stack[i] # b) => f[b] = Flat(f, blocks'[b])
      BY <1>5, <1>6, <1>10 DEF Sound
    <3>2. \A b \in 1..m : (\A i \in 1..l : stack[i] # b) => b # p
      BY <1>6
    <3>3. \A b \in 1..m : (\A i \in 1..l : stack[i] # b) => f[b] = Flat(f, blocks[b])
      BY <1>5, <3>1, <3>2, Zenon
    <3> QED BY <1>6, <2>1, <3>3, Zenon DEF Sound
  <2>3. PICK pre : Printing(f, pre, toks)
    BY <1>1, <2>2, Zenon DEF Printed
  <2>4. /\ \A i \in 1..l : pre[i] \in Output
        /\ pre[1] = <<>> /\ pre[l] \in Output
        /\ \A i \in 1..l - 1 : pre[i + 1] = Cat(pre[i], UptoChild(f, blocks[stack[i]]))
        /\ Numbered(toks) = Cat(pre[l], Cat(Flat(f, h), WordsOf(ws)))
    BY <1>2, <2>3, PrintingIs
  <2>5. \A i \in 1..l - 1 : blocks'[stack[i]] = blocks[stack[i]]
    <3>1. \A i \in 1..l - 1 : stack[i] # p /\ stack[i] \in 1..m
      BY <1>2 DEF Here
    <3> QED BY <1>5, <3>1, Zenon
  <2>6. Flat(f, h) \in Output /\ WordsOf(ws) \in Output
    BY <1>2, <2>1, PartsPrint
  <2>7. One(Lexeme("word", k)) \in Output /\ WordsOf(Append(ws, k)) = Cat(WordsOf(ws), One(Lexeme("word", k)))
    BY <1>6, <1>8, WordsPrint, PrintLaws
  <2>8. Numbered(tk) = Cat(pre[l], Cat(Flat(f, h), WordsOf(Append(ws, k))))
    <3>1. Cat(Cat(pre[l], Cat(Flat(f, h), WordsOf(ws))), One(Lexeme("word", k)))
          = Cat(pre[l], Cat(Flat(f, h), Cat(WordsOf(ws), One(Lexeme("word", k)))))
      BY <2>4, <2>6, <2>7, OneMore
    <3> QED BY <1>9, <2>4, <2>7, <3>1, Zenon
  <2>9. Whole(blocks'[p], "word") = h /\ Pending(blocks'[p], "word") = WordsOf(Append(ws, k))
    <3>1. s.words = Append(ws, k)
      BY <1>4
    <3>2. Whole(Append(h, s), "word") = h /\ Pending(Append(h, s), "word") = WordsOf(s.words)
      BY <1>7, OfLastStatement
    <3> QED BY <1>5, <3>1, <3>2, Zenon
  <2>10. Top' = p
    BY <1>5, <1>6 DEF Top
  <2>11. Numbered(tk) = Cat(pre[l], Cat(Flat(f, Whole(blocks'[Top'], last')), Pending(blocks'[Top'], last')))
    BY <1>5, <2>8, <2>9, <2>10, Zenon
  <2>12. \A i \in 1..l - 1 : pre[i + 1] = Cat(pre[i], UptoChild(f, blocks'[stack'[i]]))
    BY <1>5, <2>4, <2>5, Zenon
  <2>13. Len(stack') = l
    BY <1>5, <1>6
  <2>14. Printing(f, pre, tk)'
    BY <2>4, <2>11, <2>12, <2>13, Zenon DEF Printing
  <2> QED BY <2>14
<1> QED BY <1>9, <1>10, Zenon DEF Printed

\* The symbols by name, Brace aside.
Semicolon == ";"
LeftBrace == "{"

\* The token ends a statement.
LEMMA EndPrints ==
  ASSUME BuildInv, EndStatement, NEW toks \in Seq(Kind), Printed(toks), NEW tk, tk = toks \o <<Semicolon>>
  PROVE  Printed(tk)'
<1>1. last = "word" /\ last' # "word" /\ words' = words /\ stack' = stack /\ blocks' = blocks
  BY Zenon DEF EndStatement, tree
<1>2. stack # <<>>
  BY <1>1, Zenon DEF BuildInv, WordIsPlaced
<1>3. PICK n, m, l, p, h, ws : Here(n, m, l, p) /\ TopIs(n, m, h, ws)
  BY <1>2, HereIs
<1>4. PICK s : s = [words |-> ws, child |-> 0]
  OBVIOUS
<1>5. n \in Nat /\ m \in Nat /\ l = Len(stack) /\ l \in Nat \ {0} /\ p = Top /\ p \in 1..m
  BY <1>3 DEF Here
<1>6. blocks[p] = Append(h, s) /\ h \in Seq(StatementOf(n, m, p)) /\ s \in StatementOf(n, m, p)
  BY <1>1, <1>3, <1>4, <1>5 DEF TopIs, StatementOf
<1>7. Counted(tk) = Counted(toks) /\ Numbered(tk) = Cat(Numbered(toks), One(Stop))
  <2>1. Semicolon \in {"word"} \cup Symbol /\ Semicolon # "word"
    BY Zenon DEF Symbol, Semicolon
  <2>2. NextNumbered(toks, Semicolon) = Stop
    BY Punctuation, Zenon DEF Semicolon
  <2> QED BY <2>1, <2>2, TokenPrints
<1>8. ASSUME NEW f, Sound(f)' PROVE \E pre : Printing(f, pre, tk)'
  <2>1. Sound(f) /\ Prints(f, m)
    BY <1>1, <1>3, <1>8 DEF Sound, Here
  <2>2. PICK pre : Printing(f, pre, toks)
    BY <1>2, <2>1, Zenon DEF Printed
  <2>3. /\ \A i \in 1..l : pre[i] \in Output
        /\ pre[1] = <<>> /\ pre[l] \in Output
        /\ \A i \in 1..l - 1 : pre[i + 1] = Cat(pre[i], UptoChild(f, blocks[stack[i]]))
        /\ Numbered(toks) = Cat(pre[l], Cat(Flat(f, h), WordsOf(ws)))
    BY <1>3, <2>2, PrintingIs
  <2>4. Flat(f, h) \in Output /\ WordsOf(ws) \in Output /\ Flat(f, blocks[p]) = Cat(Flat(f, h), Stm(f, s))
    <3>1. /\ Flat(f, h) \in Output /\ WordsOf(ws) \in Output
          /\ \A t \in StatementOf(n, m, p) : Flat(f, Append(h, t)) = Cat(Flat(f, h), Stm(f, t))
      BY <1>3, <2>1, PartsPrint
    <3> QED BY <1>6, <3>1, Zenon
  <2>5. Stm(f, s) = Cat(WordsOf(ws), One(Stop))
    BY <1>4, StatementPrint
  <2>6. One(Stop) \in Output
    BY Punctuation, PrintLaws
  <2>7. Numbered(tk) = Cat(pre[l], Cat(Flat(f, blocks[p]), <<>>))
    <3>1. /\ Cat(Cat(pre[l], Cat(Flat(f, h), WordsOf(ws))), One(Stop))
             = Cat(pre[l], Cat(Flat(f, h), Cat(WordsOf(ws), One(Stop))))
          /\ Cat(pre[l], Cat(Flat(f, h), Cat(WordsOf(ws), One(Stop))))
             = Cat(pre[l], Cat(Cat(Flat(f, h), Cat(WordsOf(ws), One(Stop))), <<>>))
      BY <2>3, <2>4, <2>6, OneMore
    <3> QED BY <1>7, <2>3, <2>4, <2>5, <3>1, Zenon
  <2>8. Whole(blocks[p], last') = blocks[p] /\ Pending(blocks[p], last') = <<>>
    BY <1>1, Zenon DEF Whole, Pending
  <2>9. Top' = p
    BY <1>1, <1>5 DEF Top
  <2>10. Numbered(tk) = Cat(pre[l], Cat(Flat(f, Whole(blocks'[Top'], last')), Pending(blocks'[Top'], last')))
    BY <1>1, <2>7, <2>8, <2>9, Zenon
  <2>11. Printing(f, pre, tk)'
    BY <1>1, <1>5, <2>3, <2>10, Zenon DEF Printing
  <2> QED BY <2>11
<1>9. words' = Counted(tk)
  BY <1>1, <1>7, Zenon DEF Printed
<1> QED BY <1>8, <1>9, Zenon DEF Printed

------------------------------------------------------------------------------
\* The token opens a block: the text before it is what was printed.
LEMMA OpenPrints ==
  ASSUME BuildInv, OpenBlock, NEW toks \in Seq(Kind), Printed(toks), NEW tk, tk = toks \o <<LeftBrace>>
  PROVE  Printed(tk)'
<1>1. last = "word"
  BY Zenon DEF OpenBlock
<1>2. stack # <<>>
  BY <1>1, Zenon DEF BuildInv, WordIsPlaced
<1>3. PICK n, m, l, p, h, ws : Here(n, m, l, p) /\ TopIs(n, m, h, ws)
  BY <1>2, HereIs
<1>4. n = words /\ n \in Nat /\ m \in Nat /\ m = Len(blocks) /\ l = Len(stack) /\ l \in Nat \ {0} /\ p = stack[l] /\ p \in 1..m
  BY <1>3 DEF Here
<1>5. PICK k \in Nat : k = m + 1
  BY <1>4
<1>6. PICK s : s = [words |-> ws, child |-> k]
  OBVIOUS
<1>7. /\ words' = n /\ last' # "word" /\ Len(blocks') = k /\ blocks'[p] = Append(h, s) /\ blocks'[k] = <<>>
      /\ \A b \in 1..m : b # p => blocks'[b] = blocks[b]
      /\ Len(stack') = l + 1 /\ (\A i \in 1..l : stack'[i] = stack[i]) /\ stack'[l + 1] = k
  BY <1>3, <1>5, <1>6, OpenBlockDoes
<1>8. h \in Seq(StatementOf(n, m, p)) /\ ws \in Seq(1..n)
  BY <1>3 DEF TopIs, Here
<1>9. h \in Seq(StatementOf(n, k, p)) /\ s \in StatementOf(n, k, p) /\ s.words = ws
  <2>1. n <= n /\ m <= k
    BY <1>4, <1>5
  <2>2. h \in Seq(StatementOf(n, k, p))
    BY <1>4, <1>5, <1>8, <2>1, StatementsOfGrow
  <2>3. s \in StatementOf(n, k, p)
    BY <1>4, <1>5, <1>6, <1>8 DEF StatementOf
  <2> QED BY <1>6, <2>2, <2>3
<1>10. words' = Counted(tk) /\ Numbered(tk) = Cat(Numbered(toks), One(Opening))
  <2>1. LeftBrace \in {"word"} \cup Symbol /\ LeftBrace # "word"
    BY Zenon DEF Symbol, LeftBrace
  <2>2. NextNumbered(toks, LeftBrace) = Opening
    BY Punctuation, Zenon DEF LeftBrace
  <2> QED BY <1>4, <1>7, <2>1, <2>2, TokenPrints DEF Printed
<1>11. ASSUME NEW f, Sound(f)' PROVE \E pre : Printing(f, pre, tk)'
  <2>1. Prints(f, k) /\ Prints(f, m)
    <3>1. Prints(f, k)
      BY <1>7, <1>11 DEF Sound
    <3>2. \A b \in 1..m : b \in 1..k
      BY <1>4, <1>5
    <3> QED BY <3>1, <3>2, Zenon DEF Prints
  <2>2. Sound(f)
    <3> SUFFICES ASSUME NEW b \in 1..m, \A i \in 1..l : stack[i] # b PROVE f[b] = Flat(f, blocks[b])
      BY <1>4, <2>1, Zenon DEF Sound
    <3>1. b # p /\ b # k /\ b \in 1..k
      BY <1>4, <1>5
    <3>2. \A i \in 1..l + 1 : stack'[i] # b
      <4>1. \A i \in 1..l + 1 : i \in 1..l \/ i = l + 1
        BY <1>4
      <4> QED BY <1>7, <3>1, <4>1, Zenon
    <3>3. f[b] = Flat(f, blocks'[b])
      BY <1>7, <1>11, <3>1, <3>2, Zenon DEF Sound
    <3> QED BY <1>7, <3>1, <3>3, Zenon
  <2>3. PICK pre : Printing(f, pre, toks)
    BY <1>2, <2>2, Zenon DEF Printed
  <2>4. /\ \A i \in 1..l : pre[i] \in Output
        /\ pre[1] = <<>> /\ pre[l] \in Output
        /\ \A i \in 1..l - 1 : pre[i + 1] = Cat(pre[i], UptoChild(f, blocks[stack[i]]))
        /\ Numbered(toks) = Cat(pre[l], Cat(Flat(f, h), WordsOf(ws)))
    BY <1>3, <2>3, PrintingIs
  <2>5. Flat(f, h) \in Output /\ WordsOf(ws) \in Output
    BY <1>3, <2>1, PartsPrint
  <2>6. Flat(f, <<>>) = <<>>
    BY <1>4, <1>8, <2>1, FlatPrint
  <2>7. One(Opening) \in Output
    BY Punctuation, PrintLaws
  <2>8. UptoChild(f, blocks'[p]) = Cat(Flat(f, h), Cat(WordsOf(ws), One(Opening)))
    <3>1. UptoChild(f, Append(h, s)) = Cat(Flat(f, h), Cat(WordsOf(s.words), One(Opening)))
      BY <1>9, OfLastStatement
    <3> QED BY <1>7, <1>9, <3>1, Zenon
  <2>9. PICK x : x = Cat(pre[l], UptoChild(f, blocks'[p])) /\ x \in Output /\ Numbered(tk) = Cat(x, Cat(<<>>, <<>>))
    <3>1. /\ Cat(Cat(pre[l], Cat(Flat(f, h), WordsOf(ws))), One(Opening))
             = Cat(pre[l], Cat(Flat(f, h), Cat(WordsOf(ws), One(Opening))))
          /\ Cat(pre[l], Cat(Flat(f, h), Cat(WordsOf(ws), One(Opening))))
             = Cat(Cat(pre[l], Cat(Flat(f, h), Cat(WordsOf(ws), One(Opening)))), Cat(<<>>, <<>>))
      BY <2>4, <2>5, <2>7, OneMore
    <3>2. Cat(pre[l], Cat(Flat(f, h), Cat(WordsOf(ws), One(Opening)))) \in Output
      <4>1. Cat(WordsOf(ws), One(Opening)) \in Output
        BY <2>5, <2>7, PrintLaws
      <4>2. Cat(Flat(f, h), Cat(WordsOf(ws), One(Opening))) \in Output
        BY <2>5, <4>1, PrintLaws
      <4> QED BY <2>4, <4>2, PrintLaws
    <3> QED BY <1>10, <2>4, <2>8, <3>1, <3>2, Zenon
  <2>10. PICK nxt : nxt = [i \in 1..l + 1 |-> IF i = l + 1 THEN x ELSE pre[i]]
    OBVIOUS
  <2>11. nxt[l + 1] = x /\ (\A i \in 1..l : nxt[i] = pre[i]) /\ nxt[1] = <<>> /\ \A i \in 1..l + 1 : nxt[i] \in Output
    <3>1. l + 1 \in 1..l + 1 /\ 1 \in 1..l /\ \A i \in 1..l : i \in 1..l + 1 /\ i # l + 1
      BY <1>4
    <3>2. nxt[l + 1] = x /\ \A i \in 1..l : nxt[i] = pre[i]
      BY <2>10, <3>1
    <3>3. \A i \in 1..l + 1 : i \in 1..l \/ i = l + 1
      BY <1>4
    <3> QED BY <2>4, <2>9, <3>1, <3>2, <3>3, Zenon
  <2>12. ASSUME NEW i \in 1..l PROVE nxt[i + 1] = Cat(nxt[i], UptoChild(f, blocks'[stack'[i]]))
    <3>1. CASE i = l
      BY <1>4, <1>7, <2>9, <2>11, <3>1, Zenon
    <3>2. CASE i # l
      <4>1. i \in 1..l - 1 /\ i + 1 \in 1..l
        BY <1>4, <3>2
      <4>2. stack[i] # p /\ stack[i] \in 1..m
        BY <1>3, <4>1 DEF Here
      <4>3. stack'[i] = stack[i] /\ blocks'[stack[i]] = blocks[stack[i]]
        BY <1>7, <4>2, Zenon
      <4>4. nxt[i] = pre[i] /\ nxt[i + 1] = pre[i + 1]
        BY <2>11, <4>1, Zenon
      <4> QED BY <2>4, <4>1, <4>3, <4>4, Zenon
    <3> QED BY <3>1, <3>2
  <2>13. Whole(<<>>, last') = <<>> /\ Pending(<<>>, last') = <<>>
    BY <1>7, Zenon DEF Whole, Pending
  <2>14. Top' = k
    BY <1>7, Zenon DEF Top
  <2>15. Numbered(tk) = Cat(nxt[l + 1], Cat(Flat(f, Whole(blocks'[Top'], last')), Pending(blocks'[Top'], last')))
    BY <1>7, <2>6, <2>9, <2>11, <2>13, <2>14, Zenon
  <2>16. Len(stack') - 1 = l
    BY <1>4, <1>7
  <2>17. Printing(f, nxt, tk)'
    BY <1>7, <2>11, <2>12, <2>15, <2>16, Zenon DEF Printing
  <2> QED BY <2>17
<1> QED BY <1>10, <1>11, Zenon DEF Printed

\* The token closes a block: its text is that of the last statement below.
LEMMA ClosePrints ==
  ASSUME BuildInv, CloseBlock, NEW toks \in Seq(Kind), Printed(toks), NEW tk, tk = toks \o <<Brace>>
  PROVE  Printed(tk)'
<1>1. stack # <<>>
  BY Zenon DEF CloseBlock
<1>2. PICK n, m, l, p, h, ws : Here(n, m, l, p) /\ TopIs(n, m, h, ws)
  BY <1>1, HereIs
<1>3. /\ n = words /\ n \in Nat /\ m \in Nat /\ m = Len(blocks) /\ l = Len(stack) /\ l \in Nat \ {0}
      /\ p = stack[l] /\ p \in 1..m /\ p = Top
  BY <1>2 DEF Here
<1>4. /\ words' = n /\ last # "word" /\ last' # "word" /\ blocks' = blocks
      /\ Len(stack') = l - 1 /\ \A i \in 1..l - 1 : stack'[i] = stack[i]
  BY <1>2, CloseBlockDoes
<1>5. words' = Counted(tk) /\ Numbered(tk) = Cat(Numbered(toks), One(Ending))
  <2>1. Brace \in {"word"} \cup Symbol /\ Brace # "word"
    BY Zenon DEF Symbol, Brace
  <2>2. NextNumbered(toks, Brace) = Ending
    BY Punctuation, Zenon DEF Brace
  <2> QED BY <1>3, <1>4, <2>1, <2>2, TokenPrints DEF Printed
<1>6. blocks[p] = h /\ WordsOf(ws) = <<>>
  <2>1. blocks[p] = h /\ ws = <<>>
    BY <1>2, <1>3, <1>4 DEF TopIs
  <2>2. WordsOf(<<>>) = <<>>
    BY <1>3, EmptySeq, WordsOfAppend
  <2> QED BY <2>1, <2>2
<1>7. ASSUME stack' # <<>>, NEW f, Sound(f)' PROVE \E pre : Printing(f, pre, tk)'
  <2>1. PICK j \in Nat : j = l - 1 /\ j # 0 /\ j \in 1..l - 1 /\ j + 1 = l
    <3>1. Len(stack') # 0
      <4>1. stack \in Seq(1..Len(blocks)) /\ stack' = Front(stack)
        BY Zenon DEF BuildInv, TypeOK, CloseBlock
      <4>2. stack' \in Seq(1..Len(blocks))
        BY <1>1, <4>1, FrontIs
      <4> QED BY <1>7, <4>2, EmptySeq
    <3> QED BY <1>3, <1>4, <3>1
  <2>2. PICK q : q = stack[j] /\ q \in 1..m /\ q # p
    <3>1. j \in 1..l
      BY <1>3, <2>1
    <3> QED BY <1>2, <2>1, <3>1 DEF Here
  <2>3. Prints(f, m) /\ Sound(f) /\ f[p] = Flat(f, h)
    <3>1. Prints(f, m) /\ \A b \in 1..m : (\A i \in 1..l - 1 : stack'[i] # b) => f[b] = Flat(f, blocks[b])
      BY <1>3, <1>4, <1>7, Zenon DEF Sound
    <3>2. \A i \in 1..l - 1 : i \in 1..l
      BY <1>3
    <3>3. \A i \in 1..l - 1 : stack[i] # p
      BY <1>2 DEF Here
    <3>4. Sound(f)
      BY <1>3, <1>4, <3>1, <3>2, Zenon DEF Sound
    <3> QED BY <1>3, <1>4, <1>6, <3>1, <3>3, <3>4, Zenon
  <2>4. PICK pre : Printing(f, pre, toks)
    BY <1>1, <2>3, Zenon DEF Printed
  <2>5. /\ \A i \in 1..l : pre[i] \in Output
        /\ pre[1] = <<>> /\ pre[l] \in Output
        /\ \A i \in 1..l - 1 : pre[i + 1] = Cat(pre[i], UptoChild(f, blocks[stack[i]]))
        /\ Numbered(toks) = Cat(pre[l], Cat(Flat(f, h), WordsOf(ws)))
    BY <1>2, <2>4, PrintingIs
  <2>6. Flat(f, h) \in Output
    BY <1>2, <2>3, PartsPrint
  <2>7. PICK d, vs, s : /\ d \in Seq(StatementOf(n, m, q)) /\ vs \in Seq(1..n) /\ s \in StatementOf(n, m, q)
                        /\ s = [words |-> vs, child |-> p] /\ blocks[q] = Append(d, s)
    <3>1. PICK b : b = blocks[q]
      OBVIOUS
    <3>2. b \in Seq(StatementOf(n, m, q))
      BY <1>2, <2>2, <3>1 DEF Here
    <3>3. b # <<>> /\ Last(b).child = p
      <4>1. blocks[stack[j]] # <<>> /\ Last(blocks[stack[j]]).child = stack[j + 1]
        BY <1>3, <2>1 DEF BuildInv, OpenBlocks
      <4> QED BY <1>3, <2>1, <2>2, <3>1, <4>1
    <3>4. PICK s : s = Last(b)
      OBVIOUS
    <3>5. Front(b) \in Seq(StatementOf(n, m, q)) /\ s \in StatementOf(n, m, q) /\ b = Append(Front(b), s)
      BY <3>2, <3>3, <3>4, FrontAndLast DEF Last
    <3>6. PICK vs \in Seq(1..n) : s = [words |-> vs, child |-> p]
      BY <3>3, <3>4, <3>5 DEF StatementOf
    <3> QED BY <3>1, <3>5, <3>6
  <2>8. Flat(f, d) \in Output /\ Flat(f, blocks[q]) = Cat(Flat(f, d), Stm(f, s))
    <3>1. Flat(f, d) \in Output /\ Flat(f, Append(d, s)) = Cat(Flat(f, d), Stm(f, s))
      BY <1>3, <2>2, <2>3, <2>7, FlatPrint
    <3> QED BY <2>7, <3>1, Zenon
  <2>9. WordsOf(vs) \in Output /\ One(Opening) \in Output /\ One(Ending) \in Output
    <3>1. 0 \in Nat
      OBVIOUS
    <3>2. WordsOf(vs) \in Output
      BY <1>3, <2>7, <3>1, WordsPrint
    <3> QED BY <3>2, Punctuation, PrintLaws
  <2>10. Stm(f, s) = Cat(WordsOf(vs), Cat(Cat(One(Opening), f[p]), One(Ending)))
    <3>1. p # 0
      BY <1>3
    <3> QED BY <2>7, <3>1, StatementPrint, Zenon
  <2>11. UptoChild(f, blocks[q]) = Cat(Flat(f, d), Cat(WordsOf(vs), One(Opening)))
    <3>1. UptoChild(f, Append(d, s)) = Cat(Flat(f, d), Cat(WordsOf(s.words), One(Opening)))
      BY <2>7, OfLastStatement
    <3>2. s.words = vs
      BY <2>7
    <3> QED BY <2>7, <3>1, <3>2, Zenon
  <2>12. pre[j] \in Output /\ pre[l] = Cat(pre[j], UptoChild(f, blocks[q]))
    <3>1. j \in 1..l
      BY <1>3, <2>1
    <3>2. pre[j + 1] = Cat(pre[j], UptoChild(f, blocks[stack[j]]))
      BY <2>1, <2>5, Zenon
    <3> QED BY <2>1, <2>2, <2>5, <3>1, <3>2, Zenon
  <2>13. Numbered(tk) = Cat(pre[j], Cat(Flat(f, blocks[q]), <<>>))
    <3>1. Numbered(tk) = Cat(Cat(Cat(pre[j], Cat(Flat(f, d), Cat(WordsOf(vs), One(Opening)))), Cat(Flat(f, h), <<>>)), One(Ending))
      BY <1>5, <1>6, <2>5, <2>11, <2>12, Zenon
    <3>2. Cat(Cat(Cat(pre[j], Cat(Flat(f, d), Cat(WordsOf(vs), One(Opening)))), Cat(Flat(f, h), <<>>)), One(Ending))
          = Cat(pre[j], Cat(Cat(Flat(f, d), Cat(WordsOf(vs), Cat(Cat(One(Opening), Flat(f, h)), One(Ending)))), <<>>))
      <4>1. PICK X \in Output, A \in Output, P \in Output, C \in Output :
              X = pre[j] /\ A = Flat(f, d) /\ P = WordsOf(vs) /\ C = Flat(f, h)
        BY <2>6, <2>8, <2>9, <2>12, Zenon
      <4>2. PICK x \in Output, y \in Output : x = One(Ending) /\ y = One(Opening)
        BY <2>9, Zenon
      <4>3. Cat(Cat(Cat(X, Cat(A, Cat(P, y))), Cat(C, <<>>)), x)
            = Cat(X, Cat(Cat(A, Cat(P, Cat(Cat(y, C), x))), <<>>))
        BY OneBlockLess
      <4> QED BY <4>1, <4>2, <4>3, Zenon
    <3> QED BY <2>3, <2>8, <2>10, <3>1, <3>2, Zenon
  <2>14. Top' = q
    BY <1>4, <2>1, <2>2, Zenon DEF Top
  <2>15. Whole(blocks[q], last') = blocks[q] /\ Pending(blocks[q], last') = <<>>
    BY <1>4, Zenon DEF Whole, Pending
  <2>16. Numbered(tk) = Cat(pre[j], Cat(Flat(f, Whole(blocks'[Top'], last')), Pending(blocks'[Top'], last')))
    BY <1>4, <2>13, <2>14, <2>15, Zenon
  <2>17. (\A i \in 1..l - 1 : i \in 1..l) /\ \A i \in 1..(l - 1) - 1 : i \in 1..l - 1
    BY <1>3
  <2>18. Printing(f, pre, tk)'
    BY <1>4, <2>1, <2>5, <2>16, <2>17, Zenon DEF Printing
  <2> QED BY <2>18
<1> QED BY <1>5, <1>7, Zenon DEF Printed

------------------------------------------------------------------------------
\* While it parses, the tree prints the tokens read so far; once accepted, it
\* prints the file.

PrintedSoFar == \E toks : Scanned(toks) /\ Printed(toks)

RoundInv ==
  /\ BuildInv
  /\ result \in {"unopened", "parsing"} => PrintedSoFar
  /\ RoundTrip

LEMMA InitPrinted == Init => RoundInv
<1> SUFFICES ASSUME Init PROVE RoundInv
  OBVIOUS
<1>1. result = "unopened" /\ words = 0 /\ blocks = <<<<>>>> /\ stack = <<Root>> /\ last # "word"
  BY Zenon DEF Init
<1>2. BuildInv /\ Scanned(<<>>)
  BY BuildInit, InitScanned
<1>3. RoundTrip
  BY <1>1, Zenon DEF RoundTrip
<1>4. Counted(<<>>) = 0
  <2>1. Words(<<>>) = {}
    <3>1. <<>> \in Seq(Kind) /\ Len(<<>>) = 0 /\ 1..0 = {}
      BY EmptySeq
    <3> QED BY <3>1, Zenon DEF Words
  <2> QED BY <2>1, FS_EmptySet DEF Counted
<1>5. Numbered(<<>>) = <<>>
  <2>1. <<>> \in Seq(Kind) /\ Len(<<>>) = 0
    BY EmptySeq
  <2>2. Numbered(<<>>) \in Seq(Printable) /\ Len(Numbered(<<>>)) = 0
    BY <2>1, NumberedIs
  <2> QED BY <2>2, EmptySeq
<1>6. Len(stack) = 1 /\ Top = 1 /\ blocks[1] = <<>> /\ Len(blocks) = 1
  BY <1>1 DEF Top, Root
<1>7. ASSUME NEW f, Sound(f) PROVE \E pre : Printing(f, pre, <<>>)
  <2>1. Prints(f, 1)
    BY <1>6, <1>7, Zenon DEF Sound
  <2>2. Flat(f, <<>>) = <<>>
    <3>1. <<>> \in Seq(StatementOf(0, 1, 1)) /\ 0 \in Nat /\ 1 \in Nat /\ 1 \in 1..1
      BY EmptySeq
    <3> QED BY <2>1, <3>1, FlatPrint
  <2>3. <<>> \in Output /\ Cat(<<>>, Cat(<<>>, <<>>)) = <<>>
    BY PrintLaws
  <2>4. PICK pre : pre = [i \in 1..1 |-> <<>>]
    OBVIOUS
  <2>5. pre[1] = <<>> /\ (\A i \in 1..1 : i = 1) /\ \A i \in 1..1 - 1 : FALSE
    BY <2>4
  <2>6. Whole(<<>>, last) = <<>> /\ Pending(<<>>, last) = <<>>
    BY <1>1, Zenon DEF Whole, Pending
  <2>7. Numbered(<<>>) = Cat(pre[1], Cat(Flat(f, Whole(blocks[Top], last)), Pending(blocks[Top], last)))
    BY <1>5, <1>6, <2>2, <2>3, <2>5, <2>6, Zenon
  <2>8. Printing(f, pre, <<>>)
    BY <1>6, <2>3, <2>5, <2>7, Zenon DEF Printing
  <2> QED BY <2>8
<1>8. Printed(<<>>)
  BY <1>1, <1>4, <1>7, Zenon DEF Printed
<1> QED BY <1>1, <1>2, <1>3, <1>8, Zenon DEF RoundInv, PrintedSoFar

LEMMA PrintedSame ==
  ASSUME NEW toks, Printed(toks), last' = last, UNCHANGED tree
  PROVE  Printed(toks)'
<1>1. words' = words /\ blocks' = blocks /\ stack' = stack
  BY Zenon DEF tree
<1>2. Top' = Top
  BY <1>1, Zenon DEF Top
<1>3. ASSUME NEW f, Sound(f)' PROVE Sound(f)
  BY <1>1, <1>3, Zenon DEF Sound
<1>4. ASSUME NEW f, NEW pre, Printing(f, pre, toks) PROVE Printing(f, pre, toks)'
  BY <1>1, <1>2, <1>4, Zenon DEF Printing
<1> QED BY <1>1, <1>3, <1>4, Zenon DEF Printed

\* The file ends after a whole statement of the root.
LEMMA AcceptPrints ==
  ASSUME BuildInv, PrintedSoFar, Accept
  PROVE  ConfigToString[Root] = Numbered(Uncut(text))
<1>1. PICK toks : Scanned(toks) /\ Printed(toks)
  BY Zenon DEF PrintedSoFar
<1>2. token = "eof" /\ Len(stack) = 1 /\ last # "word"
  <2>1. "word" \notin {";", "}"}
    BY Zenon
  <2> QED BY <2>1, Zenon DEF Accept, Taken
<1>3. Uncut(text) = toks
  <2>1. ended /\ token # "error" /\ toks \in Seq(Kind)
    BY <1>1, <1>2, Zenon DEF Scanned
  <2>2. Uncut(text) = toks \o <<>>
    BY <1>1, <2>1, Zenon DEF Scanned
  <2> QED BY <2>1, <2>2, ConcatEmptySeq
<1>4. stack # <<>> /\ Top = Root /\ Root \in 1..Len(blocks)
  <2>1. stack \in Seq(1..Len(blocks))
    BY Zenon DEF BuildInv, TypeOK
  <2>2. stack # <<>>
    <3>1. Len(<<>>) = 0
      OBVIOUS
    <3> QED BY <1>2, <3>1
  <2>3. stack[1] = Root
    BY <2>2, Zenon DEF BuildInv, OpenBlocks
  <2>4. stack[1] \in 1..Len(blocks)
    <3>1. 1 \in 1..Len(stack)
      BY <1>2
    <3> QED BY <2>1, <3>1, ElementOfSeq
  <2> QED BY <1>2, <2>2, <2>3, <2>4, Zenon DEF Top
<1>5. PICK f : f = ConfigToString
  OBVIOUS
<1>6. Prints(f, Len(blocks)) /\ \A b \in 1..Len(blocks) : f[b] = Flat(f, blocks[b])
  BY <1>5, ConfigToStringIs, Zenon DEF BuildInv
<1>7. Sound(f)
  BY <1>6, Zenon DEF Sound
<1>8. PICK pre : Printing(f, pre, toks)
  BY <1>1, <1>4, <1>7, Zenon DEF Printed
<1>9. Numbered(toks) = Cat(<<>>, Cat(Flat(f, blocks[Root]), <<>>))
  <2>1. pre[1] = <<>> /\ Numbered(toks) = Cat(pre[1], Cat(Flat(f, Whole(blocks[Root], last)), Pending(blocks[Root], last)))
    BY <1>2, <1>4, <1>8, Zenon DEF Printing
  <2>2. Whole(blocks[Root], last) = blocks[Root] /\ Pending(blocks[Root], last) = <<>>
    BY <1>2, Zenon DEF Whole, Pending
  <2> QED BY <2>1, <2>2, Zenon
<1>10. f[Root] \in Output /\ f[Root] = Flat(f, blocks[Root])
  BY <1>4, <1>6, Zenon DEF Prints, Output
<1>11. \A s \in Output : Cat(<<>>, Cat(s, <<>>)) = s
  BY PrintLaws
<1> QED BY <1>3, <1>5, <1>9, <1>10, <1>11, Zenon

LEMMA ParsePrinted ==
  ASSUME TypeOK, BuildInv, AddWord \/ EndStatement \/ OpenBlock \/ CloseBlock, NEW toks, Scanned(toks), Printed(toks)
  PROVE  PrintedSoFar'
<1>1. token' = "none" /\ UNCHANGED lexer
  BY Zenon DEF AddWord, EndStatement, OpenBlock, CloseBlock, Taken
<1>2. toks \in Seq(Kind)
  BY Zenon DEF Scanned
<1>3. \A t \in {"word"} \cup Symbol : token = t => Scanned(toks \o <<t>>)'
  BY <1>1, TakeToken
<1>4. {"word", Semicolon, LeftBrace, Brace} \subseteq {"word"} \cup Symbol
  BY Zenon DEF Symbol, Semicolon, LeftBrace, Brace
<1>5. CASE AddWord
  <2>1. token = "word"
    BY <1>5, Zenon DEF AddWord, Taken
  <2>2. Printed(toks \o <<"word">>)'
    BY <1>2, <1>5, AddWordPrints
  <2> QED BY <1>3, <1>4, <2>1, <2>2, Zenon DEF PrintedSoFar
<1>6. CASE EndStatement
  <2>1. token = Semicolon
    BY <1>6, Zenon DEF EndStatement, Taken, Semicolon
  <2>2. Printed(toks \o <<Semicolon>>)'
    BY <1>2, <1>6, EndPrints
  <2> QED BY <1>3, <1>4, <2>1, <2>2, Zenon DEF PrintedSoFar
<1>7. CASE OpenBlock
  <2>1. token = LeftBrace
    BY <1>7, Zenon DEF OpenBlock, Taken, LeftBrace
  <2>2. Printed(toks \o <<LeftBrace>>)'
    BY <1>2, <1>7, OpenPrints
  <2> QED BY <1>3, <1>4, <2>1, <2>2, Zenon DEF PrintedSoFar
<1>8. CASE CloseBlock
  <2>1. token = Brace
    BY <1>8, Zenon DEF CloseBlock, Taken, Brace
  <2>2. Printed(toks \o <<Brace>>)'
    BY <1>2, <1>8, ClosePrints
  <2> QED BY <1>3, <1>4, <2>1, <2>2, Zenon DEF PrintedSoFar
<1> QED BY <1>5, <1>6, <1>7, <1>8

LEMMA RoundStep == ParserInv /\ RoundInv /\ [Next]_vars => RoundInv'
<1> SUFFICES ASSUME ParserInv, RoundInv, [Next]_vars PROVE RoundInv'
  OBVIOUS
<1>1. BuildInv /\ BuildInv' /\ TypeOK /\ RoundTrip
  BY BuildStep, Zenon DEF RoundInv, ParserInv
<1>2. ASSUME result \in {"unopened", "parsing"} PROVE PrintedSoFar
  BY <1>2, Zenon DEF RoundInv
<1>3. CASE UNCHANGED vars
  <2>1. /\ text' = text /\ ended' = ended /\ held' = held /\ state' = state /\ token' = token /\ last' = last
        /\ blocks' = blocks /\ result' = result /\ UNCHANGED tree
    BY <1>3, Zenon DEF vars, lexer, tree
  <2>2. ConfigToString' = ConfigToString
    BY <2>1, SMT DEF ConfigToString
  <2>3. RoundTrip'
    BY <1>1, <2>1, <2>2, Zenon DEF RoundTrip
  <2>4. ASSUME result' \in {"unopened", "parsing"} PROVE PrintedSoFar'
    <3>1. PICK toks : Scanned(toks) /\ Printed(toks)
      BY <1>2, <2>1, <2>4, Zenon DEF PrintedSoFar
    <3>2. Scanned(toks)'
      BY <2>1, <3>1, Zenon DEF Scanned
    <3> QED BY <2>1, <3>1, <3>2, PrintedSame, Zenon DEF PrintedSoFar
  <2> QED BY <1>1, <2>3, <2>4, Zenon DEF RoundInv
<1>4. CASE EmptyStack \/ Reject
  <2>1. result' \notin {"unopened", "parsing", "true"}
    BY <1>4, Zenon DEF EmptyStack, Reject, Return
  <2> QED BY <1>1, <2>1, Zenon DEF RoundInv, RoundTrip
<1>5. CASE Accept
  <2>1. result = "parsing" /\ result' = "true" /\ text' = text /\ blocks' = blocks
    BY <1>5, Zenon DEF Accept, Taken, Return, lexer, tree
  <2>2. ConfigToString[Root] = Numbered(Uncut(text))
    BY <1>1, <1>2, <1>5, <2>1, AcceptPrints, Zenon
  <2>3. ConfigToString' = ConfigToString
    BY <2>1, SMT DEF ConfigToString
  <2> QED BY <1>1, <2>1, <2>2, <2>3, Zenon DEF RoundInv, RoundTrip
<1>6. CASE Open \/ ParseToken \/ SkipComment \/ AddWord \/ EndStatement \/ OpenBlock \/ CloseBlock
  <2>1. result \in {"unopened", "parsing"} /\ result' # "true"
    BY <1>6, Zenon DEF Open, ParseToken, SkipSpace, ReadSymbol, BeginToken, ReadQuoted, ReadComment, ReadWord,
                      Reads, EndOfInput, SkipComment, AddWord, EndStatement, OpenBlock, CloseBlock, Taken
  <2>2. PICK toks : Scanned(toks) /\ Printed(toks)
    BY <1>2, <2>1, Zenon DEF PrintedSoFar
  <2>3. ASSUME result' \in {"unopened", "parsing"} PROVE PrintedSoFar'
    <3>1. CASE Open
      <4>1. token = "none" /\ result' = "parsing" /\ last' = last /\ UNCHANGED tree
        BY <2>3, <3>1, Zenon DEF Open, ParserInv, Meaning
      <4>2. Scanned(toks)'
        BY <1>1, <2>2, <3>1, <4>1, OpenScanned
      <4> QED BY <2>2, <4>1, <4>2, PrintedSame, Zenon DEF PrintedSoFar
    <3>2. CASE ParseToken
      <4>1. last' = last /\ UNCHANGED tree
        BY <3>2, Zenon DEF ParseToken, SkipSpace, ReadSymbol, BeginToken, ReadQuoted, ReadComment, ReadWord,
                          Reads, EndOfInput
      <4>2. Scanned(toks)'
        BY <1>1, <2>2, <3>2, ReadScanned
      <4> QED BY <2>2, <4>1, <4>2, PrintedSame, Zenon DEF PrintedSoFar
    <3>3. CASE SkipComment
      <4>1. last' = last /\ UNCHANGED tree
        BY <3>3, Zenon DEF SkipComment
      <4>2. Scanned(toks)'
        BY <2>2, <3>3, CommentScanned
      <4> QED BY <2>2, <4>1, <4>2, PrintedSame, Zenon DEF PrintedSoFar
    <3>4. CASE AddWord \/ EndStatement \/ OpenBlock \/ CloseBlock
      BY <1>1, <2>2, <3>4, ParsePrinted
    <3> QED BY <1>6, <3>1, <3>2, <3>3, <3>4
  <2>4. RoundTrip'
    BY <2>1, Zenon DEF RoundTrip
  <2> QED BY <1>1, <2>3, <2>4, Zenon DEF RoundInv
<1> QED BY <1>3, <1>4, <1>5, <1>6, Zenon DEF Next, Parse

\* NginxConfig::ToString of every file that Parse accepts, of any length, prints
\* the tokens of the file in their order (config_parser.cc:21 and :52), all but a
\* word that the end of the file cuts off, which is lost.
THEOREM RoundTripCorrect == Spec => []RoundTrip
<1>1. RoundInv => RoundTrip
  BY Zenon DEF RoundInv
<1> QED BY <1>1, InitPrinted, RoundStep, MeaningCorrect, PTL DEF Spec
==============================================================================
