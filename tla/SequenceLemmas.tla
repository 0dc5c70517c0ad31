--------------------------- MODULE SequenceLemmas ---------------------------
(***************************************************************************)
(* Lemmas about numbers and sequences that more than one of the proofs     *)
(* cites: induction over a set of numbers, the front of a sequence, and    *)
(* FlattenSeq of a sequence that grows at its end.                         *)
(***************************************************************************)
EXTENDS Integers, SequencesExt, SequenceTheorems, WellFoundedInduction, TLAPS

------------------------------------------------------------------------------
\* Numbers.  The library's induction needs an operator as a parameter; over a
\* set it follows from the well-foundedness of < on Nat.

Less == {p \in Nat \X Nat : p[1] < p[2]}

LEMMA LessWellFounded == IsWellFoundedOn(Less, Nat)
<1>1. OpToRel(<, Nat) = Less
  BY DEF OpToRel, Less
<1> QED BY <1>1, NatLessThanWellFounded

LEMMA HasLeast ==
  ASSUME NEW S \in SUBSET Nat, S # {}
  PROVE  \E x \in S : \A y \in S : x <= y
<1>1. PICK x \in S : \A y \in S : <<y, x>> \notin Less
  BY WFMin, LessWellFounded
<1>2. ASSUME NEW y \in S PROVE x <= y
  <2>1. x \in Nat /\ y \in Nat
    OBVIOUS
  <2>2. <<y, x>> \notin Less
    BY <1>1
  <2>3. ~(y < x)
    BY <2>1, <2>2 DEF Less
  <2> QED BY <2>1, <2>3
<1> QED BY <1>2

LEMMA Induction ==
  ASSUME NEW S, 0 \in S, \A n \in Nat : n \in S => n + 1 \in S
  PROVE  \A n \in Nat : n \in S
<1> SUFFICES ASSUME Nat \ S # {} PROVE FALSE
  OBVIOUS
<1>1. PICK x \in Nat \ S : \A y \in Nat \ S : x <= y
  BY HasLeast
<1>2. x \in Nat /\ x \notin S /\ x # 0
  OBVIOUS
<1>3. x - 1 \in Nat /\ ~(x <= x - 1) /\ (x - 1) + 1 = x
  BY <1>2
<1>4. x - 1 \in S
  BY <1>1, <1>3
<1> QED BY <1>2, <1>3, <1>4

------------------------------------------------------------------------------
\* Sequences that grow at their end.

LEMMA FrontIs ==
  ASSUME NEW S, NEW s \in Seq(S), s # <<>>
  PROVE  /\ Front(s) \in Seq(S) /\ Len(Front(s)) = Len(s) - 1
         /\ \A i \in 1..Len(s) - 1 : Front(s)[i] = s[i]
<1>1. Len(s) \in Nat \ {0}
  BY EmptySeq
<1>2. \A i \in 1..Len(s) - 1 : s[i] \in S
  BY <1>1, ElementOfSeq
<1>3. PICK n \in Int : n = Len(s) - 1
  BY <1>1
<1>4. /\ SubSeq(s, 1, n) \in Seq(S) /\ Len(SubSeq(s, 1, n)) = IF 1 <= n THEN n - 1 + 1 ELSE 0
      /\ \A i \in 1..n - 1 + 1 : SubSeq(s, 1, n)[i] = s[1 + i - 1]
  BY <1>2, <1>3, SubSeqProperties
<1>5. \A i \in 1..n : i \in 1..n - 1 + 1 /\ 1 + i - 1 = i
  OBVIOUS
<1> QED BY <1>1, <1>3, <1>4, <1>5 DEF Front

LEMMA FrontAndLast ==
  ASSUME NEW S, NEW s \in Seq(S), s # <<>>
  PROVE  Front(s) \in Seq(S) /\ s[Len(s)] \in S /\ s = Append(Front(s), s[Len(s)])
<1>1. PICK n \in Nat : n = Len(s) /\ n # 0
  BY EmptySeq
<1>2. Front(s) \in Seq(S) /\ Len(Front(s)) = n - 1 /\ \A i \in 1..n - 1 : Front(s)[i] = s[i]
  BY <1>1, FrontIs
<1>3. s[n] \in S
  BY <1>1, ElementOfSeq
<1>4. PICK a : a = Append(Front(s), s[n])
  OBVIOUS
<1>5. a \in Seq(S) /\ Len(a) = n /\ (\A i \in 1..n - 1 : a[i] = s[i]) /\ a[n] = s[n]
  <2>1. PICK f \in Seq(S) : f = Front(s)
    BY <1>2
  <2>2. /\ a \in Seq(S) /\ Len(a) = Len(f) + 1 /\ a[Len(f) + 1] = s[n]
        /\ \A i \in 1..Len(f) : a[i] = f[i]
    BY <1>3, <1>4, <2>1, AppendProperties
  <2>3. Len(f) = n - 1 /\ (n - 1) + 1 = n
    BY <1>1, <1>2, <2>1
  <2> QED BY <1>2, <2>1, <2>2, <2>3
<1>6. \A i \in 1..n : i \in 1..n - 1 \/ i = n
  BY <1>1
<1>7. a = s
  BY <1>1, <1>5, <1>6, SeqEqual
<1> QED BY <1>1, <1>2, <1>3, <1>4, <1>7

LEMMA AppendParts ==
  ASSUME NEW S, NEW s \in Seq(S), NEW x \in S
  PROVE  /\ Append(s, x) \in Seq(S) /\ Append(s, x) # <<>> /\ Front(Append(s, x)) = s
         /\ Append(s, x)[Len(Append(s, x))] = x
         /\ \A y \in S : [Append(s, x) EXCEPT ![Len(Append(s, x))] = y] = Append(s, y)
<1>1. PICK n \in Nat : n = Len(s)
  BY LenProperties
<1>2. ASSUME NEW y \in S
      PROVE  /\ Append(s, y) \in Seq(S) /\ Append(s, y) # <<>> /\ Len(Append(s, y)) = n + 1
             /\ (\A i \in 1..n : Append(s, y)[i] = s[i]) /\ Append(s, y)[n + 1] = y
  BY <1>1, AppendProperties
<1>3. PICK k \in Nat : k = n + 1
  OBVIOUS
<1>4. PICK a \in Seq(S) : a = Append(s, x)
  BY <1>2
<1>5. a # <<>> /\ Len(a) = k /\ (\A i \in 1..n : a[i] = s[i]) /\ a[k] = x
  BY <1>2, <1>3, <1>4
<1>6. Front(a) = s
  <2>1. Front(a) \in Seq(S) /\ Len(Front(a)) = k - 1 /\ \A i \in 1..k - 1 : Front(a)[i] = a[i]
    BY <1>5, FrontIs
  <2>2. k - 1 = n
    BY <1>3
  <2> QED BY <1>1, <1>5, <2>1, <2>2, SeqEqual
<1>7. ASSUME NEW y \in S PROVE [a EXCEPT ![k] = y] = Append(s, y)
  <2>1. k \in 1..Len(a)
    BY <1>3, <1>5
  <2>2. PICK e : e = [a EXCEPT ![k] = y]
    OBVIOUS
  <2>3. e \in Seq(S) /\ Len(e) = k /\ \A i \in 1..k : e[i] = IF i = k THEN y ELSE a[i]
    <3>1. e \in Seq(S) /\ Len(e) = Len(a)
      BY <2>1, <2>2, ExceptSeq
    <3>2. DOMAIN a = 1..k
      BY <1>5, LenProperties
    <3> QED BY <1>5, <2>2, <3>1, <3>2
  <2>4. \A i \in 1..k : i \in 1..n \/ i = k
    BY <1>3
  <2>5. k \notin 1..n
    BY <1>3
  <2>6. PICK b \in Seq(S) : b = Append(s, y)
    BY <1>2
  <2>7. Len(b) = k /\ (\A i \in 1..n : b[i] = s[i]) /\ b[k] = y
    BY <1>2, <1>3, <2>6
  <2>8. \A i \in 1..k : e[i] = b[i]
    BY <1>5, <2>3, <2>4, <2>5, <2>7
  <2>9. e = b
    BY <2>3, <2>6, <2>7, <2>8, SeqEqual
  <2> QED BY <2>2, <2>6, <2>9
<1> QED BY <1>4, <1>5, <1>6, <1>7

------------------------------------------------------------------------------
\* FlattenSeq of a sequence that grows at its end.

Flattens(F, q) ==
  F = [i \in 1..Len(q) |-> IF i = 1 THEN q[i] ELSE F[i - 1] \o q[i]]

LEMMA FlattenChoice ==
  ASSUME NEW q
  PROVE  FlattenSeq(q) = IF Len(q) = 0 THEN q ELSE (CHOOSE F : Flattens(F, q))[Len(q)]
BY DEF FlattenSeq, Flattens

LEMMA FlattensExist ==
  ASSUME NEW S, NEW q \in Seq(Seq(S)), q # <<>>
  PROVE  \E F : F \in [1..Len(q) -> Seq(S)] /\ Flattens(F, q)
<1>1. PICK n \in Nat : n = Len(q) /\ n # 0
  BY EmptySeq
<1>2. \A i \in 1..n : q[i] \in Seq(S)
  BY <1>1, ElementOfSeq
<1> DEFINE Upto(F, k) == F \in [1..k -> Seq(S)]
                         /\ \A i \in 1..k : F[i] = IF i = 1 THEN q[i] ELSE F[i - 1] \o q[i]
           K == {k \in Nat : k <= n => \E F : Upto(F, k)}
<1>3. 0 \in K
  <2>1. 1..0 = {}
    OBVIOUS
  <2>2. [i \in {} |-> <<>>] \in [{} -> Seq(S)]
    OBVIOUS
  <2>3. Upto([i \in {} |-> <<>>], 0)
    BY <2>1, <2>2, Zenon
  <2> HIDE DEF Upto
  <2> QED BY <2>3
<1>4. ASSUME NEW k \in Nat, k \in K PROVE k + 1 \in K
  <2> SUFFICES ASSUME k + 1 <= n PROVE \E F : Upto(F, k + 1)
    <3> HIDE DEF Upto
    <3> QED OBVIOUS
  <2>1. PICK F : Upto(F, k)
    <3>1. k <= n
      BY <1>1
    <3> HIDE DEF Upto
    <3> QED BY <1>4, <3>1
  <2>2. PICK l \in 1..n : l = k + 1
    BY <1>1
  <2>3. PICK x \in Seq(S) : x = IF l = 1 THEN q[l] ELSE F[l - 1] \o q[l]
    <3>1. q[l] \in Seq(S)
      BY <1>2
    <3>2. l # 1 => l - 1 \in 1..k
      BY <2>2
    <3>3. l # 1 => F[l - 1] \o q[l] \in Seq(S)
      BY <2>1, <3>1, <3>2, ConcatProperties
    <3> QED BY <3>1, <3>3
  <2> DEFINE G == [i \in 1..l |-> IF i = l THEN x ELSE F[i]]
  <2>4. \A i \in 1..l : i = l \/ (i \in 1..k /\ i # l)
    BY <2>2
  <2>5. G \in [1..l -> Seq(S)]
    BY <2>1, <2>4
  <2>6. ASSUME NEW i \in 1..l PROVE G[i] = IF i = 1 THEN q[i] ELSE G[i - 1] \o q[i]
    <3>1. i # 1 => i - 1 \in 1..l /\ i - 1 # l
      BY <2>2
    <3>2. i # 1 => G[i - 1] = F[i - 1]
      BY <3>1
    <3>3. CASE i = l
      BY <2>3, <3>2, <3>3
    <3>4. CASE i # l
      BY <2>1, <2>4, <3>2, <3>4
    <3> QED BY <3>3, <3>4
  <2>7. Upto(G, l)
    BY <2>5, <2>6
  <2> HIDE DEF G, Upto
  <2> QED BY <2>2, <2>7
<1>5. n \in K
  <2> HIDE DEF K
  <2> QED BY <1>3, <1>4, Induction
<1>6. PICK F : Upto(F, n)
  <2>1. n <= n
    BY <1>1
  <2> HIDE DEF Upto
  <2> QED BY <1>5, <2>1
<1>7. Flattens(F, q)
  BY <1>1, <1>6 DEF Flattens
<1> QED BY <1>1, <1>6, <1>7

Alike(F, G, m) == \A i \in 1..m : F[i] = G[i]
BeginAlike(q, r, m) == 1..m \subseteq 1..Len(q) \cap 1..Len(r) /\ Alike(q, r, m)

LEMMA FlattensOnce ==
  ASSUME NEW q, NEW r, NEW F, NEW G, NEW m \in Nat, Flattens(F, q), Flattens(G, r), BeginAlike(q, r, m)
  PROVE  Alike(F, G, m)
<1> DEFINE K == {k \in Nat : k \in 1..m => F[k] = G[k]}
<1>1. \A i \in 1..m : /\ F[i] = IF i = 1 THEN q[i] ELSE F[i - 1] \o q[i]
                      /\ G[i] = IF i = 1 THEN q[i] ELSE G[i - 1] \o q[i]
  BY DEF Flattens, BeginAlike, Alike
<1>2. 0 \in K
  OBVIOUS
<1>3. ASSUME NEW k \in Nat, k \in K PROVE k + 1 \in K
  <2> SUFFICES ASSUME k + 1 \in 1..m PROVE F[k + 1] = G[k + 1]
    OBVIOUS
  <2>1. k + 1 # 1 => k \in 1..m
    OBVIOUS
  <2>2. k + 1 # 1 => F[k] = G[k]
    BY <1>3, <2>1
  <2>3. PICK l \in 1..m : l = k + 1 /\ l - 1 = k
    OBVIOUS
  <2>4. F[l] = G[l]
    BY <1>1, <2>2, <2>3
  <2> QED BY <2>3, <2>4
<1>4. \A k \in Nat : k \in K
  <2> HIDE DEF K
  <2> QED BY <1>2, <1>3, Induction
<1> QED BY <1>4 DEF Alike

LEMMA FlattenIs ==
  ASSUME NEW S, NEW q \in Seq(Seq(S)), q # <<>>
  PROVE  \E F : F \in [1..Len(q) -> Seq(S)] /\ Flattens(F, q) /\ FlattenSeq(q) = F[Len(q)]
<1>1. PICK n \in Nat : n = Len(q) /\ n # 0
  BY EmptySeq
<1>2. PICK F : F \in [1..Len(q) -> Seq(S)] /\ Flattens(F, q)
  BY FlattensExist
<1>3. PICK G : Flattens(G, q) /\ G = CHOOSE H : Flattens(H, q)
  BY <1>2
<1>4. Alike(F, G, n)
  <2>1. BeginAlike(q, q, n)
    BY <1>1 DEF BeginAlike, Alike
  <2>2. Flattens(F, q) /\ Flattens(G, q)
    BY <1>2, <1>3
  <2> QED BY <2>1, <2>2, FlattensOnce, Zenon
<1>5. FlattenSeq(q) = G[n]
  BY <1>1, <1>3, FlattenChoice
<1> QED BY <1>1, <1>2, <1>4, <1>5 DEF Alike

LEMMA FlattenAppend ==
  ASSUME NEW S, NEW q \in Seq(Seq(S)), NEW x \in Seq(S)
  PROVE  FlattenSeq(q) \in Seq(S) /\ FlattenSeq(Append(q, x)) = FlattenSeq(q) \o x
<1>1. PICK n \in Nat : n = Len(q)
  BY LenProperties
<1>2. PICK r \in Seq(Seq(S)) : r = Append(q, x) /\ r # <<>>
  BY AppendProperties
<1>3. Len(r) = n + 1 /\ (\A i \in 1..n : r[i] = q[i]) /\ r[n + 1] = x
  BY <1>1, <1>2, AppendProperties
<1>4. PICK G : G \in [1..Len(r) -> Seq(S)] /\ Flattens(G, r) /\ FlattenSeq(r) = G[Len(r)]
  BY <1>2, FlattenIs
<1>5. PICK k \in Nat : k = n + 1 /\ k - 1 = n
  OBVIOUS
<1>6. FlattenSeq(r) = IF k = 1 THEN x ELSE G[n] \o x
  <2>1. k \in 1..Len(r) /\ Len(r) = k /\ r[k] = x
    BY <1>3, <1>5
  <2> QED BY <1>4, <1>5, <2>1 DEF Flattens
<1>7. CASE n = 0
  <2>1. q = <<>> /\ Len(q) = 0
    BY <1>1, <1>7, EmptySeq
  <2>2. FlattenSeq(q) = <<>>
    BY <2>1, FlattenChoice
  <2>3. <<>> \o x = x /\ <<>> \in Seq(S)
    BY ConcatEmptySeq, EmptySeq
  <2>4. k = 1
    BY <1>5, <1>7
  <2> QED BY <1>2, <1>6, <2>2, <2>3, <2>4
<1>8. CASE n # 0
  <2>1. q # <<>>
    BY <1>1, <1>8, EmptySeq
  <2>2. PICK F : F \in [1..Len(q) -> Seq(S)] /\ Flattens(F, q) /\ FlattenSeq(q) = F[Len(q)]
    BY <2>1, FlattenIs
  <2>3. BeginAlike(q, r, n)
    <3>1. 1..n \subseteq 1..n + 1
      OBVIOUS
    <3>2. Len(q) = n /\ Len(r) = n + 1 /\ \A i \in 1..n : q[i] = r[i]
      BY <1>1, <1>3
    <3> QED BY <3>1, <3>2 DEF BeginAlike, Alike
  <2>4. Alike(F, G, n)
    <3>1. Flattens(F, q) /\ Flattens(G, r)
      BY <1>4, <2>2
    <3> QED BY <2>3, <3>1, FlattensOnce, Zenon
  <2>5. n \in 1..n /\ k # 1
    BY <1>5, <1>8
  <2>6. FlattenSeq(q) = G[n] /\ F[n] \in Seq(S)
    BY <1>1, <2>2, <2>4, <2>5 DEF Alike
  <2> QED BY <1>1, <1>2, <1>6, <2>2, <2>5, <2>6
<1> QED BY <1>7, <1>8

LEMMA FlattenNothing == FlattenSeq(<<>>) = <<>>
BY FlattenChoice, EmptySeq
=============================================================================
