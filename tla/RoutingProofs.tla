---------------------------- MODULE RoutingProofs ----------------------------
(***************************************************************************)
(* Proofs about Routing, for every alphabet, every length of locations and *)
(* targets and every number of statements: the server starts with what its *)
(* configuration says or not at all, the longest location decides, and the *)
(* handler that is chosen finds the same location and cuts the entity out  *)
(* of the target; what is scanned is the target's pieces, each behind one  *)
(* slash.                                                                  *)
(***************************************************************************)
EXTENDS Routing, SequenceLemmas, FiniteSetTheorems

Character == Letter \cup {Slash}

------------------------------------------------------------------------------
\* Greatest and least elements.

LEMMA HasGreatest ==
  ASSUME NEW S, S # {}, NEW m \in Nat, \A x \in S : x \in 0..m
  PROVE  \E x \in S : \A y \in S : y <= x
<1> DEFINE D == {d \in 0..m : m - d \in S}
<1>1. PICK x \in S : TRUE
  OBVIOUS
<1>2. m - x \in D
  <2>1. x \in 0..m /\ m - x \in 0..m /\ m - (m - x) = x
    OBVIOUS
  <2> QED BY <2>1
<1>3. D \in SUBSET Nat
  OBVIOUS
<1>4. PICK d \in D : \A e \in D : d <= e
  <2> HIDE DEF D
  <2> QED BY <1>2, <1>3, HasLeast
<1>5. m - d \in S /\ d \in 0..m
  OBVIOUS
<1>6. ASSUME NEW y \in S PROVE y <= m - d
  <2>1. y \in 0..m /\ m - y \in 0..m /\ m - (m - y) = y
    OBVIOUS
  <2>2. m - y \in D
    BY <2>1
  <2>3. d <= m - y
    BY <1>4, <2>2
  <2> HIDE DEF D
  <2> QED BY <1>5, <2>1, <2>3
<1> QED BY <1>5, <1>6

\* Min and Max of the library are what they should be.
LEMMA MinIs ==
  ASSUME NEW S \in SUBSET Nat, NEW x \in S, \A y \in S : x <= y
  PROVE  Min(S) = x
<1>1. Min(S) \in S /\ \A y \in S : Min(S) <= y
  BY DEF Min
<1>2. Min(S) <= x /\ x <= Min(S) /\ Min(S) \in Nat /\ x \in Nat
  BY <1>1
<1> QED BY <1>2

LEMMA MaxIs ==
  ASSUME NEW S \in SUBSET Nat, NEW x \in S, \A y \in S : y <= x
  PROVE  Max(S) = x
<1>1. Max(S) \in S /\ \A y \in S : y <= Max(S)
  BY DEF Max
<1>2. Max(S) <= x /\ x <= Max(S) /\ Max(S) \in Nat /\ x \in Nat
  BY <1>1
<1> QED BY <1>2

------------------------------------------------------------------------------
\* Paths.

LEMMA BoundedIsSeq ==
  ASSUME NEW S, NEW n \in Nat, NEW p \in BoundedSeq(S, n)
  PROVE  p \in Seq(S) /\ Len(p) \in 0..n
<1>1. PICK m \in 0..n : p \in [1..m -> S]
  BY DEF BoundedSeq, SeqOf
<1>2. m \in Nat
  OBVIOUS
<1>3. p \in Seq(S)
  BY <1>1, <1>2, SeqDef
<1>4. Len(p) = m
  BY <1>1, <1>2, <1>3, LenProperties
<1> QED BY <1>3, <1>4

LEMMA PathTyped ==
  ASSUME NEW n \in Nat, NEW p \in Path(n)
  PROVE  p \in Seq(Character) /\ Len(p) \in 1..n /\ p # <<>> /\ p[1] = Slash
<1>1. p \in BoundedSeq(Character, n) /\ p # <<>> /\ p[1] = Slash
  BY DEF Path, Character
<1>2. p \in Seq(Character) /\ Len(p) \in 0..n
  BY <1>1, BoundedIsSeq
<1>3. Len(p) # 0
  BY <1>1, <1>2, EmptySeq, LenProperties
<1> QED BY <1>1, <1>2, <1>3

\* Two locations of one length that a target starts with are the same.
LEMMA PrefixesOfALength ==
  ASSUME NEW S, NEW l \in Seq(S), NEW k \in Seq(S), NEW t,
         IsPrefix(l, t), IsPrefix(k, t), Len(l) = Len(k)
  PROVE  l = k
<1>1. SubSeq(l, 1, Len(l)) = l /\ SubSeq(k, 1, Len(k)) = k
  BY SubSeqFull
<1> QED BY <1>1 DEF IsPrefix
------------------------------------------------------------------------------
\* Scanning finds the longest location.

PathsOK == paths \in [Handler -> SUBSET Path(MaxLocation)]

LEMMA LocationTyped ==
  ASSUME PathsOK, NEW h \in Handler, NEW l \in paths[h]
  PROVE  l \in Path(MaxLocation) /\ l \in Seq(Character) /\ Len(l) \in 1..MaxLocation
<1>1. l \in Path(MaxLocation)
  BY DEF PathsOK
<1> QED BY <1>1, PathTyped, LengthsOK

LEMMA LongestOfIsLongest ==
  ASSUME PathsOK, NEW h \in Handler, NEW t
  PROVE  LET found == {l \in paths[h] : IsPrefix(l, t)} IN
         /\ found = {} => LongestOf(h, t) = <<>>
         /\ found # {} => LongestOf(h, t) \in found /\ \A k \in found : Len(k) <= Len(LongestOf(h, t))
<1> DEFINE found == {l \in paths[h] : IsPrefix(l, t)}
           lengths == {Len(l) : l \in found}
<1>1. ASSUME found # {} PROVE \E l \in found : \A k \in found : Len(k) <= Len(l)
  <2>1. \A x \in lengths : x \in 0..MaxLocation
    BY LocationTyped
  <2>2. lengths # {}
    BY <1>1
  <2>3. PICK m \in lengths : \A y \in lengths : y <= m
    <3> HIDE DEF lengths
    <3> QED BY <2>1, <2>2, HasGreatest, LengthsOK
  <2>4. PICK l \in found : Len(l) = m
    BY <2>3
  <2>5. \A k \in found : Len(k) \in lengths
    OBVIOUS
  <2> QED BY <2>3, <2>4, <2>5
<1> QED BY <1>1 DEF LongestOf

\* b is a longest match for t among the locations of the handlers H.
Best(b, H, t) ==
  /\ \A h \in H : \A l \in paths[h] : IsPrefix(l, t) => Len(l) <= Len(b.location)
  /\ \/ b = NoMatch
     \/ /\ b = [type |-> b.type, location |-> b.location]
        /\ b.type \in H /\ b.location \in paths[b.type] /\ IsPrefix(b.location, t)

LEMMA LongerIsBest ==
  ASSUME PathsOK, NEW H \in SUBSET Handler, NEW t, NEW b, Best(b, H, t), NEW h \in Handler
  PROVE  Best(Longer(b, h, t), H \cup {h}, t)
<1> DEFINE l == LongestOf(h, t)
           found == {k \in paths[h] : IsPrefix(k, t)}
<1>1. Len(b.location) \in Nat
  <2>1. CASE b = NoMatch
    BY <2>1, EmptySeq DEF NoMatch
  <2>2. CASE b # NoMatch
    BY <2>2, LocationTyped DEF Best
  <2> QED BY <2>1, <2>2
<1>2. /\ found = {} => l = <<>>
      /\ found # {} => l \in found /\ \A k \in found : Len(k) <= Len(l)
  BY LongestOfIsLongest
<1>3. found # {} => Len(l) \in Nat
  BY <1>2, LocationTyped
<1>4. \A g \in H : \A k \in paths[g] : Len(k) \in Nat
  BY LocationTyped
<1>4a. \A k \in found : Len(k) \in Nat
  BY LocationTyped
<1>5. CASE found = {}
  <2>1. Longer(b, h, t) = b
    BY <1>1, <1>2, <1>5, EmptySeq DEF Longer
  <2> QED BY <1>5, <2>1 DEF Best
<1>6. CASE found # {} /\ Len(l) > Len(b.location)
  <2> DEFINE c == [type |-> h, location |-> l]
  <2>1. Longer(b, h, t) = c /\ c.type = h /\ c.location = l
    BY <1>6 DEF Longer
  <2>2. l \in paths[h] /\ IsPrefix(l, t)
    BY <1>2, <1>6
  <2>3. \A k \in paths[h] : IsPrefix(k, t) => Len(k) <= Len(l)
    BY <1>2, <1>6
  <2>4. \A g \in H : \A k \in paths[g] : IsPrefix(k, t) => Len(k) <= Len(l)
    <3> HIDE DEF l
    <3> QED BY <1>1, <1>3, <1>4, <1>6 DEF Best
  <2> HIDE DEF l, c
  <2> QED BY <2>1, <2>2, <2>3, <2>4 DEF Best, c
<1>7. CASE found # {} /\ ~(Len(l) > Len(b.location))
  <2>1. Longer(b, h, t) = b
    BY <1>7 DEF Longer
  <2>2. \A k \in found : Len(k) <= Len(b.location)
    <3> HIDE DEF l, found
    <3> QED BY <1>1, <1>2, <1>3, <1>4a, <1>7
  <2> QED BY <2>1, <2>2 DEF Best
<1> QED BY <1>5, <1>6, <1>7

\* The recursive function of Scan has a value.
LEMMA ScanSteps ==
  ASSUME NEW hs, Len(hs) \in Nat, NEW t
  PROVE  \E best : /\ best = [n \in 0..Len(hs) |->
                                IF n = 0 THEN NoMatch ELSE Longer(best[n - 1], hs[n], t)]
                   /\ Scan(hs, t) = best[Len(hs)]
<1> DEFINE R(g, m) == g = [n \in 0..m |-> IF n = 0 THEN NoMatch ELSE Longer(g[n - 1], hs[n], t)]
           S == {m \in Nat : \E g : R(g, m)}
<1>1. 0 \in S
  <2>1. R([n \in 0..0 |-> NoMatch], 0)
    OBVIOUS
  <2> QED BY <2>1
<1>2. ASSUME NEW m \in Nat, m \in S PROVE m + 1 \in S
  <2>1. PICK g : R(g, m)
    BY <1>2
  <2> DEFINE h == [n \in 0..m + 1 |-> IF n = m + 1 THEN Longer(g[m], hs[n], t) ELSE g[n]]
  <2>2. R(h, m + 1)
    BY <2>1
  <2>3. \E k : R(k, m + 1)
    <3> HIDE DEF R, h
    <3> QED BY <2>2
  <2> QED BY <2>3
<1>3. \E g : R(g, Len(hs))
  <2> HIDE DEF S
  <2>1. Len(hs) \in S
    BY <1>1, <1>2, Induction
  <2> USE DEF S
  <2> HIDE DEF R
  <2> QED BY <2>1
<1> QED BY <1>3 DEF Scan

LEMMA ScanIsBest ==
  ASSUME PathsOK, NEW hs \in Seq(Handler), NEW t
  PROVE  Best(Scan(hs, t), {hs[i] : i \in 1..Len(hs)}, t)
<1>1. Len(hs) \in Nat /\ \A i \in 1..Len(hs) : hs[i] \in Handler
  BY LenProperties, ElementOfSeq
<1>2. PICK best : /\ best = [n \in 0..Len(hs) |->
                               IF n = 0 THEN NoMatch ELSE Longer(best[n - 1], hs[n], t)]
                  /\ Scan(hs, t) = best[Len(hs)]
  BY <1>1, ScanSteps
<1> DEFINE Upto(n) == {hs[i] : i \in 1..n}
           S == {n \in Nat : n <= Len(hs) => Best(best[n], Upto(n), t)}
<1>3. 0 \in S
  <2>1. best[0] = NoMatch
    BY <1>1, <1>2
  <2>2. Upto(0) = {}
    OBVIOUS
  <2> QED BY <2>1, <2>2 DEF Best
<1>4. ASSUME NEW n \in Nat, n \in S PROVE n + 1 \in S
  <2> SUFFICES ASSUME n + 1 <= Len(hs) PROVE Best(best[n + 1], Upto(n + 1), t)
    OBVIOUS
  <2>1. n <= Len(hs) /\ n + 1 \in 1..Len(hs) /\ n + 1 \in 0..Len(hs) /\ (n + 1) - 1 = n /\ n + 1 # 0
    BY <1>1
  <2>2. Best(best[n], Upto(n), t)
    BY <1>4, <2>1
  <2>3. best[n + 1] = Longer(best[n], hs[n + 1], t)
    BY <1>2, <2>1
  <2>4. Upto(n) \subseteq Handler /\ hs[n + 1] \in Handler
    BY <1>1, <2>1
  <2>5. Upto(n + 1) = Upto(n) \cup {hs[n + 1]}
    <3>1. 1..n + 1 = 1..n \cup {n + 1}
      OBVIOUS
    <3> QED BY <3>1
  <2> HIDE DEF Upto
  <2> QED BY <2>2, <2>3, <2>4, <2>5, LongerIsBest
<1>5. Len(hs) \in S
  <2> HIDE DEF S
  <2> QED BY <1>1, <1>3, <1>4, Induction
<1> QED BY <1>1, <1>2, <1>5

\* What the dispatcher and the two handlers that scan again find.
LEMMA ScansAreBest ==
  ASSUME PathsOK, NEW t
  PROVE  /\ Best(Scan(AllHandlers, t), Handler, t)
         /\ Best(Scan(StaticHandlers, t), {"Static", "Echo"}, t)
         /\ Best(Scan(CrudHandlers, t), {"Static", "Echo", "CRUD"}, t)
<1>1. AllHandlers \in Seq(Handler) /\ Len(AllHandlers) = 6
  BY DEF AllHandlers, Handler
<1>2. StaticHandlers \in Seq(Handler) /\ Len(StaticHandlers) = 2
  BY DEF StaticHandlers, Handler
<1>3. CrudHandlers \in Seq(Handler) /\ Len(CrudHandlers) = 3
  BY DEF CrudHandlers, Handler
<1>4. {AllHandlers[i] : i \in 1..Len(AllHandlers)} = Handler
  <2>1. \A i \in 1..6 : i = 1 \/ i = 2 \/ i = 3 \/ i = 4 \/ i = 5 \/ i = 6
    OBVIOUS
  <2>2. \A h \in Handler : \E i \in 1..6 : AllHandlers[i] = h
    BY DEF AllHandlers, Handler
  <2>3. \A i \in 1..6 : AllHandlers[i] \in Handler
    BY <2>1 DEF AllHandlers, Handler
  <2> QED BY <1>1, <2>2, <2>3
<1>5. {StaticHandlers[i] : i \in 1..Len(StaticHandlers)} = {"Static", "Echo"}
  <2>1. 1..2 = {1, 2}
    OBVIOUS
  <2> QED BY <1>2, <2>1 DEF StaticHandlers
<1>6. {CrudHandlers[i] : i \in 1..Len(CrudHandlers)} = {"Static", "Echo", "CRUD"}
  <2>1. 1..3 = {1, 2, 3}
    OBVIOUS
  <2> QED BY <1>3, <2>1 DEF CrudHandlers
<1>7. Best(Scan(AllHandlers, t), {AllHandlers[i] : i \in 1..Len(AllHandlers)}, t)
  BY <1>1, ScanIsBest
<1>8. Best(Scan(StaticHandlers, t), {StaticHandlers[i] : i \in 1..Len(StaticHandlers)}, t)
  BY <1>2, ScanIsBest
<1>9. Best(Scan(CrudHandlers, t), {CrudHandlers[i] : i \in 1..Len(CrudHandlers)}, t)
  BY <1>3, ScanIsBest
<1> QED BY <1>4, <1>5, <1>6, <1>7, <1>8, <1>9

LEMMA ScanTyped ==
  ASSUME PathsOK, NEW t, NEW H \in SUBSET Handler, NEW b, Best(b, H, t)
  PROVE  /\ b = [type |-> b.type, location |-> b.location]
         /\ b.type \in H \cup {"None"}
         /\ b.location \in Path(MaxLocation) \cup {<<>>}
         /\ b.type \in Handler => b.location \in paths[b.type]
<1>1. CASE b = NoMatch
  BY <1>1 DEF NoMatch, Handler
<1>2. CASE b # NoMatch
  BY <1>2 DEF Best, PathsOK
<1> QED BY <1>1, <1>2
------------------------------------------------------------------------------
\* Cleaning a target.

\* The recursive function of Collapse has a value.
LEMMA CollapseSteps ==
  ASSUME NEW t, Len(t) \in Nat
  PROVE  \E after : /\ after = [n \in 0..Len(t) |->
                                 IF n = 0 THEN <<>> ELSE Unrepeated(after[n - 1], t[n])]
                    /\ Collapse(t) = after[Len(t)]
<1> DEFINE R(g, m) == g = [n \in 0..m |-> IF n = 0 THEN <<>> ELSE Unrepeated(g[n - 1], t[n])]
           S == {m \in Nat : \E g : R(g, m)}
<1>1. 0 \in S
  <2>1. R([n \in 0..0 |-> <<>>], 0)
    OBVIOUS
  <2> QED BY <2>1
<1>2. ASSUME NEW m \in Nat, m \in S PROVE m + 1 \in S
  <2>1. PICK g : R(g, m)
    BY <1>2
  <2> DEFINE h == [n \in 0..m + 1 |-> IF n = m + 1 THEN Unrepeated(g[m], t[n]) ELSE g[n]]
  <2>2. R(h, m + 1)
    BY <2>1
  <2>3. \E k : R(k, m + 1)
    <3> HIDE DEF R, h
    <3> QED BY <2>2
  <2> QED BY <2>3
<1>3. \E g : R(g, Len(t))
  <2> HIDE DEF S
  <2>1. Len(t) \in S
    BY <1>1, <1>2, Induction
  <2> USE DEF S
  <2> HIDE DEF R
  <2> QED BY <2>1
<1> QED BY <1>3 DEF Collapse

\* No slash follows another one.
NoPairs(r) == \A i \in 2..Len(r) : ~(r[i] = Slash /\ r[i - 1] = Slash)

LEMMA UnrepeatedHasNoPairs ==
  ASSUME NEW r \in Seq(Character), NoPairs(r), NEW c \in Character
  PROVE  /\ Unrepeated(r, c) \in Seq(Character) /\ NoPairs(Unrepeated(r, c))
         /\ Len(Unrepeated(r, c)) \in {Len(r), Len(r) + 1}
         /\ Unrepeated(r, c) # <<>>
         /\ r # <<>> => Unrepeated(r, c)[1] = r[1]
         /\ r = <<>> => Unrepeated(r, c)[1] = c
<1>1. Len(r) \in Nat /\ (r = <<>> <=> Len(r) = 0)
  BY LenProperties, EmptySeq
<1>2. CASE c = Slash /\ r # <<>> /\ Last(r) = Slash
  BY <1>2 DEF Unrepeated
<1>3. CASE ~(c = Slash /\ r # <<>> /\ Last(r) = Slash)
  <2> DEFINE u == Append(r, c)
  <2>1. Unrepeated(r, c) = u
    BY <1>3 DEF Unrepeated
  <2>2. /\ u \in Seq(Character) /\ Len(u) = Len(r) + 1 /\ u[Len(r) + 1] = c
        /\ \A i \in 1..Len(r) : u[i] = r[i]
    BY AppendProperties
  <2> HIDE DEF u
  <2>3. NoPairs(u)
    <3> SUFFICES ASSUME NEW i \in 2..Len(r) + 1, u[i] = Slash, u[i - 1] = Slash PROVE FALSE
      BY <2>2 DEF NoPairs
    <3>1. CASE i = Len(r) + 1
      <4>1. Len(r) \in 1..Len(r) /\ i - 1 = Len(r) /\ r # <<>>
        BY <1>1, <3>1
      <4>2. c = Slash /\ Last(r) = Slash
        BY <2>2, <3>1, <4>1 DEF Last
      <4> QED BY <1>3, <4>1, <4>2
    <3>2. CASE i # Len(r) + 1
      <4>1. i \in 2..Len(r) /\ i - 1 \in 1..Len(r) /\ i \in 1..Len(r)
        BY <1>1, <3>2
      <4> QED BY <2>2, <4>1 DEF NoPairs
    <3> QED BY <3>1, <3>2
  <2>4. u # <<>>
    BY <1>1, <2>2, EmptySeq
  <2>5. r # <<>> => u[1] = r[1]
    BY <1>1, <2>2
  <2>6. r = <<>> => u[1] = c
    BY <1>1, <2>2
  <2> QED BY <2>1, <2>2, <2>3, <2>4, <2>5, <2>6
<1> QED BY <1>2, <1>3

LEMMA CollapseHasNoPairs ==
  ASSUME NEW t \in Seq(Character), t # <<>>
  PROVE  /\ Collapse(t) \in Seq(Character) /\ NoPairs(Collapse(t))
         /\ Len(Collapse(t)) \in 1..Len(t) /\ Collapse(t)[1] = t[1]
<1>1. Len(t) \in Nat /\ Len(t) # 0 /\ \A i \in 1..Len(t) : t[i] \in Character
  BY LenProperties, EmptySeq, ElementOfSeq
<1>2. PICK after : /\ after = [n \in 0..Len(t) |->
                                 IF n = 0 THEN <<>> ELSE Unrepeated(after[n - 1], t[n])]
                   /\ Collapse(t) = after[Len(t)]
  BY <1>1, CollapseSteps
<1> DEFINE Collapsed(n) == /\ after[n] \in Seq(Character) /\ NoPairs(after[n])
                           /\ Len(after[n]) \in 0..n
                           /\ n = 0 => after[n] = <<>>
                           /\ n # 0 => after[n] # <<>> /\ after[n][1] = t[1]
           S == {n \in Nat : n <= Len(t) => Collapsed(n)}
<1>3. 0 \in S
  <2>1. after[0] = <<>>
    BY <1>1, <1>2
  <2>2. <<>> \in Seq(Character) /\ Len(<<>>) = 0
    BY EmptySeq
  <2>3. NoPairs(<<>>)
    BY <2>2 DEF NoPairs
  <2>4. Len(after[0]) \in 0..0
    BY <2>1, <2>2
  <2>5. Collapsed(0)
    <3> HIDE DEF NoPairs
    <3> QED BY <2>1, <2>2, <2>3, <2>4
  <2> HIDE DEF Collapsed
  <2> QED BY <2>5
<1>4. ASSUME NEW n \in Nat, n \in S PROVE n + 1 \in S
  <2> SUFFICES ASSUME n + 1 <= Len(t) PROVE Collapsed(n + 1)
    OBVIOUS
  <2>1. n <= Len(t) /\ n + 1 \in 1..Len(t) /\ n + 1 \in 0..Len(t) /\ (n + 1) - 1 = n /\ n + 1 # 0
    BY <1>1
  <2>2. Collapsed(n)
    BY <1>4, <2>1
  <2>3. after[n + 1] = Unrepeated(after[n], t[n + 1])
    BY <1>2, <2>1
  <2>4. t[n + 1] \in Character
    BY <1>1, <2>1
  <2> DEFINE r == after[n]
             u == after[n + 1]
  <2>5. /\ u \in Seq(Character) /\ NoPairs(u) /\ Len(u) \in {Len(r), Len(r) + 1} /\ u # <<>>
        /\ r # <<>> => u[1] = r[1]
        /\ r = <<>> => u[1] = t[n + 1]
    <3>1. r \in Seq(Character) /\ NoPairs(r)
      BY <2>2
    <3>2. u = Unrepeated(r, t[n + 1])
      BY <2>3
    <3> HIDE DEF r, u
    <3> QED BY <2>4, <3>1, <3>2, UnrepeatedHasNoPairs
  <2>6. Len(u) \in 0..n + 1
    <3>1. Len(r) \in 0..n
      BY <2>2
    <3> HIDE DEF r, u
    <3> QED BY <2>5, <3>1
  <2>7. u[1] = t[1]
    BY <2>2, <2>5
  <2> QED BY <2>1, <2>5, <2>6, <2>7
<1>5. Len(t) \in S
  <2> HIDE DEF S
  <2> QED BY <1>1, <1>3, <1>4, Induction
<1>6. Collapsed(Len(t))
  BY <1>1, <1>5
<1>7. Len(Collapse(t)) # 0
  BY <1>1, <1>2, <1>6, EmptySeq
<1> QED BY <1>1, <1>2, <1>6, <1>7

\* A clean target begins with a slash, ends with one only if it is that slash,
\* and has none after another.
LEMMA CleanIsClean ==
  ASSUME NEW n \in Nat, NEW t \in Path(n)
  PROVE  /\ Clean(t) \in Seq(Character) /\ NoPairs(Clean(t)) /\ Len(Clean(t)) \in 1..n
         /\ Clean(t)[1] = Slash /\ (Len(Clean(t)) > 1 => Clean(t)[Len(Clean(t))] # Slash)
<1> DEFINE c == Collapse(t)
<1>1. t \in Seq(Character) /\ Len(t) \in 1..n /\ t # <<>> /\ t[1] = Slash
  BY PathTyped
<1>2. c \in Seq(Character) /\ NoPairs(c) /\ Len(c) \in 1..Len(t) /\ c[1] = Slash
  BY <1>1, CollapseHasNoPairs
<1>3. CASE Len(c) > 1 /\ c[Len(c)] = Slash
  <2> DEFINE f == Front(c)
  <2>1. Clean(t) = f
    BY <1>3 DEF Clean, Last
  <2>2. f = SubSeq(c, 1, Len(c) - 1)
    BY DEF Front
  <2> HIDE DEF c, f
  <2>3. /\ f \in Seq(Character) /\ Len(f) = Len(c) - 1
        /\ \A i \in 1..Len(c) - 1 : f[i] = c[i]
    <3>1. /\ SubSeq(c, 1, Len(c) - 1) \in Seq(Character)
          /\ Len(SubSeq(c, 1, Len(c) - 1)) = Len(c) - 1
          /\ \A i \in 1..(Len(c) - 1) - 1 + 1 : SubSeq(c, 1, Len(c) - 1)[i] = c[1 + i - 1]
      BY <1>1, <1>2, <1>3, SubSeqProperties
    <3> QED BY <1>1, <1>2, <1>3, <2>2, <3>1
  <2>4. f[Len(f)] # Slash
    <3>1. Len(c) \in 2..Len(c) /\ Len(f) \in 1..Len(c) - 1
      BY <1>1, <1>2, <1>3, <2>3
    <3>2. c[Len(c) - 1] # Slash
      BY <1>2, <1>3, <3>1 DEF NoPairs
    <3> QED BY <2>3, <3>1, <3>2
  <2>5. NoPairs(f)
    <3> SUFFICES ASSUME NEW i \in 2..Len(f) PROVE ~(f[i] = Slash /\ f[i - 1] = Slash)
      BY DEF NoPairs
    <3>1. i \in 2..Len(c) /\ f[i] = c[i] /\ f[i - 1] = c[i - 1]
      BY <1>1, <1>2, <1>3, <2>3
    <3> QED BY <1>2, <3>1 DEF NoPairs
  <2> QED BY <1>1, <1>2, <1>3, <2>1, <2>3, <2>4, <2>5
<1>4. CASE ~(Len(c) > 1 /\ c[Len(c)] = Slash)
  <2>1. Clean(t) = c
    BY <1>4 DEF Clean, Last
  <2> HIDE DEF c
  <2> QED BY <1>1, <1>2, <1>4, <2>1
<1> QED BY <1>3, <1>4
------------------------------------------------------------------------------
\* The pieces of a target.

\* A piece behind one slash.
Piece(t, i, j) == <<Slash>> \o SubSeq(t, i, j)

\* The pieces that begin at b and end at e, joined.
PieceSeq(t, b, e, m) == [k \in 1..m |-> Piece(t, b[k], e[k])]
Joined(t, b, e, m) == FlattenSeq(PieceSeq(t, b, e, m))

Starts(t, n) == {i \in 1..n : t[i] # Slash /\ (i = 1 \/ t[i - 1] = Slash)}

\* b and e are the ends of the m pieces of the first n characters, in order; the
\* last one may go on.
Runs(t, n, b, e, m) ==
  /\ b \in [1..m -> 1..n] /\ e \in [1..m -> 1..n]
  /\ \A i, k \in 1..m : i < k => b[i] < b[k]
  /\ Starts(t, n) = {b[k] : k \in 1..m}
  /\ \A k \in 1..m :
       /\ b[k] <= e[k]
       /\ \A i \in b[k]..e[k] : t[i] # Slash
       /\ e[k] = n \/ t[e[k] + 1] = Slash
  /\ t[n] # Slash => m # 0 /\ \A k \in 1..m : e[k] = n <=> k = m

\* Another slash ends the last piece.
LEMMA RunsAtSlash ==
  ASSUME NEW t, NEW n \in Nat \ {0}, NEW b, NEW e, NEW m \in Nat, Runs(t, n, b, e, m), t[n + 1] = Slash
  PROVE  Runs(t, n + 1, b, e, m)
<1>1. 1..n \subseteq 1..n + 1 /\ \A i \in 1..n + 1 : i \in 1..n \/ i = n + 1
  OBVIOUS
<1>2. b \in [1..m -> 1..n + 1] /\ e \in [1..m -> 1..n + 1]
  BY <1>1 DEF Runs
<1>3. Starts(t, n + 1) = Starts(t, n)
  BY <1>1 DEF Starts
<1>4. \A k \in 1..m : e[k] = n + 1 \/ t[e[k] + 1] = Slash
  BY DEF Runs
<1> QED BY <1>2, <1>3, <1>4 DEF Runs

\* A character after a slash begins a piece.
RunsMore(t, n, b, e, m) ==
  \E c, f : /\ Runs(t, n + 1, c, f, m + 1)
            /\ \A k \in 1..m : c[k] = b[k] /\ f[k] = e[k]
            /\ c[m + 1] = n + 1 /\ f[m + 1] = n + 1

LEMMA RunsAtStart ==
  ASSUME NEW t, NEW n \in Nat \ {0}, NEW b, NEW e, NEW m \in Nat, Runs(t, n, b, e, m),
         t[n] = Slash, t[n + 1] # Slash
  PROVE  RunsMore(t, n, b, e, m)
<1>1. PICK l \in Nat : l = m + 1 /\ l \in 1..l /\ l \notin 1..m
  OBVIOUS
<1>2. \A k \in 1..l : k = l \/ (k \in 1..m /\ k # l)
  BY <1>1
<1>3. PICK c : c = [k \in 1..l |-> IF k = l THEN n + 1 ELSE b[k]]
  OBVIOUS
<1>4. PICK f : f = [k \in 1..l |-> IF k = l THEN n + 1 ELSE e[k]]
  OBVIOUS
<1>5. c[l] = n + 1 /\ f[l] = n + 1 /\ \A k \in 1..m : c[k] = b[k] /\ f[k] = e[k]
  BY <1>1, <1>3, <1>4
<1>6. b \in [1..m -> 1..n] /\ e \in [1..m -> 1..n]
  BY DEF Runs
<1>7. c \in [1..l -> 1..n + 1] /\ f \in [1..l -> 1..n + 1]
  <2>1. \A k \in 1..l : c[k] \in 1..n + 1 /\ f[k] \in 1..n + 1
    <3>1. 1..n \subseteq 1..n + 1 /\ n + 1 \in 1..n + 1
      OBVIOUS
    <3> QED BY <1>2, <1>5, <1>6, <3>1
  <2> QED BY <1>3, <1>4, <2>1
<1>8. ASSUME NEW i \in 1..l, NEW k \in 1..l, i < k PROVE c[i] < c[k]
  <2>1. i \in 1..m
    BY <1>1, <1>8
  <2>2. CASE k = l
    BY <1>5, <1>6, <2>1, <2>2
  <2>3. CASE k # l
    <3>1. k \in 1..m
      BY <1>2, <2>3
    <3>2. b[i] < b[k]
      BY <1>8, <2>1, <3>1 DEF Runs
    <3> QED BY <1>5, <2>1, <3>1, <3>2
  <2> QED BY <2>2, <2>3
<1>9. Starts(t, n + 1) = {c[k] : k \in 1..l}
  <2>1. Starts(t, n + 1) = Starts(t, n) \cup {n + 1}
    <3>1. \A i \in 1..n + 1 : i \in 1..n \/ i = n + 1
      OBVIOUS
    <3>2. n + 1 \in 1..n + 1 /\ (n + 1) - 1 = n /\ 1..n \subseteq 1..n + 1
      OBVIOUS
    <3> QED BY <3>1, <3>2 DEF Starts
  <2>2. {c[k] : k \in 1..l} = {b[k] : k \in 1..m} \cup {n + 1}
    <3>1. 1..m \subseteq 1..l
      BY <1>1
    <3> QED BY <1>1, <1>2, <1>5, <3>1
  <2> QED BY <2>1, <2>2 DEF Runs
<1>10. ASSUME NEW k \in 1..l
       PROVE  /\ c[k] <= f[k]
              /\ \A i \in c[k]..f[k] : t[i] # Slash
              /\ f[k] = n + 1 \/ t[f[k] + 1] = Slash
              /\ f[k] = n + 1 <=> k = l
  <2>1. CASE k = l
    <3>1. \A i \in n + 1..n + 1 : i = n + 1
      OBVIOUS
    <3> QED BY <1>5, <2>1, <3>1
  <2>2. CASE k # l
    <3>1. k \in 1..m
      BY <1>2, <2>2
    <3>2. b[k] <= e[k] /\ (\A i \in b[k]..e[k] : t[i] # Slash) /\ (e[k] = n \/ t[e[k] + 1] = Slash)
      BY <3>1 DEF Runs
    <3>3. e[k] \in 1..n /\ b[k] \in 1..n
      BY <1>6, <3>1
    <3>4. t[e[k]] # Slash
      BY <3>2, <3>3
    <3>5. e[k] # n /\ e[k] # n + 1
      BY <3>3, <3>4
    <3> QED BY <1>5, <2>2, <3>1, <3>2, <3>5
  <2> QED BY <2>1, <2>2
<1>11. Runs(t, n + 1, c, f, l)
  <2>1. \A i, k \in 1..l : i < k => c[i] < c[k]
    BY <1>8
  <2>2. l # 0 /\ \A k \in 1..l : f[k] = n + 1 <=> k = l
    BY <1>1, <1>10
  <2>3. \A k \in 1..l : /\ c[k] <= f[k]
                        /\ \A i \in c[k]..f[k] : t[i] # Slash
                        /\ f[k] = n + 1 \/ t[f[k] + 1] = Slash
    BY <1>10
  <2> QED BY <1>7, <1>9, <2>1, <2>2, <2>3 DEF Runs
<1> QED BY <1>1, <1>5, <1>11 DEF RunsMore

\* A character after another one belongs to the last piece.
RunsOn(t, n, b, e, m) ==
  \E f : Runs(t, n + 1, b, f, m) /\ f[m] = n + 1 /\ \A k \in 1..m - 1 : f[k] = e[k]

LEMMA RunsGoOn ==
  ASSUME NEW t, NEW n \in Nat \ {0}, NEW b, NEW e, NEW m \in Nat, Runs(t, n, b, e, m),
         t[n] # Slash, t[n + 1] # Slash
  PROVE  m # 0 /\ e[m] = n /\ RunsOn(t, n, b, e, m)
<1>1. m \in 1..m /\ e[m] = n
  BY DEF Runs
<1>2. PICK f : f = [k \in 1..m |-> IF k = m THEN n + 1 ELSE e[k]]
  OBVIOUS
<1>3. f[m] = n + 1 /\ \A k \in 1..m : k # m => f[k] = e[k]
  BY <1>1, <1>2
<1>4. b \in [1..m -> 1..n] /\ e \in [1..m -> 1..n]
  BY DEF Runs
<1>5. f \in [1..m -> 1..n + 1] /\ b \in [1..m -> 1..n + 1]
  <2>1. \A k \in 1..m : f[k] \in 1..n + 1 /\ b[k] \in 1..n + 1
    BY <1>3, <1>4
  <2> QED BY <1>2, <1>4, <2>1
<1>6. Starts(t, n + 1) = Starts(t, n)
  <2>1. \A i \in 1..n + 1 : i \in 1..n \/ (i = n + 1 /\ i - 1 = n /\ i # 1)
    OBVIOUS
  <2>2. 1..n \subseteq 1..n + 1
    OBVIOUS
  <2> QED BY <2>1, <2>2 DEF Starts
<1>7. ASSUME NEW k \in 1..m
      PROVE  /\ b[k] <= f[k]
             /\ \A i \in b[k]..f[k] : t[i] # Slash
             /\ f[k] = n + 1 \/ t[f[k] + 1] = Slash
             /\ f[k] = n + 1 <=> k = m
  <2>1. b[k] <= e[k] /\ (\A i \in b[k]..e[k] : t[i] # Slash) /\ (e[k] = n \/ t[e[k] + 1] = Slash)
    BY DEF Runs
  <2>2. e[k] \in 1..n /\ b[k] \in 1..n
    BY <1>4
  <2>3. CASE k = m
    <3>1. \A i \in b[k]..n + 1 : i \in b[k]..n \/ i = n + 1
      BY <2>2
    <3> QED BY <1>1, <1>3, <2>1, <2>2, <2>3, <3>1
  <2>4. CASE k # m
    <3>1. e[k] # n
      BY <2>4 DEF Runs
    <3> QED BY <1>3, <2>1, <2>2, <2>4, <3>1
  <2> QED BY <2>3, <2>4
<1>8. Runs(t, n + 1, b, f, m)
  <2>1. \A i, k \in 1..m : i < k => b[i] < b[k]
    BY DEF Runs
  <2>2. Starts(t, n + 1) = {b[k] : k \in 1..m}
    BY <1>6 DEF Runs
  <2> QED BY <1>1, <1>5, <1>7, <2>1, <2>2 DEF Runs
<1>9. \A k \in 1..m - 1 : k \in 1..m /\ k # m
  OBVIOUS
<1> QED BY <1>1, <1>3, <1>8, <1>9 DEF RunsOn

\* As many values as arguments.
LEMMA Counting ==
  ASSUME NEW k \in Nat, NEW b, \A i, j \in 1..k : i < j => b[i] < b[j], \A i \in 1..k : b[i] \in Nat
  PROVE  Cardinality({b[i] : i \in 1..k}) = k
<1> DEFINE T == {b[i] : i \in 1..k}
           f == [i \in 1..k |-> b[i]]
<1>1. f \in [1..k -> T]
  OBVIOUS
<1>2. \A i, j \in 1..k : f[i] = f[j] => i = j
  <2> SUFFICES ASSUME NEW i \in 1..k, NEW j \in 1..k, b[i] = b[j] PROVE i = j
    OBVIOUS
  <2>1. i < j \/ j < i \/ i = j
    OBVIOUS
  <2> QED BY <2>1
<1>3. \A x \in T : \E i \in 1..k : f[i] = x
  OBVIOUS
<1>4. f \in Bijection(1..k, T)
  <2> HIDE DEF f, T
  <2> QED BY <1>1, <1>2, <1>3 DEF Bijection, Injection, Surjection, IsInjective
<1>5. ExistsBijection(1..k, T)
  <2> HIDE DEF f, T
  <2> QED BY <1>4 DEF ExistsBijection
<1> HIDE DEF T
<1>6. Cardinality(T) = k
  BY <1>5, FS_CountingElements
<1> QED BY <1>6 DEF T

\* Pieces finds the runs.
LEMMA PiecesAre ==
  ASSUME NEW t, NEW n \in Nat \ {0}, n = Len(t), NEW b, NEW e, NEW m \in Nat, Runs(t, n, b, e, m)
  PROVE  Pieces(t) = [k \in 1..m |-> SubSeq(t, b[k], e[k])]
<1> DEFINE starts == {i \in 1..Len(t) : t[i] # Slash /\ (i = 1 \/ t[i - 1] = Slash)}
           ends(i) == {j \in i..Len(t) : t[j] # Slash /\ (j = Len(t) \/ t[j + 1] = Slash)}
           upto(i) == {j \in starts : j <= i}
           nth(k) == CHOOSE i \in starts : Cardinality(upto(i)) = k
<1>1. starts = {b[k] : k \in 1..m}
  BY DEF Runs, Starts
<1>2. b \in [1..m -> 1..n] /\ e \in [1..m -> 1..n] /\ \A i, k \in 1..m : i < k => b[i] < b[k]
  BY DEF Runs
<1>3. \A k \in 1..m : b[k] \in Nat
  BY <1>2
<1>4. Cardinality(starts) = m
  <2>1. Cardinality({b[k] : k \in 1..m}) = m
    <3>1. \A i, j \in 1..m : i < j => b[i] < b[j]
      BY <1>2
    <3> HIDE DEF starts, ends, upto, nth
    <3> QED BY <1>3, <3>1, Counting
  <2> HIDE DEF starts
  <2> QED BY <1>1, <2>1
<1>5. ASSUME NEW k \in 1..m PROVE Cardinality(upto(b[k])) = k
  <2>1. \A i \in 1..k : i \in 1..m
    OBVIOUS
  <2>2. ASSUME NEW i \in 1..m PROVE b[i] <= b[k] <=> i \in 1..k
    <3>1. i \in 1..k <=> ~(k < i)
      OBVIOUS
    <3>2. i < k \/ i = k \/ k < i
      OBVIOUS
    <3>3. b[i] \in Nat /\ b[k] \in Nat
      BY <1>3
    <3>4. (i < k => b[i] < b[k]) /\ (k < i => b[k] < b[i])
      BY <1>2
    <3> QED BY <3>1, <3>2, <3>3, <3>4
  <2>3. upto(b[k]) = {b[i] : i \in 1..k}
    <3> HIDE DEF starts
    <3> QED BY <1>1, <2>1, <2>2
  <2>4. k \in Nat /\ (\A i, j \in 1..k : i < j => b[i] < b[j]) /\ \A i \in 1..k : b[i] \in Nat
    BY <1>2, <1>3, <2>1
  <2>5. Cardinality({b[i] : i \in 1..k}) = k
    BY <2>4, Counting
  <2> QED BY <2>3, <2>5
<1>6. ASSUME NEW k \in 1..m PROVE nth(k) = b[k]
  <2>1. b[k] \in starts /\ Cardinality(upto(b[k])) = k
    <3> HIDE DEF starts, upto
    <3> QED BY <1>1, <1>5
  <2>2. ASSUME NEW i \in starts, Cardinality(upto(i)) = k PROVE i = b[k]
    <3>1. PICK l \in 1..m : i = b[l]
      <4> HIDE DEF starts
      <4> QED BY <1>1
    <3>2. Cardinality(upto(b[l])) = l
      BY <1>5
    <3> HIDE DEF starts, upto
    <3> QED BY <2>2, <3>1, <3>2
  <2> HIDE DEF starts, upto
  <2> QED BY <2>1, <2>2
<1>7. ASSUME NEW k \in 1..m PROVE Min(ends(b[k])) = e[k]
  <2>1. b[k] <= e[k] /\ (\A i \in b[k]..e[k] : t[i] # Slash) /\ (e[k] = n \/ t[e[k] + 1] = Slash)
    BY DEF Runs
  <2>2. b[k] \in 1..n /\ e[k] \in 1..n
    BY <1>2
  <2>3. e[k] \in ends(b[k])
    BY <2>1, <2>2
  <2>4. ends(b[k]) \in SUBSET Nat
    BY <2>2
  <2>5. ASSUME NEW j \in ends(b[k]) PROVE e[k] <= j
    <3> SUFFICES ASSUME j < e[k] PROVE FALSE
      BY <2>2
    <3>1. j + 1 \in b[k]..e[k] /\ j # n
      BY <2>2
    <3> QED BY <2>1, <3>1
  <2> HIDE DEF ends
  <2> QED BY <2>3, <2>4, <2>5, MinIs
<1>8. Pieces(t) = [k \in 1..Cardinality(starts) |-> SubSeq(t, nth(k), Min(ends(nth(k))))]
  BY DEF Pieces
<1> HIDE DEF starts, ends, upto, nth
<1> QED BY <1>4, <1>6, <1>7, <1>8

\* In a lemma of its own: the provers lose it among other sequences.
LEMMA AppendConcat ==
  ASSUME NEW s \in Seq(Character), NEW u \in Seq(Character), NEW x \in Character
  PROVE  Append(s \o u, x) = s \o Append(u, x)
<1>1. PICK v \in Seq(Character) : v = <<x>>
  <2>1. <<x>> \in Seq(Character)
    OBVIOUS
  <2> QED BY <2>1, Zenon
<1>2. s \o u \in Seq(Character)
  BY ConcatProperties
<1>3. Append(u, x) = u \o v
  BY <1>1, AppendIsConcat
<1>4. Append(s \o u, x) = (s \o u) \o v
  BY <1>1, <1>2, AppendIsConcat
<1>5. (s \o u) \o v = s \o (u \o v)
  BY ConcatAssociative
<1> QED BY <1>3, <1>4, <1>5

\* A piece grows at its end.
LEMMA PieceIs ==
  ASSUME NEW t \in Seq(Character), NEW i \in 1..Len(t), NEW j \in 1..Len(t)
  PROVE  /\ Piece(t, i, j) \in Seq(Character) /\ Piece(t, i, j) # <<>>
         /\ i <= j /\ j + 1 <= Len(t) => Piece(t, i, j + 1) = Append(Piece(t, i, j), t[j + 1])
         /\ i = j => Piece(t, i, j) = Append(<<Slash>>, t[i])
<1>1. PICK n \in Nat : n = Len(t)
  BY LenProperties
<1>2. \A k \in 1..n : t[k] \in Character
  BY <1>1, ElementOfSeq
<1>3. i \in 1..n /\ j \in 1..n
  BY <1>1
<1>4. SubSeq(t, i, j) \in Seq(Character)
  <2>1. \A k \in i..j : t[k] \in Character
    BY <1>2, <1>3
  <2> QED BY <1>3, <2>1, SubSeqProperties
<1>5. PICK s \in Seq(Character) : s = <<Slash>>
  <2>1. Slash \in Character
    BY DEF Character
  <2>2. <<Slash>> \in Seq(Character)
    BY <2>1
  <2> QED BY <2>2
<1>6. Piece(t, i, j) \in Seq(Character) /\ Piece(t, i, j) # <<>>
  <2>1. s \o SubSeq(t, i, j) \in Seq(Character)
    BY <1>4, ConcatProperties
  <2>2. s # <<>>
    BY <1>5
  <2>3. s \o SubSeq(t, i, j) # <<>>
    BY <1>4, <2>2, ConcatEqualIffEmpty
  <2> QED BY <1>5, <2>1, <2>3 DEF Piece
<1>7. ASSUME i <= j, j + 1 <= Len(t)
      PROVE  Piece(t, i, j + 1) = Append(Piece(t, i, j), t[j + 1])
  <2>1. PICK k \in i..n : k = j + 1 /\ k - 1 = j
    BY <1>1, <1>3, <1>7
  <2>2. SubSeq(t, i, k) = SubSeq(t, i, j) \o <<t[k]>>
    BY <1>1, <2>1, SubSeqRecursiveSecond
  <2>3. t[k] \in Character
    BY <1>2, <1>3, <2>1
  <2>4. SubSeq(t, i, k) = Append(SubSeq(t, i, j), t[k])
    BY <1>4, <2>2, <2>3, AppendIsConcat
  <2>5. Append(s \o SubSeq(t, i, j), t[k]) = s \o Append(SubSeq(t, i, j), t[k])
    BY <1>4, <2>3, AppendConcat
  <2> QED BY <1>5, <2>1, <2>4, <2>5 DEF Piece
<1>8. ASSUME i = j PROVE Piece(t, i, j) = Append(<<Slash>>, t[i])
  <2>1. SubSeq(t, i, i) = SubSeq(t, i, i - 1) \o <<t[i]>>
    BY <1>1, SubSeqRecursiveSecond
  <2>2. SubSeq(t, i, i - 1) = <<>>
    BY <1>3, SubSeqEmpty
  <2>3. t[i] \in Character /\ <<t[i]>> \in Seq(Character)
    BY <1>2, <1>3
  <2>4. SubSeq(t, i, j) = <<t[i]>>
    BY <1>8, <2>1, <2>2, <2>3, ConcatEmptySeq
  <2>5. Append(s, t[i]) = s \o <<t[i]>>
    BY <2>3, AppendIsConcat
  <2> QED BY <1>5, <2>4, <2>5 DEF Piece
<1> QED BY <1>6, <1>7, <1>8

\* Where the pieces are.
Placed(t, b, e, m) == \A k \in 1..m : b[k] \in 1..Len(t) /\ e[k] \in 1..Len(t)

LEMMA JoinedSame ==
  ASSUME NEW t, NEW m \in Nat, NEW b, NEW e, NEW c, NEW f, \A k \in 1..m : b[k] = c[k] /\ e[k] = f[k]
  PROVE  Joined(t, b, e, m) = Joined(t, c, f, m)
<1>1. PieceSeq(t, b, e, m) = PieceSeq(t, c, f, m)
  BY DEF PieceSeq
<1> QED BY <1>1 DEF Joined

LEMMA JoinedTyped ==
  ASSUME NEW t \in Seq(Character), NEW m \in Nat, NEW b, NEW e, Placed(t, b, e, m)
  PROVE  /\ PieceSeq(t, b, e, m) \in Seq(Seq(Character)) /\ Len(PieceSeq(t, b, e, m)) = m
         /\ \A k \in 1..m : PieceSeq(t, b, e, m)[k] = Piece(t, b[k], e[k])
         /\ Joined(t, b, e, m) \in Seq(Character)
<1>1. PICK q : q = PieceSeq(t, b, e, m)
  OBVIOUS
<1>2. \A k \in 1..m : Piece(t, b[k], e[k]) \in Seq(Character)
  BY PieceIs DEF Placed
<1>3. q \in [1..m -> Seq(Character)] /\ \A k \in 1..m : q[k] = Piece(t, b[k], e[k])
  BY <1>1, <1>2 DEF PieceSeq
<1>4. q \in Seq(Seq(Character))
  BY <1>3, SeqDef
<1>5. Len(q) = m
  BY <1>3, <1>4, LenProperties
<1>6. FlattenSeq(q) \in Seq(Character)
  <2>1. <<>> \in Seq(Character)
    BY EmptySeq
  <2> QED BY <1>4, <2>1, FlattenAppend
<1> QED BY <1>1, <1>3, <1>4, <1>5, <1>6 DEF Joined

\* One more piece.
LEMMA JoinedMore ==
  ASSUME NEW t \in Seq(Character), NEW m \in Nat, NEW b, NEW e, Placed(t, b, e, m + 1)
  PROVE  /\ Joined(t, b, e, m) \in Seq(Character)
         /\ Joined(t, b, e, m + 1) = Joined(t, b, e, m) \o Piece(t, b[m + 1], e[m + 1])
<1>1. PICK l \in Nat : l = m + 1 /\ l \in 1..l
  OBVIOUS
<1>2. PICK p \in Seq(Character) : p = Piece(t, b[l], e[l])
  BY <1>1, PieceIs DEF Placed
<1>3. Placed(t, b, e, m)
  BY DEF Placed
<1>4. PICK q \in Seq(Seq(Character)) : q = PieceSeq(t, b, e, m)
  BY <1>3, JoinedTyped
<1>5. Len(q) = m /\ (\A k \in 1..m : q[k] = Piece(t, b[k], e[k])) /\ Joined(t, b, e, m) \in Seq(Character)
  BY <1>3, <1>4, JoinedTyped
<1>6. PICK r \in Seq(Seq(Character)) : r = PieceSeq(t, b, e, l)
  BY <1>1, JoinedTyped
<1>7. Len(r) = l /\ \A k \in 1..l : r[k] = Piece(t, b[k], e[k])
  BY <1>1, <1>6, JoinedTyped
<1>8. PICK a \in Seq(Seq(Character)) : a = Append(q, p)
  BY AppendProperties
<1>9. Len(a) = m + 1 /\ (\A k \in 1..m : a[k] = q[k]) /\ a[m + 1] = p
  BY <1>5, <1>8, AppendProperties
<1>10. \A k \in 1..l : a[k] = r[k]
  <2>1. \A k \in 1..l : k \in 1..m \/ k = l
    BY <1>1
  <2> QED BY <1>1, <1>2, <1>5, <1>7, <1>9, <2>1
<1>11. a = r
  BY <1>1, <1>7, <1>9, <1>10, SeqEqual
<1>12. FlattenSeq(a) = FlattenSeq(q) \o p
  BY <1>8, FlattenAppend
<1> QED BY <1>1, <1>2, <1>4, <1>5, <1>6, <1>11, <1>12 DEF Joined

\* What Collapse has made of the first n characters: their pieces, each behind
\* one slash, and one more after a slash.
Collapsed(t, r, n, m) ==
  \E b, e :
    /\ Runs(t, n, b, e, m)
    /\ r = IF t[n] = Slash THEN Append(Joined(t, b, e, m), Slash) ELSE Joined(t, b, e, m)
    /\ r \in Seq(Character) /\ r # <<>> /\ Last(r) = t[n]

Collapsing(t, r, n) == \E m \in Nat : Collapsed(t, r, n, m)

LEMMA RunsPlaced ==
  ASSUME NEW t \in Seq(Character), NEW n \in 1..Len(t), NEW m, NEW b, NEW e, Runs(t, n, b, e, m)
  PROVE  Placed(t, b, e, m)
<1>1. 1..n \subseteq 1..Len(t)
  <2>1. Len(t) \in Nat
    BY LenProperties
  <2> QED BY <2>1
<1>2. b \in [1..m -> 1..n] /\ e \in [1..m -> 1..n]
  BY DEF Runs
<1> QED BY <1>1, <1>2 DEF Placed

LEMMA AppendLast ==
  ASSUME NEW s \in Seq(Character), NEW c \in Character
  PROVE  Append(s, c) \in Seq(Character) /\ Append(s, c) # <<>> /\ Last(Append(s, c)) = c
<1>1. PICK a : a = Append(s, c)
  OBVIOUS
<1>2. a \in Seq(Character) /\ a # <<>> /\ Len(a) = Len(s) + 1 /\ a[Len(s) + 1] = c
  BY <1>1, AppendProperties
<1> QED BY <1>1, <1>2 DEF Last

\* One more character: a slash, the first of a piece, another one of a piece.
LEMMA CollapsingAtSlash ==
  ASSUME NEW t \in Seq(Character), NEW n \in 1..Len(t) - 1, NEW r, Collapsing(t, r, n), t[n + 1] = Slash
  PROVE  Collapsing(t, Unrepeated(r, t[n + 1]), n + 1)
<1>1. PICK m \in Nat : Collapsed(t, r, n, m)
  BY DEF Collapsing
<1>2. PICK b, e :
        /\ Runs(t, n, b, e, m)
        /\ r = IF t[n] = Slash THEN Append(Joined(t, b, e, m), Slash) ELSE Joined(t, b, e, m)
        /\ r \in Seq(Character) /\ r # <<>> /\ Last(r) = t[n]
  BY <1>1 DEF Collapsed
<1>3. n \in Nat \ {0} /\ Len(t) \in Nat
  BY LenProperties
<1>4. Runs(t, n + 1, b, e, m)
  BY <1>2, <1>3, RunsAtSlash
<1>5. Slash \in Character
  BY DEF Character
<1>6. PICK u : u = Unrepeated(r, t[n + 1])
  OBVIOUS
<1>7. u = Append(Joined(t, b, e, m), Slash) /\ u \in Seq(Character) /\ u # <<>> /\ Last(u) = Slash
  <2>1. CASE t[n] = Slash
    <3>1. u = r
      BY <1>2, <1>6, <2>1 DEF Unrepeated
    <3> QED BY <1>2, <2>1, <3>1
  <2>2. CASE t[n] # Slash
    <3>1. u = Append(r, Slash)
      BY <1>2, <1>6, <2>2 DEF Unrepeated
    <3>2. Append(r, Slash) \in Seq(Character) /\ Append(r, Slash) # <<>> /\ Last(Append(r, Slash)) = Slash
      BY <1>2, <1>5, AppendLast
    <3>3. r = Joined(t, b, e, m)
      BY <1>2, <2>2
    <3> QED BY <3>1, <3>2, <3>3
  <2> QED BY <2>1, <2>2
<1>8. u = IF t[n + 1] = Slash THEN Append(Joined(t, b, e, m), Slash) ELSE Joined(t, b, e, m)
  BY <1>7
<1>9. Collapsed(t, u, n + 1, m)
  BY <1>4, <1>7, <1>8 DEF Collapsed
<1> QED BY <1>6, <1>9 DEF Collapsing

LEMMA CollapsingAtStart ==
  ASSUME NEW t \in Seq(Character), NEW n \in 1..Len(t) - 1, NEW r, Collapsing(t, r, n),
         t[n] = Slash, t[n + 1] # Slash
  PROVE  Collapsing(t, Unrepeated(r, t[n + 1]), n + 1)
<1>1. PICK m \in Nat : Collapsed(t, r, n, m)
  BY DEF Collapsing
<1>2. PICK b, e :
        /\ Runs(t, n, b, e, m)
        /\ r = Append(Joined(t, b, e, m), Slash)
        /\ r \in Seq(Character) /\ r # <<>>
  BY <1>1 DEF Collapsed
<1>3. n \in Nat \ {0} /\ n \in 1..Len(t) /\ n + 1 \in 1..Len(t) /\ Len(t) \in Nat
  BY LenProperties
<1>4. PICK c, f : /\ Runs(t, n + 1, c, f, m + 1)
                  /\ \A k \in 1..m : c[k] = b[k] /\ f[k] = e[k]
                  /\ c[m + 1] = n + 1 /\ f[m + 1] = n + 1
  <2>1. RunsMore(t, n, b, e, m)
    BY <1>2, <1>3, RunsAtStart
  <2> QED BY <2>1 DEF RunsMore
<1>5. PICK l \in 1..Len(t) : l = n + 1
  BY <1>3
<1>6. PICK x \in Character : x = t[l]
  BY ElementOfSeq
<1>7. PICK s \in Seq(Character) : s = <<Slash>> /\ Slash \in Character
  <2>1. Slash \in Character
    BY DEF Character
  <2>2. <<Slash>> \in Seq(Character)
    BY <2>1
  <2> QED BY <2>1, <2>2
<1>8. Placed(t, c, f, m + 1)
  BY <1>4, <1>5, RunsPlaced
<1>9. PICK j \in Seq(Character) : j = Joined(t, b, e, m) /\ j = Joined(t, c, f, m)
  <2>1. Joined(t, b, e, m) = Joined(t, c, f, m)
    BY <1>4, JoinedSame
  <2>2. Joined(t, c, f, m) \in Seq(Character)
    BY <1>8, JoinedMore
  <2> QED BY <2>1, <2>2
<1>10. PICK p \in Seq(Character) : p = Append(s, x)
  BY AppendProperties
<1>11. Joined(t, c, f, m + 1) = j \o p
  <2>1. Joined(t, c, f, m + 1) = Joined(t, c, f, m) \o Piece(t, c[m + 1], f[m + 1])
    BY <1>8, JoinedMore
  <2>2. Piece(t, l, l) = Append(<<Slash>>, t[l])
    BY PieceIs
  <2>3. Piece(t, c[m + 1], f[m + 1]) = p
    BY <1>4, <1>5, <1>6, <1>7, <1>10, <2>2
  <2> QED BY <1>9, <2>1, <2>3
<1>12. PICK u \in Seq(Character) : u = Append(r, x) /\ u # <<>> /\ Last(u) = x
  BY <1>2, AppendLast
<1>13. u = j \o p
  <2>1. r = j \o s
    BY <1>2, <1>7, <1>9, AppendIsConcat
  <2>2. Append(j \o s, x) = j \o Append(s, x)
    BY AppendConcat
  <2> QED BY <1>10, <1>12, <2>1, <2>2
<1>14. Unrepeated(r, t[l]) = u
  BY <1>5, <1>6, <1>12 DEF Unrepeated
<1>15. u = IF t[n + 1] = Slash THEN Append(Joined(t, c, f, m + 1), Slash) ELSE Joined(t, c, f, m + 1)
  BY <1>11, <1>13
<1>16. m + 1 \in Nat
  OBVIOUS
<1>17. Last(u) = t[n + 1] /\ Unrepeated(r, t[n + 1]) = u
  BY <1>5, <1>6, <1>12, <1>14
<1>18. Collapsed(t, u, n + 1, m + 1)
  BY <1>4, <1>12, <1>15, <1>17 DEF Collapsed
<1> QED BY <1>16, <1>17, <1>18 DEF Collapsing

LEMMA CollapsingOn ==
  ASSUME NEW t \in Seq(Character), NEW n \in 1..Len(t) - 1, NEW r, Collapsing(t, r, n),
         t[n] # Slash, t[n + 1] # Slash
  PROVE  Collapsing(t, Unrepeated(r, t[n + 1]), n + 1)
<1>1. PICK m \in Nat : Collapsed(t, r, n, m)
  BY DEF Collapsing
<1>2. PICK b, e : Runs(t, n, b, e, m) /\ r = Joined(t, b, e, m) /\ r \in Seq(Character) /\ r # <<>>
  BY <1>1 DEF Collapsed
<1>3. n \in Nat \ {0} /\ n \in 1..Len(t) /\ n + 1 \in 1..Len(t) /\ Len(t) \in Nat
  BY LenProperties
<1>4. m # 0 /\ e[m] = n /\ RunsOn(t, n, b, e, m)
  BY <1>2, <1>3, RunsGoOn
<1>5. PICK f : Runs(t, n + 1, b, f, m) /\ f[m] = n + 1 /\ \A k \in 1..m - 1 : f[k] = e[k]
  BY <1>4 DEF RunsOn
<1>6. PICK l \in Nat : m = l + 1 /\ m - 1 = l
  BY <1>4
<1>7. PICK x \in Character : x = t[n + 1]
  BY <1>3, ElementOfSeq
<1>8. Placed(t, b, e, l + 1) /\ Placed(t, b, f, l + 1)
  <2>1. Placed(t, b, e, m)
    BY <1>2, <1>3, RunsPlaced
  <2>2. Placed(t, b, f, m)
    BY <1>3, <1>5, RunsPlaced
  <2> QED BY <1>6, <2>1, <2>2
<1>9. PICK j \in Seq(Character) : j = Joined(t, b, e, l) /\ j = Joined(t, b, f, l)
  <2>1. \A k \in 1..l : b[k] = b[k] /\ e[k] = f[k]
    BY <1>5, <1>6
  <2>2. Joined(t, b, e, l) = Joined(t, b, f, l)
    BY <2>1, JoinedSame
  <2>3. Joined(t, b, e, l) \in Seq(Character)
    BY <1>8, JoinedMore
  <2> QED BY <2>2, <2>3
<1>10. b[m] \in 1..n
  BY <1>2, <1>6 DEF Runs
<1>11. PICK p \in Seq(Character) : p = Piece(t, b[m], n)
  <2>1. b[m] \in 1..Len(t)
    BY <1>3, <1>10
  <2>2. Piece(t, b[m], n) \in Seq(Character)
    BY <1>3, <2>1, PieceIs
  <2> QED BY <2>2
<1>12. PICK q \in Seq(Character) : q = Piece(t, b[m], n + 1) /\ q = Append(p, x)
  <2>1. Piece(t, b[m], n + 1) = Append(Piece(t, b[m], n), t[n + 1])
    <3>1. b[m] \in 1..Len(t) /\ b[m] <= n /\ n + 1 <= Len(t)
      BY <1>3, <1>10
    <3> QED BY <1>3, <3>1, PieceIs
  <2>2. Append(p, x) \in Seq(Character)
    BY AppendProperties
  <2> QED BY <1>7, <1>11, <2>1, <2>2
<1>13. r = j \o p
  <2>1. Joined(t, b, e, l + 1) = Joined(t, b, e, l) \o Piece(t, b[l + 1], e[l + 1])
    BY <1>8, JoinedMore
  <2> QED BY <1>2, <1>4, <1>6, <1>9, <1>11, <2>1
<1>14. Joined(t, b, f, m) = j \o q
  <2>1. Joined(t, b, f, l + 1) = Joined(t, b, f, l) \o Piece(t, b[l + 1], f[l + 1])
    BY <1>8, JoinedMore
  <2> QED BY <1>5, <1>6, <1>9, <1>12, <2>1
<1>15. PICK u \in Seq(Character) : u = Append(r, x) /\ u # <<>> /\ Last(u) = x
  BY <1>2, AppendLast
<1>16. u = j \o q
  <2>1. Append(j \o p, x) = j \o Append(p, x)
    BY AppendConcat
  <2> QED BY <1>12, <1>13, <1>15, <2>1
<1>17. Unrepeated(r, t[n + 1]) = u
  BY <1>7, <1>15 DEF Unrepeated
<1>18. Collapsed(t, u, n + 1, m)
  BY <1>5, <1>7, <1>14, <1>15, <1>16 DEF Collapsed
<1> QED BY <1>17, <1>18 DEF Collapsing

\* The first slash, and no piece yet.
LEMMA CollapsingFirst ==
  ASSUME NEW t \in Seq(Character), t[1] = Slash
  PROVE  Collapsing(t, Unrepeated(<<>>, t[1]), 1)
<1>1. PICK b : b \in [1..0 -> 1..1] /\ 1..0 = {}
  <2>1. [k \in 1..0 |-> 1] \in [1..0 -> 1..1]
    OBVIOUS
  <2>2. 1..0 = {}
    OBVIOUS
  <2> QED BY <2>1, <2>2, Zenon
<1>2. Starts(t, 1) = {}
  <2>1. \A i \in 1..1 : i = 1
    OBVIOUS
  <2> QED BY <2>1 DEF Starts
<1>3. Runs(t, 1, b, b, 0)
  BY <1>1, <1>2 DEF Runs
<1>4. Joined(t, b, b, 0) = <<>>
  <2>1. PieceSeq(t, b, b, 0) = <<>>
    BY <1>1 DEF PieceSeq
  <2> QED BY <2>1, FlattenNothing DEF Joined
<1>5. Slash \in Character /\ <<>> \in Seq(Character)
  BY EmptySeq DEF Character
<1>6. PICK u \in Seq(Character) : u = Append(<<>>, Slash) /\ u # <<>> /\ Last(u) = Slash
  BY <1>5, AppendLast
<1>7. Unrepeated(<<>>, t[1]) = u
  BY <1>6 DEF Unrepeated
<1>8. Collapsed(t, u, 1, 0)
  BY <1>3, <1>4, <1>6 DEF Collapsed
<1> QED BY <1>7, <1>8 DEF Collapsing

\* Induction over the characters.
LEMMA CollapseIs ==
  ASSUME NEW t \in Seq(Character), t # <<>>, t[1] = Slash
  PROVE  Collapsing(t, Collapse(t), Len(t))
<1>1. PICK l \in Nat : l = Len(t) /\ l # 0
  BY EmptySeq
<1>2. PICK after : /\ after = [n \in 0..l |-> IF n = 0 THEN <<>> ELSE Unrepeated(after[n - 1], t[n])]
                   /\ Collapse(t) = after[l]
  BY <1>1, CollapseSteps
<1>3. after[0] = <<>> /\ \A n \in 1..l : after[n] = Unrepeated(after[n - 1], t[n])
  BY <1>2
<1> DEFINE S == {n \in Nat : n + 1 <= l => Collapsing(t, after[n + 1], n + 1)}
<1>4. 0 \in S
  <2>1. 1 \in 1..l /\ 1 - 1 = 0
    BY <1>1
  <2>2. after[1] = Unrepeated(<<>>, t[1])
    BY <1>3, <2>1
  <2> QED BY <2>2, CollapsingFirst
<1>5. ASSUME NEW n \in Nat, n \in S PROVE n + 1 \in S
  <2> SUFFICES ASSUME n + 2 <= l PROVE Collapsing(t, after[n + 2], n + 2)
    <3>1. (n + 1) + 1 = n + 2
      OBVIOUS
    <3> QED BY <3>1
  <2>1. PICK k \in 1..Len(t) - 1 : k = n + 1 /\ k + 1 = n + 2
    BY <1>1
  <2>2. Collapsing(t, after[k], k)
    BY <1>5, <2>1
  <2>3. after[k + 1] = Unrepeated(after[k], t[k + 1])
    <3>1. k + 1 \in 1..l /\ (k + 1) - 1 = k
      BY <1>1, <2>1
    <3> QED BY <1>3, <3>1
  <2>4. Collapsing(t, Unrepeated(after[k], t[k + 1]), k + 1)
    BY <2>2, CollapsingAtSlash, CollapsingAtStart, CollapsingOn
  <2> QED BY <2>1, <2>3, <2>4
<1>6. l - 1 \in S
  <2>1. l - 1 \in Nat
    BY <1>1
  <2> HIDE DEF S
  <2> QED BY <1>4, <1>5, <2>1, Induction
<1>7. (l - 1) + 1 = l
  BY <1>1
<1> QED BY <1>1, <1>2, <1>6, <1>7

\* What Clean leaves.
LEMMA CleanIsPieces ==
  ASSUME NEW t \in Seq(Character), t # <<>>, t[1] = Slash
  PROVE  Clean(t) = IF Pieces(t) = <<>> THEN <<Slash>>
                    ELSE FlattenSeq([k \in DOMAIN Pieces(t) |-> <<Slash>> \o Pieces(t)[k]])
<1>1. PICK n \in Nat \ {0} : n = Len(t) /\ n \in 1..Len(t)
  BY EmptySeq
<1>2. PICK r : r = Collapse(t)
  OBVIOUS
<1>3. PICK m \in Nat : Collapsed(t, r, n, m)
  BY <1>1, <1>2, CollapseIs DEF Collapsing
<1>4. PICK b, e :
        /\ Runs(t, n, b, e, m)
        /\ r = IF t[n] = Slash THEN Append(Joined(t, b, e, m), Slash) ELSE Joined(t, b, e, m)
        /\ r \in Seq(Character) /\ r # <<>> /\ Last(r) = t[n]
  BY <1>3 DEF Collapsed
<1>5. PICK p : p = Pieces(t)
  OBVIOUS
<1>6. p = [k \in 1..m |-> SubSeq(t, b[k], e[k])]
  BY <1>1, <1>4, <1>5, PiecesAre
<1>7. PieceSeq(t, b, e, m) = [k \in DOMAIN p |-> <<Slash>> \o p[k]]
  <2>1. DOMAIN p = 1..m /\ \A k \in 1..m : p[k] = SubSeq(t, b[k], e[k])
    BY <1>6
  <2> QED BY <2>1 DEF PieceSeq, Piece
<1>8. PICK j \in Seq(Character) : j = Joined(t, b, e, m)
  <2>1. Placed(t, b, e, m)
    BY <1>1, <1>4, RunsPlaced
  <2> QED BY <2>1, JoinedTyped
<1>9. j = FlattenSeq([k \in DOMAIN p |-> <<Slash>> \o p[k]])
  BY <1>7, <1>8 DEF Joined
<1>10. p = <<>> <=> m = 0
  <2>1. ASSUME m = 0 PROVE p = <<>>
    <3>1. p = [k \in 1..0 |-> SubSeq(t, b[k], e[k])]
      BY <1>6, <2>1
    <3>2. 1..0 = {}
      OBVIOUS
    <3> QED BY <3>1, <3>2
  <2>2. ASSUME p = <<>> PROVE m = 0
    <3>1. DOMAIN p = 1..m /\ DOMAIN p = {}
      BY <1>6, <2>2
    <3>2. 1 \notin 1..m
      BY <3>1
    <3> QED BY <3>2
  <2> QED BY <2>1, <2>2
<1>11. Clean(t) = IF Len(r) > 1 /\ Last(r) = Slash THEN Front(r) ELSE r
  BY <1>2 DEF Clean
<1>12. CASE m = 0
  <2>1. j = <<>>
    <3>1. PieceSeq(t, b, e, m) = <<>>
      BY <1>7, <1>10, <1>12
    <3> QED BY <1>8, <3>1, FlattenNothing DEF Joined
  <2>2. t[n] = Slash
    BY <1>4, <1>12 DEF Runs
  <2>3. r = <<Slash>> /\ Len(r) = 1
    BY <1>4, <1>8, <2>1, <2>2
  <2>4. Clean(t) = <<Slash>>
    BY <1>11, <2>3
  <2> QED BY <1>5, <1>10, <1>12, <2>4
<1>13. CASE m # 0
  <2>1. Clean(t) = j
    <3>1. CASE t[n] = Slash
      <4>1. Slash \in Character
        BY DEF Character
      <4>2. r = Append(j, Slash)
        BY <1>4, <1>8, <3>1
      <4>3. Front(r) = j
        BY <4>1, <4>2, AppendParts
      <4>4. Len(r) = Len(j) + 1
        BY <4>1, <4>2, AppendProperties
      <4>5. Len(j) # 0
        <5>1. PICK l \in Nat : m = l + 1
          BY <1>13
        <5>2. Placed(t, b, e, l + 1)
          BY <1>1, <1>4, <5>1, RunsPlaced
        <5>3. PICK i \in Seq(Character) : i = Joined(t, b, e, l)
          BY <5>2, JoinedMore
        <5>4. PICK q \in Seq(Character) : q = Piece(t, b[m], e[m]) /\ q # <<>>
          BY <5>1, <5>2, PieceIs DEF Placed
        <5>5. j = i \o q
          <6>1. Joined(t, b, e, l + 1) = Joined(t, b, e, l) \o Piece(t, b[l + 1], e[l + 1])
            BY <5>2, JoinedMore
          <6> QED BY <1>8, <5>1, <5>3, <5>4, <6>1
        <5>6. j # <<>>
          BY <5>4, <5>5, ConcatEqualIffEmpty
        <5> QED BY <5>6, EmptySeq
      <4>6. Len(j) \in Nat
        BY LenProperties
      <4>7. Len(r) > 1
        BY <4>4, <4>5, <4>6
      <4> QED BY <1>4, <1>11, <3>1, <4>3, <4>7
    <3>2. CASE t[n] # Slash
      BY <1>4, <1>8, <1>11, <3>2
    <3> QED BY <3>1, <3>2
  <2> QED BY <1>5, <1>9, <1>10, <1>13, <2>1
<1> QED BY <1>12, <1>13
------------------------------------------------------------------------------
\* The port.

\* The recursive function of Port has a value.
LEMMA PortSteps ==
  ASSUME NEW c, Len(c) \in Nat
  PROVE  \E after : /\ after = [n \in 0..Len(c) |->
                                 IF n = 0 THEN DefaultPort ELSE Listens(after[n - 1], c[n])]
                    /\ Port(c) = after[Len(c)]
<1> DEFINE R(g, m) == g = [n \in 0..m |-> IF n = 0 THEN DefaultPort ELSE Listens(g[n - 1], c[n])]
           S == {m \in Nat : \E g : R(g, m)}
<1>1. 0 \in S
  <2>1. R([n \in 0..0 |-> DefaultPort], 0)
    OBVIOUS
  <2> QED BY <2>1
<1>2. ASSUME NEW m \in Nat, m \in S PROVE m + 1 \in S
  <2>1. PICK g : R(g, m)
    BY <1>2
  <2> DEFINE h == [n \in 0..m + 1 |-> IF n = m + 1 THEN Listens(g[m], c[n]) ELSE g[n]]
  <2>2. R(h, m + 1)
    BY <2>1
  <2>3. \E k : R(k, m + 1)
    <3> HIDE DEF R, h
    <3> QED BY <2>2
  <2> QED BY <2>3
<1>3. \E g : R(g, Len(c))
  <2> HIDE DEF S
  <2>1. Len(c) \in S
    BY <1>1, <1>2, Induction
  <2> USE DEF S
  <2> HIDE DEF R
  <2> QED BY <2>1
<1> QED BY <1>3 DEF Port

\* What a listen statement sets the port to.
Bound(s) == IF s.number /\ InRange(s.value) THEN s.value ELSE DefaultPort

\* The last listen statement decides, whatever the ones before it said.
LEMMA PortOfLastListen ==
  ASSUME NEW c \in Seq(Statement)
  PROVE  /\ (\A i \in 1..Len(c) : c[i].kind # "listen") => Port(c) = DefaultPort
         /\ \A i \in 1..Len(c) :
              c[i].kind = "listen" /\ (\A j \in 1..Len(c) : c[j].kind = "listen" => j <= i)
                => Port(c) = Bound(c[i])
<1>1. Len(c) \in Nat
  BY LenProperties
<1>2. PICK after : /\ after = [n \in 0..Len(c) |->
                                 IF n = 0 THEN DefaultPort ELSE Listens(after[n - 1], c[n])]
                   /\ Port(c) = after[Len(c)]
  BY <1>1, PortSteps
<1> DEFINE None(n) == (\A i \in 1..n : c[i].kind # "listen") => after[n] = DefaultPort
           Later(n) == \A i \in 1..n :
                         c[i].kind = "listen" /\ (\A j \in 1..n : c[j].kind = "listen" => j <= i)
                           => after[n] = Bound(c[i])
           S == {n \in Nat : n <= Len(c) => None(n) /\ Later(n)}
<1>3. 0 \in S
  <2>1. after[0] = DefaultPort
    BY <1>1, <1>2
  <2>2. 1..0 = {}
    OBVIOUS
  <2> QED BY <2>1, <2>2
<1>4. ASSUME NEW n \in Nat, n \in S PROVE n + 1 \in S
  <2> SUFFICES ASSUME n + 1 <= Len(c) PROVE None(n + 1) /\ Later(n + 1)
    OBVIOUS
  <2>1. n <= Len(c) /\ n + 1 \in 1..n + 1 /\ n + 1 \in 0..Len(c) /\ (n + 1) - 1 = n /\ n + 1 # 0
    BY <1>1
  <2>2. None(n) /\ Later(n)
    BY <1>4, <2>1
  <2>3. after[n + 1] = Listens(after[n], c[n + 1])
    BY <1>2, <2>1
  <2>4. \A i \in 1..n : i \in 1..n + 1
    OBVIOUS
  <2>5. CASE c[n + 1].kind = "listen"
    <3>1. after[n + 1] = Bound(c[n + 1])
      BY <2>3, <2>5 DEF Listens, Bound
    <3>2. None(n + 1)
      BY <2>1, <2>5
    <3>3. Later(n + 1)
      <4> SUFFICES ASSUME NEW i \in 1..n + 1, n + 1 <= i PROVE after[n + 1] = Bound(c[i])
        BY <2>1, <2>5
      <4>1. i = n + 1
        OBVIOUS
      <4> QED BY <3>1, <4>1
    <3> QED BY <3>2, <3>3
  <2>6. CASE c[n + 1].kind # "listen"
    <3>1. after[n + 1] = after[n]
      BY <2>3, <2>6 DEF Listens
    <3>2. None(n + 1)
      BY <2>2, <2>4, <3>1
    <3>3. Later(n + 1)
      <4> SUFFICES ASSUME NEW i \in 1..n + 1, c[i].kind = "listen",
                          \A j \in 1..n + 1 : c[j].kind = "listen" => j <= i
                   PROVE  after[n + 1] = Bound(c[i])
        OBVIOUS
      <4>1. i # n + 1
        BY <2>6
      <4>2. i \in 1..n
        BY <4>1
      <4> QED BY <2>2, <2>4, <3>1, <4>2
    <3> QED BY <3>2, <3>3
  <2> QED BY <2>5, <2>6
<1>5. Len(c) \in S
  <2> HIDE DEF S
  <2> QED BY <1>1, <1>3, <1>4, Induction
<1> QED BY <1>1, <1>2, <1>5

LEMMA HasLastListen ==
  ASSUME NEW c \in Seq(Statement), NEW k \in 1..Len(c), c[k].kind = "listen"
  PROVE  \E i \in 1..Len(c) : /\ c[i].kind = "listen"
                              /\ \A j \in 1..Len(c) : c[j].kind = "listen" => j <= i
<1> DEFINE S == {i \in 1..Len(c) : c[i].kind = "listen"}
<1>1. Len(c) \in Nat /\ S # {} /\ \A i \in S : i \in 0..Len(c)
  BY LenProperties
<1>2. PICK i \in S : \A j \in S : j <= i
  <2> HIDE DEF S
  <2> QED BY <1>1, HasGreatest
<1> QED BY <1>2

LEMMA StatementIs ==
  ASSUME NEW s \in Statement
  PROVE  /\ s.kind = "location" => /\ s.location \in Path(MaxLocation) /\ s.roots \in 0..2
                                   /\ ~s.block => s.roots = 0
         /\ s.kind = "listen" => s.value \in Int
<1>1. CASE s \in LocationStatement
  <2>1. /\ s.kind = "location" /\ s.location \in Path(MaxLocation) /\ s.roots \in 0..2
        /\ ~s.block => s.roots = 0
    BY <1>1 DEF LocationStatement
  <2> QED BY <2>1
<1>2. CASE s = NoNumber
  <2>1. s.kind = "listen" /\ s.value = 0
    BY <1>2 DEF NoNumber
  <2> QED BY <2>1
<1>2a. Number \in SUBSET Int
  BY DEF Number, MaxPort
<1>3. CASE s \in [kind : {"listen"}, number : {TRUE}, value : Number]
  <2>1. s.kind = "listen" /\ s.value \in Int
    BY <1>2a, <1>3
  <2> QED BY <2>1
<1>4. CASE s = ShortStatement
  <2>1. s.kind = "short"
    BY <1>4 DEF ShortStatement
  <2> QED BY <2>1
<1>5. s \in LocationStatement \/ s \in ListenStatement \/ s = ShortStatement
  BY DEF Statement
<1>6. s \in ListenStatement =>
        s = NoNumber \/ s \in [kind : {"listen"}, number : {TRUE}, value : Number]
  BY DEF ListenStatement
<1> QED BY <1>1, <1>2, <1>3, <1>4, <1>5, <1>6

LEMMA PortTyped ==
  ASSUME NEW c \in Seq(Statement)
  PROVE  Port(c) \in 0..MaxPort
<1>1. \A i \in 1..Len(c) : c[i] \in Statement
  BY ElementOfSeq
<1>2. MaxPort \in Nat /\ DefaultPort \in 0..MaxPort
  BY DEF DefaultPort, MaxPort
<1>3. ASSUME NEW i \in 1..Len(c), c[i].kind = "listen" PROVE Bound(c[i]) \in 0..MaxPort
  <2>1. c[i].value \in Int
    BY <1>1, <1>3, StatementIs
  <2> QED BY <1>2, <2>1 DEF Bound, InRange
<1>4. CASE \A i \in 1..Len(c) : c[i].kind # "listen"
  BY <1>2, <1>4, PortOfLastListen
<1>5. CASE \E i \in 1..Len(c) : c[i].kind = "listen"
  <2>1. PICK i \in 1..Len(c) : /\ c[i].kind = "listen"
                               /\ \A j \in 1..Len(c) : c[j].kind = "listen" => j <= i
    BY <1>5, HasLastListen
  <2>2. Port(c) = Bound(c[i])
    BY <2>1, PortOfLastListen
  <2> QED BY <1>3, <2>1, <2>2
<1> QED BY <1>4, <1>5
------------------------------------------------------------------------------
\* The name and id of an entity are cut out of the target.

\* Either the rest of the target has a slash behind its first character, and
\* the first such slash ends the name, or all that follows is the name.
LEMMA SplitIs ==
  ASSUME NEW r \in Seq(Character)
  PROVE  \/ /\ \A i \in 2..Len(r) : r[i] # Slash
            /\ Split(r) = [name |-> SubSeq(r, 2, Len(r)), id |-> <<>>]
         \/ \E i \in 2..Len(r) :
              /\ r[i] = Slash /\ \A j \in 2..Len(r) : r[j] = Slash => i <= j
              /\ Split(r) = [name |-> SubSeq(r, 2, i - 1), id |-> SubSeq(r, i + 1, Len(r))]
<1> DEFINE I == {i \in 2..Len(r) : r[i] = Slash}
           slash == SelectInSubSeq(r, 2, Len(r), LAMBDA c : c = Slash)
<1>1. Len(r) \in Nat
  BY LenProperties
<1>2. slash = IF I # {} THEN Min(I) ELSE 0
  BY DEF SelectInSubSeq
<1>3. Split(r) = IF slash > 0 THEN [name |-> SubSeq(r, 2, slash - 1), id |-> SubSeq(r, slash + 1, Len(r))]
                 ELSE [name |-> SubSeq(r, 2, Len(r)), id |-> <<>>]
  BY DEF Split
<1>4. CASE I = {}
  <2>1. slash = 0
    BY <1>2, <1>4
  <2>2. ~(0 > 0)
    OBVIOUS
  <2> HIDE DEF slash
  <2> QED BY <1>3, <1>4, <2>1, <2>2
<1>5. CASE I # {}
  <2>1. I \in SUBSET Nat
    OBVIOUS
  <2>2. PICK i \in I : \A j \in I : i <= j
    <3> HIDE DEF I
    <3> QED BY <1>5, <2>1, HasLeast
  <2>3. slash = i
    <3>1. Min(I) = i
      <4> HIDE DEF I
      <4> QED BY <2>1, <2>2, MinIs
    <3> HIDE DEF I, slash
    <3> QED BY <1>2, <1>5, <3>1
  <2>4. i > 0 /\ i \in 2..Len(r) /\ r[i] = Slash /\ \A j \in 2..Len(r) : r[j] = Slash => i <= j
    BY <2>2
  <2> HIDE DEF slash, I
  <2> QED BY <1>3, <2>3, <2>4
<1> QED BY <1>4, <1>5

LEMMA RestIs ==
  ASSUME NEW c \in Seq(Character), NEW l \in Seq(Character), IsPrefix(l, c)
  PROVE  /\ Rest(c, l) \in Seq(Character) /\ Len(Rest(c, l)) = Len(c) - Len(l)
         /\ \A i \in 1..Len(c) - Len(l) : Rest(c, l)[i] = c[Len(l) + i]
         /\ c = l \o Rest(c, l)
<1>1. Len(c) \in Nat /\ Len(l) \in Nat /\ Len(l) <= Len(c) /\ SubSeq(c, 1, Len(l)) = l
  BY LenProperties, SubSeqFull DEF IsPrefix
<1>2. /\ SubSeq(c, Len(l) + 1, Len(c)) \in Seq(Character)
      /\ Len(SubSeq(c, Len(l) + 1, Len(c))) =
           IF Len(l) + 1 <= Len(c) THEN Len(c) - (Len(l) + 1) + 1 ELSE 0
      /\ \A i \in 1..Len(c) - (Len(l) + 1) + 1 : SubSeq(c, Len(l) + 1, Len(c))[i] = c[Len(l) + 1 + i - 1]
  <2>1. \A i \in Len(l) + 1..Len(c) : c[i] \in Character
    <3>1. \A i \in Len(l) + 1..Len(c) : i \in 1..Len(c)
      BY <1>1
    <3> QED BY <3>1, ElementOfSeq
  <2>2. Len(l) + 1 \in Int /\ Len(c) \in Int
    BY <1>1
  <2> QED BY <2>1, <2>2, SubSeqProperties
<1>3. SubSeq(c, 1, Len(l)) \o SubSeq(c, Len(l) + 1, Len(c)) = SubSeq(c, 1, Len(c))
  <2>1. 1 \in 1..Len(c) + 1 /\ Len(l) \in 1 - 1..Len(c) /\ Len(c) \in Len(l)..Len(c)
    BY <1>1
  <2> QED BY <2>1, ConcatAdjacentSubSeq
<1>4. SubSeq(c, 1, Len(c)) = c
  BY SubSeqFull
<1>5. c = l \o SubSeq(c, Len(l) + 1, Len(c))
  BY <1>1, <1>3, <1>4
<1>6. /\ Len(SubSeq(c, Len(l) + 1, Len(c))) = Len(c) - Len(l)
      /\ \A i \in 1..Len(c) - Len(l) : SubSeq(c, Len(l) + 1, Len(c))[i] = c[Len(l) + i]
  <2> DEFINE r == SubSeq(c, Len(l) + 1, Len(c))
  <2>1. \A i \in Int : Len(l) + 1 + i - 1 = Len(l) + i
    BY <1>1
  <2>2. Len(c) - (Len(l) + 1) + 1 = Len(c) - Len(l)
    BY <1>1
  <2> HIDE DEF r
  <2>3. Len(r) = Len(c) - Len(l)
    BY <1>1, <1>2 DEF r
  <2>4. \A i \in 1..Len(c) - Len(l) : r[i] = c[Len(l) + i]
    BY <1>2, <2>1, <2>2 DEF r
  <2> QED BY <2>3, <2>4 DEF r
<1> QED BY <1>2, <1>5, <1>6 DEF Rest

\* Name and id make up what follows the location, each behind one slash.
LEMMA SplitJoins ==
  ASSUME NEW r \in Seq(Character), Len(r) >= 2, r[1] = Slash, r[Len(r)] # Slash
  PROVE  LET e == Split(r) IN
         /\ e.name \in Seq(Character) /\ e.id \in Seq(Character)
         /\ r = <<Slash>> \o (e.name \o (IF e.id = <<>> THEN <<>> ELSE <<Slash>> \o e.id))
         /\ ~Contains(e.name, Slash)
<1>1. Len(r) \in Nat /\ 1 \in 1..Len(r) /\ Len(r) \in 1..Len(r) /\ \A i \in 1..Len(r) : r[i] \in Character
  BY LenProperties, ElementOfSeq
<1>2. r = <<Slash>> \o SubSeq(r, 2, Len(r))
  <2>1. SubSeq(r, 1, Len(r)) = <<r[1]>> \o SubSeq(r, 1 + 1, Len(r))
    BY <1>1, SubSeqRecursiveFirst
  <2>2. 1 + 1 = 2
    OBVIOUS
  <2> QED BY <2>1, <2>2, SubSeqFull
<1>3. ASSUME NEW m \in 1..Len(r) + 1, NEW n \in 0..Len(r)
      PROVE  /\ SubSeq(r, m, n) \in Seq(Character)
             /\ Len(SubSeq(r, m, n)) = IF m <= n THEN n - m + 1 ELSE 0
             /\ \A k \in 1..n - m + 1 : SubSeq(r, m, n)[k] = r[m + k - 1]
  <2>1. m \in Int /\ n \in Int /\ \A k \in m..n : r[k] \in Character
    BY <1>1
  <2> QED BY <2>1, SubSeqProperties
<1>4. ASSUME \A i \in 2..Len(r) : r[i] # Slash,
             Split(r) = [name |-> SubSeq(r, 2, Len(r)), id |-> <<>>]
      PROVE  LET e == Split(r) IN
             /\ e.name \in Seq(Character) /\ e.id \in Seq(Character)
             /\ r = <<Slash>> \o (e.name \o (IF e.id = <<>> THEN <<>> ELSE <<Slash>> \o e.id))
             /\ ~Contains(e.name, Slash)
  <2> DEFINE name == SubSeq(r, 2, Len(r))
  <2>1. /\ name \in Seq(Character) /\ Len(name) = Len(r) - 1
        /\ \A k \in 1..Len(r) - 1 : name[k] = r[k + 1]
    <3>1. 2 \in 1..Len(r) + 1 /\ Len(r) \in 0..Len(r)
      BY <1>1
    <3>2. /\ name \in Seq(Character) /\ Len(name) = IF 2 <= Len(r) THEN Len(r) - 2 + 1 ELSE 0
          /\ \A k \in 1..Len(r) - 2 + 1 : name[k] = r[2 + k - 1]
      BY <1>3, <3>1
    <3> QED BY <1>1, <3>2
  <2>2. ~Contains(name, Slash)
    <3>1. \A k \in 1..Len(r) - 1 : k + 1 \in 2..Len(r)
      BY <1>1
    <3> QED BY <1>4, <2>1, <3>1 DEF Contains
  <2>3. name \o <<>> = name /\ <<>> \in Seq(Character)
    BY <2>1, ConcatEmptySeq, EmptySeq
  <2>4. Split(r).name = name /\ Split(r).id = <<>> /\ r = <<Slash>> \o name
    BY <1>2, <1>4
  <2> HIDE DEF name
  <2> QED BY <2>1, <2>2, <2>3, <2>4
<1>5. ASSUME NEW i \in 2..Len(r), r[i] = Slash, \A j \in 2..Len(r) : r[j] = Slash => i <= j,
             Split(r) = [name |-> SubSeq(r, 2, i - 1), id |-> SubSeq(r, i + 1, Len(r))]
      PROVE  LET e == Split(r) IN
             /\ e.name \in Seq(Character) /\ e.id \in Seq(Character)
             /\ r = <<Slash>> \o (e.name \o (IF e.id = <<>> THEN <<>> ELSE <<Slash>> \o e.id))
             /\ ~Contains(e.name, Slash)
  <2> DEFINE name == SubSeq(r, 2, i - 1)
             id == SubSeq(r, i + 1, Len(r))
  <2>1. /\ name \in Seq(Character) /\ Len(name) = i - 2
        /\ \A k \in 1..i - 2 : name[k] = r[k + 1]
    <3>1. 2 \in 1..Len(r) + 1 /\ i - 1 \in 0..Len(r)
      BY <1>1
    <3>2. /\ name \in Seq(Character) /\ Len(name) = IF 2 <= i - 1 THEN (i - 1) - 2 + 1 ELSE 0
          /\ \A k \in 1..(i - 1) - 2 + 1 : name[k] = r[2 + k - 1]
      BY <1>3, <3>1
    <3> QED BY <1>1, <3>2
  <2>2. id \in Seq(Character) /\ Len(id) = Len(r) - i /\ Len(id) # 0
    <3>1. i # Len(r)
      BY <1>5
    <3>2. i + 1 \in 1..Len(r) + 1 /\ Len(r) \in 0..Len(r)
      BY <1>1
    <3>3. id \in Seq(Character) /\ Len(id) = IF i + 1 <= Len(r) THEN Len(r) - (i + 1) + 1 ELSE 0
      BY <1>3, <3>2
    <3> QED BY <1>1, <3>1, <3>3
  <2>3. id # <<>>
    BY <2>2, EmptySeq
  <2>4. ~Contains(name, Slash)
    <3>1. \A k \in 1..i - 2 : k + 1 \in 2..Len(r) /\ ~(i <= k + 1)
      BY <1>1
    <3> QED BY <1>5, <2>1, <3>1 DEF Contains
  <2>5. SubSeq(r, 2, Len(r)) = name \o SubSeq(r, i, Len(r))
    <3>1. 2 \in 1..Len(r) + 1 /\ i - 1 \in 2 - 1..Len(r) /\ Len(r) \in i - 1..Len(r) /\ (i - 1) + 1 = i
      BY <1>1
    <3>2. SubSeq(r, 2, i - 1) \o SubSeq(r, (i - 1) + 1, Len(r)) = SubSeq(r, 2, Len(r))
      BY <3>1, ConcatAdjacentSubSeq
    <3> QED BY <3>1, <3>2
  <2>6. SubSeq(r, i, Len(r)) = <<Slash>> \o id
    <3>1. i \in 1..Len(r) /\ Len(r) \in i..Len(r)
      BY <1>1
    <3> QED BY <1>5, <3>1, SubSeqRecursiveFirst
  <2>7. Split(r).name = name /\ Split(r).id = id
    BY <1>5
  <2>8. r = <<Slash>> \o (name \o (<<Slash>> \o id))
    BY <1>2, <2>5, <2>6
  <2> HIDE DEF name, id
  <2> QED BY <2>1, <2>2, <2>3, <2>4, <2>7, <2>8
<1> QED BY <1>4, <1>5, SplitIs

\* Names and ids are no longer than the rest they are cut out of.
LEMMA SplitTyped ==
  ASSUME NEW r \in Seq(Character)
  PROVE  Len(Split(r).name) \in 0..Len(r) /\ Len(Split(r).id) \in 0..Len(r)
<1>1. Len(r) \in Nat /\ \A i \in 1..Len(r) : r[i] \in Character
  BY LenProperties, ElementOfSeq
<1>2. ASSUME NEW m \in Nat, m >= 1, NEW n \in Nat, n <= Len(r)
      PROVE  Len(SubSeq(r, m, n)) \in 0..Len(r)
  <2>1. m \in Int /\ n \in Int /\ \A k \in m..n : r[k] \in Character
    BY <1>1, <1>2
  <2>2. Len(SubSeq(r, m, n)) = IF m <= n THEN n - m + 1 ELSE 0
    BY <2>1, SubSeqProperties
  <2> QED BY <1>1, <1>2, <2>2
<1>3. Len(SubSeq(r, 2, Len(r))) \in 0..Len(r)
  BY <1>1, <1>2
<1>4. \A i \in 2..Len(r) : /\ Len(SubSeq(r, 2, i - 1)) \in 0..Len(r)
                           /\ Len(SubSeq(r, i + 1, Len(r))) \in 0..Len(r)
  <2>1. \A i \in 2..Len(r) : i - 1 \in Nat /\ i - 1 <= Len(r) /\ i + 1 \in Nat /\ i + 1 >= 1
    BY <1>1
  <2> QED BY <1>1, <1>2, <2>1
<1>5. Len(<<>>) \in 0..Len(r)
  BY <1>1, EmptySeq
<1> QED BY <1>3, <1>4, <1>5, SplitIs

\* Location, name and id make up a clean target.
LEMMA EntityMakesUpTarget ==
  ASSUME NEW c \in Seq(Character), Len(c) > 1 => c[Len(c)] # Slash,
         NEW l \in Seq(Character), IsPrefix(l, c),
         Rest(c, l)[1] = Slash, Split(Rest(c, l)).name # <<>>
  PROVE  LET e == Split(Rest(c, l)) IN
         /\ c = l \o <<Slash>> \o e.name \o (IF e.id = <<>> THEN <<>> ELSE <<Slash>> \o e.id)
         /\ ~Contains(e.name, Slash)
<1> DEFINE r == Rest(c, l)
           e == Split(r)
<1>1. /\ r \in Seq(Character) /\ Len(r) = Len(c) - Len(l) /\ c = l \o r
      /\ \A i \in 1..Len(c) - Len(l) : r[i] = c[Len(l) + i]
  BY RestIs
<1>2. Len(c) \in Nat /\ Len(l) \in Nat /\ Len(r) \in Nat
  BY <1>1, LenProperties
<1>3. Len(r) >= 2
  <2> SUFFICES ASSUME Len(r) < 2 PROVE e.name = <<>>
    BY <1>2
  <2>1. SubSeq(r, 2, Len(r)) = <<>>
    BY <1>2, SubSeqEmpty
  <2>2. 2..Len(r) = {}
    BY <1>2
  <2>3. e.name = SubSeq(r, 2, Len(r))
    <3> HIDE DEF r
    <3> QED BY <1>1, <2>2, SplitIs
  <2> QED BY <2>1, <2>3
<1>4. r[1] = Slash /\ r[Len(r)] # Slash
  <2>1. Len(r) \in 1..Len(c) - Len(l) /\ Len(l) + Len(r) = Len(c) /\ Len(c) > 1
    BY <1>1, <1>2, <1>3
  <2> QED BY <1>1, <2>1
<1> DEFINE x == IF e.id = <<>> THEN <<>> ELSE <<Slash>> \o e.id
<1>5. e.name \in Seq(Character) /\ e.id \in Seq(Character) /\ r = <<Slash>> \o (e.name \o x) /\ ~Contains(e.name, Slash)
  <2> HIDE DEF r
  <2> QED BY <1>1, <1>3, <1>4, SplitJoins
<1>6. <<Slash>> \in Seq(Character)
  BY DEF Character
<1>7. x \in Seq(Character)
  <2> HIDE DEF e
  <2> QED BY <1>5, <1>6, EmptySeq, ConcatProperties
<1> HIDE DEF e, r, x
<1>8. PICK w \in Seq(Character) : w = <<Slash>>
  BY <1>6
<1>9. PICK m \in Seq(Character) : m = e.name
  BY <1>5
<1>10. PICK y \in Seq(Character) : y = x
  BY <1>7
<1>11. l \o (w \o (m \o y)) = l \o w \o m \o y
  <2>1. l \o (w \o (m \o y)) = (l \o w) \o (m \o y)
    <3>1. m \o y \in Seq(Character)
      BY ConcatProperties
    <3>2. PICK z \in Seq(Character) : z = m \o y
      BY <3>1
    <3>3. l \o (w \o z) = (l \o w) \o z
      OBVIOUS
    <3> QED BY <3>2, <3>3
  <2>2. PICK k \in Seq(Character) : k = l \o w
    BY ConcatProperties
  <2>3. k \o (m \o y) = (k \o m) \o y
    OBVIOUS
  <2> QED BY <2>1, <2>2, <2>3
<1>12. c = l \o <<Slash>> \o e.name \o x
  BY <1>1, <1>5, <1>8, <1>9, <1>10, <1>11
<1> QED BY <1>5, <1>12 DEF e, r, x
------------------------------------------------------------------------------
\* Types.

\* A request is only answered once the server serves.
Served == step # "none" => target \in Path(MaxTarget) /\ status \in {"serving", "failed"}

Typed == TypeOK /\ Served

LEMMA TypedInit == Init => Typed
<1> SUFFICES ASSUME Init PROVE Typed
  OBVIOUS
<1>1. config \in Seq(Statement) /\ Len(config) \in Nat
  BY BoundedIsSeq, LengthsOK, LenProperties DEF Init
<1>2. MaxPort \in Nat
  BY DEF MaxPort
<1>3. answer.status = 0 /\ answer.location = <<>> /\ answer.entity.name = <<>> /\ answer.entity.id = <<>>
  BY DEF Init, NoAnswer, NoEntity
<1>4. Len(<<>>) = 0 /\ MaxTarget \in Nat
  BY EmptySeq, LengthsOK
<1>5. TypeOK
  BY <1>1, <1>2, <1>3, <1>4 DEF Init, TypeOK, Method
<1> QED BY <1>5 DEF Typed, Served, Init

\* A clean target is typed.
LEMMA TargetTyped ==
  ASSUME Typed, step # "none"
  PROVE  /\ Clean(target) \in Seq(Character) /\ Len(Clean(target)) \in 1..MaxTarget
         /\ Len(Clean(target)) > 1 => Clean(target)[Len(Clean(target))] # Slash
  BY CleanIsClean, LengthsOK DEF Typed, Served

\* What HandleCrud cuts out of the target.
LEMMA EntityTyped ==
  ASSUME Typed, step # "none", NEW l \in Seq(Character), IsPrefix(l, Clean(target))
  PROVE  LET e == Split(Rest(Clean(target), l)) IN
         Len(e.name) <= MaxTarget /\ Len(e.id) <= MaxTarget
<1> DEFINE r == Rest(Clean(target), l)
           e == Split(r)
<1>1. r \in Seq(Character) /\ Len(r) = Len(Clean(target)) - Len(l)
  BY TargetTyped, RestIs
<1>2. Len(e.name) \in 0..Len(r) /\ Len(e.id) \in 0..Len(r)
  <2> HIDE DEF r
  <2> QED BY <1>1, SplitTyped
<1>3. Len(Clean(target)) \in 1..MaxTarget /\ Len(l) \in Nat
  BY TargetTyped, LenProperties
<1>4.  Len(r) \in Nat /\ MaxTarget \in Nat
  BY <1>1, LenProperties, LengthsOK
<1> HIDE DEF e, r
<1>5. Len(e.name) <= MaxTarget /\ Len(e.id) <= MaxTarget
  BY <1>1, <1>2, <1>3, <1>4
<1> QED BY <1>5 DEF e, r

\* What a step leaves alone stays typed.
LEMMA ReplyTyped ==
  ASSUME Typed, step = "handle", NEW a, Reply(a),
         a.status \in {0, 200, 400, 404}, a.location \in Path(MaxLocation) \cup {<<>>},
         Len(a.entity.name) <= MaxTarget, Len(a.entity.id) <= MaxTarget
  PROVE  Typed'
BY DEF Typed, TypeOK, Served, Reply, startVars

\* An answer that names no entity.
Plain(s, l) == [status |-> s, location |-> l, entity |-> NoEntity]

LEMMA AnswerIs ==
  ASSUME NEW s, NEW l
  PROVE  Answer(s) = Plain(s, <<>>) /\ [Answer(s) EXCEPT !.location = l] = Plain(s, l)
<1>1. Answer(s) = [status |-> s, location |-> <<>>, entity |-> NoEntity]
  BY DEF Answer, NoAnswer
<1> QED BY <1>1 DEF Plain

LEMMA PlainReplyTyped ==
  ASSUME Typed, step = "handle", NEW s \in {0, 200, 400, 404}, NEW l \in Path(MaxLocation) \cup {<<>>},
         Reply(Plain(s, l))
  PROVE  Typed'
<1> DEFINE a == Plain(s, l)
<1>1. a.status = s /\ a.location = l /\ a.entity.name = <<>> /\ a.entity.id = <<>>
  BY DEF Plain, NoEntity
<1>2. Len(<<>>) = 0 /\ MaxTarget \in Nat
  BY EmptySeq, LengthsOK
<1> HIDE DEF a
<1>3. Len(a.entity.name) <= MaxTarget /\ Len(a.entity.id) <= MaxTarget
  BY <1>1, <1>2
<1>4. Reply(a)
  BY DEF a
<1> QED BY <1>1, <1>3, <1>4, ReplyTyped

LEMMA TypedStart ==
  ASSUME Typed, Start
  PROVE  Typed'
<1> DEFINE s == config[next]
<1>1. Len(config) \in Nat /\ next \in 1..Len(config) + 1 /\ config \in Seq(Statement) /\ PathsOK
  BY LenProperties DEF Typed, TypeOK, PathsOK
<1>2. ASSUME next <= Len(config) PROVE s \in Statement /\ next + 1 \in 1..Len(config) + 1
  BY <1>1, <1>2, ElementOfSeq
<1>3. CASE ReadLocation
  <2>1. /\ next <= Len(config) /\ s.kind = "location" /\ next' = next + 1
        /\ used' = used \cup {s.location} /\ config' = config
        /\ paths' = IF Registers(s) THEN [paths EXCEPT ![s.handler] = @ \cup {s.location}] ELSE paths
    BY <1>3 DEF ReadLocation, Reads
  <2>2. s.location \in Path(MaxLocation)
    BY <1>2, <2>1, StatementIs
  <2>3. paths' \in [Handler -> SUBSET Path(MaxLocation)]
    BY <1>1, <2>1, <2>2 DEF PathsOK
  <2>4. config # <<>>
    BY <1>1, <2>1, EmptySeq
  <2>5. \A h \in Handler : paths'[h] \subseteq used'
    BY <1>1, <2>1, <2>4 DEF PathsOK, Typed, TypeOK
  <2> HIDE DEF s
  <2>6. used' \subseteq Path(MaxLocation) /\ next' \in 1..Len(config) + 1
    BY <1>2, <2>1, <2>2 DEF Typed, TypeOK
  <2>7. /\ status' = status /\ port' = port /\ UNCHANGED requestVars
    BY <1>3 DEF ReadLocation, Reads
  <2> QED BY <2>1, <2>3, <2>5, <2>6, <2>7 DEF Typed, TypeOK, Served, requestVars
<1>4. CASE SkipListen
  <2>1. /\ next <= Len(config) /\ next' = next + 1
        /\ UNCHANGED <<used, paths, status, config, port, requestVars>>
    BY <1>4 DEF SkipListen, Reads
  <2>2. next' \in 1..Len(config) + 1
    BY <1>2, <2>1
  <2> QED BY <2>1, <2>2 DEF Typed, TypeOK, Served, requestVars
<1>5. CASE RejectConfig \/ NoBlock
  <2>1. /\ status = "reading" /\ status' \in {"failed", "undefined"}
        /\ UNCHANGED <<next, used, paths, config, port, requestVars>>
    BY <1>5 DEF RejectConfig, NoBlock, Reads
  <2> QED BY <2>1 DEF Typed, TypeOK, Served, requestVars
<1>6. CASE GetPort
  <2>1. Port(config) \in 0..MaxPort
    BY <1>1, PortTyped
  <2> QED BY <1>6, <2>1 DEF GetPort, Typed, TypeOK, Served, requestVars
<1>7. CASE Serve
  <2>1. <<>> \in Seq(Statement) /\ Len(<<>>) = 0 /\ MaxPort \in Nat
    BY EmptySeq DEF MaxPort
  <2>2. next' \in 1..Len(config') + 1 /\ config' \in Seq(Statement) /\ port' \in 0..MaxPort
    BY <1>7, <2>1 DEF Serve
  <2> QED BY <1>7, <2>2 DEF Serve, Typed, TypeOK, Served, requestVars
<1> QED BY <1>3, <1>4, <1>5, <1>6, <1>7 DEF Start, SetServerPaths

LEMMA TypedRequest ==
  ASSUME Typed, Receive \/ GetRequestType \/ Respond
  PROVE  Typed'
<1>1. CASE Receive
  BY <1>1 DEF Receive, Typed, TypeOK, Served, startVars
<1>2. CASE GetRequestType
  <2> DEFINE found == Scan(AllHandlers, Clean(target))
  <2>1. Best(found, Handler, Clean(target)) /\ PathsOK
    BY ScansAreBest DEF PathsOK, Typed, TypeOK
  <2>2. found.type \in Handler \cup {"None"} /\ found.location \in Path(MaxLocation) \cup {<<>>}
    <3> HIDE DEF found
    <3> QED BY <2>1, ScanTyped
  <2>3. type' \in {found.type, "None"} /\ location' = found.location /\ step = "dispatch"
    BY <1>2 DEF GetRequestType
  <2>4. type' \in Handler \cup {"None"} /\ location' \in Path(MaxLocation) \cup {<<>>}
    BY <2>2, <2>3
  <2>5. step' = "handle" /\ UNCHANGED <<startVars, target, method, answer>>
    BY <1>2 DEF GetRequestType
  <2> QED BY <2>3, <2>4, <2>5 DEF Typed, TypeOK, Served, startVars
<1>3. CASE Respond
  <2>1. Len(<<>>) = 0 /\ MaxTarget \in Nat
    BY EmptySeq, LengthsOK
  <2>2. /\ NoAnswer.status = 0 /\ NoAnswer.location = <<>>
        /\ NoAnswer.entity.name = <<>> /\ NoAnswer.entity.id = <<>>
    BY DEF NoAnswer, NoEntity
  <2> QED BY <1>3, <2>1, <2>2 DEF Respond, Typed, TypeOK, Served, startVars, Method
<1> QED BY <1>1, <1>2, <1>3

LEMMA TypedHandle ==
  ASSUME Typed, HandleRequest
  PROVE  Typed'
<1> DEFINE t == Clean(target)
<1>1. step = "handle" /\ PathsOK
  BY DEF HandleRequest, UnknownVerb, NotFound, Always200, HandleStatic, HandleCrud, AppHandle,
         FormMissing, Handles, Typed, TypeOK, PathsOK
<1>2. ASSUME NEW s \in {200, 400, 404}, Reply(Answer(s)) PROVE Typed'
  <2>1. s \in {0, 200, 400, 404} /\ <<>> \in Path(MaxLocation) \cup {<<>>}
    OBVIOUS
  <2>2. Reply(Plain(s, <<>>))
    BY <1>2, AnswerIs
  <2> QED BY <1>1, <2>1, <2>2, PlainReplyTyped
<1>3. CASE UnknownVerb \/ NotFound \/ Always200
  BY <1>2, <1>3 DEF UnknownVerb, NotFound, Always200
<1>4. CASE HandleStatic
  <2> DEFINE found == Scan(StaticHandlers, t)
  <2>1. Best(found, {"Static", "Echo"}, t)
    BY <1>1, ScansAreBest
  <2>2. found.location \in Path(MaxLocation) \cup {<<>>}
    <3>1. {"Static", "Echo"} \subseteq Handler
      BY DEF Handler
    <3> HIDE DEF found, t
    <3> QED BY <1>1, <2>1, <3>1, ScanTyped
  <2>3. \/ \E s \in {400, 404} : Reply(Answer(s))
        \/ \E s \in {200, 404} : Reply(Plain(s, found.location))
    BY <1>4, AnswerIs DEF HandleStatic
  <2> HIDE DEF found
  <2>4. ASSUME NEW s \in {200, 404}, Reply(Plain(s, found.location)) PROVE Typed'
    BY <1>1, <2>2, <2>4, PlainReplyTyped
  <2> QED BY <1>2, <2>3, <2>4
<1>5. CASE HandleCrud
  <2> DEFINE found == Scan(CrudHandlers, t)
             e == Split(Rest(t, found.location))
             entity == IF found.type = "CRUD" THEN e ELSE NoEntity
             a == [status |-> 0, location |-> found.location, entity |-> entity]
  <2>1. Best(found, {"Static", "Echo", "CRUD"}, t)
    BY <1>1, ScansAreBest
  <2>2. found.location \in Path(MaxLocation) \cup {<<>>}
    <3>1. {"Static", "Echo", "CRUD"} \subseteq Handler
      BY DEF Handler
    <3> HIDE DEF found, t
    <3> QED BY <1>1, <2>1, <3>1, ScanTyped
  <2>3. Reply(Answer(400)) \/ Reply(a)
    BY <1>5 DEF HandleCrud
  <2>4. ASSUME Reply(a), found.type = "CRUD" PROVE Typed'
    <3>1. found.location \in Seq(Character) /\ IsPrefix(found.location, t)
      <4> HIDE DEF found, t
      <4>1. found # NoMatch
        BY <2>4 DEF NoMatch
      <4>2. found.location \in paths["CRUD"] /\ IsPrefix(found.location, t)
        BY <2>1, <2>4, <4>1 DEF Best
      <4> QED BY <1>1, <4>2, LocationTyped DEF Handler
    <3>2. Len(e.name) <= MaxTarget /\ Len(e.id) <= MaxTarget
      <4> HIDE DEF found
      <4> QED BY <1>1, <3>1, EntityTyped
    <3>3. a.status = 0 /\ a.location = found.location /\ a.entity = e
      BY <2>4
    <3> HIDE DEF a, e, found
    <3> QED BY <1>1, <2>2, <2>4, <3>2, <3>3, ReplyTyped
  <2>5. ASSUME Reply(a), found.type # "CRUD" PROVE Typed'
    <3>1. a.status = 0 /\ a.location = found.location /\ a.entity.name = <<>> /\ a.entity.id = <<>>
      BY <2>5 DEF NoEntity
    <3>2. Len(<<>>) <= MaxTarget
      BY EmptySeq, LengthsOK
    <3> HIDE DEF a, found
    <3> QED BY <1>1, <2>2, <2>5, <3>1, <3>2, ReplyTyped
  <2> HIDE DEF a, found
  <2> QED BY <1>2, <2>3, <2>4, <2>5
<1>6. CASE AppHandle
  <2>1. \E s \in {200, 400, 404} : Reply(Answer(s))
    BY <1>6 DEF AppHandle, LandingPage
  <2> QED BY <1>2, <2>1
<1>7. CASE FormMissing
  BY <1>7 DEF FormMissing, Typed, TypeOK, Served, requestVars
<1> QED BY <1>3, <1>4, <1>5, <1>6, <1>7 DEF HandleRequest

LEMMA TypedNext ==
  ASSUME Typed, [Next]_vars
  PROVE  Typed'
<1>1. CASE UNCHANGED vars
  BY <1>1 DEF vars, startVars, requestVars, Typed, TypeOK, Served
<1> QED BY <1>1, TypedStart, TypedRequest, TypedHandle DEF Next

\* Every variable holds what it should: in particular no location or entity is
\* longer than what it was found in, and a port has 16 bits.
THEOREM TypeCorrect == Spec => []TypeOK
<1>1. Spec => []Typed
  BY TypedInit, TypedNext, PTL DEF Spec
<1>2. Typed => TypeOK
  BY DEF Typed
<1> QED BY <1>1, <1>2, PTL
------------------------------------------------------------------------------
\* The dispatcher and the handlers agree.

\* Two targets that differ in the number of slashes only are one target to the
\* dispatcher, and no others are, whatever the characters and however long the
\* target: what the loops over the target leave of it (request_dispatcher.cc) is
\* its pieces, each behind one slash.
THEOREM TargetsAreCanonical == Spec => []CleanIsCanonical
<1>1. Typed => CleanIsCanonical
  <2> SUFFICES ASSUME Typed, step = "dispatch"
               PROVE  Clean(target) = IF Pieces(target) = <<>> THEN <<Slash>>
                        ELSE FlattenSeq([k \in DOMAIN Pieces(target) |-> <<Slash>> \o Pieces(target)[k]])
    BY DEF CleanIsCanonical
  <2>1. target \in Path(MaxTarget) /\ MaxTarget \in Nat
    BY LengthsOK DEF Typed, Served
  <2>2. target \in Seq(Character) /\ target # <<>> /\ target[1] = Slash
    BY <2>1, PathTyped
  <2> QED BY <2>2, CleanIsPieces
<1> QED BY <1>1, TypedInit, TypedNext, PTL DEF Spec

\* No location is registered twice, so one is in the list of one handler only.
Disjoint == \A g, h \in Handler : g # h => paths[g] \cap paths[h] = {}

\* What the dispatcher has decided is a longest match, but for the type of a
\* static file that is not there.
Decision(ty) == [type |-> ty, location |-> location]
Decided ==
  step \in {"handle", "done"} =>
    \E ty \in Handler \cup {"None"} :
      /\ Best(Decision(ty), Handler, Clean(target))
      /\ type = ty \/ (ty = "Static" /\ type = "None")

\* The entity of an answer is cut out of the target behind the location.
Cut ==
  step = "done" /\ answer.entity # NoEntity =>
    /\ \E h \in Handler : location \in paths[h]
    /\ IsPrefix(location, Clean(target))
    /\ answer.entity = Split(Rest(Clean(target), location))
    /\ answer.entity.name # <<>>

RoutingInv == Typed /\ Disjoint /\ Decided /\ Cut

\* Of disjoint lists, any that holds the longest match finds it.
LEMMA SameBest ==
  ASSUME PathsOK, Disjoint, NEW t, NEW f, Best(f, Handler, t), f # NoMatch,
         NEW H \in SUBSET Handler, f.type \in H, NEW b, Best(b, H, t)
  PROVE  b = f
<1>1. /\ f = [type |-> f.type, location |-> f.location]
      /\ f.location \in paths[f.type] /\ IsPrefix(f.location, t)
  BY DEF Best
<1>2. f.location \in Seq(Character) /\ Len(f.location) \in 1..MaxLocation
  BY <1>1, LocationTyped
<1>3. Len(f.location) <= Len(b.location)
  BY <1>1 DEF Best
<1>4. b # NoMatch
  BY <1>2, <1>3, EmptySeq, LengthsOK DEF NoMatch
<1>5. /\ b = [type |-> b.type, location |-> b.location] /\ b.type \in H
      /\ b.location \in paths[b.type] /\ IsPrefix(b.location, t)
  BY <1>4 DEF Best
<1>6. b.location \in Seq(Character) /\ Len(b.location) \in 1..MaxLocation
  BY <1>5, LocationTyped
<1>7. Len(b.location) <= Len(f.location)
  BY <1>5 DEF Best
<1>8. b.location = f.location
  <2>1. Len(b.location) = Len(f.location)
    BY <1>2, <1>3, <1>6, <1>7, LengthsOK
  <2> QED BY <1>1, <1>2, <1>5, <1>6, <2>1, PrefixesOfALength
<1>9. b.type = f.type
  BY <1>1, <1>5, <1>8 DEF Disjoint
<1> QED BY <1>1, <1>5, <1>8, <1>9

\* The location is registered for the handler of the decision.
LEMMA DecisionIs ==
  ASSUME RoutingInv, step \in {"handle", "done"}
  PROVE  \/ type = "None" /\ location = <<>> /\ Best(NoMatch, Handler, Clean(target))
         \/ \E ty \in Handler :
              /\ type = ty \/ (ty = "Static" /\ type = "None")
              /\ Best(Decision(ty), Handler, Clean(target)) /\ Decision(ty) # NoMatch
              /\ location \in paths[ty] /\ IsPrefix(location, Clean(target))
<1>1. PICK ty \in Handler \cup {"None"} :
        /\ Best(Decision(ty), Handler, Clean(target))
        /\ type = ty \/ (ty = "Static" /\ type = "None")
  BY DEF RoutingInv, Decided
<1>2. Decision(ty).type = ty /\ Decision(ty).location = location
  BY DEF Decision
<1>3. CASE Decision(ty) = NoMatch
  <2>1. ty = "None" /\ location = <<>>
    BY <1>2, <1>3 DEF NoMatch
  <2> QED BY <1>1, <1>3, <2>1
<1>4. CASE Decision(ty) # NoMatch
  <2>1. ty \in Handler /\ location \in paths[ty] /\ IsPrefix(location, Clean(target))
    BY <1>1, <1>2, <1>4 DEF Best
  <2> QED BY <1>1, <1>4, <2>1
<1> QED BY <1>3, <1>4

LEMMA RoutingInit == Init => RoutingInv
BY TypedInit DEF RoutingInv, Init, Disjoint, Decided, Cut

\* Lists only change, and only lists of new locations, before a request comes.
LEMMA RoutingStart ==
  ASSUME RoutingInv, Start
  PROVE  Disjoint' /\ Decided' /\ Cut'
<1> DEFINE s == config[next]
<1>1. step' = step /\ (paths' = paths \/ ReadLocation) /\ UNCHANGED requestVars
  BY DEF Start, SetServerPaths, ReadLocation, SkipListen, RejectConfig, NoBlock, GetPort, Serve,
         Reads, requestVars
<1>2. CASE ReadLocation
  <2>1. /\ status = "reading" /\ next <= Len(config) /\ s.location \notin used
        /\ paths' = IF Registers(s) THEN [paths EXCEPT ![s.handler] = @ \cup {s.location}] ELSE paths
    BY <1>2 DEF ReadLocation, Reads
  <2>2. step = "none"
    BY <2>1 DEF RoutingInv, Typed, TypeOK, Served
  <2>3. config # <<>>
    BY <2>1, EmptySeq DEF RoutingInv, Typed, TypeOK
  <2>4. \A h \in Handler : s.location \notin paths[h]
    BY <2>1, <2>3 DEF RoutingInv, Typed, TypeOK
  <2>5. paths \in [Handler -> SUBSET Path(MaxLocation)] /\ Disjoint
    BY DEF RoutingInv, Typed, TypeOK
  <2> HIDE DEF s
  <2>6. Disjoint'
    BY <2>1, <2>4, <2>5 DEF Disjoint
  <2> QED BY <1>1, <2>2, <2>6 DEF Decided, Cut, requestVars
<1>3. CASE paths' = paths
  BY <1>1, <1>3 DEF RoutingInv, Disjoint, Decided, Decision, Best, Cut, requestVars
<1> QED BY <1>1, <1>2, <1>3

LEMMA RoutingReply ==
  ASSUME RoutingInv, step = "handle", NEW a, Reply(a),
         a.entity # NoEntity =>
           /\ \E h \in Handler : location \in paths[h]
           /\ IsPrefix(location, Clean(target))
           /\ a.entity = Split(Rest(Clean(target), location)) /\ a.entity.name # <<>>
  PROVE  Disjoint' /\ Decided' /\ Cut'
<1>1. step' = "done" /\ answer' = a /\ UNCHANGED <<paths, target, type, location>>
  BY DEF Reply, startVars
<1>2. Disjoint' /\ Decided'
  BY <1>1 DEF RoutingInv, Disjoint, Decided, Decision, Best
<1>3. Cut'
  BY <1>1 DEF Cut
<1> QED BY <1>2, <1>3

LEMMA RoutingHandle ==
  ASSUME RoutingInv, HandleRequest
  PROVE  Disjoint' /\ Decided' /\ Cut'
<1> DEFINE t == Clean(target)
<1>1. step = "handle" /\ PathsOK
  BY DEF HandleRequest, UnknownVerb, NotFound, Always200, HandleStatic, HandleCrud, AppHandle,
         FormMissing, Handles, RoutingInv, Typed, TypeOK, PathsOK
<1>2. ASSUME NEW a, Reply(a), a.entity = NoEntity PROVE Disjoint' /\ Decided' /\ Cut'
  BY <1>1, <1>2, RoutingReply
<1>3. ASSUME NEW s, NEW l PROVE Answer(s) = Plain(s, <<>>) /\ Plain(s, l).entity = NoEntity
  BY AnswerIs DEF Plain
<1>4. CASE UnknownVerb \/ NotFound \/ Always200 \/ HandleStatic \/ AppHandle
  <2>1. CASE UnknownVerb \/ NotFound \/ Always200 \/ AppHandle
    <3>1. \E s \in {200, 400, 404} : Reply(Answer(s))
      BY <2>1 DEF UnknownVerb, NotFound, Always200, AppHandle, LandingPage
    <3>2. PICK s \in {200, 400, 404} : Reply(Answer(s))
      BY <3>1
    <3> QED BY <1>2, <1>3, <3>2
  <2>2. CASE HandleStatic
    <3>1. PICK l : l = Scan(StaticHandlers, t).location
      OBVIOUS
    <3>2. \/ \E s \in {400, 404} : Reply(Answer(s))
          \/ \E s \in {200, 404} : Reply(Plain(s, l))
      BY <2>2, <3>1, AnswerIs DEF HandleStatic
    <3>3. CASE \E s \in {400, 404} : Reply(Answer(s))
      BY <1>2, <1>3, <3>3
    <3>4. CASE \E s \in {200, 404} : Reply(Plain(s, l))
      BY <1>2, <1>3, <3>4
    <3> QED BY <3>2, <3>3, <3>4
  <2> QED BY <1>4, <2>1, <2>2
<1>5. CASE HandleCrud
  <2> DEFINE found == Scan(CrudHandlers, t)
             e == Split(Rest(t, found.location))
             entity == IF found.type = "CRUD" THEN e ELSE NoEntity
             a == [status |-> 0, location |-> found.location, entity |-> entity]
  <2>1. Best(found, {"Static", "Echo", "CRUD"}, t)
    BY <1>1, ScansAreBest
  <2>2. type = "CRUD" /\ (Reply(Answer(400)) \/ (Reply(a) /\ entity.name # <<>>))
    <3>1. type = "CRUD"
      BY <1>5 DEF HandleCrud, Handles
    <3>2. \/ Reply(Answer(400))
          \/ Reply(a) /\ entity.name # <<>>
      BY <1>5 DEF HandleCrud
    <3> HIDE DEF a, entity
    <3> QED BY <3>1, <3>2
  <2>3. found.type = "CRUD" /\ found.location = location
        /\ location \in paths["CRUD"] /\ IsPrefix(location, t)
    <3>1. PICK ty \in Handler :
            /\ type = ty \/ (ty = "Static" /\ type = "None")
            /\ Best(Decision(ty), Handler, t) /\ Decision(ty) # NoMatch
            /\ location \in paths[ty] /\ IsPrefix(location, t)
      BY <1>1, <2>2, DecisionIs
    <3>2. ty = "CRUD"
      BY <2>2, <3>1
    <3>3. Decision("CRUD").type = "CRUD" /\ Decision("CRUD").location = location
      BY DEF Decision
    <3>4. {"Static", "Echo", "CRUD"} \subseteq Handler /\ Disjoint
      BY DEF Handler, RoutingInv
    <3>5. found = Decision("CRUD")
      <4> HIDE DEF found, t
      <4> QED BY <1>1, <2>1, <3>1, <3>2, <3>3, <3>4, SameBest
    <3> HIDE DEF found
    <3> QED BY <3>1, <3>2, <3>3, <3>5
  <2>4. a.entity = Split(Rest(t, location)) /\ a.entity = entity
    BY <2>3
  <2>5. "CRUD" \in Handler
    BY DEF Handler
  <2> HIDE DEF a, entity, found
  <2> QED BY <1>1, <1>2, <1>3, <2>2, <2>3, <2>4, <2>5, RoutingReply
<1>6. CASE FormMissing
  BY <1>1, <1>6 DEF FormMissing, RoutingInv, Disjoint, Decided, Decision, Best, Cut, requestVars
<1> QED BY <1>4, <1>5, <1>6 DEF HandleRequest

LEMMA RoutingNext ==
  ASSUME RoutingInv, [Next]_vars
  PROVE  RoutingInv'
<1>1. Typed'
  BY TypedNext DEF RoutingInv
<1>2. CASE Receive \/ Respond
  BY <1>1, <1>2 DEF Receive, Respond, RoutingInv, Disjoint, Decided, Cut, startVars
<1>3. CASE GetRequestType
  <2> DEFINE found == Scan(AllHandlers, Clean(target))
  <2>1. PathsOK
    BY DEF RoutingInv, Typed, TypeOK, PathsOK
  <2>2. Best(found, Handler, Clean(target))
    BY <2>1, ScansAreBest
  <2>3. /\ found = [type |-> found.type, location |-> found.location]
        /\ found.type \in Handler \cup {"None"}
    <3> HIDE DEF found
    <3> QED BY <2>1, <2>2, ScanTyped
  <2>4. /\ type' = found.type \/ (found.type = "Static" /\ type' = "None")
        /\ location' = found.location /\ step' = "handle" /\ target' = target /\ paths' = paths
    BY <1>3 DEF GetRequestType, startVars
  <2> HIDE DEF found
  <2>5. Decided'
    <3> SUFFICES \E ty \in Handler \cup {"None"} :
                   /\ Best(Decision(ty), Handler, Clean(target))'
                   /\ type' = ty \/ (ty = "Static" /\ type' = "None")
      BY DEF Decided
    <3>1. PICK ty \in Handler \cup {"None"} : ty = found.type
      BY <2>3
    <3>2. Decision(ty)' = found
      BY <2>3, <2>4, <3>1 DEF Decision
    <3>3. Best(Decision(ty), Handler, Clean(target))'
      BY <2>2, <2>4, <3>2 DEF Best
    <3> QED BY <2>4, <3>1, <3>3
  <2>6. Disjoint' /\ Cut'
    BY <2>4 DEF RoutingInv, Disjoint, Cut
  <2> QED BY <1>1, <2>5, <2>6 DEF RoutingInv
<1>4. CASE UNCHANGED vars
  BY <1>1, <1>4 DEF RoutingInv, Disjoint, Decided, Decision, Best, Cut, vars, startVars, requestVars
<1> QED BY <1>1, <1>2, <1>3, <1>4, RoutingStart, RoutingHandle DEF Next, RoutingInv

LEMMA RoutingInvariant == Spec => []RoutingInv
BY RoutingInit, RoutingNext, PTL DEF Spec

\* Whatever the order of the statements and the handlers' lists, the registered
\* location with the most characters in common decides.
THEOREM LongestDecides == Spec => []LongestMatchDecides
<1>1. RoutingInv => LongestMatchDecides
  <2> SUFFICES ASSUME RoutingInv, step \in {"handle", "done"} PROVE LongestMatchDecides
    BY DEF LongestMatchDecides
  <2> DEFINE t == Clean(target)
             matches == {l \in UNION {paths[h] : h \in Handler} : IsPrefix(l, t)}
  <2>1. CASE type = "None" /\ location = <<>> /\ Best(NoMatch, Handler, t)
    <3>1. PathsOK
      BY DEF RoutingInv, Typed, TypeOK, PathsOK
    <3>2. matches = {}
      <4> SUFFICES ASSUME NEW h \in Handler, NEW l \in paths[h], IsPrefix(l, t) PROVE FALSE
        OBVIOUS
      <4>1. Len(l) <= Len(<<>>)
        BY <2>1 DEF Best, NoMatch
      <4> QED BY <3>1, <4>1, LocationTyped, LengthsOK, EmptySeq
    <3> QED BY <2>1, <3>2 DEF LongestMatchDecides
  <2>2. ASSUME NEW ty \in Handler, type = ty \/ (ty = "Static" /\ type = "None"),
               Best(Decision(ty), Handler, t), location \in paths[ty], IsPrefix(location, t)
        PROVE  LongestMatchDecides
    <3>1. location \in matches
      BY <2>2
    <3>2. \A l \in matches : Len(l) <= Len(location)
      BY <2>2 DEF Best, Decision
    <3>3. "None" \notin Handler
      BY DEF Handler
    <3>4. location \in paths[IF type = "None" THEN "Static" ELSE type]
      BY <2>2, <3>3
    <3> QED BY <3>1, <3>2, <3>4 DEF LongestMatchDecides
  <2> QED BY <2>1, <2>2, DecisionIs
<1> QED BY <1>1, RoutingInvariant, PTL

\* A handler that scans fewer lists than the dispatcher still finds the
\* dispatcher's location: its own list holds it, and no other list does.
THEOREM HandlersFindTheSame == Spec => []HandlersAgree
<1>1. RoutingInv => HandlersAgree
  <2> SUFFICES ASSUME RoutingInv, step \in {"handle", "done"} PROVE HandlersAgree
    BY DEF HandlersAgree
  <2> DEFINE t == Clean(target)
  <2>1. PathsOK /\ Disjoint
    BY DEF RoutingInv, Typed, TypeOK, PathsOK
  <2>2. ASSUME NEW b, NEW H \in SUBSET Handler, Best(b, H, t), type \in H, type # "None"
        PROVE  b = [type |-> type, location |-> location]
    <3>1. PICK ty \in Handler :
            /\ type = ty \/ (ty = "Static" /\ type = "None")
            /\ Best(Decision(ty), Handler, t) /\ Decision(ty) # NoMatch
      BY <2>2, DecisionIs
    <3>2. ty = type /\ Decision(ty).type = type /\ Decision(ty) = [type |-> type, location |-> location]
      BY <2>2, <3>1 DEF Decision
    <3> HIDE DEF t
    <3>3. b = Decision(ty)
      BY <2>1, <2>2, <3>1, <3>2, SameBest
    <3> QED BY <3>2, <3>3
  <2>3. {"Static", "Echo"} \subseteq Handler /\ {"Static", "Echo", "CRUD"} \subseteq Handler
    BY DEF Handler
  <2>4. /\ Best(Scan(StaticHandlers, t), {"Static", "Echo"}, t)
        /\ Best(Scan(CrudHandlers, t), {"Static", "Echo", "CRUD"}, t)
    BY <2>1, ScansAreBest
  <2>5. type = "Static" => Scan(StaticHandlers, t) = [type |-> type, location |-> location]
    BY <2>2, <2>3, <2>4
  <2>6. type = "CRUD" => Scan(CrudHandlers, t) = [type |-> type, location |-> location]
    BY <2>2, <2>3, <2>4
  <2> QED BY <2>5, <2>6 DEF HandlersAgree
<1> QED BY <1>1, RoutingInvariant, PTL

\* If the location ends where a piece of the target does, then location, entity
\* name and id make up the target and the name is one piece of it.
THEOREM EntityIsCutOut == Spec => []EntityIsInTarget
<1>1. RoutingInv => EntityIsInTarget
  <2> SUFFICES ASSUME RoutingInv, step = "done", answer.entity # NoEntity,
                      Rest(Clean(target), location)[1] = Slash
               PROVE  EntityIsInTarget
    BY DEF EntityIsInTarget
  <2> DEFINE c == Clean(target)
             e == Split(Rest(c, location))
  <2>1. /\ \E h \in Handler : location \in paths[h]
        /\ IsPrefix(location, c) /\ answer.entity = e /\ e.name # <<>>
    BY DEF RoutingInv, Cut
  <2>2. PathsOK /\ Typed /\ step # "none"
    BY DEF RoutingInv, Typed, TypeOK, PathsOK
  <2>3. location \in Seq(Character)
    BY <2>1, <2>2, LocationTyped
  <2>4. c \in Seq(Character) /\ (Len(c) > 1 => c[Len(c)] # Slash)
    BY <2>2, TargetTyped
  <2>5. /\ c = location \o <<Slash>> \o e.name \o (IF e.id = <<>> THEN <<>> ELSE <<Slash>> \o e.id)
        /\ ~Contains(e.name, Slash)
    BY <2>1, <2>3, <2>4, EntityMakesUpTarget
  <2> HIDE DEF e
  <2> QED BY <2>1, <2>5 DEF EntityIsInTarget
<1> QED BY <1>1, RoutingInvariant, PTL
------------------------------------------------------------------------------
\* The server starts as it is configured.

Throws(c, i) ==
  \/ c[i].kind = "short"
  \/ /\ c[i].kind = "location"
     /\ \/ c[i].roots = 2
        \/ \E j \in 1..i - 1 : c[j].kind = "location" /\ c[j].location = c[i].location
Blockless(c, i) == c[i].kind = "location" /\ c[i].handler \in Configured /\ ~c[i].block

\* The statements before the n-th can all be read.
ReadableUpto(c, n) == \A i \in 1..n - 1 : ~Throws(c, i) /\ ~Blockless(c, i)

\* used_locations holds the locations of the statements that have been read; a
\* process that ended while it read them ended at the first that it could not.
ConfigInv ==
  /\ Typed
  /\ status = "reading" =>
       /\ ReadableUpto(config, next)
       /\ \A l : l \in used <=> \E j \in 1..next - 1 : config[j].kind = "location" /\ config[j].location = l
  /\ status = "failed" /\ config # <<>> =>
       next <= Len(config) /\ Throws(config, next) /\ ReadableUpto(config, next)
  /\ status = "undefined" =>
       /\ next <= Len(config) /\ Blockless(config, next) /\ ~Throws(config, next)
       /\ ReadableUpto(config, next)
  /\ status = "starting" => ReadableUpto(config, Len(config) + 1) /\ port = Port(config)
  /\ status = "serving" => config = <<>>

LEMMA ConfigInit == Init => ConfigInv
BY TypedInit DEF ConfigInv, ReadableUpto, Init

\* What is read is added to what could be read.
LEMMA ConfigRead ==
  ASSUME ConfigInv, ReadLocation \/ SkipListen
  PROVE  ConfigInv'
<1> DEFINE s == config[next]
<1>1. Typed'
  BY TypedNext DEF ConfigInv, Next, Start, SetServerPaths
<1>2. /\ status = "reading" /\ status' = "reading" /\ next <= Len(config) /\ next' = next + 1
      /\ config' = config
  BY DEF ReadLocation, SkipListen, Reads
<1>3. next \in Nat /\ Len(config) \in Nat /\ next >= 1
  BY LenProperties DEF ConfigInv, Typed, TypeOK
<1>4. ReadableUpto(config, next)
  BY <1>2 DEF ConfigInv
<1>5. \A l : l \in used <=> \E j \in 1..next - 1 : config[j].kind = "location" /\ config[j].location = l
  BY <1>2 DEF ConfigInv
<1>6. 1..(next + 1) - 1 = 1..next - 1 \cup {next}
  BY <1>3
<1>7. ~Throws(config, next) /\ ~Blockless(config, next)
  <2>1. CASE ReadLocation
    <3>1. s.kind = "location" /\ s.location \notin used /\ Readable(s)
      BY <2>1 DEF ReadLocation, Reads
    <3>2. s.roots # 2 /\ (s.handler \in Configured => s.block)
      BY <3>1 DEF Readable
    <3> QED BY <1>5, <3>1, <3>2 DEF Throws, Blockless
  <2>2. CASE SkipListen
    BY <2>2 DEF SkipListen, Reads, Throws, Blockless
  <2> QED BY <2>1, <2>2
<1>8. ReadableUpto(config, next + 1)
  BY <1>4, <1>6, <1>7 DEF ReadableUpto
<1>9. ASSUME NEW l
      PROVE  l \in used' <=> \E j \in 1..(next + 1) - 1 : config[j].kind = "location" /\ config[j].location = l
  <2>1. CASE ReadLocation
    <3>1. s.kind = "location" /\ used' = used \cup {s.location}
      BY <2>1 DEF ReadLocation, Reads
    <3> QED BY <1>5, <1>6, <3>1
  <2>2. CASE SkipListen
    <3>1. s.kind = "listen" /\ used' = used
      BY <2>2 DEF SkipListen, Reads
    <3> QED BY <1>5, <1>6, <3>1
  <2> QED BY <2>1, <2>2
<1> HIDE DEF s
<1> QED BY <1>1, <1>2, <1>8, <1>9 DEF ConfigInv

LEMMA ConfigStart ==
  ASSUME ConfigInv, RejectConfig \/ NoBlock \/ GetPort \/ Serve
  PROVE  ConfigInv'
<1> DEFINE s == config[next]
<1>1. Typed'
  BY TypedNext DEF ConfigInv, Next, Start, SetServerPaths
<1>2. next \in 1..Len(config) + 1 /\ Len(config) \in Nat /\ config \in Seq(Statement)
  BY LenProperties DEF ConfigInv, Typed, TypeOK
<1>3. status = "reading" =>
        /\ ReadableUpto(config, next)
        /\ \A l : l \in used <=> \E j \in 1..next - 1 : config[j].kind = "location" /\ config[j].location = l
  BY DEF ConfigInv
<1>4. CASE RejectConfig
  <2>1. /\ status = "reading" /\ status' = "failed" /\ next <= Len(config)
        /\ UNCHANGED <<next, used, config>>
        /\ s.kind = "short" \/ (s.kind = "location" /\ (s.location \in used \/ s.roots = 2))
    BY <1>4 DEF RejectConfig, Reads
  <2>2. Throws(config, next)
    BY <1>3, <2>1 DEF Throws
  <2> HIDE DEF s
  <2> QED BY <1>1, <1>3, <2>1, <2>2 DEF ConfigInv
<1>5. CASE NoBlock
  <2>1. /\ status = "reading" /\ status' = "undefined" /\ next <= Len(config)
        /\ UNCHANGED <<next, used, config>>
        /\ s.kind = "location" /\ s.location \notin used /\ s.handler \in Configured /\ ~s.block
    BY <1>5 DEF NoBlock, Reads
  <2>2. s \in Statement
    BY <1>2, <2>1, ElementOfSeq
  <2>3. s.roots = 0
    BY <2>1, <2>2, StatementIs
  <2>4. Blockless(config, next) /\ ~Throws(config, next)
    BY <1>3, <2>1, <2>3 DEF Throws, Blockless
  <2> HIDE DEF s
  <2> QED BY <1>1, <1>3, <2>1, <2>4 DEF ConfigInv
<1>6. CASE GetPort
  <2>1. /\ status = "reading" /\ status' = "starting" /\ next > Len(config)
        /\ port' = Port(config) /\ config' = config
    BY <1>6 DEF GetPort
  <2>2. next = Len(config) + 1
    BY <1>2, <2>1
  <2> QED BY <1>1, <1>3, <2>1, <2>2 DEF ConfigInv
<1>7. CASE Serve
  BY <1>1, <1>7 DEF Serve, ConfigInv
<1> QED BY <1>4, <1>5, <1>6, <1>7

LEMMA ConfigNext ==
  ASSUME ConfigInv, [Next]_vars
  PROVE  ConfigInv'
<1>1. Typed'
  BY TypedNext DEF ConfigInv
<1>2. CASE Receive \/ GetRequestType \/ Respond \/ (HandleRequest /\ ~FormMissing) \/ UNCHANGED vars
  <2>1. UNCHANGED startVars
    BY <1>2 DEF Receive, GetRequestType, Respond, HandleRequest, UnknownVerb, NotFound, Always200,
                HandleStatic, HandleCrud, AppHandle, LandingPage, Reply, vars
  <2> QED BY <1>1, <2>1 DEF startVars, ConfigInv
<1>3. CASE FormMissing
  BY <1>1, <1>3 DEF FormMissing, Handles, ConfigInv
<1> QED BY <1>2, <1>3, ConfigRead, ConfigStart DEF Next, Start, SetServerPaths

LEMMA ConfigInvariant == Spec => []ConfigInv
BY ConfigInit, ConfigNext, PTL DEF Spec

\* The first statement that cannot be read is the first for which a reason is
\* found.
LEMMA FirstIs ==
  ASSUME NEW c \in Seq(Statement), NEW n \in 1..Len(c) + 1, ReadableUpto(c, n),
         n <= Len(c) => Throws(c, n) \/ Blockless(c, n)
  PROVE  Min({i \in DOMAIN c : Throws(c, i) \/ Blockless(c, i)} \cup {Len(c) + 1}) = n
<1> DEFINE S == {i \in DOMAIN c : Throws(c, i) \/ Blockless(c, i)} \cup {Len(c) + 1}
<1>1. Len(c) \in Nat /\ DOMAIN c = 1..Len(c)
  BY LenProperties
<1>2. S \in SUBSET Nat
  BY <1>1
<1>3. n \in S
  BY <1>1
<1>4. ASSUME NEW i \in S PROVE n <= i
  <2> SUFFICES ASSUME ~(n <= i) PROVE FALSE
    OBVIOUS
  <2>1. i \in 1..n - 1 /\ i # Len(c) + 1
    BY <1>1
  <2>2. ~Throws(c, i) /\ ~Blockless(c, i)
    BY <2>1 DEF ReadableUpto
  <2> QED BY <2>1, <2>2
<1>5. Min(S) = n
  <2> HIDE DEF S
  <2> QED BY <1>2, <1>3, <1>4, MinIs
<1> QED BY <1>5

\* The port is the last listen statement's.
LEMMA PortIs ==
  ASSUME NEW c \in Seq(Statement)
  PROVE  LET listens == {i \in DOMAIN c : c[i].kind = "listen"}
             bound == c[Max(listens)]
         IN Port(c) = IF listens # {} /\ bound.number /\ bound.value \in 0..MaxPort THEN bound.value ELSE 80
<1> DEFINE listens == {i \in DOMAIN c : c[i].kind = "listen"}
           bound == c[Max(listens)]
<1>1. Len(c) \in Nat /\ DOMAIN c = 1..Len(c) /\ \A i \in 1..Len(c) : c[i] \in Statement
  BY LenProperties, ElementOfSeq
<1>2. CASE listens = {}
  BY <1>1, <1>2, PortOfLastListen DEF DefaultPort
<1>3. CASE listens # {}
  <2>1. PICK i \in 1..Len(c) : c[i].kind = "listen" /\ \A j \in 1..Len(c) : c[j].kind = "listen" => j <= i
    BY <1>1, <1>3, HasLastListen
  <2>2. Max(listens) = i
    <3>1. listens \in SUBSET Nat /\ i \in listens /\ \A j \in listens : j <= i
      BY <1>1, <2>1
    <3> HIDE DEF listens
    <3> QED BY <3>1, MaxIs
  <2>3. Port(c) = Bound(c[i]) /\ bound = c[i]
    BY <2>1, <2>2, PortOfLastListen
  <2>4. c[i].value \in Int /\ MaxPort \in Int
    BY <1>1, <2>1, StatementIs DEF MaxPort
  <2>5. InRange(c[i].value) <=> c[i].value \in 0..MaxPort
    BY <2>4 DEF InRange
  <2>6. Port(c) = IF bound.number /\ bound.value \in 0..MaxPort THEN bound.value ELSE 80
    <3> HIDE DEF listens, bound
    <3> QED BY <2>3, <2>5 DEF Bound, DefaultPort
  <2> QED BY <1>3, <2>6
<1> QED BY <1>2, <1>3

\* The process starts only if every statement can be read, and ends as the
\* first that cannot be read has it; it listens where the last listen statement
\* says.
THEOREM ConfigurationDecides == Spec => []StartsAsConfigured
<1>1. ConfigInv => StartsAsConfigured
  <2> SUFFICES ASSUME ConfigInv PROVE StartsAsConfigured
    OBVIOUS
  <2> DEFINE throws(i) == \/ config[i].kind = "short"
                          \/ /\ config[i].kind = "location"
                             /\ \/ config[i].roots = 2
                                \/ \E j \in 1..i - 1 : /\ config[j].kind = "location"
                                                      /\ config[j].location = config[i].location
             blockless(i) == /\ config[i].kind = "location"
                             /\ config[i].handler \in Configured /\ ~config[i].block
             first == Min({i \in DOMAIN config : throws(i) \/ blockless(i)} \cup {Len(config) + 1})
             listens == {i \in DOMAIN config : config[i].kind = "listen"}
             bound == config[Max(listens)]
             listened == IF listens # {} /\ bound.number /\ bound.value \in 0..MaxPort THEN bound.value ELSE 80
  <2>1. next \in 1..Len(config) + 1 /\ Len(config) \in Nat /\ config \in Seq(Statement)
    BY LenProperties DEF ConfigInv, Typed, TypeOK
  <2>2. \A i : (throws(i) <=> Throws(config, i)) /\ (blockless(i) <=> Blockless(config, i))
    BY DEF Throws, Blockless
  <2>3. first = Min({i \in DOMAIN config : Throws(config, i) \/ Blockless(config, i)} \cup {Len(config) + 1})
    <3> HIDE DEF throws, blockless
    <3> QED BY <2>2
  <2>4. Port(config) = listened
    BY <2>1, PortIs
  <2>5. status = "failed" /\ config # <<>> => throws(first)
    <3> SUFFICES ASSUME status = "failed", config # <<>> PROVE throws(first)
      OBVIOUS
    <3>1. next <= Len(config) /\ Throws(config, next) /\ ReadableUpto(config, next)
      BY DEF ConfigInv
    <3>2. first = next
      <4> HIDE DEF first
      <4> QED BY <2>1, <2>3, <3>1, FirstIs
    <3> HIDE DEF first, throws
    <3> QED BY <2>2, <3>1, <3>2
  <2>6. status = "undefined" => blockless(first) /\ ~throws(first)
    <3> SUFFICES ASSUME status = "undefined" PROVE blockless(first) /\ ~throws(first)
      OBVIOUS
    <3>1. /\ next <= Len(config) /\ Blockless(config, next) /\ ~Throws(config, next)
          /\ ReadableUpto(config, next)
      BY DEF ConfigInv
    <3>2. first = next
      <4> HIDE DEF first
      <4> QED BY <2>1, <2>3, <3>1, FirstIs
    <3> HIDE DEF first, throws, blockless
    <3> QED BY <2>2, <3>1, <3>2
  <2>7. status = "starting" => first = Len(config) + 1 /\ port = listened
    <3> SUFFICES ASSUME status = "starting" PROVE first = Len(config) + 1 /\ port = listened
      OBVIOUS
    <3>1. ReadableUpto(config, Len(config) + 1) /\ port = Port(config)
      BY DEF ConfigInv
    <3>2. Len(config) + 1 \in 1..Len(config) + 1 /\ ~(Len(config) + 1 <= Len(config))
      BY <2>1
    <3>3. first = Len(config) + 1
      <4> HIDE DEF first
      <4> QED BY <2>1, <2>3, <3>1, <3>2, FirstIs
    <3> HIDE DEF first, listened
    <3> QED BY <2>4, <3>1, <3>3
  <2> HIDE DEF throws, blockless, first, listened
  <2>8. /\ status = "failed" /\ config # <<>> => throws(first)
        /\ status = "undefined" => blockless(first) /\ ~throws(first)
        /\ status = "starting" => first = Len(config) + 1 /\ port = listened
    BY <2>5, <2>6, <2>7
  <2> QED BY <2>8 DEF StartsAsConfigured, throws, blockless, first, listened
<1> QED BY <1>1, ConfigInvariant, PTL
==============================================================================
