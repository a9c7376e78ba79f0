------------------------------ MODULE TreeTheorems ------------------------------
(***************************************************************************)
(* What the operators of FileTree do, for every tree: minima, paths, and the    *)
(* sums of the bytes of records.                                            *)
(***************************************************************************)
EXTENDS FileTree, FoldTheorems, SequenceTheorems

-----------------------------------------------------------------------------
(* Numbers and paths. *)

LEMMA MinIn ==
    ASSUME NEW S \in SUBSET Nat, S # {}
    PROVE  Min(S) \in S /\ \A y \in S : Min(S) <= y
<1> DEFINE R == OpToRel(<, Nat)
<1>1. \E x \in S : \A y \in S : <<y, x>> \notin R
  BY NatLessThanWellFounded, WFMin
<1>2. \A x, y \in Nat : <<y, x>> \in R <=> y < x
  BY DEF OpToRel
<1> HIDE DEF R
<1> PICK x \in S : \A y \in S : <<y, x>> \notin R
  BY <1>1
<1>3. ASSUME NEW y \in S PROVE x <= y
  <2>1. x \in Nat /\ y \in Nat /\ <<y, x>> \notin R
    OBVIOUS
  <2> QED
    BY <1>2, <2>1
<1> QED
  BY <1>3 DEF Min

LEMMA MaxIn ==
    ASSUME NEW n \in Nat, NEW S \in SUBSET (1..n), S # {}
    PROVE  Max(S) \in S /\ \A y \in S : y <= Max(S)
<1> DEFINE T == {n - x : x \in S}
<1>1. T \in SUBSET Nat /\ T # {}
  OBVIOUS
<1>2. \E m \in T : \A y \in T : m <= y
  <2> DEFINE R == OpToRel(<, Nat)
  <2> HIDE DEF T
  <2>1. \E x \in T : \A y \in T : <<y, x>> \notin R
    BY <1>1, NatLessThanWellFounded, WFMin
  <2>2. \A x, y \in Nat : <<y, x>> \in R <=> y < x
    BY DEF OpToRel
  <2> HIDE DEF R
  <2> PICK x \in T : \A y \in T : <<y, x>> \notin R
    BY <2>1
  <2>3. ASSUME NEW y \in T PROVE x <= y
    <3>1. x \in Nat /\ y \in Nat /\ <<y, x>> \notin R
      BY <1>1
    <3> QED
      BY <2>2, <3>1
  <2> QED
    BY <2>3
<1> PICK m \in S : \A y \in S : n - m <= n - y
  BY <1>2
<1>3. \A y \in S : y <= m
  OBVIOUS
<1>4. Max(S) \in S /\ \A y \in S : Max(S) >= y
  BY <1>3 DEF Max
<1> QED
  BY <1>4

LEMMA PathsAreSeqs == Paths = {p \in Seq(Names) : Len(p) <= MaxDepth}
<1>1. ASSUME NEW p \in Paths PROVE p \in Seq(Names) /\ Len(p) <= MaxDepth
  BY TreeAssumption DEF Paths
<1>2. ASSUME NEW p \in Seq(Names), Len(p) <= MaxDepth PROVE p \in Paths
  <2>1. Len(p) \in 0..MaxDepth /\ p \in [1..Len(p) -> Names]
    BY <1>2, LenProperties, TreeAssumption
  <2> QED
    BY <2>1 DEF Paths
<1> QED
  BY <1>1, <1>2

LEMMA PathLength ==
    ASSUME NEW p \in Paths
    PROVE  /\ p \in Seq(Names) /\ Len(p) \in Nat /\ Len(p) <= MaxDepth
           /\ DOMAIN p = 1..Len(p)
           /\ p # Root => Len(p) > 0
           /\ \A i \in 1..Len(p) : p[i] \in Names
<1>1. p \in Seq(Names) /\ Len(p) <= MaxDepth
  BY PathsAreSeqs
<1> QED
  BY <1>1, LenProperties, EmptySeq, ElementOfSeq DEF Root

LEMMA RootIsAPath == Root \in Paths
<1>1. Root \in Seq(Names) /\ Len(Root) = 0
  BY DEF Root
<1> QED
  BY <1>1, PathsAreSeqs, TreeAssumption

LEMMA PathParts ==
    ASSUME NEW p \in Paths, p # Root
    PROVE  /\ Front(p) \in Paths /\ Len(Front(p)) = Len(p) - 1
           /\ \A i \in 1..(Len(p) - 1) : Front(p)[i] = p[i]
           /\ Last(p) \in Names /\ Last(p) = p[Len(p)]
<1>1. p \in Seq(Names) /\ Len(p) \in Nat /\ Len(p) > 0 /\ Len(p) <= MaxDepth
  BY PathLength
<1>2. /\ Front(p) \in Seq(Names)
      /\ Len(Front(p)) = Len(p) - 1
      /\ \A i \in 1..(Len(p) - 1) : Front(p)[i] = p[i]
  <2>1. \A i \in 1..(Len(p) - 1) : p[i] \in Names
    BY <1>1, PathLength
  <2> DEFINE n == Len(p) - 1
  <2>2. n \in Nat /\ Front(p) = SubSeq(p, 1, n)
    BY <1>1 DEF Front
  <2> HIDE DEF n
  <2>3. /\ SubSeq(p, 1, n) \in Seq(Names)
        /\ Len(SubSeq(p, 1, n)) = IF 1 <= n THEN n - 1 + 1 ELSE 0
        /\ \A i \in 1..(n - 1 + 1) : SubSeq(p, 1, n)[i] = p[1 + i - 1]
    BY <2>1, <2>2, SubSeqProperties DEF n
  <2>4. Len(SubSeq(p, 1, n)) = n /\ \A i \in 1..n : SubSeq(p, 1, n)[i] = p[i]
    BY <2>2, <2>3
  <2> QED
    BY <2>2, <2>3, <2>4 DEF n
<1>3. Last(p) \in Names /\ Last(p) = p[Len(p)]
  BY <1>1 DEF Last
<1> QED
  BY <1>1, <1>2, <1>3, PathsAreSeqs, TreeAssumption

LEMMA PathAppended ==
    ASSUME NEW p \in Paths, NEW n \in Names, Len(p) < MaxDepth
    PROVE  /\ Append(p, n) \in Paths /\ Append(p, n) # Root
           /\ Len(Append(p, n)) = Len(p) + 1
           /\ Front(Append(p, n)) = p /\ Last(Append(p, n)) = n
<1>1. p \in Seq(Names) /\ Len(p) \in Nat
  BY PathLength
<1>2. /\ Append(p, n) \in Seq(Names) /\ Len(Append(p, n)) = Len(p) + 1
      /\ Append(p, n) # Root
  BY <1>1 DEF Root
<1>3. Front(Append(p, n)) = p
  BY <1>1, <1>2 DEF Front
<1>4. Last(Append(p, n)) = n
  BY <1>1, <1>2 DEF Last
<1> QED
  BY <1>1, <1>2, <1>3, <1>4, PathsAreSeqs, TreeAssumption

(* A directory keeps its depth when it is renamed, and so does what is in it.  *)
LEMMA PathRegrafted ==
    ASSUME NEW p \in Paths, NEW q \in Paths, Len(p) = Len(q),
           NEW s \in Paths, IsPrefix(p, s)
    PROVE  Regrafted(s, p, q) \in Paths /\ Len(Regrafted(s, p, q)) = Len(s)
<1>1. /\ p \in Seq(Names) /\ q \in Seq(Names) /\ s \in Seq(Names)
      /\ Len(p) \in Nat /\ Len(s) \in Nat /\ Len(s) <= MaxDepth
      /\ Len(p) <= Len(s)
  BY PathLength DEF IsPrefix
<1>2. /\ SubSeq(s, Len(p) + 1, Len(s)) \in Seq(Names)
      /\ Len(SubSeq(s, Len(p) + 1, Len(s))) = Len(s) - Len(p)
  <2>1. \A i \in (Len(p) + 1)..Len(s) : s[i] \in Names
    BY <1>1, PathLength
  <2> QED
    BY <1>1, <2>1, SubSeqProperties
<1>3. /\ Regrafted(s, p, q) \in Seq(Names)
      /\ Len(Regrafted(s, p, q)) = Len(s)
  BY <1>1, <1>2, ConcatProperties DEF Regrafted
<1> QED
  BY <1>1, <1>3, PathsAreSeqs

-----------------------------------------------------------------------------
(* The first names of a path. *)
Pre(p, l) == SubSeq(p, 1, l)

LEMMA PrePath ==
    ASSUME NEW p \in Paths, NEW l \in 0..Len(p)
    PROVE  /\ Pre(p, l) \in Paths /\ Len(Pre(p, l)) = l
           /\ \A i \in 1..l : Pre(p, l)[i] = p[i]
<1>1. /\ Len(p) \in Nat /\ Len(p) <= MaxDepth /\ l \in Nat
      /\ \A i \in 1..l : p[i] \in Names
  BY PathLength
<1>2. /\ Pre(p, l) \in Seq(Names)
      /\ Len(Pre(p, l)) = IF 1 <= l THEN l - 1 + 1 ELSE 0
      /\ \A i \in 1..(l - 1 + 1) : Pre(p, l)[i] = p[1 + i - 1]
  BY <1>1, SubSeqProperties DEF Pre
<1>3. Len(Pre(p, l)) = l /\ \A i \in 1..l : Pre(p, l)[i] = p[i]
  BY <1>1, <1>2
<1>4. Pre(p, l) \in Paths
  BY <1>1, <1>2, <1>3, PathsAreSeqs, TreeAssumption
<1> QED
  BY <1>3, <1>4

LEMMA PathsEqual ==
    ASSUME NEW p \in Paths, NEW q \in Paths, Len(p) = Len(q),
           \A i \in 1..Len(p) : p[i] = q[i]
    PROVE  p = q
BY PathLength, SeqEqual

LEMMA PreSteps ==
    ASSUME NEW p \in Paths
    PROVE  /\ Pre(p, 0) = Root /\ Pre(p, Len(p)) = p
           /\ p # Root => Pre(p, Len(p) - 1) = Front(p)
           /\ \A l \in 1..Len(p) :
                 /\ Pre(p, l) # Root
                 /\ Front(Pre(p, l)) = Pre(p, l - 1)
                 /\ Last(Pre(p, l)) = p[l]
<1>0. Len(p) \in Nat /\ Len(Root) = 0
  BY PathLength DEF Root
<1>1. Pre(p, 0) = Root
  BY <1>0, PrePath, RootIsAPath, PathsEqual
<1>2. Pre(p, Len(p)) = p
  BY <1>0, PrePath, PathsEqual
<1>3. p # Root => Pre(p, Len(p) - 1) = Front(p)
  BY DEF Pre, Front
<1>4. ASSUME NEW l \in 1..Len(p)
      PROVE  /\ Pre(p, l) # Root
             /\ Front(Pre(p, l)) = Pre(p, l - 1)
             /\ Last(Pre(p, l)) = p[l]
  <2>1. /\ Pre(p, l) \in Paths /\ Len(Pre(p, l)) = l
        /\ \A i \in 1..l : Pre(p, l)[i] = p[i]
    BY <1>0, PrePath
  <2>2. /\ Pre(p, l - 1) \in Paths /\ Len(Pre(p, l - 1)) = l - 1
        /\ \A i \in 1..(l - 1) : Pre(p, l - 1)[i] = p[i]
    <3>1. l - 1 \in 0..Len(p)
      BY <1>0
    <3> QED
      BY <3>1, PrePath
  <2>3. Pre(p, l) # Root
    BY <1>0, <2>1
  <2>4. /\ Front(Pre(p, l)) \in Paths /\ Len(Front(Pre(p, l))) = l - 1
        /\ \A i \in 1..(l - 1) : Front(Pre(p, l))[i] = Pre(p, l)[i]
        /\ Last(Pre(p, l)) = Pre(p, l)[l]
    BY <2>1, <2>3, PathParts
  <2>5. \A i \in 1..(l - 1) : Front(Pre(p, l))[i] = Pre(p, l - 1)[i]
    BY <1>0, <2>1, <2>2, <2>4
  <2>6. Front(Pre(p, l)) = Pre(p, l - 1)
    BY <2>2, <2>4, <2>5, PathsEqual
  <2> QED
    BY <1>0, <2>1, <2>3, <2>4, <2>6
<1> QED
  BY <1>1, <1>2, <1>3, <1>4

-----------------------------------------------------------------------------
(* The sums of the bytes of records. *)
BodyOf(t) == [r \in Ids |-> Size(t.row[r].body)]

LEMMA BodiesAreNat ==
    ASSUME NEW b \in Bodies \cup {0}
    PROVE  b \in Nat
<1>1. CASE b \in Bodies
  BY <1>1, TreeAssumption
<1>2. CASE b = 0
  BY <1>2
<1> QED
  BY <1>1, <1>2

LEMMA RowsAreSummed ==
    ASSUME NEW t, t.row \in [Ids -> Row], NEW S \in SUBSET Ids
    PROVE  /\ IsFiniteSet(S) /\ IntOn(BodyOf(t), S)
           /\ BytesOf(t, S) = SumFunctionOnSet(BodyOf(t), S)
           /\ BytesOf(t, S) \in Int
           /\ \A r \in Ids : BodyOf(t)[r] = t.row[r].body /\ t.row[r].body \in Nat
<1>1. ASSUME NEW r \in Ids
      PROVE  BodyOf(t)[r] = t.row[r].body /\ t.row[r].body \in Nat
  <2>1. t.row[r] \in Row
    OBVIOUS
  <2>2. t.row[r].body \in Bodies \cup {0}
    BY <2>1 DEF Row
  <2>3. t.row[r].body \in Nat
    BY <2>2, BodiesAreNat
  <2>4. BodyOf(t)[r] = t.row[r].body
    BY DEF BodyOf, Size
  <2> QED
    BY <2>3, <2>4
<1>2. IsFiniteSet(S) /\ IntOn(BodyOf(t), S)
  <2>1. IsFiniteSet(S)
    BY TreeAssumption, FS_Subset
  <2>2. \A r \in S : BodyOf(t)[r] \in Int
    BY <1>1
  <2> QED
    BY <2>1, <2>2 DEF IntOn
<1>3. BytesOf(t, S) = SumFunctionOnSet(BodyOf(t), S)
  BY DEF BytesOf, BodyOf
<1> QED
  BY <1>1, <1>2, <1>3, SumType

(* Records with the same contents have the same sum. *)
LEMMA BytesSame ==
    ASSUME NEW t, t.row \in [Ids -> Row], NEW n, n.row \in [Ids -> Row],
           NEW S \in SUBSET Ids, \A r \in S : n.row[r].body = t.row[r].body
    PROVE  BytesOf(n, S) = BytesOf(t, S)
<1>1. \A r \in S : BodyOf(n)[r] = BodyOf(t)[r]
  BY RowsAreSummed
<1> QED
  BY <1>1, RowsAreSummed, SumSame

LEMMA BytesWithout ==
    ASSUME NEW t, t.row \in [Ids -> Row], NEW S \in SUBSET Ids, NEW r \in S
    PROVE  BytesOf(t, S) = t.row[r].body + BytesOf(t, S \ {r})
<1>1. SumFunctionOnSet(BodyOf(t), S) = BodyOf(t)[r] + SumFunctionOnSet(BodyOf(t), S \ {r})
  BY RowsAreSummed, SumRemove
<1>2. S \ {r} \in SUBSET Ids /\ r \in Ids
  OBVIOUS
<1> QED
  BY <1>1, <1>2, RowsAreSummed

(* What a record counts for. *)
Counts(t, r) == IF Live(t.row[r]) THEN t.row[r].body ELSE 0

LEMMA LiveBytesSame ==
    ASSUME NEW t, t.row \in [Ids -> Row], NEW n, n.row \in [Ids -> Row],
           \A r \in Ids : n.row[r].status = t.row[r].status /\ n.row[r].body = t.row[r].body
    PROVE  BytesOf(n, LiveRows(n)) = BytesOf(t, LiveRows(t))
<1>1. LiveRows(n) = LiveRows(t) /\ LiveRows(t) \in SUBSET Ids
  BY DEF LiveRows, Live
<1> QED
  BY <1>1, BytesSame

(* One record changes: the sum changes by what it counts for. *)
THEOREM LiveBytesChange ==
    ASSUME NEW t, t.row \in [Ids -> Row], NEW n, n.row \in [Ids -> Row], NEW r \in Ids,
           \A x \in Ids \ {r} :
              n.row[x].status = t.row[x].status /\ n.row[x].body = t.row[x].body
    PROVE  /\ BytesOf(n, LiveRows(n)) = BytesOf(t, LiveRows(t)) - Counts(t, r) + Counts(n, r)
           /\ Counts(t, r) \in Nat /\ Counts(n, r) \in Nat
<1> DEFINE Rest == LiveRows(t) \ {r}
<1>1. /\ Rest \in SUBSET Ids /\ LiveRows(n) \ {r} = Rest
      /\ LiveRows(t) \in SUBSET Ids /\ LiveRows(n) \in SUBSET Ids
      /\ \A x \in Rest : n.row[x].body = t.row[x].body
  BY DEF LiveRows, Live
<1>2. BytesOf(n, Rest) = BytesOf(t, Rest) /\ BytesOf(t, Rest) \in Int
  BY <1>1, BytesSame, RowsAreSummed
<1>3. t.row[r].body \in Nat /\ n.row[r].body \in Nat
  <2>1. {r} \in SUBSET Ids
    OBVIOUS
  <2> QED
    BY <2>1, RowsAreSummed
<1>4. BytesOf(t, LiveRows(t)) = Counts(t, r) + BytesOf(t, Rest)
  <2>1. CASE r \in LiveRows(t)
    <3>1. BytesOf(t, LiveRows(t)) = t.row[r].body + BytesOf(t, LiveRows(t) \ {r})
      BY <1>1, <2>1, BytesWithout
    <3>2. Counts(t, r) = t.row[r].body
      BY <2>1 DEF Counts, LiveRows
    <3> QED
      BY <1>1, <3>1, <3>2
  <2>2. CASE r \notin LiveRows(t)
    <3>1. Rest = LiveRows(t) /\ Counts(t, r) = 0
      BY <2>2 DEF Counts, LiveRows
    <3> HIDE DEF Rest
    <3> QED
      BY <1>2, <3>1
  <2> QED
    BY <2>1, <2>2
<1>5. BytesOf(n, LiveRows(n)) = Counts(n, r) + BytesOf(n, Rest)
  <2>1. CASE r \in LiveRows(n)
    <3>1. BytesOf(n, LiveRows(n)) = n.row[r].body + BytesOf(n, LiveRows(n) \ {r})
      BY <1>1, <2>1, BytesWithout
    <3>2. Counts(n, r) = n.row[r].body
      BY <2>1 DEF Counts, LiveRows
    <3> QED
      BY <1>1, <3>1, <3>2
  <2>2. CASE r \notin LiveRows(n)
    <3>1. Rest = LiveRows(n) /\ Counts(n, r) = 0
      BY <1>1, <2>2 DEF Counts, LiveRows
    <3> HIDE DEF Rest
    <3> QED
      BY <1>2, <3>1
  <2> QED
    BY <2>1, <2>2
<1>6. Counts(t, r) \in Nat /\ Counts(n, r) \in Nat
  BY <1>3 DEF Counts
<1> QED
  BY <1>2, <1>4, <1>5, <1>6

LEMMA FoundIsLive ==
    ASSUME NEW t, NEW p, NEW r \in Found(t, p)
    PROVE  r \in Ids /\ Live(t.row[r])
BY DEF Found, Namesakes, At, LiveRows, Live

-----------------------------------------------------------------------------
(* Folds over the positions of a sequence, and the order in which sets are      *)
(* listed.                                                                  *)

(* Induction from 0 to n, as a fact about a set. *)
LEMMA Climb ==
    ASSUME NEW n \in Nat, NEW Good, 0 \in Good,
           \A i \in 1..n : i - 1 \in Good => i \in Good
    PROVE  \A i \in 0..n : i \in Good
<1> DEFINE Off == (0..n) \ Good
<1>1. SUFFICES ASSUME Off # {} PROVE FALSE
  OBVIOUS
<1>2. Off \in SUBSET Nat
  OBVIOUS
<1> HIDE DEF Off
<1>3. PICK m \in Off : \A y \in Off : m <= y
  BY <1>1, <1>2, MinIn
<1> USE DEF Off
<1>4. m \in 1..n /\ m - 1 \in 0..n /\ m - 1 \notin Off
  <2>1. m # 0 /\ m \in 0..n
    OBVIOUS
  <2>2. m \in 1..n /\ m - 1 \in 0..n
    BY <2>1
  <2> HIDE DEF Off
  <2> QED
    BY <1>3, <2>2
<1> QED
  BY <1>4

LEMMA UpTo ==
    ASSUME NEW n \in Nat, NEW i \in 1..n
    PROVE  /\ 1..i \in SUBSET (1..n) /\ 1..i # {} /\ Max(1..i) = i
           /\ (1..i) \ {i} = 1..(i - 1) /\ 1..(i - 1) \in SUBSET (1..n)
<1>1. 1..i \in SUBSET (1..n) /\ i \in 1..i /\ i \in Nat
  OBVIOUS
<1>2. Max(1..i) \in 1..i /\ i <= Max(1..i)
  BY <1>1, MaxIn
<1> QED
  BY <1>1, <1>2

(* g follows step from base through the positions of every set of them. *)
Follows(g, n, base, step) ==
    \A s \in SUBSET (1..n) :
        g[s] = IF s = {} THEN base ELSE step[<<Max(s), g[s \ {Max(s)}]>>]

LEMMA SeqRecursion ==
    ASSUME NEW n \in Nat, NEW V, NEW base \in V, NEW step \in [(1..n) \X V -> V]
    PROVE  \E g \in [SUBSET (1..n) -> V] : Follows(g, n, base, step)
<1> DEFINE D == 1..n
           c == [s \in SUBSET D |-> Max(s)]
<1>1. IsFiniteSet(D)
  BY FS_Interval
<1>2. \A s \in SUBSET D : s # {} => c[s] \in s
  BY MaxIn
<1>3. \E g \in [SUBSET D -> V] : FoldsAll(g, D, base, step, c)
  <2> HIDE DEF D, c
  <2>1. step \in [D \X V -> V]
    BY DEF D
  <2> QED
    BY <1>1, <1>2, <2>1, SubsetRecursion
<1> PICK g \in [SUBSET D -> V] : FoldsAll(g, D, base, step, c)
  BY <1>3
<1>4. ASSUME NEW s \in SUBSET D
      PROVE  g[s] = IF s = {} THEN base ELSE step[<<Max(s), g[s \ {Max(s)}]>>]
  <2>1. c[s] = Max(s)
    OBVIOUS
  <2> HIDE DEF c, D
  <2> QED
    BY <2>1 DEF FoldsAll
<1> QED
  BY <1>4 DEF Follows

(* A fold stays in V when its steps do. *)
LEMMA FoldsInto ==
    ASSUME NEW n \in Nat, NEW V, NEW g, g[{}] \in V,
           \A s \in SUBSET (1..n) : s # {} /\ g[s \ {Max(s)}] \in V => g[s] \in V
    PROVE  g[1..n] \in V
<1> DEFINE Good == {s \in SUBSET (1..n) : g[s] \in V}
           D == 1..n
<1>1. {} \in Good
  OBVIOUS
<1>2. ASSUME NEW s \in SUBSET D, s # {}, \A x \in s : s \ {x} \in Good
      PROVE  s \in Good
  <2>1. Max(s) \in s
    BY <1>2, MaxIn
  <2> QED
    BY <1>2, <2>1
<1>3. IsFiniteSet(D)
  BY FS_Interval
<1> HIDE DEF Good, D
<1>4. SUBSET D \subseteq Good
  BY <1>1, <1>2, <1>3, SubsetInduction
<1> QED
  BY <1>4 DEF Good, D

(* A finite set is listed, and nothing else. *)
LEMMA Listing ==
    ASSUME NEW S, IsFiniteSet(S)
    PROVE  /\ SetToSeq(S) \in Seq(S)
           /\ Len(SetToSeq(S)) = Cardinality(S) /\ Cardinality(S) \in Nat
<1> DEFINE n == Cardinality(S)
<1>1. n \in Nat /\ ExistsBijection(1..n, S)
  BY FS_CardinalityType
<1>2. PICK f \in Bijection(1..n, S) : TRUE
  BY <1>1 DEF ExistsBijection
<1>3. f \in [1..n -> S] /\ IsInjective(f)
  BY <1>2 DEF Bijection, Injection, IsInjective
<1>4. SetToSeq(S) \in [1..n -> S]
  BY <1>3 DEF SetToSeq
<1> HIDE DEF n
<1>5. SetToSeq(S) \in Seq(S) /\ Len(SetToSeq(S)) = n
  BY <1>1, <1>4
<1> QED
  BY <1>1, <1>5 DEF n

(* What is one for one with a finite set. *)
LEMMA FiniteImage ==
    ASSUME NEW S, IsFiniteSet(S), NEW f, DOMAIN f = S, f = [x \in S |-> f[x]]
    PROVE  IsFiniteSet({f[x] : x \in S})
<1> DEFINE T == {f[x] : x \in S}
<1>1. f \in Surjection(S, T)
  BY DEF Surjection
<1> HIDE DEF T
<1>2. IsFiniteSet(T)
  BY <1>1, FS_Surjection
<1> QED
  BY <1>2 DEF T
=============================================================================
