------------------------------ MODULE FoldTheorems ------------------------------
(***************************************************************************)
(* Facts about the folds of the community modules over finite sets, which    *)
(* are defined by recursion over the subsets of a set. Each is proved from     *)
(* the well-foundedness of those subsets: a set of subsets that has {} and,     *)
(* with all s \ {x}, every s, has them all.                                  *)
(***************************************************************************)
EXTENDS Integers, Functions, FiniteSetTheorems, TLAPS

(* Induction over the subsets of a finite set, as a fact about a set.         *)
LEMMA SubsetInduction ==
    ASSUME NEW S, IsFiniteSet(S),
           NEW Good, {} \in Good,
           \A s \in SUBSET S : (s # {} /\ \A x \in s : s \ {x} \in Good) => s \in Good
    PROVE  SUBSET S \subseteq Good
<1> DEFINE T == (SUBSET S) \ Good
<1>1. SUFFICES ASSUME T # {} PROVE FALSE
  OBVIOUS
<1>2. IsWellFoundedOn(StrictSubsetOrdering(S), SUBSET S)
  BY FS_StrictSubsetOrderingWellFounded, FS_FiniteSubsetsOfFinite
<1>3. PICK s \in T : \A t \in T : <<t, s>> \notin StrictSubsetOrdering(S)
  <2>1. T \subseteq SUBSET S
    OBVIOUS
  <2> HIDE DEF T
  <2>2. QED
    BY <1>1, <1>2, <2>1, WFMin
<1>4. s # {}
  OBVIOUS
<1>5. ASSUME NEW x \in s PROVE s \ {x} \in Good
  <2>1. <<s \ {x}, s>> \in StrictSubsetOrdering(S)
    BY <1>5 DEF StrictSubsetOrdering
  <2>2. QED
    BY <1>3, <2>1
<1>6. QED
  BY <1>4, <1>5

(* g folds every subset of S: c picks an element of it, step adds it to the rest. *)
FoldsAll(g, S, base, step, c) ==
    \A s \in SUBSET S : g[s] = IF s = {} THEN base ELSE step[<<c[s], g[s \ {c[s]}]>>]

(* What a fold defines exists. *)
LEMMA SubsetRecursion ==
    ASSUME NEW S, IsFiniteSet(S),
           NEW V, NEW base \in V, NEW step \in [S \X V -> V],
           NEW c, \A s \in SUBSET S : s # {} => c[s] \in s
    PROVE  \E g \in [SUBSET S -> V] : FoldsAll(g, S, base, step, c)
<1> DEFINE Small(n) == {t \in SUBSET S : Cardinality(t) <= n}
           Solves(g, n) ==
              \A s \in Small(n) :
                 g[s] = IF s = {} THEN base ELSE step[<<c[s], g[s \ {c[s]}]>>]
           Solved(n) == \E g \in [Small(n) -> V] : Solves(g, n)
           Good == {s \in SUBSET S : Solved(Cardinality(s))}
<1>1. \A s \in SUBSET S : IsFiniteSet(s) /\ Cardinality(s) \in Nat
  BY FS_Subset, FS_CardinalityType
<1>2. \A s \in SUBSET S : Cardinality(s) = 0 <=> s = {}
  BY <1>1, FS_EmptySet
<1>3. \A s \in SUBSET S : \A x \in s :
         s \ {x} \in SUBSET S /\ Cardinality(s \ {x}) = Cardinality(s) - 1
  BY <1>1, FS_RemoveElement
<1>4. {} \in Good
  <2>1. Small(0) = {{}} /\ Cardinality({}) = 0
    BY <1>1, <1>2
  <2>2. [s \in Small(0) |-> base] \in [Small(0) -> V]
    OBVIOUS
  <2>3. Solves([s \in Small(0) |-> base], 0)
    BY <2>1
  <2>4. Solved(0)
    BY <2>2, <2>3
  <2>5. QED
    BY <2>1, <2>4
<1>5. ASSUME NEW s \in SUBSET S, s # {}, \A x \in s : s \ {x} \in Good
      PROVE  s \in Good
  <2>1. PICK n \in Nat : n + 1 = Cardinality(s) /\ Solved(n)
    <3>1. PICK x : x \in s
      BY <1>5
    <3>2. Cardinality(s \ {x}) + 1 = Cardinality(s) /\ s \ {x} \in SUBSET S
      BY <1>1, <1>3, <3>1
    <3>3. Solved(Cardinality(s \ {x})) /\ Cardinality(s \ {x}) \in Nat
      <4> HIDE DEF Solved
      <4>1. QED
        BY <1>1, <1>5, <3>1, <3>2
    <3> HIDE DEF Solved
    <3>4. QED
      BY <3>2, <3>3
  <2>2. PICK g \in [Small(n) -> V] : Solves(g, n)
    BY <2>1
  <2> DEFINE h == [t \in Small(n + 1) |->
                     IF Cardinality(t) <= n THEN g[t] ELSE step[<<c[t], g[t \ {c[t]}]>>]]
  <2>3. \A t \in Small(n + 1) : t # {} => t \ {c[t]} \in Small(n) /\ c[t] \in S
    <3>1. SUFFICES ASSUME NEW t \in Small(n + 1), t # {}
                   PROVE  t \ {c[t]} \in Small(n) /\ c[t] \in S
      OBVIOUS
    <3>2. c[t] \in t /\ t \in SUBSET S
      BY <3>1
    <3>3. Cardinality(t \ {c[t]}) = Cardinality(t) - 1 /\ Cardinality(t) \in Nat
      BY <1>1, <1>3, <3>2
    <3>4. QED
      BY <2>1, <3>1, <3>2, <3>3
  <2>4. \A t \in Small(n) : t \in Small(n + 1)
    BY <1>1, <2>1
  <2>5. \A t \in Small(n + 1) : ~(Cardinality(t) <= n) => t # {}
    BY <1>2, <2>1
  <2>6. h \in [Small(n + 1) -> V]
    <3>1. ASSUME NEW t \in Small(n + 1) PROVE h[t] \in V
      <4>1. CASE Cardinality(t) <= n
        <5>1. t \in Small(n)
          BY <4>1
        <5>2. QED
          BY <4>1, <5>1, <2>2
      <4>2. CASE ~(Cardinality(t) <= n)
        <5>1. t \ {c[t]} \in Small(n) /\ c[t] \in S
          BY <4>2, <2>3, <2>5
        <5>2. g[t \ {c[t]}] \in V
          BY <5>1, <2>2
        <5>3. step[<<c[t], g[t \ {c[t]}]>>] \in V
          BY <5>1, <5>2
        <5>4. QED
          BY <4>2, <5>3
      <4>3. QED
        BY <4>1, <4>2
    <3>2. QED
      BY <3>1
  <2>7. Solves(h, n + 1)
    <3>1. SUFFICES ASSUME NEW t \in Small(n + 1)
                   PROVE  h[t] = IF t = {} THEN base ELSE step[<<c[t], h[t \ {c[t]}]>>]
      OBVIOUS
    <3>2. \A u \in Small(n) : h[u] = g[u]
      BY <2>4
    <3>3. CASE Cardinality(t) <= n
      <4>1. t \in Small(n)
        BY <3>3
      <4>2. h[t] = g[t]
        BY <3>2, <4>1
      <4>3. CASE t = {}
        BY <2>2, <4>1, <4>2, <4>3
      <4>4. CASE t # {}
        <5>1. h[t \ {c[t]}] = g[t \ {c[t]}]
          BY <2>3, <3>2, <4>4
        <5>2. g[t] = step[<<c[t], g[t \ {c[t]}]>>]
          BY <2>2, <4>1, <4>4
        <5>3. QED
          BY <4>2, <4>4, <5>1, <5>2
      <4>5. QED
        BY <4>3, <4>4
    <3>4. CASE ~(Cardinality(t) <= n)
      <4>1. t # {}
        BY <2>5, <3>4
      <4>2. h[t \ {c[t]}] = g[t \ {c[t]}]
        BY <2>3, <3>2, <4>1
      <4>3. h[t] = step[<<c[t], g[t \ {c[t]}]>>]
        BY <3>4
      <4>4. QED
        BY <4>1, <4>2, <4>3
    <3>5. QED
      BY <3>3, <3>4
  <2>8. Solved(n + 1)
    <3> HIDE DEF h, Small, Solves
    <3>1. QED
      BY <2>6, <2>7
  <2> HIDE DEF Solved
  <2>9. QED
    BY <2>1, <2>8
<1>6. S \in Good
  <2> HIDE DEF Good
  <2>1. SUBSET S \subseteq Good
    BY <1>4, <1>5, SubsetInduction
  <2>2. S \in Good
    BY <2>1
  <2>3. QED
    BY <2>2
<1>7. Small(Cardinality(S)) = SUBSET S
  BY FS_Subset
<1>8. QED
  BY <1>6, <1>7 DEF FoldsAll

-----------------------------------------------------------------------------
(* Sums.                                                                    *)

IntOn(f, S) == \A x \in S : f[x] \in Int

(* The sums of f over all subsets of S, as one function.                      *)
SumsOf(h, f, S) ==
    \A s \in SUBSET S :
        h[s] = IF s = {} THEN 0
               ELSE f[CHOOSE x \in s : TRUE] + h[s \ {CHOOSE x \in s : TRUE}]

LEMMA SumsExist ==
    ASSUME NEW S, IsFiniteSet(S), NEW f, IntOn(f, S)
    PROVE  \E h \in [SUBSET S -> Int] : SumsOf(h, f, S)
<1> DEFINE c == [s \in SUBSET S |-> CHOOSE x \in s : TRUE]
           step == [z \in S \X Int |-> f[z[1]] + z[2]]
<1>1. \A s \in SUBSET S : s # {} => c[s] \in s
  OBVIOUS
<1>2. step \in [S \X Int -> Int]
  BY DEF IntOn
<1>3. \E h \in [SUBSET S -> Int] :
         \A s \in SUBSET S : h[s] = IF s = {} THEN 0 ELSE step[<<c[s], h[s \ {c[s]}]>>]
  <2> DEFINE V == Int
             base == 0
  <2>1. base \in V /\ step \in [S \X V -> V]
    BY <1>2
  <2> HIDE DEF c, step, V, base
  <2>2. \E h \in [SUBSET S -> V] : FoldsAll(h, S, base, step, c)
    BY <1>1, <2>1, SubsetRecursion
  <2>3. QED
    BY <2>2 DEF V, base, FoldsAll
<1> PICK h \in [SUBSET S -> Int] :
         \A s \in SUBSET S : h[s] = IF s = {} THEN 0 ELSE step[<<c[s], h[s \ {c[s]}]>>]
  BY <1>3
<1>4. ASSUME NEW s \in SUBSET S, s # {}
      PROVE  step[<<c[s], h[s \ {c[s]}]>>] = f[c[s]] + h[s \ {c[s]}]
  <2> HIDE DEF c
  <2>1. c[s] \in S /\ h[s \ {c[s]}] \in Int
    BY <1>1, <1>4
  <2>2. QED
    BY <2>1
<1>5. \A s \in SUBSET S : c[s] = CHOOSE x \in s : TRUE
  OBVIOUS
<1>6. SumsOf(h, f, S)
  <2> HIDE DEF c, step
  <2>1. QED
    BY <1>3, <1>4, <1>5 DEF SumsOf
<1>7. QED
  BY <1>6

(* The sum over S and the sums over its subsets are the same function.        *)
LEMMA SumIsOne ==
    ASSUME NEW S, IsFiniteSet(S), NEW f, IntOn(f, S),
           NEW h \in [SUBSET S -> Int], SumsOf(h, f, S),
           NEW s \in SUBSET S
    PROVE  SumFunctionOnSet(f, s) = h[s]
<1> DEFINE ch(t) == CHOOSE x \in t : TRUE
           Def(g) == [t \in SUBSET s |-> IF t = {} THEN 0 ELSE f[ch(t)] + g[t \ {ch(t)}]]
           iter == CHOOSE g : g = Def(g)
<1>1. SumFunctionOnSet(f, s) = iter[s]
  BY DEF SumFunctionOnSet, FoldFunctionOnSet, MapThenFoldSet
<1>2. iter = Def(iter)
  <2> DEFINE k == [t \in SUBSET s |-> h[t]]
  <2>1. ASSUME NEW t \in SUBSET s
        PROVE  k[t] = IF t = {} THEN 0 ELSE f[ch(t)] + k[t \ {ch(t)}]
    <3>1. t \in SUBSET S /\ t \ {ch(t)} \in SUBSET s
      OBVIOUS
    <3>2. h[t] = IF t = {} THEN 0 ELSE f[ch(t)] + h[t \ {ch(t)}]
      BY <3>1 DEF SumsOf
    <3>3. QED
      BY <3>1, <3>2
  <2>2. k = Def(k)
    <3>1. DOMAIN k = SUBSET s /\ DOMAIN Def(k) = SUBSET s
      OBVIOUS
    <3>2. \A t \in SUBSET s : k[t] = Def(k)[t]
      BY <2>1
    <3> HIDE DEF k
    <3>3. k = [t \in SUBSET s |-> k[t]]
      BY DEF k
    <3>4. QED
      BY <3>2, <3>3
  <2> HIDE DEF k, Def
  <2>3. QED
    BY <2>2
<1>3. SUBSET s \subseteq {t \in SUBSET s : iter[t] = h[t]}
  <2> DEFINE Good == {t \in SUBSET s : iter[t] = h[t]}
  <2>1. IsFiniteSet(s)
    BY FS_Subset
  <2>2. ASSUME NEW t \in SUBSET s
        PROVE  iter[t] = IF t = {} THEN 0 ELSE f[ch(t)] + iter[t \ {ch(t)}]
    <3> HIDE DEF iter
    <3>1. QED
      BY <1>2
  <2>3. ASSUME NEW t \in SUBSET s
        PROVE  h[t] = IF t = {} THEN 0 ELSE f[ch(t)] + h[t \ {ch(t)}]
    BY DEF SumsOf
  <2>4. {} \in Good
    <3> HIDE DEF iter
    <3>1. QED
      BY <2>2, <2>3
  <2>5. ASSUME NEW t \in SUBSET s, t # {}, \A x \in t : t \ {x} \in Good
        PROVE  t \in Good
    <3>1. ch(t) \in t
      BY <2>5
    <3> HIDE DEF iter, ch
    <3>2. iter[t \ {ch(t)}] = h[t \ {ch(t)}]
      BY <2>5, <3>1
    <3>3. QED
      BY <2>2, <2>3, <2>5, <3>2
  <2> HIDE DEF Good
  <2>6. SUBSET s \subseteq Good
    BY <2>1, <2>4, <2>5, SubsetInduction
  <2> USE DEF Good
  <2>7. QED
    BY <2>6
<1>4. QED
  <2> HIDE DEF iter
  <2>1. s \in {t \in SUBSET s : iter[t] = h[t]}
    BY <1>3
  <2>2. QED
    BY <1>1, <2>1

THEOREM SumType ==
    ASSUME NEW S, IsFiniteSet(S), NEW f, IntOn(f, S)
    PROVE  SumFunctionOnSet(f, S) \in Int
<1>1. PICK h \in [SUBSET S -> Int] : SumsOf(h, f, S)
  BY SumsExist
<1>2. SumFunctionOnSet(f, S) = h[S]
  BY <1>1, SumIsOne
<1>3. QED
  BY <1>1, <1>2

THEOREM SumEmpty == \A f : SumFunctionOnSet(f, {}) = 0
<1>1. SUFFICES ASSUME NEW f PROVE SumFunctionOnSet(f, {}) = 0
  OBVIOUS
<1>2. IsFiniteSet({}) /\ IntOn(f, {})
  BY FS_EmptySet DEF IntOn
<1>3. PICK h \in [SUBSET {} -> Int] : SumsOf(h, f, {})
  BY <1>2, SumsExist
<1>4. SumFunctionOnSet(f, {}) = h[{}]
  BY <1>2, <1>3, SumIsOne
<1>5. QED
  BY <1>3, <1>4 DEF SumsOf

(* The order in which a sum takes its summands does not matter.              *)
THEOREM SumRemove ==
    ASSUME NEW S, IsFiniteSet(S), NEW f, IntOn(f, S), NEW y \in S
    PROVE  SumFunctionOnSet(f, S) = f[y] + SumFunctionOnSet(f, S \ {y})
<1>1. PICK h \in [SUBSET S -> Int] : SumsOf(h, f, S)
  BY SumsExist
<1> DEFINE ch(t) == CHOOSE x \in t : TRUE
           Good == {t \in SUBSET S : \A z \in t : h[t] = f[z] + h[t \ {z}]}
<1>2. ASSUME NEW t \in SUBSET S, t # {}
      PROVE  ch(t) \in t /\ h[t] = f[ch(t)] + h[t \ {ch(t)}]
  BY <1>1, <1>2 DEF SumsOf
<1>3. {} \in Good
  OBVIOUS
<1>4. ASSUME NEW t \in SUBSET S, t # {}, \A x \in t : t \ {x} \in Good
      PROVE  t \in Good
  <2>1. SUFFICES ASSUME NEW z \in t PROVE h[t] = f[z] + h[t \ {z}]
    OBVIOUS
  <2>2. PICK c \in t : h[t] = f[c] + h[t \ {c}]
    BY <1>2, <1>4
  <2>3. CASE c = z
    BY <2>2, <2>3
  <2>4. CASE c # z
    <3>1. t \ {c} \in Good /\ z \in t \ {c}
      BY <1>4, <2>4
    <3>2. h[t \ {c}] = f[z] + h[(t \ {c}) \ {z}]
      BY <3>1
    <3>3. t \ {z} \in Good /\ c \in t \ {z}
      BY <1>4, <2>1, <2>4
    <3>4. h[t \ {z}] = f[c] + h[(t \ {z}) \ {c}]
      BY <3>3
    <3>5. (t \ {z}) \ {c} = (t \ {c}) \ {z}
      OBVIOUS
    <3>6. f[z] \in Int /\ f[c] \in Int /\ h[(t \ {c}) \ {z}] \in Int
      BY <1>1, <2>1 DEF IntOn
    <3>7. ASSUME NEW a \in Int, NEW b \in Int, NEW r \in Int PROVE a + (b + r) = b + (a + r)
      OBVIOUS
    <3>8. f[c] + (f[z] + h[(t \ {c}) \ {z}]) = f[z] + (f[c] + h[(t \ {c}) \ {z}])
      BY <3>6, <3>7
    <3>9. h[t] = f[c] + (f[z] + h[(t \ {c}) \ {z}])
      BY <2>2, <3>2
    <3>10. h[t \ {z}] = f[c] + h[(t \ {c}) \ {z}]
      BY <3>4, <3>5
    <3>11. QED
      BY <3>8, <3>9, <3>10
  <2>5. QED
    BY <2>3, <2>4
<1>5. SUBSET S \subseteq Good
  <2> HIDE DEF Good
  <2>1. QED
    BY <1>3, <1>4, SubsetInduction
<1>6. h[S] = f[y] + h[S \ {y}]
  BY <1>5
<1>7. SumFunctionOnSet(f, S) = h[S] /\ SumFunctionOnSet(f, S \ {y}) = h[S \ {y}]
  BY <1>1, SumIsOne
<1>8. QED
  BY <1>6, <1>7

THEOREM SumAdd ==
    ASSUME NEW S, IsFiniteSet(S), NEW y, y \notin S,
           NEW f, IntOn(f, S), f[y] \in Int
    PROVE  SumFunctionOnSet(f, S \cup {y}) = f[y] + SumFunctionOnSet(f, S)
<1>1. IsFiniteSet(S \cup {y}) /\ IntOn(f, S \cup {y}) /\ (S \cup {y}) \ {y} = S
  BY FS_AddElement DEF IntOn
<1>2. QED
  BY <1>1, SumRemove

(* Only the values on the set count.                                        *)
THEOREM SumSame ==
    ASSUME NEW S, IsFiniteSet(S), NEW f, NEW g, IntOn(f, S),
           \A x \in S : g[x] = f[x]
    PROVE  SumFunctionOnSet(g, S) = SumFunctionOnSet(f, S)
<1>1. PICK h \in [SUBSET S -> Int] : SumsOf(h, f, S)
  BY SumsExist
<1>2. IntOn(g, S)
  BY DEF IntOn
<1>3. SumsOf(h, g, S)
  <2>1. ASSUME NEW s \in SUBSET S, s # {}
        PROVE  g[CHOOSE x \in s : TRUE] = f[CHOOSE x \in s : TRUE]
    BY <2>1
  <2>2. QED
    BY <1>1, <2>1 DEF SumsOf
<1>4. SumFunctionOnSet(f, S) = h[S] /\ SumFunctionOnSet(g, S) = h[S]
  BY <1>1, <1>2, <1>3, SumIsOne
<1>5. QED
  BY <1>4

(* One summand changes.                                                     *)
THEOREM SumChange ==
    ASSUME NEW S, IsFiniteSet(S), NEW f, NEW g, IntOn(f, S), IntOn(g, S),
           NEW y \in S, \A x \in S \ {y} : g[x] = f[x]
    PROVE  SumFunctionOnSet(g, S) = SumFunctionOnSet(f, S) - f[y] + g[y]
<1>1. IsFiniteSet(S \ {y}) /\ IntOn(f, S \ {y})
  BY FS_RemoveElement DEF IntOn
<1>2. SumFunctionOnSet(g, S \ {y}) = SumFunctionOnSet(f, S \ {y})
  BY <1>1, SumSame
<1>3. SumFunctionOnSet(f, S) = f[y] + SumFunctionOnSet(f, S \ {y})
  BY SumRemove
<1>4. SumFunctionOnSet(g, S) = g[y] + SumFunctionOnSet(g, S \ {y})
  BY SumRemove
<1>5. SumFunctionOnSet(f, S \ {y}) \in Int /\ f[y] \in Int /\ g[y] \in Int
  BY <1>1, SumType DEF IntOn
<1>6. QED
  BY <1>2, <1>3, <1>4, <1>5

THEOREM SumOfZeros ==
    ASSUME NEW S, IsFiniteSet(S), NEW f, \A x \in S : f[x] = 0
    PROVE  SumFunctionOnSet(f, S) = 0
<1> DEFINE Good == {t \in SUBSET S : SumFunctionOnSet(f, t) = 0}
<1>1. {} \in Good
  BY SumEmpty
<1>2. ASSUME NEW s \in SUBSET S, s # {}, \A x \in s : s \ {x} \in Good
      PROVE  s \in Good
  <2> PICK x \in s : TRUE
    BY <1>2
  <2>1. SumFunctionOnSet(f, s) = f[x] + SumFunctionOnSet(f, s \ {x})
    <3>1. IsFiniteSet(s) /\ IntOn(f, s)
      BY <1>2, FS_Subset DEF IntOn
    <3> QED
      BY <3>1, SumRemove
  <2>2. SumFunctionOnSet(f, s \ {x}) = 0 /\ f[x] = 0
    BY <1>2
  <2> QED
    BY <2>1, <2>2
<1> HIDE DEF Good
<1>3. SUBSET S \subseteq Good
  BY <1>1, <1>2, SubsetInduction
<1> QED
  BY <1>3 DEF Good

(* A sum is the sum of its parts.                                           *)
THEOREM SumSplit ==
    ASSUME NEW S, IsFiniteSet(S), NEW f, IntOn(f, S), NEW T \in SUBSET S
    PROVE  SumFunctionOnSet(f, S) = SumFunctionOnSet(f, T) + SumFunctionOnSet(f, S \ T)
<1> DEFINE Sum(s) == SumFunctionOnSet(f, s)
           Good == {s \in SUBSET S : Sum(s) = Sum(s \cap T) + Sum(s \ T)}
<1>0. ASSUME NEW s \in SUBSET S
      PROVE  IsFiniteSet(s) /\ IntOn(f, s) /\ Sum(s) \in Int
  <2>1. IsFiniteSet(s) /\ IntOn(f, s)
    BY FS_Subset DEF IntOn
  <2> QED
    BY <2>1, SumType
<1>1. {} \in Good
  <2>1. {} \cap T = {} /\ {} \ T = {} /\ Sum({}) = 0
    BY SumEmpty
  <2> QED
    BY <2>1
<1>2. ASSUME NEW s \in SUBSET S, s # {}, \A x \in s : s \ {x} \in Good
      PROVE  s \in Good
  <2> PICK x \in s : TRUE
    BY <1>2
  <2>1. /\ Sum(s \ {x}) = Sum((s \ {x}) \cap T) + Sum((s \ {x}) \ T)
        /\ f[x] \in Int
    BY <1>2 DEF IntOn
  <2>2. Sum(s) = f[x] + Sum(s \ {x})
    BY <1>0, SumRemove
  <2>3. CASE x \in T
    <3>1. x \in s \cap T /\ s \cap T \in SUBSET S /\ (s \cap T) \ {x} = (s \ {x}) \cap T
          /\ s \ T = (s \ {x}) \ T
      BY <2>3
    <3>2. Sum(s \cap T) = f[x] + Sum((s \ {x}) \cap T)
      BY <1>0, <3>1, SumRemove
    <3>3. Sum((s \ {x}) \cap T) \in Int /\ Sum((s \ {x}) \ T) \in Int
      <4>1. (s \ {x}) \cap T \in SUBSET S /\ (s \ {x}) \ T \in SUBSET S
        OBVIOUS
      <4> HIDE DEF Sum
      <4> QED
        BY <1>0, <4>1
    <3>4. Sum(s \ T) = Sum((s \ {x}) \ T)
      BY <3>1, Zenon
    <3> DEFINE a == Sum((s \ {x}) \cap T)
               b == Sum((s \ {x}) \ T)
    <3>5. /\ Sum(s \ {x}) = a + b /\ Sum(s) = f[x] + Sum(s \ {x})
          /\ Sum(s \cap T) = f[x] + a /\ Sum(s \ T) = b /\ a \in Int /\ b \in Int
      BY <2>1, <2>2, <3>2, <3>3, <3>4, Zenon
    <3> HIDE DEF Sum, a, b
    <3>6. Sum(s) = Sum(s \cap T) + Sum(s \ T)
      BY <2>1, <3>5
    <3> QED
      BY <3>6
  <2>4. CASE x \notin T
    <3>1. x \in s \ T /\ s \ T \in SUBSET S /\ (s \ T) \ {x} = (s \ {x}) \ T
          /\ s \cap T = (s \ {x}) \cap T
      BY <2>4
    <3>2. Sum(s \ T) = f[x] + Sum((s \ {x}) \ T)
      BY <1>0, <3>1, SumRemove
    <3>3. Sum((s \ {x}) \cap T) \in Int /\ Sum((s \ {x}) \ T) \in Int
      <4>1. (s \ {x}) \cap T \in SUBSET S /\ (s \ {x}) \ T \in SUBSET S
        OBVIOUS
      <4> HIDE DEF Sum
      <4> QED
        BY <1>0, <4>1
    <3>4. Sum(s \cap T) = Sum((s \ {x}) \cap T)
      BY <3>1, Zenon
    <3> DEFINE a == Sum((s \ {x}) \cap T)
               b == Sum((s \ {x}) \ T)
    <3>5. /\ Sum(s \ {x}) = a + b /\ Sum(s) = f[x] + Sum(s \ {x})
          /\ Sum(s \cap T) = a /\ Sum(s \ T) = f[x] + b /\ a \in Int /\ b \in Int
      BY <2>1, <2>2, <3>2, <3>3, <3>4, Zenon
    <3> HIDE DEF Sum, a, b
    <3>6. Sum(s) = Sum(s \cap T) + Sum(s \ T)
      BY <2>1, <3>5
    <3> QED
      BY <3>6
  <2> QED
    BY <2>3, <2>4
<1>3. S \in Good
  <2> HIDE DEF Good
  <2> QED
    BY <1>1, <1>2, SubsetInduction
<1>4. Sum(S) = Sum(S \cap T) + Sum(S \ T) /\ S \cap T = T
  BY <1>3
<1> QED
  BY <1>4

(* Summands that are numbers up to b. *)
THEOREM SumBounded ==
    ASSUME NEW S, IsFiniteSet(S), NEW f, NEW b \in Nat, \A x \in S : f[x] \in Nat /\ f[x] <= b
    PROVE  /\ SumFunctionOnSet(f, S) \in Nat /\ Cardinality(S) \in Nat
           /\ SumFunctionOnSet(f, S) <= Cardinality(S) * b
<1> DEFINE Sum(s) == SumFunctionOnSet(f, s)
           Good == {s \in SUBSET S : Sum(s) \in Nat /\ Sum(s) <= Cardinality(s) * b}
<1>1. {} \in Good
  BY SumEmpty, FS_EmptySet
<1>2. ASSUME NEW s \in SUBSET S, s # {}, \A x \in s : s \ {x} \in Good
      PROVE  s \in Good
  <2>1. PICK x \in s : s \ {x} \in Good
    BY <1>2
  <2>2. IsFiniteSet(s) /\ IntOn(f, s) /\ f[x] \in Nat /\ f[x] <= b
    BY FS_Subset DEF IntOn
  <2>3. Sum(s) = f[x] + Sum(s \ {x})
    BY <2>2, SumRemove
  <2> DEFINE c == Cardinality(s \ {x})
             d == Sum(s \ {x})
  <2>4. Cardinality(s) = c + 1 /\ c \in Nat
    <3>1. IsFiniteSet(s \ {x}) /\ c = Cardinality(s) - 1
      BY <2>2, FS_RemoveElement
    <3>2. c \in Nat /\ Cardinality(s) \in Nat
      BY <2>2, <3>1, FS_CardinalityType
    <3> QED
      BY <3>1, <3>2
  <2>5. d \in Nat /\ d <= c * b /\ Sum(s) = f[x] + d
    BY <2>1, <2>3
  <2> HIDE DEF c, d, Sum
  <2>6. (c + 1) * b = c * b + b
    BY <2>4
  <2> QED
    BY <2>2, <2>4, <2>5, <2>6
<1> HIDE DEF Good
<1>3. SUBSET S \subseteq Good
  BY <1>1, <1>2, SubsetInduction
<1>4. S \in Good
  BY <1>3
<1> QED
  BY <1>4, FS_CardinalityType DEF Good

THEOREM SumIsNat ==
    ASSUME NEW S, IsFiniteSet(S), NEW f, \A x \in S : f[x] \in Nat
    PROVE  SumFunctionOnSet(f, S) \in Nat
<1> DEFINE Good == {s \in SUBSET S : SumFunctionOnSet(f, s) \in Nat}
<1>1. {} \in Good
  BY SumEmpty
<1>2. ASSUME NEW s \in SUBSET S, s # {}, \A x \in s : s \ {x} \in Good
      PROVE  s \in Good
  <2>1. PICK x \in s : s \ {x} \in Good
    BY <1>2
  <2>2. IsFiniteSet(s) /\ IntOn(f, s) /\ f[x] \in Nat
    BY FS_Subset DEF IntOn
  <2>3. SumFunctionOnSet(f, s) = f[x] + SumFunctionOnSet(f, s \ {x})
    BY <2>2, SumRemove
  <2> QED
    BY <2>1, <2>2, <2>3
<1> HIDE DEF Good
<1>3. SUBSET S \subseteq Good
  BY <1>1, <1>2, SubsetInduction
<1>4. S \in Good
  BY <1>3
<1> QED
  BY <1>4 DEF Good
=============================================================================
