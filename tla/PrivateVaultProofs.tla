--------------------------- MODULE PrivateVaultProofs ---------------------------
(***************************************************************************)
(* Theorems about PrivateVault, for every set of sessions, addresses, names,   *)
(* passphrases and requests and every bound on them. First what the           *)
(* operators of VaultTree do, for every vault: how a path is resolved, and of   *)
(* every operation on the private section that it keeps the type of the        *)
(* vault, its one key and the balance of its bytes, and that it leaves the paths *)
(* it does not name alone. Then what the requests, interleaved, keep of the     *)
(* marker, the keys in Redis and the attempts.                               *)
(***************************************************************************)
EXTENDS PrivateVault, TreeTheorems

-----------------------------------------------------------------------------
(* Where a path leads: the walk along the names of p, for every set of places    *)
(* on it, and the one step of it that a last name takes.                      *)
Nodes == Entries \cup {Top, None}
Stepped(t, k, at, n) ==
    IF at = None \/ Named(t, k, at, n) = {} THEN None ELSE Min(Named(t, k, at, n))

Walks(g, t, k, p) ==
    \A s \in SUBSET DOMAIN p :
        g[s] = IF s = {} THEN Top ELSE Stepped(t, k, g[s \ {Max(s)}], p[Max(s)])

LEMMA StepIsANode ==
    ASSUME NEW t, NEW k, NEW at, NEW n
    PROVE  Stepped(t, k, at, n) \in Named(t, k, at, n) \cup {None}
<1>1. Named(t, k, at, n) \in SUBSET Nat
  BY VaultAssumption DEF Named, Kept
<1> QED
  BY <1>1, MinIn DEF Stepped

LEMMA WalkExists ==
    ASSUME NEW t, NEW k, NEW p \in Paths
    PROVE  \E g \in [SUBSET DOMAIN p -> Nodes] : Walks(g, t, k, p)
<1> DEFINE D == DOMAIN p
           step == [z \in D \X Nodes |-> Stepped(t, k, z[2], p[z[1]])]
           c == [s \in SUBSET D |-> Max(s)]
<1>1. D = 1..Len(p) /\ Len(p) \in Nat
  BY PathLength
<1>2. IsFiniteSet(D)
  BY <1>1, FS_Interval
<1>3. step \in [D \X Nodes -> Nodes]
  <2>1. ASSUME NEW z \in D \X Nodes PROVE Stepped(t, k, z[2], p[z[1]]) \in Nodes
    BY StepIsANode DEF Named, Kept, Nodes
  <2> QED
    BY <2>1
<1>4. \A s \in SUBSET D : s # {} => c[s] \in s
  BY <1>1, MaxIn
<1>5. Top \in Nodes
  BY DEF Nodes
<1>6. \E g \in [SUBSET D -> Nodes] : FoldsAll(g, D, Top, step, c)
  <2> HIDE DEF D, step, c
  <2> QED
    BY <1>2, <1>3, <1>4, <1>5, SubsetRecursion
<1> PICK g \in [SUBSET D -> Nodes] : FoldsAll(g, D, Top, step, c)
  BY <1>6
<1>7. ASSUME NEW s \in SUBSET D
      PROVE  g[s] = IF s = {} THEN Top ELSE Stepped(t, k, g[s \ {Max(s)}], p[Max(s)])
  <2>1. CASE s = {}
    BY <2>1 DEF FoldsAll
  <2>2. CASE s # {}
    <3>1. c[s] = Max(s) /\ Max(s) \in D /\ g[s \ {Max(s)}] \in Nodes
      BY <1>4, <2>2
    <3>2. g[s] = step[<<Max(s), g[s \ {Max(s)}]>>]
      BY <2>2, <3>1 DEF FoldsAll
    <3> QED
      BY <2>2, <3>1, <3>2
  <2> QED
    BY <2>1, <2>2
<1> QED
  BY <1>7 DEF Walks

LEMMA ResolvedWalks ==
    ASSUME NEW t, NEW k, NEW p \in Paths
    PROVE  \E g : Walks(g, t, k, p) /\ Resolved(t, k, p) = g[DOMAIN p]
<1> DEFINE Def(g) == [s \in SUBSET DOMAIN p |->
                        IF s = {} THEN Top ELSE Stepped(t, k, g[s \ {Max(s)}], p[Max(s)])]
           iter == CHOOSE g : g = Def(g)
<1>1. Resolved(t, k, p) = iter[DOMAIN p]
  BY DEF Resolved, FoldLeft, MapThenFoldSet, Stepped
<1>2. iter = Def(iter)
  <2> PICK h \in [SUBSET DOMAIN p -> Nodes] : Walks(h, t, k, p)
    BY WalkExists
  <2>1. h = Def(h)
    <3>1. DOMAIN h = SUBSET DOMAIN p /\ DOMAIN Def(h) = SUBSET DOMAIN p
      OBVIOUS
    <3>2. \A s \in SUBSET DOMAIN p : h[s] = Def(h)[s]
      BY DEF Walks
    <3>3. h = [s \in SUBSET DOMAIN p |-> h[s]]
      OBVIOUS
    <3> QED
      BY <3>2, <3>3
  <2> HIDE DEF Def
  <2> QED
    BY <2>1
<1>3. Walks(iter, t, k, p)
  <2> HIDE DEF iter
  <2> QED
    BY <1>2 DEF Walks
<1> QED
  BY <1>1, <1>3

(* A walk along p goes on from the walk along the directory of p. *)
LEMMA WalksAgree ==
    ASSUME NEW t, NEW k, NEW p \in Paths, p # Root,
           NEW g, Walks(g, t, k, p), NEW h, Walks(h, t, k, Front(p)),
           NEW s \in SUBSET DOMAIN Front(p)
    PROVE  g[s] = h[s]
<1> DEFINE D == DOMAIN Front(p)
           Good == {x \in SUBSET D : g[x] = h[x]}
<1>1. /\ Len(p) \in Nat /\ Len(p) > 0 /\ DOMAIN p = 1..Len(p)
      /\ D = 1..(Len(p) - 1) /\ IsFiniteSet(D)
      /\ D \subseteq DOMAIN p
      /\ \A i \in D : Front(p)[i] = p[i]
  <2>1. Len(p) \in Nat /\ Len(p) > 0 /\ DOMAIN p = 1..Len(p)
    BY PathLength
  <2>2. D = 1..(Len(p) - 1)
    BY <2>1, PathLength, PathParts
  <2>3. IsFiniteSet(D)
    BY <2>1, <2>2, FS_Interval
  <2> QED
    BY <2>1, <2>2, <2>3, PathParts
<1>2. {} \in Good
  BY DEF Walks
<1>3. ASSUME NEW x \in SUBSET D, x # {}, \A y \in x : x \ {y} \in Good
      PROVE  x \in Good
  <2>1. Max(x) \in x
    BY <1>1, <1>3, MaxIn
  <2>2. g[x \ {Max(x)}] = h[x \ {Max(x)}]
    BY <1>3, <2>1
  <2>3. g[x] = Stepped(t, k, g[x \ {Max(x)}], p[Max(x)])
    BY <1>1, <1>3 DEF Walks
  <2>4. h[x] = Stepped(t, k, h[x \ {Max(x)}], Front(p)[Max(x)])
    BY <1>3 DEF Walks
  <2> QED
    BY <1>1, <2>1, <2>2, <2>3, <2>4
<1> HIDE DEF Good
<1>4. SUBSET D \subseteq Good
  <2>1. IsFiniteSet(D)
    BY <1>1
  <2>2. \A x \in SUBSET D : (x # {} /\ \A y \in x : x \ {y} \in Good) => x \in Good
    BY <1>3
  <2> HIDE DEF D
  <2> QED
    BY <2>1, <2>2, <1>2, SubsetInduction
<1> QED
  BY <1>4 DEF Good

(* _resolve_encrypted_path by its last step: the parent is found first, and the  *)
(* first entry of that name under the key is taken.                           *)
THEOREM ResolvedByParent ==
    ASSUME NEW t, NEW k, NEW p \in Paths, p # Root
    PROVE  Resolved(t, k, p) = Stepped(t, k, Resolved(t, k, Front(p)), Last(p))
<1>1. PICK g : Walks(g, t, k, p) /\ Resolved(t, k, p) = g[DOMAIN p]
  BY ResolvedWalks
<1>2. PICK h : Walks(h, t, k, Front(p)) /\ Resolved(t, k, Front(p)) = h[DOMAIN Front(p)]
  BY ResolvedWalks, PathParts
<1>3. /\ Len(p) \in Nat /\ Len(p) > 0 /\ DOMAIN p = 1..Len(p)
      /\ DOMAIN Front(p) = 1..(Len(p) - 1)
  BY PathLength, PathParts
<1>4. /\ DOMAIN p # {} /\ Max(DOMAIN p) = Len(p)
      /\ DOMAIN p \ {Max(DOMAIN p)} = DOMAIN Front(p)
  <2>1. Len(p) \in DOMAIN p
    BY <1>3
  <2>2. Max(DOMAIN p) \in 1..Len(p) /\ Len(p) <= Max(DOMAIN p)
    BY <1>3, <2>1, MaxIn
  <2>3. Max(DOMAIN p) = Len(p)
    BY <1>3, <2>2
  <2> QED
    BY <1>3, <2>1, <2>3
<1>5. g[DOMAIN p] = Stepped(t, k, g[DOMAIN Front(p)], p[Len(p)])
  BY <1>1, <1>4 DEF Walks
<1>6. g[DOMAIN Front(p)] = h[DOMAIN Front(p)]
  BY <1>1, <1>2, WalksAgree
<1> QED
  BY <1>1, <1>2, <1>5, <1>6, PathParts

LEMMA RootIsTop ==
    ASSUME NEW t, NEW k
    PROVE  Resolved(t, k, Root) = Top
<1>1. DOMAIN Root = {}
  BY DEF Root
<1>2. PICK g : Walks(g, t, k, Root) /\ Resolved(t, k, Root) = g[DOMAIN Root]
  BY ResolvedWalks, RootIsAPath
<1>3. g[{}] = Top
  BY <1>2 DEF Walks
<1> QED
  BY <1>1, <1>2, <1>3

(* A path leads to the root, to an entry that is kept under the key, or nowhere. *)
THEOREM ResolvedType ==
    ASSUME NEW t, NEW k, NEW p \in Paths
    PROVE  /\ Resolved(t, k, p) \in Nodes
           /\ p # Root => Resolved(t, k, p) \in Kept(t) \cup {None}
           /\ p # Root /\ Resolved(t, k, p) # None =>
                 t.ent[Resolved(t, k, p)].key = k /\ HasParent(t, k, p)
<1>1. CASE p = Root
  BY <1>1, RootIsTop DEF Nodes
<1>2. CASE p # Root
  <2> DEFINE e == Resolved(t, k, p)
             at == Resolved(t, k, Front(p))
  <2>1. e = Stepped(t, k, at, Last(p))
    BY <1>2, ResolvedByParent
  <2>2. e \in Named(t, k, at, Last(p)) \cup {None}
    BY <2>1, StepIsANode
  <2>3. e # None => at # None
    BY <2>1 DEF Stepped
  <2> HIDE DEF e, at
  <2>4. /\ e \in Nodes /\ e \in Kept(t) \cup {None}
        /\ e # None => t.ent[e].key = k
    BY <2>2 DEF Named, Kept, Nodes
  <2> QED
    BY <1>2, <2>3, <2>4 DEF e, at, HasParent
<1> QED
  BY <1>1, <1>2

(* Where the first l names of p lead. *)
Way(t, k, p, l) == Resolved(t, k, Pre(p, l))

LEMMA WaySteps ==
    ASSUME NEW t, NEW k, NEW p \in Paths
    PROVE  /\ Way(t, k, p, 0) = Top
           /\ Way(t, k, p, Len(p)) = Resolved(t, k, p)
           /\ \A l \in 1..Len(p) :
                 Way(t, k, p, l) = Stepped(t, k, Way(t, k, p, l - 1), p[l])
<1>1. ASSUME NEW l \in 1..Len(p)
      PROVE  Way(t, k, p, l) = Stepped(t, k, Way(t, k, p, l - 1), p[l])
  <2>1. Pre(p, l) \in Paths
    BY PrePath, PathLength
  <2> QED
    BY <2>1, PreSteps, ResolvedByParent DEF Way
<1> QED
  BY <1>1, PreSteps, RootIsTop DEF Way

(* Two vaults in which every step of the way is the same. *)
LEMMA SameWay ==
    ASSUME NEW t, NEW n, NEW k, NEW p \in Paths,
           \A l \in 1..Len(p) :
              Stepped(n, k, Way(t, k, p, l - 1), p[l]) = Way(t, k, p, l)
    PROVE  Resolved(n, k, p) = Resolved(t, k, p)
<1> DEFINE Off == {l \in 0..Len(p) : Way(n, k, p, l) # Way(t, k, p, l)}
<1>0. Len(p) \in Nat
  BY PathLength
<1>1. ASSUME Off # {} PROVE FALSE
  <2>1. Off \in SUBSET Nat
    BY <1>0
  <2> PICK m \in Off : \A y \in Off : m <= y
    <3> HIDE DEF Off
    <3> QED
      BY <1>1, <2>1, MinIn
  <2>2. m # 0
    BY WaySteps
  <2>3. m \in 1..Len(p) /\ m - 1 \in 0..Len(p) /\ m - 1 \notin Off
    BY <1>0, <2>2
  <2>4. Way(n, k, p, m - 1) = Way(t, k, p, m - 1)
    BY <2>3
  <2>5. Way(n, k, p, m) = Stepped(n, k, Way(n, k, p, m - 1), p[m])
    BY <2>3, WaySteps
  <2> QED
    BY <2>3, <2>4, <2>5
<1>2. Way(n, k, p, Len(p)) = Way(t, k, p, Len(p))
  BY <1>0, <1>1
<1> QED
  BY <1>2, WaySteps

(* What a path leads to depends on the entries alone. *)
LEMMA ResolvedByEntries ==
    ASSUME NEW t, NEW n, n.ent = t.ent, NEW k, NEW p \in Paths
    PROVE  Resolved(n, k, p) = Resolved(t, k, p)
<1>1. \A at, x : Named(n, k, at, x) = Named(t, k, at, x)
  BY DEF Named, Kept, Places
<1>2. \A at, x : Stepped(n, k, at, x) = Stepped(t, k, at, x)
  BY <1>1 DEF Stepped
<1> QED
  BY <1>2, SameWay, WaySteps

(* No entry is met twice on the way of a path: the section is a tree as far as    *)
(* a path can see, whatever its entries say.                                 *)
LEMMA NoCycle ==
    ASSUME NEW t, NEW k, NEW p \in Paths,
           NEW i \in 0..Len(p), NEW j \in 0..Len(p), i < j,
           Way(t, k, p, j) # None
    PROVE  Way(t, k, p, i) # Way(t, k, p, j)
<1> DEFINE W(l) == Way(t, k, p, l)
           Met == {a \in 0..Len(p) : \E b \in 0..Len(p) : a < b /\ W(a) = W(b) /\ W(b) # None}
<1>0. Len(p) \in Nat
  BY PathLength
<1>1. ASSUME NEW l \in 1..Len(p), W(l) # None
      PROVE  W(l) \in Kept(t) /\ W(l) # Top /\ t.ent[W(l)].up = W(l - 1) /\ W(l - 1) # None
  <2>1. W(l) = Stepped(t, k, W(l - 1), p[l])
    BY WaySteps
  <2>2. W(l) \in Named(t, k, W(l - 1), p[l])
    BY <1>1, <2>1, StepIsANode
  <2>3. W(l - 1) # None
    BY <1>1, <2>1 DEF Stepped
  <2> QED
    BY <2>2, <2>3, VaultAssumption DEF Named, Kept
<1>2. ASSUME Met # {} PROVE FALSE
  <2>1. Met \in SUBSET Nat
    BY <1>0
  <2> PICK a \in Met : \A y \in Met : a <= y
    <3> HIDE DEF Met
    <3> QED
      BY <1>2, <2>1, MinIn
  <2> PICK b \in 0..Len(p) : a < b /\ W(a) = W(b) /\ W(b) # None
    OBVIOUS
  <2> HIDE DEF W
  <2>2. a \in 0..Len(p) /\ b \in 1..Len(p)
    BY <1>0
  <2>3. W(b) # Top /\ t.ent[W(b)].up = W(b - 1) /\ W(b - 1) # None
    BY <1>1, <2>2
  <2>4. a # 0
    BY <2>3, WaySteps DEF W
  <2>5. a \in 1..Len(p) /\ t.ent[W(a)].up = W(a - 1)
    BY <1>0, <1>1, <2>2, <2>4
  <2>6. W(a - 1) = W(b - 1)
    BY <2>3, <2>5
  <2>7. a - 1 \in 0..Len(p) /\ b - 1 \in 0..Len(p) /\ a - 1 < b - 1
    BY <1>0, <2>2, <2>5
  <2>8. a - 1 \in Met
    BY <2>3, <2>6, <2>7
  <2> QED
    BY <1>0, <2>2, <2>8
<1> QED
  BY <1>2

(* An entry taken away is not on the way to its own directory. *)
LEMMA DroppedKeepsTheWay ==
    ASSUME NEW t, VaultType(t), NEW k, NEW p \in Paths, p # Root
    PROVE  Resolved(Dropped(t, {Resolved(t, k, p)}), k, Front(p)) = Resolved(t, k, Front(p))
<1> DEFINE old == Resolved(t, k, p)
           n == Dropped(t, {old})
           W(l) == Way(t, k, p, l)
<1>0. /\ Len(p) \in Nat /\ Len(p) > 0 /\ Front(p) \in Paths /\ Len(Front(p)) = Len(p) - 1
      /\ \A i \in 1..(Len(p) - 1) : Front(p)[i] = p[i]
  BY PathLength, PathParts
<1>1. n.ent = [e \in Entries |-> IF e = old THEN NoEntry ELSE t.ent[e]]
  BY DEF Dropped, VaultType
<1>2. \A at, x : Named(n, k, at, x) = Named(t, k, at, x) \ {old}
  <2> HIDE DEF n, old
  <2>1. \A e \in Entries : e # old => n.ent[e] = t.ent[e]
    BY <1>1
  <2>2. old \in Entries => n.ent[old].kind = "none"
    BY <1>1 DEF NoEntry
  <2> QED
    BY <2>1, <2>2 DEF Named, Kept, Places
<1>3. ASSUME NEW l \in 1..(Len(p) - 1)
      PROVE  Stepped(n, k, W(l - 1), p[l]) = W(l)
  <2> DEFINE S == Named(t, k, W(l - 1), p[l])
  <2>0. l \in 1..Len(p)
    BY <1>0
  <2>1. W(l) = Stepped(t, k, W(l - 1), p[l])
    BY <2>0, WaySteps
  <2>2. Named(n, k, W(l - 1), p[l]) = S \ {old}
    BY <1>2
  <2>3. S \in SUBSET Nat
    BY VaultAssumption DEF Named, Kept
  <2>4. CASE W(l - 1) = None \/ S = {}
    BY <2>1, <2>2, <2>4 DEF Stepped
  <2>5. CASE W(l - 1) # None /\ S # {}
    <3>1. W(l) = Min(S)
      BY <2>1, <2>5 DEF Stepped
    <3>2. Min(S) \in S /\ \A y \in S : Min(S) <= y
      <4> HIDE DEF S
      <4> QED
        BY <2>3, <2>5, MinIn
    <3>3. W(l) # None
      <4>1. W(l) \in Entries
        BY <3>1, <3>2 DEF Named, Kept
      <4> QED
        BY <4>1, VaultAssumption
    <3>4. W(l) # old
      <4>1. old = W(Len(p))
        BY WaySteps
      <4>2. l \in 0..Len(p) /\ Len(p) \in 0..Len(p) /\ l < Len(p)
        BY <1>0
      <4>3. CASE old # None
        BY <4>1, <4>2, <4>3, NoCycle
      <4> QED
        BY <3>3, <4>3
    <3>5. /\ W(l) \in S \ {old} /\ \A y \in S \ {old} : W(l) <= y
      BY <3>1, <3>2, <3>4
    <3>6. Min(S \ {old}) = W(l)
      <4> HIDE DEF S, old, W
      <4>1. /\ Min(S \ {old}) \in S \ {old}
            /\ \A y \in S \ {old} : Min(S \ {old}) <= y
        <5>1. S \ {old} \in SUBSET Nat /\ S \ {old} # {}
          BY <2>3, <3>5
        <5> QED
          BY <5>1, MinIn
      <4>2. Min(S \ {old}) <= W(l) /\ W(l) <= Min(S \ {old})
        BY <3>5, <4>1
      <4>3. Min(S \ {old}) \in Nat /\ W(l) \in Nat
        BY <2>3, <3>5, <4>1
      <4> QED
        BY <4>2, <4>3
    <3> HIDE DEF S, old, W, n
    <3> QED
      BY <2>2, <2>5, <3>5, <3>6 DEF Stepped
  <2> QED
    BY <2>4, <2>5
<1>4. ASSUME NEW l \in 0..(Len(p) - 1) PROVE Way(t, k, Front(p), l) = W(l)
  <2>1. Pre(Front(p), l) = Pre(p, l)
    <3>1. l \in 0..Len(p) /\ l \in 0..Len(Front(p))
      BY <1>0
    <3>2. /\ Pre(p, l) \in Paths /\ Len(Pre(p, l)) = l
          /\ \A i \in 1..l : Pre(p, l)[i] = p[i]
      BY <3>1, PrePath
    <3>3. /\ Pre(Front(p), l) \in Paths /\ Len(Pre(Front(p), l)) = l
          /\ \A i \in 1..l : Pre(Front(p), l)[i] = Front(p)[i]
      BY <1>0, <3>1, PrePath
    <3>4. \A i \in 1..l : Pre(Front(p), l)[i] = Pre(p, l)[i]
      BY <1>0, <3>2, <3>3
    <3> QED
      BY <3>2, <3>3, <3>4, PathsEqual
  <2> QED
    BY <2>1 DEF Way
<1>5. ASSUME NEW l \in 1..Len(Front(p))
      PROVE  Stepped(n, k, Way(t, k, Front(p), l - 1), Front(p)[l]) = Way(t, k, Front(p), l)
  <2>1. /\ l \in 1..(Len(p) - 1) /\ l \in 0..(Len(p) - 1) /\ l - 1 \in 0..(Len(p) - 1)
        /\ Front(p)[l] = p[l]
    BY <1>0
  <2> HIDE DEF n, W
  <2> QED
    BY <1>3, <1>4, <2>1
<1> QED
  <2> HIDE DEF n
  <2>1. Resolved(n, k, Front(p)) = Resolved(t, k, Front(p))
    BY <1>0, <1>5, SameWay
  <2> QED
    BY <2>1 DEF n

-----------------------------------------------------------------------------
(* What every operation keeps: the type, one key for everything that is kept,    *)
(* and the balance of the bytes of user u. Nothing in the section is archived. *)
OneKeyed(t, k) == \A e \in Kept(t) : t.ent[e].key = k
Balanced(t, u) ==
    /\ t.used[u] = BytesOf(t, LiveRows(t))
    /\ \A r \in Ids : t.row[r].status # "archived"

Keeps(t, n, k, u) ==
    /\ VaultType(n)
    /\ OneKeyed(t, k) => OneKeyed(n, k)
    /\ Balanced(t, u) => Balanced(n, u)

(* The operations on entries leave the records alone, *)
EntriesMove(t, n, k) ==
    /\ VaultType(n) /\ n.row = t.row /\ n.used = t.used
    /\ OneKeyed(t, k) => OneKeyed(n, k)

(* and those on records the entries. *)
RowsMove(t, n) ==
    /\ VaultType(n) /\ n.ent = t.ent /\ n.used = t.used
    /\ \A r \in Ids : n.row[r].status = t.row[r].status /\ n.row[r].body = t.row[r].body

LEMMA EntriesKeep ==
    ASSUME NEW t, VaultType(t), NEW n, NEW k, NEW u, EntriesMove(t, n, k)
    PROVE  Keeps(t, n, k, u)
<1>1. VaultType(n) /\ n.row = t.row /\ n.used = t.used
  BY DEF EntriesMove
<1>2. BytesOf(n, LiveRows(n)) = BytesOf(t, LiveRows(t))
  BY <1>1 DEF BytesOf, LiveRows, Live
<1> QED
  BY <1>1, <1>2 DEF EntriesMove, Keeps, Balanced

LEMMA RowsKeep ==
    ASSUME NEW t, VaultType(t), NEW n, NEW k, NEW u, RowsMove(t, n)
    PROVE  Keeps(t, n, k, u)
<1>1. OneKeyed(t, k) => OneKeyed(n, k)
  BY DEF RowsMove, OneKeyed, Kept, Places
<1>2. t.row \in [Ids -> Row] /\ n.row \in [Ids -> Row]
  BY DEF VaultType, RowsMove
<1>3. BytesOf(n, LiveRows(n)) = BytesOf(t, LiveRows(t))
  BY <1>2, LiveBytesSame DEF RowsMove
<1> QED
  BY <1>1, <1>3 DEF RowsMove, Keeps, Balanced

LEMMA KeepsOn ==
    ASSUME NEW t, NEW m, NEW n, NEW k, NEW u, Keeps(t, m, k, u), Keeps(m, n, k, u)
    PROVE  Keeps(t, n, k, u)
BY DEF Keeps

LEMMA KeepsSelf ==
    ASSUME NEW t, VaultType(t), NEW k, NEW u
    PROVE  Keeps(t, t, k, u)
BY DEF Keeps

LEMMA PutMoves ==
    ASSUME NEW t, VaultType(t), NEW k \in VaultKeys, NEW kind \in {"dir", "file"},
           NEW p \in Paths, p # Root, HasParent(t, k, p), NEW b \in Bodies \cup {0},
           NEW e \in Entries
    PROVE  EntriesMove(t, Put(t, k, kind, p, b, e), k)
<1> DEFINE n == Put(t, k, kind, p, b, e)
           new == [kind |-> kind, up |-> Resolved(t, k, Front(p)), name |-> Last(p),
                   key |-> k, body |-> b]
<1>1. new \in Entry
  <2>1. Resolved(t, k, Front(p)) \in Entries \cup {Top}
    BY PathParts, ResolvedType DEF HasParent, Nodes
  <2> QED
    BY <2>1, PathParts DEF Entry
<1>2. /\ n.ent = [t.ent EXCEPT ![e] = new] /\ n.row = t.row /\ n.used = t.used
      /\ n = [t EXCEPT !.ent = [t.ent EXCEPT ![e] = new]]
  BY DEF Put, VaultType
<1>3. VaultType(n)
  <2> HIDE DEF new
  <2> QED
    BY <1>1, <1>2 DEF VaultType
<1>4. ASSUME OneKeyed(t, k), NEW d \in Kept(n) PROVE n.ent[d].key = k
  BY <1>2, <1>4 DEF OneKeyed, Kept, Places, VaultType
<1> QED
  BY <1>2, <1>3, <1>4 DEF EntriesMove, OneKeyed

LEMMA DroppedMoves ==
    ASSUME NEW t, VaultType(t), NEW k, NEW S
    PROVE  EntriesMove(t, Dropped(t, S), k)
<1> DEFINE n == Dropped(t, S)
<1>1. /\ n.ent = [e \in Entries |-> IF e \in S THEN NoEntry ELSE t.ent[e]]
      /\ n.row = t.row /\ n.used = t.used
      /\ n = [t EXCEPT !.ent = n.ent]
  BY DEF Dropped, VaultType
<1>2. VaultType(n)
  BY <1>1 DEF VaultType, NoEntry, Entry
<1>3. ASSUME OneKeyed(t, k), NEW d \in Kept(n) PROVE n.ent[d].key = k
  BY <1>1, <1>3 DEF OneKeyed, Kept, Places, NoEntry
<1> QED
  BY <1>1, <1>2, <1>3 DEF EntriesMove, OneKeyed

LEMMA RenamedMoves ==
    ASSUME NEW t, VaultType(t), NEW k \in VaultKeys, NEW p \in Paths, p # Root,
           NEW q \in Paths, q # Root, Front(q) = Front(p),
           NEW e \in Places(t), Resolved(t, k, p) # None
    PROVE  EntriesMove(t, Renamed(t, k, p, q, e), k)
<1> DEFINE n == Renamed(t, k, p, q, e)
           old == Resolved(t, k, p)
           up == Resolved(t, k, Front(q))
           new == [t.ent[old] EXCEPT !.name = Last(q), !.key = k, !.up = up]
<1>1. old \in Kept(t) /\ old # e /\ up \in Entries \cup {Top} /\ old \in Entries
  <2>1. /\ Resolved(t, k, p) \in Kept(t) \cup {None}
        /\ HasParent(t, k, p)
    BY ResolvedType
  <2> QED
    BY <2>1, PathParts, ResolvedType DEF HasParent, Nodes, Kept
<1>2. new \in Entry /\ new.key = k
  <2>1. t.ent[old] \in Entry /\ Last(q) \in Names
    BY <1>1, PathParts DEF VaultType
  <2> HIDE DEF old, up
  <2> QED
    BY <1>1, <2>1 DEF Entry
<1>3. /\ n.ent = [d \in Entries |->
                     CASE d = e -> new [] d = old -> NoEntry
                       [] OTHER -> IF t.ent[d].up = old THEN [t.ent[d] EXCEPT !.up = e] ELSE t.ent[d]]
      /\ n.row = t.row /\ n.used = t.used
      /\ n = [t EXCEPT !.ent = n.ent]
  BY DEF Renamed, VaultType
<1>4. \A d \in Entries :
         /\ n.ent[d] \in Entry
         /\ d \in Kept(n) => n.ent[d].key = k \/ (d \in Kept(t) /\ n.ent[d].key = t.ent[d].key)
  <2> SUFFICES ASSUME NEW d \in Entries
               PROVE  /\ n.ent[d] \in Entry
                      /\ d \in Kept(n) => n.ent[d].key = k \/ (d \in Kept(t) /\ n.ent[d].key = t.ent[d].key)
    OBVIOUS
  <2> HIDE DEF n, new, old
  <2>0. t.ent[d] \in Entry /\ e \in Entries
    BY DEF VaultType, Places
  <2>1. CASE d = e
    <3>1. n.ent[e] = CASE e = e -> new [] e = old -> NoEntry
                       [] OTHER -> IF t.ent[e].up = old THEN [t.ent[e] EXCEPT !.up = e] ELSE t.ent[e]
      BY <1>3, <2>0, Zenon
    <3>2. n.ent[e] = new
      BY <1>1, <3>1
    <3> QED
      BY <1>2, <2>1, <3>2
  <2>2. CASE d # e /\ d = old
    <3>1. n.ent[d] = NoEntry
      BY <1>3, <2>2
    <3> QED
      BY <3>1 DEF NoEntry, Entry, Kept, Places
  <2>3. CASE d # e /\ d # old
    <3>1. n.ent[d] = IF t.ent[d].up = old THEN [t.ent[d] EXCEPT !.up = e] ELSE t.ent[d]
      BY <1>3, <2>3
    <3>2. n.ent[d] \in Entry /\ n.ent[d].kind = t.ent[d].kind /\ n.ent[d].key = t.ent[d].key
      BY <2>0, <3>1 DEF Entry
    <3> QED
      BY <3>2 DEF Kept, Places
  <2> QED
    BY <2>1, <2>2, <2>3
<1>5. VaultType(n)
  <2>1. n.ent \in [Entries -> Entry]
    <3>1. n.ent = [d \in Entries |-> n.ent[d]]
      BY <1>3
    <3> HIDE DEF n
    <3> QED
      BY <1>4, <3>1
  <2> HIDE DEF n
  <2> QED
    BY <1>3, <2>1 DEF VaultType
<1>6. OneKeyed(t, k) => OneKeyed(n, k)
  BY <1>4 DEF OneKeyed, Kept
<1> QED
  BY <1>3, <1>5, <1>6 DEF EntriesMove

-----------------------------------------------------------------------------
(* The records: healing and moving change paths alone. *)

LEMMA HealedMoves ==
    ASSUME NEW t, VaultType(t), NEW p \in Paths
    PROVE  RowsMove(t, Healed(t, p))
<1> DEFINE n == Healed(t, p)
<1>1. /\ n.row = [r \in Ids |-> IF Heals(t, p) /\ r \in Namesakes(t, p)
                                 THEN [t.row[r] EXCEPT !.path = p] ELSE t.row[r]]
      /\ n.ent = t.ent /\ n.used = t.used /\ n = [t EXCEPT !.row = n.row]
  BY DEF Healed, VaultType
<1>2. ASSUME NEW r \in Ids
      PROVE  /\ n.row[r] \in Row
             /\ n.row[r].status = t.row[r].status /\ n.row[r].body = t.row[r].body
  <2>1. t.row[r] \in Row /\ n.row[r] \in {t.row[r], [t.row[r] EXCEPT !.path = p]}
    BY <1>1 DEF VaultType
  <2> HIDE DEF n
  <2> QED
    BY <2>1 DEF Row
<1> HIDE DEF n
<1>3. n.row \in [Ids -> Row]
  <2>1. n.row = [r \in Ids |-> n.row[r]]
    BY <1>1
  <2> QED
    BY <1>2, <2>1
<1> QED
  BY <1>1, <1>2, <1>3 DEF RowsMove, VaultType, n

LEMMA RowsMovedMoves ==
    ASSUME NEW t, VaultType(t), NEW p \in Paths, NEW q \in Paths, Len(p) = Len(q)
    PROVE  RowsMove(t, RowsMoved(t, p, q))
<1> DEFINE n == RowsMoved(t, p, q)
           moved(r) == [t.row[r] EXCEPT !.path = Regrafted(t.row[r].path, p, q)]
<1>1. /\ n.row = [r \in Ids |-> IF t.row[r].status = "committed" /\ r \in LiveUnder(t, p)
                                 THEN moved(r) ELSE t.row[r]]
      /\ n.ent = t.ent /\ n.used = t.used /\ n = [t EXCEPT !.row = n.row]
  BY DEF RowsMoved, VaultType
<1>2. ASSUME NEW r \in Ids
      PROVE  /\ n.row[r] \in Row
             /\ n.row[r].status = t.row[r].status /\ n.row[r].body = t.row[r].body
  <2>1. t.row[r] \in Row
    BY DEF VaultType
  <2>2. \/ n.row[r] = t.row[r]
        \/ n.row[r] = moved(r) /\ IsStrictPrefix(p, t.row[r].path)
    BY <1>1 DEF LiveUnder
  <2>3. CASE n.row[r] = t.row[r]
    BY <2>1, <2>3
  <2>4. CASE n.row[r] = moved(r) /\ IsStrictPrefix(p, t.row[r].path)
    <3>1. t.row[r].path \in Paths
      BY <2>1 DEF Row
    <3>2. Regrafted(t.row[r].path, p, q) \in Paths
      BY <2>4, <3>1, PathRegrafted DEF IsStrictPrefix
    <3> QED
      BY <2>1, <2>4, <3>2 DEF Row
  <2> QED
    BY <2>2, <2>3, <2>4
<1> HIDE DEF n
<1>3. n.row \in [Ids -> Row]
  <2>1. n.row = [r \in Ids |-> n.row[r]]
    BY <1>1
  <2> QED
    BY <1>2, <2>1
<1> QED
  BY <1>1, <1>2, <1>3 DEF RowsMove, VaultType, n

(* One record changes, and the bytes are charged by what it counts for. *)
THEOREM RowChangeKeeps ==
    ASSUME NEW t, VaultType(t), NEW n, VaultType(n), NEW k, NEW u \in Users,
           n.ent = t.ent, NEW r \in Ids,
           \A x \in Ids \ {r} :
              n.row[x].status = t.row[x].status /\ n.row[x].body = t.row[x].body,
           n.row[r].status # "archived",
           n.used[u] = t.used[u] - Counts(t, r) + Counts(n, r)
    PROVE  Keeps(t, n, k, u)
<1>1. OneKeyed(t, k) => OneKeyed(n, k)
  BY DEF OneKeyed, Kept, Places
<1>2. t.row \in [Ids -> Row] /\ n.row \in [Ids -> Row]
  BY DEF VaultType
<1>3. BytesOf(n, LiveRows(n)) = BytesOf(t, LiveRows(t)) - Counts(t, r) + Counts(n, r)
  BY <1>2, LiveBytesChange
<1> QED
  BY <1>1, <1>3 DEF Keeps, Balanced

LEMMA CreatedKeeps ==
    ASSUME NEW t, VaultType(t), FreeIds(t) # {}, NEW k, NEW u \in Users,
           NEW p \in Paths, NEW b \in Bodies
    PROVE  Keeps(t, Charged(Created(t, u, p, b, "committed"), u, Size(b)), k, u)
<1> DEFINE f == FreshId(t)
           new == [NoRow EXCEPT !.status = "committed", !.owner = u, !.path = p, !.body = b]
           n == Charged(Created(t, u, p, b, "committed"), u, Size(b))
<1>1. f \in Ids /\ t.row[f].status = "none"
  <2>1. FreeIds(t) \in SUBSET Nat
    BY TreeAssumption DEF FreeIds
  <2> QED
    BY <2>1, MinIn DEF FreshId, FreeIds
<1>2. new \in Row /\ new.status = "committed" /\ new.body = b
  BY RootIsAPath DEF NoRow, Row
<1>3. /\ n.ent = t.ent /\ n.row = [t.row EXCEPT ![f] = new]
      /\ n.used = [t.used EXCEPT ![u] = t.used[u] + b]
      /\ n = [t EXCEPT !.row = n.row, !.used = n.used]
  BY DEF Charged, Created, VaultType, Size
<1>4. b \in Nat
  BY BodiesAreNat
<1> HIDE DEF n, new, f
<1>5. VaultType(n)
  BY <1>2, <1>3, <1>4 DEF VaultType
<1>6. Counts(t, f) = 0 /\ Counts(n, f) = b
  BY <1>1, <1>2, <1>3 DEF Counts, Live, VaultType
<1>7. n.used[u] = t.used[u] - Counts(t, f) + Counts(n, f)
  BY <1>3, <1>4, <1>6 DEF VaultType
<1>8. n.row[f].status # "archived" /\ \A x \in Ids \ {f} : n.row[x] = t.row[x]
  BY <1>1, <1>2, <1>3 DEF VaultType
<1> QED
  BY <1>1, <1>3, <1>5, <1>7, <1>8, RowChangeKeeps DEF n

LEMMA RowDeletedKeeps ==
    ASSUME NEW t, VaultType(t), NEW k, NEW u \in Users, NEW r \in Ids, Live(t.row[r])
    PROVE  Keeps(t, Charged(RowsDeleted(t, {r}), u, 0 - Size(t.row[r].body)), k, u)
<1> DEFINE n == Charged(RowsDeleted(t, {r}), u, 0 - Size(t.row[r].body))
           b == t.row[r].body
<1>1. /\ n.ent = t.ent
      /\ n.row = [x \in Ids |-> IF x \in {r} THEN [t.row[x] EXCEPT !.status = "deleted"] ELSE t.row[x]]
      /\ n.used = [t.used EXCEPT ![u] = t.used[u] + (0 - b)]
      /\ n = [t EXCEPT !.row = n.row, !.used = n.used]
  BY DEF Charged, RowsDeleted, VaultType, Size
<1>2. b \in Nat /\ t.row[r] \in Row
  <2>1. t.row[r] \in Row
    BY DEF VaultType
  <2>2. b \in Bodies \cup {0}
    BY <2>1 DEF Row
  <2> QED
    BY <2>1, <2>2, BodiesAreNat
<1> HIDE DEF n
<1>3. /\ n.row \in [Ids -> Row] /\ n.row[r].status = "deleted"
      /\ \A x \in Ids \ {r} : n.row[x] = t.row[x]
  <2>1. n.row[r] = [t.row[r] EXCEPT !.status = "deleted"] /\ \A x \in Ids \ {r} : n.row[x] = t.row[x]
    BY <1>1
  <2>2. n.row[r] \in Row /\ n.row[r].status = "deleted"
    BY <1>2, <2>1 DEF Row
  <2>3. n.row = [x \in Ids |-> n.row[x]]
    BY <1>1
  <2>4. \A x \in Ids : n.row[x] \in Row
    BY <2>1, <2>2 DEF VaultType
  <2> QED
    BY <2>1, <2>2, <2>3, <2>4
<1>4. t.used[u] \in Int /\ n.used \in [Users -> Int] /\ n.used[u] = t.used[u] + (0 - b)
  BY <1>1, <1>2 DEF VaultType
<1>5. VaultType(n)
  BY <1>1, <1>3, <1>4 DEF VaultType
<1>6. Counts(t, r) = b /\ Counts(n, r) = 0
  BY <1>3 DEF Counts, Live
<1>7. n.used[u] = t.used[u] - Counts(t, r) + Counts(n, r)
  BY <1>2, <1>4, <1>6
<1> QED
  BY <1>1, <1>3, <1>5, <1>7, RowChangeKeeps DEF n

-----------------------------------------------------------------------------
(* The operations. *)
ResultKeeps(t, result, k, u) ==
    \/ result = Raised(t)
    \/ \E n : result = Done(n) /\ Keeps(t, n, k, u)

LEMMA CommittedKeeps ==
    ASSUME NEW t, VaultType(t), NEW result, NEW k, NEW u, ResultKeeps(t, result, k, u)
    PROVE  Keeps(t, Committed(t, result), k, u)
<1>1. CASE result = Raised(t)
  <2>1. Committed(t, result) = t
    BY <1>1 DEF Committed, Raised, VaultType
  <2> QED
    BY <2>1, KeepsSelf
<1>2. CASE \E n : result = Done(n) /\ Keeps(t, n, k, u)
  BY <1>2 DEF Committed, Done
<1> QED
  BY <1>1, <1>2 DEF ResultKeeps

LEMMA UploadKeeps ==
    ASSUME NEW t, VaultType(t), FreeIds(t) # {}, NEW k \in VaultKeys, NEW u \in Users,
           NEW p \in Paths, p # Root, NEW b \in Bodies, NEW e \in Entries
    PROVE  ResultKeeps(t, VaultUploaded(t, k, u, p, b, e), k, u)
<1>1. CASE ~HasParent(t, k, p)
  BY <1>1 DEF VaultUploaded, ResultKeeps
<1>2. CASE HasParent(t, k, p)
  <2> DEFINE m == Put(t, k, "file", p, b, e)
             n == Charged(Created(m, u, p, b, "committed"), u, Size(b))
  <2>1. EntriesMove(t, m, k)
    BY <1>2, PutMoves
  <2>2. VaultType(m) /\ FreeIds(m) # {}
    BY <2>1 DEF EntriesMove, FreeIds
  <2>3. Keeps(m, n, k, u)
    <3> HIDE DEF m
    <3> QED
      BY <2>2, CreatedKeeps
  <2>4. Keeps(t, n, k, u)
    <3> HIDE DEF m, n
    <3> QED
      BY <2>1, <2>3, EntriesKeep, KeepsOn
  <2>5. VaultUploaded(t, k, u, p, b, e) = Done(n)
    BY <1>2 DEF VaultUploaded
  <2> HIDE DEF n
  <2> QED
    BY <2>4, <2>5 DEF ResultKeeps
<1> QED
  BY <1>1, <1>2

LEMMA MkdirKeeps ==
    ASSUME NEW t, VaultType(t), NEW k \in VaultKeys, NEW u,
           NEW p \in Paths, p # Root, NEW e \in Entries
    PROVE  ResultKeeps(t, VaultMkdir(t, k, p, e), k, u)
<1>1. CASE ~HasParent(t, k, p)
  BY <1>1 DEF VaultMkdir, ResultKeeps
<1>2. CASE HasParent(t, k, p)
  <2>1. Keeps(t, Put(t, k, "dir", p, 0, e), k, u)
    BY <1>2, PutMoves, EntriesKeep
  <2> QED
    BY <1>2, <2>1 DEF VaultMkdir, ResultKeeps
<1> QED
  BY <1>1, <1>2

LEMMA DeleteKeeps ==
    ASSUME NEW t, VaultType(t), NEW k, NEW u \in Users, NEW p \in Paths
    PROVE  ResultKeeps(t, VaultDeleted(t, k, u, p), k, u)
<1> DEFINE r == CHOOSE x \in Found(t, p) : TRUE
           e == Resolved(t, k, p)
           bare == IF e \in Entries THEN Dropped(t, {e} \cup Below(t, e)) ELSE t
           gone == Charged(RowsDeleted(bare, {r}), u, 0 - Size(t.row[r].body))
<1>1. EntriesMove(t, bare, k)
  <2>1. EntriesMove(t, t, k)
    BY DEF EntriesMove
  <2> QED
    BY <2>1, DroppedMoves
<1>2. Keeps(t, bare, k, u) /\ VaultType(bare) /\ bare.row = t.row
  <2> HIDE DEF bare
  <2> QED
    BY <1>1, EntriesKeep DEF EntriesMove
<1>3. CASE Found(t, p) # {}
  <2>1. r \in Found(t, p)
    BY <1>3
  <2>2. r \in Ids /\ Live(t.row[r])
    <3> HIDE DEF r
    <3> QED
      BY <2>1, FoundIsLive
  <2>3. Keeps(bare, gone, k, u)
    <3> HIDE DEF bare, r
    <3> QED
      BY <1>2, <2>2, RowDeletedKeeps
  <2>4. Keeps(t, gone, k, u)
    <3> HIDE DEF bare, gone
    <3> QED
      BY <1>2, <2>3, KeepsOn
  <2>5. VaultDeleted(t, k, u, p) \in {Raised(t), Done(gone)}
    BY <1>3 DEF VaultDeleted
  <2> HIDE DEF gone
  <2> QED
    BY <2>4, <2>5 DEF ResultKeeps
<1>4. CASE Found(t, p) = {}
  <2>1. VaultDeleted(t, k, u, p) \in {Raised(t), Done(bare)}
    BY <1>4 DEF VaultDeleted
  <2> HIDE DEF bare
  <2> QED
    BY <1>2, <2>1 DEF ResultKeeps
<1> QED
  BY <1>3, <1>4

LEMMA OverwriteKeeps ==
    ASSUME NEW t, VaultType(t), FreeIds(t) # {}, NEW k \in VaultKeys, NEW u \in Users,
           NEW p \in Paths, p # Root, NEW b \in Bodies, NEW e \in Entries
    PROVE  ResultKeeps(t, VaultOverwritten(t, k, u, p, b, e), k, u)
<1> DEFINE r == CHOOSE x \in Found(t, p) : TRUE
           more == Size(b) - Size(t.row[r].body)
           old == Resolved(t, k, p)
           h == Healed(t, p)
           bare == Dropped(h, {old})
           put == Put(bare, k, "file", p, b, e)
           n == Charged([put EXCEPT !.row[r].body = b], u, more)
<1>1. ASSUME HasParent(t, k, p), Found(t, p) # {}
      PROVE  Keeps(t, n, k, u)
  <2>1. r \in Ids /\ Live(t.row[r])
    <3>1. r \in Found(t, p)
      BY <1>1
    <3> HIDE DEF r
    <3> QED
      BY <3>1, FoundIsLive
  <2>2. RowsMove(t, h) /\ VaultType(h) /\ h.ent = t.ent /\ Keeps(t, h, k, u)
    <3>1. RowsMove(t, h)
      BY HealedMoves
    <3> HIDE DEF h
    <3> QED
      BY <3>1, RowsKeep DEF RowsMove
  <2>3. EntriesMove(h, bare, k) /\ VaultType(bare)
    <3>1. EntriesMove(h, bare, k)
      <4> HIDE DEF h, old
      <4> QED
        BY <2>2, DroppedMoves
    <3> HIDE DEF bare
    <3> QED
      BY <3>1 DEF EntriesMove
  <2>4. HasParent(bare, k, p)
    <3>1. Front(p) \in Paths
      BY PathParts
    <3>2. Resolved(h, k, p) = old /\ Resolved(h, k, Front(p)) = Resolved(t, k, Front(p))
      <4> HIDE DEF h
      <4> QED
        BY <2>2, <3>1, ResolvedByEntries
    <3>3. Resolved(bare, k, Front(p)) = Resolved(h, k, Front(p))
      <4> HIDE DEF h, old
      <4>1. Resolved(Dropped(h, {Resolved(h, k, p)}), k, Front(p)) = Resolved(h, k, Front(p))
        BY <2>2, DroppedKeepsTheWay
      <4> QED
        BY <3>2, <4>1
    <3> HIDE DEF bare, h
    <3> QED
      BY <1>1, <3>2, <3>3 DEF HasParent
  <2>5. EntriesMove(bare, put, k) /\ VaultType(put)
    <3>1. EntriesMove(bare, put, k)
      <4> HIDE DEF bare
      <4> QED
        BY <2>3, <2>4, PutMoves
    <3> HIDE DEF put
    <3> QED
      BY <3>1 DEF EntriesMove
  <2>6. Keeps(t, put, k, u)
    <3>1. Keeps(h, bare, k, u)
      <4> HIDE DEF h, bare
      <4> QED
        BY <2>2, <2>3, EntriesKeep
    <3>2. Keeps(bare, put, k, u)
      <4> HIDE DEF put, bare
      <4> QED
        BY <2>3, <2>5, EntriesKeep
    <3> HIDE DEF h, bare, put
    <3> QED
      BY <2>2, <3>1, <3>2, KeepsOn
  <2>7. /\ put.row[r].body = t.row[r].body /\ put.row[r].status = t.row[r].status
        /\ put.row[r] \in Row
    <3>1. put.row = h.row
      <4> HIDE DEF h, bare, put
      <4> QED
        BY <2>3, <2>5 DEF EntriesMove
    <3> HIDE DEF h, put, r
    <3> QED
      BY <2>1, <2>2, <3>1 DEF RowsMove, VaultType
  <2>8. ASSUME Balanced(put, u) PROVE put.row[r].status # "archived"
    <3> HIDE DEF put, r
    <3> QED
      BY <2>1, <2>8 DEF Balanced
  <2>9. VaultType(n) /\ (OneKeyed(put, k) => OneKeyed(n, k))
        /\ (put.row[r].status # "archived" => Keeps(put, n, k, u))
    <3> DEFINE was == put.row[r].body
    <3>1. /\ n.ent = put.ent /\ n.row = [put.row EXCEPT ![r].body = b]
          /\ n.used = [put.used EXCEPT ![u] = put.used[u] + (b - was)]
          /\ n = [put EXCEPT !.row = n.row, !.used = n.used]
      <4> HIDE DEF put, r
      <4> QED
        BY <2>5, <2>7 DEF Charged, VaultType, Size
    <3>2. was \in Nat /\ b \in Nat
      <4>1. was \in Bodies \cup {0}
        <5> HIDE DEF put, r
        <5> QED
          BY <2>7 DEF Row
      <4> HIDE DEF was
      <4> QED
        BY <4>1, BodiesAreNat
    <3> HIDE DEF n, put, r, was
    <3>3. /\ n.row \in [Ids -> Row] /\ n.row[r].body = b
          /\ n.row[r].status = put.row[r].status
          /\ \A x \in Ids \ {r} : n.row[x] = put.row[x]
      <4>1. n.row[r] = [put.row[r] EXCEPT !.body = b] /\ \A x \in Ids \ {r} : n.row[x] = put.row[x]
        BY <2>1, <2>5, <3>1 DEF VaultType
      <4>2. n.row[r] \in Row /\ n.row[r].body = b /\ n.row[r].status = put.row[r].status
        BY <2>7, <4>1 DEF Row
      <4>3. n.row = [x \in Ids |-> n.row[x]]
        BY <2>5, <3>1 DEF VaultType
      <4>4. \A x \in Ids : n.row[x] \in Row
        BY <2>5, <4>1, <4>2 DEF VaultType
      <4> QED
        BY <4>1, <4>2, <4>3, <4>4
    <3>4. put.used[u] \in Int /\ n.used \in [Users -> Int] /\ n.used[u] = put.used[u] + (b - was)
      BY <2>5, <3>1, <3>2 DEF VaultType
    <3>5. VaultType(n)
      BY <2>5, <3>1, <3>3, <3>4 DEF VaultType
    <3>6. Counts(put, r) = was /\ Counts(n, r) = b
      BY <2>1, <2>7, <3>3 DEF Counts, Live, was
    <3>7. n.used[u] = put.used[u] - Counts(put, r) + Counts(n, r)
      BY <3>2, <3>4, <3>6
    <3>8. put.row[r].status # "archived" => Keeps(put, n, k, u)
      BY <2>1, <2>5, <3>1, <3>3, <3>5, <3>7, RowChangeKeeps
    <3>9. OneKeyed(put, k) => OneKeyed(n, k)
      BY <3>1 DEF OneKeyed, Kept, Places
    <3> QED
      BY <3>5, <3>8, <3>9
  <2>10. Keeps(put, n, k, u)
    <3> HIDE DEF put, n, r
    <3> QED
      BY <2>8, <2>9 DEF Keeps
  <2> HIDE DEF put, n
  <2> QED
    BY <2>6, <2>10, KeepsOn
<1>2. CASE Found(t, p) = {}
  <2>1. VaultOverwritten(t, k, u, p, b, e) \in {Raised(t), VaultUploaded(t, k, u, p, b, e)}
    BY <1>2 DEF VaultOverwritten
  <2> QED
    BY <2>1, UploadKeeps DEF ResultKeeps
<1>3. CASE Found(t, p) # {}
  <2>1. \/ VaultOverwritten(t, k, u, p, b, e) = Raised(t)
        \/ VaultOverwritten(t, k, u, p, b, e) = Done(n) /\ HasParent(t, k, p)
    BY <1>3 DEF VaultOverwritten
  <2> HIDE DEF n
  <2> QED
    BY <1>1, <1>3, <2>1 DEF ResultKeeps
<1> QED
  BY <1>2, <1>3

LEMMA RenameKeeps ==
    ASSUME NEW t, VaultType(t), NEW k \in VaultKeys, NEW u \in Users,
           NEW p \in Paths, p # Root, NEW name \in Names, NEW e \in Places(t)
    PROVE  ResultKeeps(t, VaultRenamed(t, k, p, name, e), k, u)
<1> DEFINE q == Append(Front(p), name)
           r == CHOOSE x \in Found(t, p) : TRUE
           old == Resolved(t, k, p)
           h == Healed(t, p)
           dir == RowsMoved(Renamed(t, k, p, q, e), p, q)
           ren == Renamed(h, k, p, q, e)
           file == [ren EXCEPT !.row[r].path = q]
<1>1. q \in Paths /\ q # Root /\ Front(q) = Front(p) /\ Len(q) = Len(p)
  <2>1. /\ Front(p) \in Paths /\ Len(Front(p)) = Len(p) - 1 /\ Len(p) \in Nat
        /\ Len(p) <= MaxDepth
    BY PathParts, PathLength
  <2>2. Len(Front(p)) < MaxDepth /\ MaxDepth \in Nat
    BY <2>1, TreeAssumption
  <2>3. Len(q) = Len(Front(p)) + 1 /\ q \in Paths /\ q # Root /\ Front(q) = Front(p)
    BY <2>1, <2>2, PathAppended
  <2> HIDE DEF q
  <2> QED
    BY <2>1, <2>3
<1> HIDE DEF q
<1>2. ASSUME old # None PROVE Keeps(t, dir, k, u)
  <2> DEFINE m == Renamed(t, k, p, q, e)
  <2>1. EntriesMove(t, m, k)
    BY <1>1, <1>2, RenamedMoves
  <2> HIDE DEF m
  <2>2. VaultType(m) /\ Keeps(t, m, k, u)
    BY <2>1, EntriesKeep DEF EntriesMove
  <2>3. Keeps(m, RowsMoved(m, p, q), k, u)
    BY <1>1, <2>2, RowsMovedMoves, RowsKeep
  <2>4. Keeps(t, RowsMoved(m, p, q), k, u)
    BY <2>2, <2>3, KeepsOn
  <2> QED
    BY <2>4 DEF m
<1>3. ASSUME old # None, Found(t, p) # {} PROVE Keeps(t, file, k, u)
  <2>1. r \in Ids
    <3>1. r \in Found(t, p)
      BY <1>3
    <3> HIDE DEF r
    <3> QED
      BY <3>1, FoundIsLive
  <2> HIDE DEF r
  <2>2. RowsMove(t, h)
    BY HealedMoves
  <2> HIDE DEF h
  <2>3. VaultType(h) /\ h.ent = t.ent /\ Keeps(t, h, k, u)
    BY <2>2, RowsKeep DEF RowsMove
  <2>4. Resolved(h, k, p) # None /\ e \in Places(h)
    BY <1>3, <2>3, ResolvedByEntries DEF Places
  <2>5. EntriesMove(h, ren, k)
    BY <1>1, <2>3, <2>4, RenamedMoves
  <2> HIDE DEF ren
  <2>6. VaultType(ren) /\ Keeps(h, ren, k, u)
    BY <2>3, <2>5, EntriesKeep DEF EntriesMove
  <2>7. RowsMove(ren, file)
    <3>1. /\ file.ent = ren.ent /\ file.used = ren.used
          /\ file.row = [ren.row EXCEPT ![r].path = q]
          /\ file = [ren EXCEPT !.row = file.row]
      BY <2>6 DEF VaultType
    <3> HIDE DEF file
    <3>2. ren.row[r] \in Row
      BY <2>1, <2>6 DEF VaultType
    <3>3. file.row[r] = [ren.row[r] EXCEPT !.path = q] /\ \A x \in Ids \ {r} : file.row[x] = ren.row[x]
      BY <2>1, <2>6, <3>1 DEF VaultType
    <3>4. /\ file.row[r] \in Row /\ file.row[r].status = ren.row[r].status
          /\ file.row[r].body = ren.row[r].body
      BY <1>1, <3>2, <3>3 DEF Row
    <3>5. file.row \in [Ids -> Row]
      <4>1. file.row = [x \in Ids |-> file.row[x]]
        BY <2>6, <3>1 DEF VaultType
      <4>2. \A x \in Ids : file.row[x] \in Row
        BY <2>6, <3>3, <3>4 DEF VaultType
      <4> QED
        BY <4>1, <4>2
    <3>6. VaultType(file)
      BY <2>6, <3>1, <3>5 DEF VaultType
    <3> QED
      BY <3>1, <3>3, <3>4, <3>6 DEF RowsMove
  <2> HIDE DEF file
  <2>8. Keeps(ren, file, k, u)
    BY <2>6, <2>7, RowsKeep
  <2> QED
    BY <2>3, <2>6, <2>8, KeepsOn
<1>4. \/ VaultRenamed(t, k, p, name, e) = Raised(t)
      \/ VaultRenamed(t, k, p, name, e) = Done(dir) /\ old # None
      \/ VaultRenamed(t, k, p, name, e) = Done(file) /\ old # None /\ Found(t, p) # {}
  <2> DEFINE result ==
        IF old = None THEN Raised(t)
        ELSE IF t.ent[old].kind = "dir" THEN Done(dir)
        ELSE IF Ambiguous(t, p) \/ Found(t, p) = {} THEN Raised(t)
        ELSE Done(file)
  <2>1. VaultRenamed(t, k, p, name, e) = result
    BY DEF VaultRenamed, q
  <2>2. \/ result = Raised(t)
        \/ result = Done(dir) /\ old # None
        \/ result = Done(file) /\ old # None /\ Found(t, p) # {}
    <3> HIDE DEF dir, file, old
    <3> QED
      OBVIOUS
  <2> QED
    BY <2>1, <2>2
<1> HIDE DEF dir, file, old
<1> QED
  BY <1>2, <1>3, <1>4 DEF ResultKeeps

-----------------------------------------------------------------------------
(* What an operation leaves alone: every path that does not go through one it     *)
(* names.                                                                    *)

(* One entry is reached by one path. *)
LEMMA UniquePath ==
    ASSUME NEW t, NEW k, NEW p \in Paths, NEW q \in Paths,
           NEW i \in 0..Len(p), NEW j \in 0..Len(q),
           Way(t, k, p, i) = Way(t, k, q, j), Way(t, k, p, i) # None
    PROVE  i = j /\ \A x \in 1..i : p[x] = q[x]
<1> DEFINE W(l) == Way(t, k, p, l)
           V(l) == Way(t, k, q, l)
           Bad == {a \in 0..Len(p) : \E b \in 0..Len(q) :
                      W(a) = V(b) /\ W(a) # None /\ ~(a = b /\ \A x \in 1..a : p[x] = q[x])}
<1>0. Len(p) \in Nat /\ Len(q) \in Nat
  BY PathLength
<1>1. ASSUME NEW s \in Paths, NEW l \in 1..Len(s), Way(t, k, s, l) # None
      PROVE  /\ Way(t, k, s, l) # Top /\ Way(t, k, s, l - 1) # None
             /\ t.ent[Way(t, k, s, l)].up = Way(t, k, s, l - 1)
             /\ t.ent[Way(t, k, s, l)].name = s[l]
  <2>1. Way(t, k, s, l) = Stepped(t, k, Way(t, k, s, l - 1), s[l])
    BY WaySteps
  <2>2. Way(t, k, s, l) \in Named(t, k, Way(t, k, s, l - 1), s[l])
    BY <1>1, <2>1, StepIsANode
  <2>3. Way(t, k, s, l - 1) # None
    BY <1>1, <2>1 DEF Stepped
  <2> QED
    BY <2>2, <2>3, VaultAssumption DEF Named, Kept
<1>2. ASSUME Bad # {} PROVE FALSE
  <2>1. Bad \in SUBSET Nat
    BY <1>0
  <2> PICK a \in Bad : \A y \in Bad : a <= y
    <3> HIDE DEF Bad
    <3> QED
      BY <1>2, <2>1, MinIn
  <2> PICK b \in 0..Len(q) :
        W(a) = V(b) /\ W(a) # None /\ ~(a = b /\ \A x \in 1..a : p[x] = q[x])
    OBVIOUS
  <2>2. a \in 0..Len(p)
    OBVIOUS
  <2>3. W(0) = Top /\ V(0) = Top
    BY WaySteps
  <2>4. a \in 1..Len(p) => W(a) # Top /\ W(a - 1) # None /\ t.ent[W(a)].up = W(a - 1)
                            /\ t.ent[W(a)].name = p[a]
    BY <1>1
  <2>5. b \in 1..Len(q) => V(b) # Top /\ V(b - 1) # None /\ t.ent[V(b)].up = V(b - 1)
                            /\ t.ent[V(b)].name = q[b]
    BY <1>1
  <2> HIDE DEF W, V
  <2>6. a # 0
    <3>1. CASE a = 0
      <4>1. b = 0
        BY <1>0, <2>3, <2>5, <3>1
      <4> QED
        BY <3>1, <4>1
    <3> QED
      BY <3>1
  <2>7. a \in 1..Len(p)
    BY <1>0, <2>2, <2>6
  <2>8. b \in 1..Len(q)
    <3>1. b # 0
      BY <2>3, <2>4, <2>7
    <3> QED
      BY <1>0, <3>1
  <2>9. W(a - 1) = V(b - 1) /\ W(a - 1) # None /\ p[a] = q[b]
    BY <2>4, <2>5, <2>7, <2>8
  <2>10. a - 1 \in 0..Len(p) /\ b - 1 \in 0..Len(q) /\ a - 1 < a /\ a \in Nat /\ b \in Nat
    BY <1>0, <2>7, <2>8
  <2>11. a - 1 \notin Bad
    BY <2>10
  <2>12. a - 1 = b - 1 /\ \A x \in 1..(a - 1) : p[x] = q[x]
    BY <2>9, <2>10, <2>11
  <2>13. a = b
    BY <2>10, <2>12
  <2>14. \A x \in 1..a : p[x] = q[x]
    <3> TAKE x \in 1..a
    <3>1. x \in 1..(a - 1) \/ x = a
      BY <2>10
    <3> QED
      BY <2>9, <2>12, <2>13, <3>1
  <2> QED
    BY <2>13, <2>14
<1> QED
  BY <1>2

LEMMA PrefixByNames ==
    ASSUME NEW p \in Paths, NEW q \in Paths, Len(p) <= Len(q),
           \A x \in 1..Len(p) : p[x] = q[x]
    PROVE  IsPrefix(p, q)
<1>1. Len(p) \in 0..Len(q) /\ Len(p) \in 0..Len(p)
  BY PathLength
<1>2. /\ Pre(p, Len(p)) \in Paths /\ Len(Pre(p, Len(p))) = Len(p)
      /\ \A x \in 1..Len(p) : Pre(p, Len(p))[x] = p[x]
  BY <1>1, PrePath
<1>3. /\ Pre(q, Len(p)) \in Paths /\ Len(Pre(q, Len(p))) = Len(p)
      /\ \A x \in 1..Len(p) : Pre(q, Len(p))[x] = q[x]
  BY <1>1, PrePath
<1>4. Pre(p, Len(p)) = Pre(q, Len(p))
  BY <1>2, <1>3, PathsEqual
<1> QED
  BY <1>4 DEF IsPrefix, Pre

LEMMA PrefixHasNames ==
    ASSUME NEW p \in Paths, NEW q \in Paths, IsPrefix(p, q)
    PROVE  Len(p) <= Len(q) /\ \A x \in 1..Len(p) : p[x] = q[x]
<1>1. Len(p) <= Len(q) /\ Pre(p, Len(p)) = Pre(q, Len(p))
  BY DEF IsPrefix, Pre
<1>2. Len(p) \in 0..Len(q) /\ Len(p) \in 0..Len(p)
  BY <1>1, PathLength
<1>3. \A x \in 1..Len(p) : Pre(p, Len(p))[x] = p[x] /\ Pre(q, Len(p))[x] = q[x]
  BY <1>2, PrePath
<1> QED
  BY <1>1, <1>3

(* The way of q, read under any key m, does not meet what p leads to, *)
LEMMA PassesBy ==
    ASSUME NEW t, NEW k, NEW m, NEW p \in Paths, NEW q \in Paths, ~IsPrefix(p, q),
           NEW l \in 0..Len(q), Resolved(t, k, p) # None
    PROVE  Way(t, m, q, l) # Resolved(t, k, p)
<1> SUFFICES ASSUME Way(t, m, q, l) = Resolved(t, k, p) PROVE FALSE
  OBVIOUS
<1>0. Len(p) \in Nat /\ Len(q) \in Nat
  BY PathLength
<1>1. p # Root
  <2>1. Len(Root) = 0
    BY DEF Root
  <2>2. IsPrefix(Root, q)
    BY <1>0, <2>1, PrefixByNames, RootIsAPath
  <2> QED
    BY <2>2
<1>2. Resolved(t, k, p) \in Entries /\ t.ent[Resolved(t, k, p)].key = k
  BY <1>1, ResolvedType DEF Kept
<1>3. l # 0
  BY <1>2, WaySteps, VaultAssumption
<1>4. l \in 1..Len(q) /\ Pre(q, l) \in Paths /\ Pre(q, l) # Root
  BY <1>0, <1>3, PrePath, PreSteps
<1>5. t.ent[Way(t, m, q, l)].key = m
  BY <1>4, ResolvedType DEF Way
<1>6. k = m
  BY <1>2, <1>5
<1>7. Way(t, k, p, Len(p)) = Way(t, k, q, l) /\ Way(t, k, p, Len(p)) # None
  BY <1>6, WaySteps
<1>8. Len(p) \in 0..Len(p) /\ l \in 0..Len(q)
  BY <1>0
<1>9. Len(p) = l /\ \A x \in 1..Len(p) : p[x] = q[x]
  BY <1>7, <1>8, UniquePath
<1> QED
  BY <1>0, <1>9, PrefixByNames

(* and has another name where it comes through the directory of p. *)
LEMMA NamedBeside ==
    ASSUME NEW t, NEW k, NEW p \in Paths, p # Root, HasParent(t, k, p),
           NEW q \in Paths, ~IsPrefix(p, q),
           NEW l \in 1..Len(q), Way(t, k, q, l - 1) = Resolved(t, k, Front(p))
    PROVE  q[l] # Last(p)
<1> SUFFICES ASSUME q[l] = Last(p) PROVE FALSE
  OBVIOUS
<1>0. /\ Len(p) \in Nat /\ Len(p) > 0 /\ Len(q) \in Nat
      /\ Front(p) \in Paths /\ Len(Front(p)) = Len(p) - 1
      /\ \A i \in 1..(Len(p) - 1) : Front(p)[i] = p[i]
      /\ Last(p) = p[Len(p)]
  BY PathLength, PathParts
<1>1. /\ Way(t, k, Front(p), Len(Front(p))) = Way(t, k, q, l - 1)
      /\ Way(t, k, Front(p), Len(Front(p))) # None
  BY <1>0, WaySteps DEF HasParent
<1>2. Len(Front(p)) \in 0..Len(Front(p)) /\ l - 1 \in 0..Len(q)
  BY <1>0
<1>3. Len(Front(p)) = l - 1 /\ \A x \in 1..Len(Front(p)) : Front(p)[x] = q[x]
  BY <1>0, <1>1, <1>2, UniquePath
<1>4. Len(p) = l /\ \A x \in 1..(Len(p) - 1) : p[x] = q[x]
  BY <1>0, <1>3
<1>5. ASSUME NEW x \in 1..Len(p) PROVE p[x] = q[x]
  <2>1. x \in 1..(Len(p) - 1) \/ x = Len(p)
    BY <1>0
  <2> QED
    BY <1>0, <1>4, <2>1
<1> QED
  BY <1>0, <1>4, <1>5, PrefixByNames

(* The entries that are looked at on the way of q are the same in t and n. *)
SameSteps(t, n, m, q) ==
    \A l \in 1..Len(q) : Way(t, m, q, l - 1) # None =>
        /\ Named(n, m, Way(t, m, q, l - 1), q[l]) = Named(t, m, Way(t, m, q, l - 1), q[l])
        /\ \A d \in Named(t, m, Way(t, m, q, l - 1), q[l]) :
              n.ent[d].kind = t.ent[d].kind /\ n.ent[d].body = t.ent[d].body

LEMMA SameReading ==
    ASSUME NEW t, NEW n, NEW m, NEW q \in Paths, SameSteps(t, n, m, q)
    PROVE  Decrypted(n, m, q) = Decrypted(t, m, q)
<1> DEFINE W(l) == Way(t, m, q, l)
<1>0. Len(q) \in Nat /\ (q # Root => Len(q) > 0)
  BY PathLength
<1>1. ASSUME NEW l \in 1..Len(q) PROVE Stepped(n, m, W(l - 1), q[l]) = W(l)
  <2>1. W(l) = Stepped(t, m, W(l - 1), q[l])
    BY WaySteps
  <2>2. CASE W(l - 1) = None
    BY <2>1, <2>2 DEF Stepped
  <2>3. CASE W(l - 1) # None
    BY <2>1, <2>3 DEF SameSteps, Stepped
  <2> QED
    BY <2>2, <2>3
<1>2. Resolved(n, m, q) = Resolved(t, m, q)
  BY <1>1, SameWay
<1>3. ASSUME Resolved(t, m, q) \in Entries
      PROVE  /\ n.ent[Resolved(t, m, q)].kind = t.ent[Resolved(t, m, q)].kind
             /\ n.ent[Resolved(t, m, q)].body = t.ent[Resolved(t, m, q)].body
  <2>1. q # Root /\ Resolved(t, m, q) # None
    BY <1>3, RootIsTop, VaultAssumption
  <2>2. Len(q) \in 1..Len(q)
    BY <1>0, <2>1
  <2>3. Resolved(t, m, q) = Stepped(t, m, W(Len(q) - 1), q[Len(q)])
    BY <2>2, WaySteps
  <2>4. /\ Resolved(t, m, q) \in Named(t, m, W(Len(q) - 1), q[Len(q)])
        /\ W(Len(q) - 1) # None
    BY <2>1, <2>3, StepIsANode DEF Stepped
  <2> QED
    BY <2>2, <2>4 DEF SameSteps
<1> QED
  BY <1>2, <1>3 DEF Decrypted

(* The operations on entries. *)
SameFor(t, n, m, P) ==
    \A q \in Paths : (\A p \in P : ~IsPrefix(p, q)) => Decrypted(n, m, q) = Decrypted(t, m, q)

LEMMA SameForOn ==
    ASSUME NEW t, NEW s, NEW n, NEW m, NEW P, SameFor(t, s, m, P), SameFor(s, n, m, P)
    PROVE  SameFor(t, n, m, P)
BY DEF SameFor

LEMMA SameForMore ==
    ASSUME NEW t, NEW n, NEW m, NEW P, NEW R, P \subseteq R, SameFor(t, n, m, P)
    PROVE  SameFor(t, n, m, R)
BY DEF SameFor

LEMMA SameForEntries ==
    ASSUME NEW t, NEW n, n.ent = t.ent, NEW m, NEW P
    PROVE  SameFor(t, n, m, P)
<1> SUFFICES ASSUME NEW q \in Paths PROVE Decrypted(n, m, q) = Decrypted(t, m, q)
  BY DEF SameFor
<1> QED
  BY ResolvedByEntries DEF Decrypted

(* Whatever place is taken for a new name, free before. *)
LEMMA PutApart ==
    ASSUME NEW t, VaultType(t), NEW k, NEW kind, NEW p \in Paths, p # Root,
           HasParent(t, k, p), NEW b, NEW e \in Places(t), NEW m
    PROVE  SameFor(t, Put(t, k, kind, p, b, e), m, {p})
<1> DEFINE n == Put(t, k, kind, p, b, e)
           new == [kind |-> kind, up |-> Resolved(t, k, Front(p)), name |-> Last(p),
                   key |-> k, body |-> b]
<1>1. n.ent = [t.ent EXCEPT ![e] = new]
  BY DEF Put, VaultType
<1>2. n.ent[e] = new /\ \A d \in Entries \ {e} : n.ent[d] = t.ent[d]
  BY <1>1 DEF VaultType, Places
<1>3. e \notin Kept(t) /\ e \in Entries
  BY DEF Kept, Places
<1> HIDE DEF n
<1>4. ASSUME NEW q \in Paths, ~IsPrefix(p, q), NEW l \in 1..Len(q),
             Way(t, m, q, l - 1) # None
      PROVE  /\ Named(n, m, Way(t, m, q, l - 1), q[l]) = Named(t, m, Way(t, m, q, l - 1), q[l])
             /\ \A d \in Named(t, m, Way(t, m, q, l - 1), q[l]) :
                   n.ent[d].kind = t.ent[d].kind /\ n.ent[d].body = t.ent[d].body
  <2> DEFINE W == Way(t, m, q, l - 1)
  <2>1. ~(new.up = W /\ new.name = q[l] /\ new.key = m)
    <3> SUFFICES ASSUME new.up = W, new.name = q[l], new.key = m PROVE FALSE
      OBVIOUS
    <3>1. Resolved(t, k, Front(p)) = Way(t, k, q, l - 1) /\ q[l] = Last(p)
      OBVIOUS
    <3> QED
      BY <1>4, <3>1, NamedBeside
  <2> HIDE DEF W, new
  <2>2. e \notin Named(n, m, W, q[l]) /\ e \notin Named(t, m, W, q[l])
    BY <1>2, <1>3, <2>1 DEF Named
  <2>3. \A d \in Entries \ {e} : d \in Named(n, m, W, q[l]) <=> d \in Named(t, m, W, q[l])
    BY <1>2 DEF Named, Kept, Places
  <2>4. \A d : d \in Named(n, m, W, q[l]) \/ d \in Named(t, m, W, q[l]) => d \in Entries
    BY DEF Named, Kept
  <2>5. Named(n, m, W, q[l]) = Named(t, m, W, q[l])
    <3>1. \A d \in Entries : d \in Named(n, m, W, q[l]) <=> d \in Named(t, m, W, q[l])
      BY <2>2, <2>3
    <3> QED
      BY <2>4, <3>1, Zenon
  <2>6. \A d \in Named(t, m, W, q[l]) : n.ent[d] = t.ent[d]
    BY <1>2, <2>2, <2>4
  <2> QED
    BY <2>5, <2>6 DEF W
<1>5. \A q \in Paths : ~IsPrefix(p, q) => SameSteps(t, n, m, q)
  BY <1>4 DEF SameSteps
<1>6. SameFor(t, n, m, {p})
  BY <1>5, SameReading DEF SameFor
<1> QED
  BY <1>6 DEF n

(* An entry goes, with entries below it. *)
LEMMA DroppedApart ==
    ASSUME NEW t, VaultType(t), NEW k, NEW p \in Paths, p # Root, NEW m,
           NEW S \in SUBSET ({Resolved(t, k, p)} \cup Below(t, Resolved(t, k, p)))
    PROVE  SameFor(t, Dropped(t, S), m, {p})
<1> DEFINE n == Dropped(t, S)
           old == Resolved(t, k, p)
<1>1. n.ent = [d \in Entries |-> IF d \in S THEN NoEntry ELSE t.ent[d]]
  BY DEF Dropped, VaultType
<1>2. /\ \A d \in Entries \cap S : n.ent[d].kind = "none"
      /\ \A d \in Entries \ S : n.ent[d] = t.ent[d]
  BY <1>1 DEF NoEntry
<1> HIDE DEF n
<1>3. ASSUME NEW q \in Paths, ~IsPrefix(p, q), NEW l \in 1..Len(q),
             Way(t, m, q, l - 1) # None
      PROVE  /\ Named(n, m, Way(t, m, q, l - 1), q[l]) = Named(t, m, Way(t, m, q, l - 1), q[l])
             /\ \A d \in Named(t, m, Way(t, m, q, l - 1), q[l]) :
                   n.ent[d].kind = t.ent[d].kind /\ n.ent[d].body = t.ent[d].body
  <2> DEFINE W == Way(t, m, q, l - 1)
  <2>0. Len(q) \in Nat /\ l - 1 \in 0..Len(q)
    BY PathLength
  <2>1. ASSUME NEW d \in Named(t, m, W, q[l]), d \in S PROVE FALSE
    <3>1. /\ d \in Kept(t) /\ d \in Entries /\ t.ent[d].up = W /\ t.ent[d].name = q[l]
          /\ t.ent[d].key = m
      BY <2>1 DEF Named, Kept
    <3>2. CASE d = old
      <4>1. old # None
        BY <3>1, <3>2, VaultAssumption
      <4>2. /\ old = Stepped(t, k, Resolved(t, k, Front(p)), Last(p))
            /\ t.ent[old].key = k /\ HasParent(t, k, p)
        BY <4>1, ResolvedByParent, ResolvedType
      <4>3. t.ent[old].up = Resolved(t, k, Front(p)) /\ t.ent[old].name = Last(p)
        BY <4>1, <4>2, StepIsANode DEF Named
      <4>4. k = m /\ Way(t, k, q, l - 1) = Resolved(t, k, Front(p)) /\ q[l] = Last(p)
        BY <3>1, <3>2, <4>2, <4>3
      <4> QED
        BY <1>3, <4>2, <4>4, NamedBeside
    <3>3. CASE d \in Below(t, old)
      <4>1. /\ W \in Entries \cup {Top}
            /\ W \in Entries => t.ent[W].up \in Entries \cup {Top}
        BY <3>1 DEF VaultType, Entry
      <4>2. CASE W = old
        <5>1. old # None
          BY <1>3, <4>2
        <5> QED
          BY <1>3, <2>0, <4>2, <5>1, PassesBy
      <4>3. CASE W \in Kept(t) /\ t.ent[W].up = old
        <5>1. W \in Entries /\ W # Top /\ old # None
          BY <4>1, <4>3, VaultAssumption DEF Kept
        <5>2. l - 1 # 0
          BY <5>1, WaySteps
        <5>3. l - 1 \in 1..Len(q) /\ (l - 1) - 1 \in 0..Len(q)
          BY <2>0, <5>2
        <5>4. W = Stepped(t, m, Way(t, m, q, (l - 1) - 1), q[l - 1])
          BY <5>3, WaySteps
        <5>5. W \in Named(t, m, Way(t, m, q, (l - 1) - 1), q[l - 1])
          BY <1>3, <5>4, StepIsANode
        <5>6. Way(t, m, q, (l - 1) - 1) = old
          BY <4>3, <5>5 DEF Named
        <5> QED
          BY <1>3, <5>1, <5>3, <5>6, PassesBy
      <4> QED
        BY <3>1, <3>3, <4>2, <4>3 DEF Below
    <3> QED
      BY <2>1, <3>2, <3>3
  <2> HIDE DEF W, old
  <2>2. \A d \in Entries \ S : d \in Named(n, m, W, q[l]) <=> d \in Named(t, m, W, q[l])
    BY <1>2 DEF Named, Kept, Places
  <2>3. \A d \in Entries \cap S : d \notin Named(n, m, W, q[l])
    BY <1>2 DEF Named, Kept, Places
  <2>4. \A d : d \in Named(n, m, W, q[l]) \/ d \in Named(t, m, W, q[l]) => d \in Entries
    BY DEF Named, Kept
  <2>5. Named(n, m, W, q[l]) = Named(t, m, W, q[l])
    BY <2>1, <2>2, <2>3, <2>4
  <2>6. \A d \in Named(t, m, W, q[l]) : n.ent[d] = t.ent[d]
    BY <1>2, <2>1, <2>4
  <2> QED
    BY <2>5, <2>6 DEF W
<1>4. \A q \in Paths : ~IsPrefix(p, q) => SameSteps(t, n, m, q)
  BY <1>3 DEF SameSteps
<1>5. SameFor(t, n, m, {p})
  BY <1>4, SameReading DEF SameFor
<1> QED
  BY <1>5 DEF n

(* An entry gets a new name beside its old one, and what is below it stays there. *)
LEMMA RenamedApart ==
    ASSUME NEW t, VaultType(t), NEW k, NEW p \in Paths, p # Root,
           NEW r \in Paths, r # Root, Front(r) = Front(p),
           NEW e \in Places(t), Resolved(t, k, p) # None, NEW m
    PROVE  SameFor(t, Renamed(t, k, p, r, e), m, {p, r})
<1> DEFINE n == Renamed(t, k, p, r, e)
           old == Resolved(t, k, p)
           up == Resolved(t, k, Front(r))
           new == [t.ent[old] EXCEPT !.name = Last(r), !.key = k, !.up = up]
<1>1. /\ old \in Kept(t) /\ old \in Entries /\ t.ent[old].key = k /\ HasParent(t, k, p)
      /\ HasParent(t, k, r)
      /\ t.ent[old].up = Resolved(t, k, Front(p)) /\ t.ent[old].name = Last(p)
  <2>1. /\ old \in Kept(t) /\ t.ent[old].key = k /\ HasParent(t, k, p)
    BY ResolvedType
  <2>2. old = Stepped(t, k, Resolved(t, k, Front(p)), Last(p))
    BY ResolvedByParent
  <2>3. old \in Named(t, k, Resolved(t, k, Front(p)), Last(p))
    BY <2>2, StepIsANode
  <2> QED
    BY <2>1, <2>3 DEF Named, Kept, HasParent
<1>2. e \notin Kept(t) /\ e \in Entries /\ e # old
  BY <1>1 DEF Kept, Places
<1>3. n.ent = [d \in Entries |->
                 CASE d = e -> new [] d = old -> NoEntry
                   [] OTHER -> IF t.ent[d].up = old THEN [t.ent[d] EXCEPT !.up = e] ELSE t.ent[d]]
  BY DEF Renamed, VaultType
<1>4. new.up = Resolved(t, k, Front(r)) /\ new.name = Last(r) /\ new.key = k
  <2>1. t.ent[old] \in Entry
    BY <1>1 DEF VaultType
  <2> HIDE DEF old, up
  <2> QED
    BY <2>1 DEF Entry, up
<1> HIDE DEF n, new, old, up
<1>5. n.ent[e] = new
  <2>1. n.ent[e] = CASE e = e -> new [] e = old -> NoEntry
                     [] OTHER -> IF t.ent[e].up = old THEN [t.ent[e] EXCEPT !.up = e] ELSE t.ent[e]
    BY <1>2, <1>3, Zenon
  <2> QED
    BY <1>2, <2>1
<1>6. n.ent[old].kind = "none"
  <2>1. n.ent[old] = NoEntry
    BY <1>1, <1>2, <1>3
  <2> QED
    BY <2>1 DEF NoEntry
<1>7. ASSUME NEW d \in Entries, d # e, d # old
      PROVE  /\ n.ent[d].kind = t.ent[d].kind /\ n.ent[d].body = t.ent[d].body
             /\ n.ent[d].name = t.ent[d].name /\ n.ent[d].key = t.ent[d].key
             /\ n.ent[d].up = IF t.ent[d].up = old THEN e ELSE t.ent[d].up
  <2>1. n.ent[d] = IF t.ent[d].up = old THEN [t.ent[d] EXCEPT !.up = e] ELSE t.ent[d]
    BY <1>3, <1>7
  <2>2. t.ent[d] \in Entry
    BY DEF VaultType
  <2> QED
    BY <2>1, <2>2 DEF Entry
<1>8. ASSUME NEW q \in Paths, ~IsPrefix(p, q), ~IsPrefix(r, q), NEW l \in 1..Len(q),
             Way(t, m, q, l - 1) # None
      PROVE  /\ Named(n, m, Way(t, m, q, l - 1), q[l]) = Named(t, m, Way(t, m, q, l - 1), q[l])
             /\ \A d \in Named(t, m, Way(t, m, q, l - 1), q[l]) :
                   n.ent[d].kind = t.ent[d].kind /\ n.ent[d].body = t.ent[d].body
  <2> DEFINE W == Way(t, m, q, l - 1)
  <2>0. l - 1 \in 0..Len(q) /\ Pre(q, l - 1) \in Paths
    <3>1. l - 1 \in 0..Len(q)
      BY PathLength
    <3> QED
      BY <3>1, PrePath
  <2>1. W # old
    BY <1>8, <2>0, PassesBy DEF old
  <2>2. W # e
    <3>1. W \in Kept(t) \cup {Top}
      <4>1. Pre(q, l - 1) = Root => W = Top
        BY RootIsTop DEF Way
      <4>2. Pre(q, l - 1) # Root => W \in Kept(t)
        BY <1>8, <2>0, ResolvedType DEF Way
      <4> QED
        BY <4>1, <4>2
    <3> QED
      BY <1>2, <3>1, VaultAssumption
  <2>3. ~(new.up = W /\ new.name = q[l] /\ new.key = m)
    <3> SUFFICES ASSUME new.up = W, new.name = q[l], new.key = m PROVE FALSE
      OBVIOUS
    <3>1. Resolved(t, k, Front(r)) = Way(t, k, q, l - 1) /\ q[l] = Last(r)
      BY <1>4
    <3> QED
      BY <1>1, <1>8, <3>1, NamedBeside
  <2>4. ~(t.ent[old].up = W /\ t.ent[old].name = q[l] /\ t.ent[old].key = m)
    <3> SUFFICES ASSUME t.ent[old].up = W, t.ent[old].name = q[l], t.ent[old].key = m
                 PROVE  FALSE
      OBVIOUS
    <3>1. Resolved(t, k, Front(p)) = Way(t, k, q, l - 1) /\ q[l] = Last(p)
      BY <1>1
    <3> QED
      BY <1>1, <1>8, <3>1, NamedBeside
  <2> HIDE DEF W
  <2>5. e \notin Named(n, m, W, q[l]) /\ e \notin Named(t, m, W, q[l])
    BY <1>2, <1>5, <2>3 DEF Named
  <2>6. old \notin Named(n, m, W, q[l]) /\ old \notin Named(t, m, W, q[l])
    BY <1>6, <2>4 DEF Named, Kept, Places
  <2>7. ASSUME NEW d \in Entries, d # e, d # old
        PROVE  d \in Named(n, m, W, q[l]) <=> d \in Named(t, m, W, q[l])
    <3>1. n.ent[d].up = W <=> t.ent[d].up = W
      BY <1>7, <2>1, <2>2, <2>7
    <3> QED
      BY <1>7, <2>7, <3>1 DEF Named, Kept, Places
  <2>8. \A d : d \in Named(n, m, W, q[l]) \/ d \in Named(t, m, W, q[l]) => d \in Entries
    BY DEF Named, Kept
  <2>9. Named(n, m, W, q[l]) = Named(t, m, W, q[l])
    <3>1. \A d \in Entries : d \in Named(n, m, W, q[l]) <=> d \in Named(t, m, W, q[l])
      BY <2>5, <2>6, <2>7
    <3> QED
      BY <2>8, <3>1, Zenon
  <2>10. \A d \in Named(t, m, W, q[l]) :
            n.ent[d].kind = t.ent[d].kind /\ n.ent[d].body = t.ent[d].body
    BY <1>7, <2>5, <2>6, <2>8
  <2> QED
    BY <2>9, <2>10 DEF W
<1>9. \A q \in Paths : ~IsPrefix(p, q) /\ ~IsPrefix(r, q) => SameSteps(t, n, m, q)
  BY <1>8 DEF SameSteps
<1>10. SameFor(t, n, m, {p, r})
  BY <1>9, SameReading DEF SameFor
<1> QED
  BY <1>10 DEF n

(* The operations on files. *)
ResultApart(t, result, m, P) ==
    \/ result = Raised(t)
    \/ \E n : result = Done(n) /\ SameFor(t, n, m, P)

LEMMA CommittedApart ==
    ASSUME NEW t, VaultType(t), NEW result, NEW m, NEW P, ResultApart(t, result, m, P)
    PROVE  SameFor(t, Committed(t, result), m, P)
<1>1. CASE result = Raised(t)
  <2>1. Committed(t, result) = t
    BY <1>1 DEF Committed, Raised, VaultType
  <2> QED
    BY <2>1 DEF SameFor
<1>2. CASE \E n : result = Done(n) /\ SameFor(t, n, m, P)
  BY <1>2 DEF Committed, Done
<1> QED
  BY <1>1, <1>2 DEF ResultApart

LEMMA UploadApart ==
    ASSUME NEW t, VaultType(t), NEW k \in VaultKeys, NEW u,
           NEW p \in Paths, p # Root, NEW b \in Bodies, NEW e \in Places(t), NEW m
    PROVE  ResultApart(t, VaultUploaded(t, k, u, p, b, e), m, {p})
<1>1. CASE ~HasParent(t, k, p)
  BY <1>1 DEF VaultUploaded, ResultApart
<1>2. CASE HasParent(t, k, p)
  <2> DEFINE put == Put(t, k, "file", p, b, e)
             n == Charged(Created(put, u, p, b, "committed"), u, Size(b))
  <2>1. VaultType(put) /\ SameFor(t, put, m, {p})
    <3>1. EntriesMove(t, put, k)
      BY <1>2, PutMoves DEF Places
    <3>2. SameFor(t, put, m, {p})
      BY <1>2, PutApart
    <3> HIDE DEF put
    <3> QED
      BY <3>1, <3>2 DEF EntriesMove
  <2>2. n.ent = put.ent
    <3> HIDE DEF put
    <3> QED
      BY <2>1 DEF Charged, Created, VaultType
  <2>3. SameFor(t, n, m, {p})
    <3> HIDE DEF put, n
    <3>1. SameFor(put, n, m, {p})
      BY <2>2, SameForEntries
    <3> QED
      BY <2>1, <3>1, SameForOn
  <2>4. VaultUploaded(t, k, u, p, b, e) = Done(n)
    BY <1>2 DEF VaultUploaded
  <2> HIDE DEF n
  <2> QED
    BY <2>3, <2>4 DEF ResultApart
<1> QED
  BY <1>1, <1>2

LEMMA MkdirApart ==
    ASSUME NEW t, VaultType(t), NEW k, NEW p \in Paths, p # Root, NEW e \in Places(t), NEW m
    PROVE  ResultApart(t, VaultMkdir(t, k, p, e), m, {p})
<1>1. CASE ~HasParent(t, k, p)
  BY <1>1 DEF VaultMkdir, ResultApart
<1>2. CASE HasParent(t, k, p)
  <2>1. SameFor(t, Put(t, k, "dir", p, 0, e), m, {p})
    BY <1>2, PutApart
  <2> QED
    BY <1>2, <2>1 DEF VaultMkdir, ResultApart
<1> QED
  BY <1>1, <1>2

(* The root is a directory above every path. *)
LEMMA RootIsAbove ==
    ASSUME NEW q \in Paths
    PROVE  IsPrefix(Root, q)
<1>1. Len(Root) = 0 /\ Len(q) \in Nat
  BY PathLength DEF Root
<1> QED
  BY <1>1, PrefixByNames, RootIsAPath

LEMMA DeleteApart ==
    ASSUME NEW t, VaultType(t), NEW k, NEW u, NEW p \in Paths, NEW m
    PROVE  ResultApart(t, VaultDeleted(t, k, u, p), m, {p})
<1> DEFINE r == CHOOSE x \in Found(t, p) : TRUE
           e == Resolved(t, k, p)
           bare == IF e \in Entries THEN Dropped(t, {e} \cup Below(t, e)) ELSE t
           gone == Charged(RowsDeleted(bare, {r}), u, 0 - Size(t.row[r].body))
<1>1. SameFor(t, bare, m, {p})
  <2>1. CASE p = Root
    BY <2>1, RootIsAbove DEF SameFor
  <2>2. CASE p # Root
    <3>1. SameFor(t, Dropped(t, {e} \cup Below(t, e)), m, {p})
      BY <2>2, DroppedApart
    <3>2. SameFor(t, t, m, {p})
      BY DEF SameFor
    <3> QED
      BY <3>1, <3>2
  <2> QED
    BY <2>1, <2>2
<1>2. VaultType(bare)
  BY DroppedMoves DEF EntriesMove
<1>3. gone.ent = bare.ent
  <2> HIDE DEF bare, r
  <2> QED
    BY <1>2 DEF Charged, RowsDeleted, VaultType
<1> HIDE DEF bare
<1>4. SameFor(t, gone, m, {p})
  <2> HIDE DEF gone
  <2>1. SameFor(bare, gone, m, {p})
    BY <1>3, SameForEntries
  <2> QED
    BY <1>1, <2>1, SameForOn
<1>5. VaultDeleted(t, k, u, p) \in {Raised(t), Done(gone), Done(bare)}
  BY DEF VaultDeleted, bare
<1> HIDE DEF gone
<1> QED
  BY <1>1, <1>4, <1>5 DEF ResultApart

LEMMA OverwriteApart ==
    ASSUME NEW t, VaultType(t), NEW k \in VaultKeys, NEW u,
           NEW p \in Paths, p # Root, NEW b \in Bodies, NEW e \in Places(t), NEW m
    PROVE  ResultApart(t, VaultOverwritten(t, k, u, p, b, e), m, {p})
<1> DEFINE r == CHOOSE x \in Found(t, p) : TRUE
           more == Size(b) - Size(t.row[r].body)
           old == Resolved(t, k, p)
           h == Healed(t, p)
           bare == Dropped(h, {old})
           put == Put(bare, k, "file", p, b, e)
           n == Charged([put EXCEPT !.row[r].body = b], u, more)
<1>1. ASSUME HasParent(t, k, p)
      PROVE  SameFor(t, n, m, {p})
  <2>1. VaultType(h) /\ h.ent = t.ent /\ SameFor(t, h, m, {p})
    <3>1. RowsMove(t, h)
      BY HealedMoves
    <3> HIDE DEF h
    <3> QED
      BY <3>1, SameForEntries DEF RowsMove
  <2>2. Resolved(h, k, p) = old /\ Resolved(h, k, Front(p)) = Resolved(t, k, Front(p))
    <3>1. Front(p) \in Paths
      BY PathParts
    <3> HIDE DEF h
    <3> QED
      BY <2>1, <3>1, ResolvedByEntries
  <2>3. VaultType(bare) /\ SameFor(h, bare, m, {p})
    <3> HIDE DEF h, old
    <3>1. EntriesMove(h, bare, k)
      BY <2>1, DroppedMoves
    <3>2. {old} \in SUBSET ({Resolved(h, k, p)} \cup Below(h, Resolved(h, k, p)))
      BY <2>2
    <3>3. SameFor(h, bare, m, {p})
      BY <2>1, <3>2, DroppedApart
    <3> HIDE DEF bare
    <3> QED
      BY <3>1, <3>3 DEF EntriesMove
  <2>4. HasParent(bare, k, p)
    <3> HIDE DEF h, old
    <3>1. Resolved(Dropped(h, {Resolved(h, k, p)}), k, Front(p)) = Resolved(h, k, Front(p))
      BY <2>1, DroppedKeepsTheWay
    <3> QED
      BY <1>1, <2>2, <3>1 DEF HasParent
  <2>5. e \in Places(bare) /\ e \in Entries
    <3> HIDE DEF h, old
    <3>1. bare.ent = [d \in Entries |-> IF d \in {old} THEN NoEntry ELSE h.ent[d]]
      BY <2>1 DEF Dropped, VaultType
    <3> HIDE DEF bare
    <3> QED
      BY <2>1, <3>1 DEF Places, NoEntry
  <2>6. VaultType(put) /\ SameFor(bare, put, m, {p})
    <3> HIDE DEF bare
    <3>1. EntriesMove(bare, put, k)
      BY <2>3, <2>4, <2>5, PutMoves
    <3>2. SameFor(bare, put, m, {p})
      BY <2>3, <2>4, <2>5, PutApart
    <3> HIDE DEF put
    <3> QED
      BY <3>1, <3>2 DEF EntriesMove
  <2>7. n.ent = put.ent
    <3> HIDE DEF put, r, more
    <3> QED
      BY <2>6 DEF Charged, VaultType
  <2> HIDE DEF h, bare, put, n
  <2>8. SameFor(put, n, m, {p})
    BY <2>7, SameForEntries
  <2> QED
    BY <2>1, <2>3, <2>6, <2>8, SameForOn
<1>2. CASE Found(t, p) = {}
  <2>1. VaultOverwritten(t, k, u, p, b, e) \in {Raised(t), VaultUploaded(t, k, u, p, b, e)}
    BY <1>2 DEF VaultOverwritten
  <2>2. ResultApart(t, VaultUploaded(t, k, u, p, b, e), m, {p})
    BY UploadApart
  <2> QED
    BY <2>1, <2>2 DEF ResultApart
<1>3. CASE Found(t, p) # {}
  <2>1. \/ VaultOverwritten(t, k, u, p, b, e) = Raised(t)
        \/ VaultOverwritten(t, k, u, p, b, e) = Done(n) /\ HasParent(t, k, p)
    BY <1>3 DEF VaultOverwritten
  <2> HIDE DEF n
  <2> QED
    BY <1>1, <2>1 DEF ResultApart
<1> QED
  BY <1>2, <1>3

LEMMA RenameApart ==
    ASSUME NEW t, VaultType(t), NEW k \in VaultKeys,
           NEW p \in Paths, p # Root, NEW name \in Names, NEW e \in Places(t), NEW m
    PROVE  ResultApart(t, VaultRenamed(t, k, p, name, e), m, {p, Append(Front(p), name)})
<1> DEFINE q == Append(Front(p), name)
           r == CHOOSE x \in Found(t, p) : TRUE
           old == Resolved(t, k, p)
           h == Healed(t, p)
           dir == RowsMoved(Renamed(t, k, p, q, e), p, q)
           ren == Renamed(h, k, p, q, e)
           file == [ren EXCEPT !.row[r].path = q]
<1>1. q \in Paths /\ q # Root /\ Front(q) = Front(p) /\ Len(q) = Len(p)
  <2>1. /\ Front(p) \in Paths /\ Len(Front(p)) = Len(p) - 1 /\ Len(p) \in Nat
        /\ Len(p) <= MaxDepth
    BY PathParts, PathLength
  <2>2. Len(Front(p)) < MaxDepth /\ MaxDepth \in Nat
    BY <2>1, TreeAssumption
  <2>3. Len(q) = Len(Front(p)) + 1 /\ q \in Paths /\ q # Root /\ Front(q) = Front(p)
    BY <2>1, <2>2, PathAppended
  <2> HIDE DEF q
  <2> QED
    BY <2>1, <2>3
<1> HIDE DEF q
<1>2. ASSUME old # None PROVE SameFor(t, dir, m, {p, q})
  <2> DEFINE s == Renamed(t, k, p, q, e)
  <2>1. EntriesMove(t, s, k) /\ SameFor(t, s, m, {p, q})
    BY <1>1, <1>2, RenamedMoves, RenamedApart
  <2> HIDE DEF s
  <2>2. RowsMove(s, RowsMoved(s, p, q))
    BY <1>1, <2>1, RowsMovedMoves DEF EntriesMove
  <2>3. SameFor(s, RowsMoved(s, p, q), m, {p, q})
    BY <2>2, SameForEntries DEF RowsMove
  <2>4. SameFor(t, RowsMoved(s, p, q), m, {p, q})
    BY <2>1, <2>3, SameForOn
  <2> QED
    BY <2>4 DEF s
<1>3. ASSUME old # None PROVE SameFor(t, file, m, {p, q})
  <2> HIDE DEF r
  <2>1. RowsMove(t, h)
    BY HealedMoves
  <2> HIDE DEF h
  <2>2. VaultType(h) /\ h.ent = t.ent /\ SameFor(t, h, m, {p, q})
    BY <2>1, SameForEntries DEF RowsMove
  <2>3. Resolved(h, k, p) # None /\ e \in Places(h)
    BY <1>3, <2>2, ResolvedByEntries DEF Places
  <2>4. EntriesMove(h, ren, k) /\ SameFor(h, ren, m, {p, q})
    BY <1>1, <2>2, <2>3, RenamedMoves, RenamedApart
  <2> HIDE DEF ren
  <2>5. file.ent = ren.ent
    BY <2>4 DEF EntriesMove, VaultType
  <2> HIDE DEF file
  <2>6. SameFor(ren, file, m, {p, q})
    BY <2>5, SameForEntries
  <2> QED
    BY <2>2, <2>4, <2>6, SameForOn
<1>4. \/ VaultRenamed(t, k, p, name, e) = Raised(t)
      \/ VaultRenamed(t, k, p, name, e) = Done(dir) /\ old # None
      \/ VaultRenamed(t, k, p, name, e) = Done(file) /\ old # None
  <2> DEFINE result ==
        IF old = None THEN Raised(t)
        ELSE IF t.ent[old].kind = "dir" THEN Done(dir)
        ELSE IF Ambiguous(t, p) \/ Found(t, p) = {} THEN Raised(t)
        ELSE Done(file)
  <2>1. VaultRenamed(t, k, p, name, e) = result
    BY DEF VaultRenamed, q
  <2>2. \/ result = Raised(t)
        \/ result = Done(dir) /\ old # None
        \/ result = Done(file) /\ old # None
    <3> HIDE DEF dir, file, old
    <3> QED
      OBVIOUS
  <2> QED
    BY <2>1, <2>2
<1>5. ResultApart(t, VaultRenamed(t, k, p, name, e), m, {p, q})
  <2> HIDE DEF dir, file, old
  <2> QED
    BY <1>2, <1>3, <1>4 DEF ResultApart
<1> QED
  BY <1>5 DEF q

-----------------------------------------------------------------------------
(* Requests. *)

(* What a request in hand has got: a key, and work that fits its step. A reset  *)
(* has taken the key of its session away.                                    *)
JobInv(s) ==
    LET j == job[s]
    IN  /\ j.step \in {"look", "write", "grant", "act", "commit", "folder", "file"}
              => j.key \in VaultKeys
        /\ j.step \in {"act", "commit", "folder", "file"} => j.ask \in Asks
        /\ j.step = "commit" => j.ask.op = "upload"
        /\ j.step \in {"folder", "file"} => j.ask.op \in {"listKeys", "saveKeys"}
        /\ j.step \in {"wipe", "clear"} => held[s] = None

(* OneKey looks at the vault and at Redis; a request that took its key before   *)
(* has to agree as well, since it will write with that key.                   *)
KeyInv ==
    ~torn =>
        /\ OneKeyed(vault, marker)
        /\ \A s \in Sessions :
              /\ held[s] \in {None, marker}
              /\ AtWork(s) => job[s].key = marker

(* The sessions of an address whose passphrase may still be counted.          *)
SessionsAt(i) == {s \in Sessions : Ip[s] = i}
Trying(i) == {s \in SessionsAt(i) : job[s].step \in {"look", "refuse"}}

(* The counter counts the refusals, and every session that may still add one    *)
(* saw it below the limit.                                                   *)
AttemptsInv ==
    \A i \in Ips :
        /\ refused[i] = attempts[i]
        /\ refused[i] + Cardinality(Trying(i)) <= MaxAttempts + Cardinality(SessionsAt(i)) - 1

Inv ==
    /\ TypeOK
    /\ \A s \in Sessions : JobInv(s)
    /\ KeyInv
    /\ Balanced(vault, Owner)
    /\ AttemptsInv

-----------------------------------------------------------------------------
Jobs == [step : Steps, key : VaultKeys \cup {None}, ask : Ask \cup {NoAsk}]

LEMMA InitInv == Init => Inv
<1> SUFFICES ASSUME Init PROVE Inv
  OBVIOUS
<1> USE PrivateAssumption
<1>1. VaultType(vault)
  <2>1. NoEntry \in Entry
    BY DEF NoEntry, Entry
  <2>2. NoRow \in Row
    BY RootIsAPath DEF NoRow, Row
  <2> QED
    BY <2>1, <2>2 DEF Init, EmptyVault, VaultType
<1>2. TypeOK
  <2>1. Idle \in [step : Steps, key : VaultKeys \cup {None}, ask : Ask \cup {NoAsk}]
    BY DEF Idle, Steps
  <2>2. spent \in [work : 0..MaxWork, faults : 0..MaxFaults]
    BY DEF Init
  <2> QED
    BY <1>1, <2>1, <2>2 DEF Init, TypeOK
<1>3. \A s \in Sessions : JobInv(s)
  BY DEF Init, JobInv, Idle
<1>4. KeyInv
  BY DEF Init, KeyInv, OneKeyed, Kept, Places, EmptyVault, NoEntry, AtWork, Idle
<1>5. Balanced(vault, Owner)
  <2>1. LiveRows(vault) = {}
    BY DEF Init, EmptyVault, LiveRows, Live, NoRow
  <2>2. BytesOf(vault, LiveRows(vault)) = 0
    BY <2>1, SumEmpty DEF BytesOf
  <2> QED
    BY <2>2 DEF Init, EmptyVault, NoRow, Balanced
<1>6. AttemptsInv
  <2> SUFFICES ASSUME NEW i \in Ips
               PROVE  /\ refused[i] = attempts[i]
                      /\ refused[i] + Cardinality(Trying(i))
                            <= MaxAttempts + Cardinality(SessionsAt(i)) - 1
    BY DEF AttemptsInv
  <2>1. Trying(i) = {}
    BY DEF Init, Trying, SessionsAt, Idle
  <2>2. Cardinality(Trying(i)) = 0
    BY <2>1, FS_EmptySet
  <2>3. Cardinality(SessionsAt(i)) \in Nat
    BY FS_Subset, FS_CardinalityType DEF SessionsAt
  <2>4. refused[i] = 0 /\ attempts[i] = 0
    BY DEF Init
  <2> QED
    BY <2>2, <2>3, <2>4
<1> QED
  BY <1>2, <1>3, <1>4, <1>5, <1>6 DEF Inv

(* The request of one session goes on, the others stay where they are. *)
LEMMA JobMoves ==
    ASSUME TypeOK, NEW s \in Sessions, NEW j \in Jobs, job' = [job EXCEPT ![s] = j]
    PROVE  /\ job' \in [Sessions -> Jobs]
           /\ job'[s] = j
           /\ \A o \in Sessions \ {s} : job'[o] = job[o]
BY DEF TypeOK, Jobs

LEMMA JobStays ==
    ASSUME TypeOK, NEW s \in Sessions
    PROVE  /\ job[s] \in Jobs
           /\ \A step \in Steps :
                 /\ [job[s] EXCEPT !.step = step] \in Jobs
                 /\ [job EXCEPT ![s].step = step]
                       = [job EXCEPT ![s] = [job[s] EXCEPT !.step = step]]
           /\ Idle \in Jobs
BY DEF TypeOK, Jobs, Idle, Steps

LEMMA TryingIsFinite ==
    ASSUME NEW i
    PROVE  /\ IsFiniteSet(SessionsAt(i)) /\ Cardinality(SessionsAt(i)) \in Nat
           /\ IsFiniteSet(Trying(i)) /\ Cardinality(Trying(i)) \in Nat
           /\ Cardinality(Trying(i)) <= Cardinality(SessionsAt(i))
<1>1. IsFiniteSet(SessionsAt(i))
  BY PrivateAssumption, FS_Subset DEF SessionsAt
<1>2. Trying(i) \subseteq SessionsAt(i)
  BY DEF Trying
<1> QED
  BY <1>1, <1>2, FS_Subset, FS_CardinalityType

(* A step that counts nothing and sends no session to try. *)
LEMMA NobodyTries ==
    ASSUME AttemptsInv, UNCHANGED <<refused, attempts>>, TypeOK,
           \A s \in Sessions :
              job'[s].step \in {"look", "refuse"} => job[s].step \in {"look", "refuse"}
    PROVE  AttemptsInv'
<1> SUFFICES ASSUME NEW i \in Ips
             PROVE  /\ refused'[i] = attempts'[i]
                    /\ refused'[i] + Cardinality(Trying(i)')
                          <= MaxAttempts + Cardinality(SessionsAt(i)) - 1
  BY DEF AttemptsInv, SessionsAt
<1>1. Trying(i)' \subseteq Trying(i)
  BY DEF Trying, SessionsAt
<1>2. Cardinality(Trying(i)') <= Cardinality(Trying(i)) /\ Cardinality(Trying(i)') \in Nat
  BY <1>1, TryingIsFinite, FS_Subset, FS_CardinalityType
<1>3. /\ refused[i] = attempts[i] /\ refused[i] \in Nat
      /\ refused[i] + Cardinality(Trying(i)) <= MaxAttempts + Cardinality(SessionsAt(i)) - 1
  BY DEF AttemptsInv, TypeOK
<1> QED
  BY <1>2, <1>3, TryingIsFinite, PrivateAssumption

(* The counter of an address starts again from 0. *)
LEMMA ForgottenAttempts ==
    ASSUME AttemptsInv, TypeOK, NEW i \in Ips, Forgotten(i),
           \A s \in Sessions :
              job'[s].step \in {"look", "refuse"} => job[s].step \in {"look", "refuse"}
    PROVE  /\ AttemptsInv'
           /\ attempts' \in [Ips -> Nat] /\ expiring' \in [Ips -> BOOLEAN]
           /\ refused' \in [Ips -> Nat] /\ cut' \subseteq Ips
<1>1. /\ attempts' \in [Ips -> Nat] /\ expiring' \in [Ips -> BOOLEAN]
      /\ refused' \in [Ips -> Nat] /\ cut' \subseteq Ips
      /\ attempts'[i] = 0 /\ refused'[i] = 0
      /\ \A a \in Ips \ {i} : attempts'[a] = attempts[a] /\ refused'[a] = refused[a]
  BY DEF Forgotten, TypeOK
<1>2. SUFFICES ASSUME NEW a \in Ips
              PROVE  /\ refused'[a] = attempts'[a]
                     /\ refused'[a] + Cardinality(Trying(a)')
                           <= MaxAttempts + Cardinality(SessionsAt(a)) - 1
  BY <1>1 DEF AttemptsInv, SessionsAt
<1>3. Trying(a)' \subseteq Trying(a)
  BY DEF Trying, SessionsAt
<1>4. Cardinality(Trying(a)') <= Cardinality(Trying(a)) /\ Cardinality(Trying(a)') \in Nat
  BY <1>3, TryingIsFinite, FS_Subset, FS_CardinalityType
<1>5. /\ refused[a] = attempts[a] /\ refused[a] \in Nat
      /\ refused[a] + Cardinality(Trying(a)) <= MaxAttempts + Cardinality(SessionsAt(a)) - 1
  BY DEF AttemptsInv, TypeOK
<1>6. CASE a = i
  BY <1>1, <1>4, <1>6, TryingIsFinite, PrivateAssumption
<1>7. CASE a # i
  BY <1>1, <1>4, <1>5, <1>7, TryingIsFinite, PrivateAssumption
<1> QED
  BY <1>6, <1>7

-----------------------------------------------------------------------------
(* The requests on files. *)

(* One step of a request that works on the vault with the key it took: it ends, *)
(* or goes on to its second half.                                            *)
WorkGoes(s) ==
    \/ End(s)
    \/ job[s].step = "act" /\ job[s].ask.op = "upload" /\ Goto(s, "commit")
    \/ job[s].step = "folder" /\ Goto(s, "file")

LEMMA WorkKeepsInv ==
    ASSUME Inv, NEW s \in Sessions, job[s].step \in {"act", "commit", "folder", "file"},
           Keeps(vault, vault', job[s].key, Owner), WorkGoes(s),
           spent' \in [work : 0..MaxWork, faults : 0..MaxFaults],
           UNCHANGED <<marker, redis, ghosts>>
    PROVE  Inv'
<1>1. PICK j \in Jobs :
        /\ job' = [job EXCEPT ![s] = j]
        /\ j.step \in {"idle", "commit", "file"}
        /\ j.step # "idle" => j.key = job[s].key /\ j.ask = job[s].ask
        /\ j.step = "commit" => j.ask.op = "upload"
        /\ j.step = "file" => job[s].step = "folder"
  <2>1. TypeOK
    BY DEF Inv
  <2>2. CASE End(s)
    BY <2>1, <2>2, JobStays DEF End, Idle
  <2>3. CASE job[s].step = "act" /\ job[s].ask.op = "upload" /\ Goto(s, "commit")
    <3>1. [job[s] EXCEPT !.step = "commit"] \in Jobs
      BY <2>1, JobStays DEF Steps
    <3>2. job' = [job EXCEPT ![s] = [job[s] EXCEPT !.step = "commit"]]
      BY <2>1, <2>3, JobStays DEF Goto, Steps
    <3> QED
      BY <2>1, <2>3, <3>1, <3>2, JobStays DEF Jobs
  <2>4. CASE job[s].step = "folder" /\ Goto(s, "file")
    <3>1. [job[s] EXCEPT !.step = "file"] \in Jobs
      BY <2>1, JobStays DEF Steps
    <3>2. job' = [job EXCEPT ![s] = [job[s] EXCEPT !.step = "file"]]
      BY <2>1, <2>4, JobStays DEF Goto, Steps
    <3> QED
      BY <2>1, <2>4, <3>1, <3>2, JobStays DEF Jobs
  <2> QED
    BY <2>2, <2>3, <2>4 DEF WorkGoes
<1>2. /\ job' \in [Sessions -> Jobs] /\ job'[s] = j
      /\ \A o \in Sessions \ {s} : job'[o] = job[o]
  BY <1>1, JobMoves DEF Inv
<1>3. TypeOK'
  BY <1>2 DEF Inv, TypeOK, Jobs, Keeps, redis, ghosts
<1>4. \A o \in Sessions : JobInv(o)'
  BY <1>1, <1>2 DEF Inv, JobInv, redis
<1>5. KeyInv'
  <2> SUFFICES ASSUME ~torn
               PROVE  /\ OneKeyed(vault', marker)
                      /\ \A o \in Sessions :
                            /\ held[o] \in {None, marker}
                            /\ AtWork(o)' => job'[o].key = marker
    BY DEF KeyInv, OneKeyed, Kept, Places, redis, ghosts
  <2>1. KeyInv
    BY DEF Inv
  <2>2. AtWork(s)
    BY DEF AtWork
  <2>3. OneKeyed(vault, marker) /\ job[s].key = marker
    BY <2>1, <2>2 DEF KeyInv
  <2>4. OneKeyed(vault', marker)
    BY <2>3 DEF Keeps
  <2>5. \A o \in Sessions : AtWork(o)' => job'[o].key = marker
    BY <1>1, <1>2, <2>1, <2>3 DEF KeyInv, AtWork
  <2> QED
    BY <2>1, <2>4, <2>5 DEF KeyInv
<1>6. Balanced(vault, Owner)'
  BY DEF Inv, Keeps
<1>7. AttemptsInv'
  BY <1>1, <1>2, NobodyTries DEF Inv, redis, ghosts
<1> QED
  BY <1>3, <1>4, <1>5, <1>6, <1>7 DEF Inv

(* What a request in hand works with. *)
LEMMA WorkHas ==
    ASSUME Inv, NEW s \in Sessions, job[s].step \in {"act", "commit", "folder", "file"}
    PROVE  /\ job[s].key \in VaultKeys /\ job[s].ask \in Asks /\ job[s].ask \in Ask
           /\ VaultType(vault) /\ Owner \in Users
           /\ RegistryPath \in Paths /\ RegistryPath # Root
           /\ <<KeysFolder>> \in Paths /\ <<KeysFolder>> # Root
           /\ spent \in [work : 0..MaxWork, faults : 0..MaxFaults]
<1>1. job[s].key \in VaultKeys /\ job[s].ask \in Asks /\ job[s].ask \in Ask
  BY AsksAssumption DEF Inv, JobInv
<1>2. <<KeysFolder>> \in [1..1 -> Names] /\ RegistryPath \in [1..2 -> Names]
  BY PrivateAssumption DEF RegistryPath
<1>3. 1 \in 0..MaxDepth /\ 2 \in 0..MaxDepth
  BY AsksAssumption, TreeAssumption
<1>4. <<KeysFolder>> \in Paths /\ RegistryPath \in Paths
  BY <1>2, <1>3 DEF Paths
<1>5. <<KeysFolder>> # Root /\ RegistryPath # Root
  BY DEF Root, RegistryPath
<1> QED
  BY <1>1, <1>4, <1>5, PrivateAssumption DEF Inv, TypeOK

LEMMA TargetIsAPath ==
    ASSUME NEW x \in Asks, x.op \in {"upload", "mkdir"}
    PROVE  Target(x) \in Paths /\ Target(x) # Root
<1>1. x \in Ask /\ x.to \in Names /\ x.at \in Paths /\ Len(x.at) < MaxDepth
  BY AsksAssumption DEF Ask
<1> QED
  BY <1>1, PathAppended DEF Target

LEMMA UploadMoveInv ==
    ASSUME Inv, NEW s \in Sessions, UploadMove(s)
    PROVE  Inv'
<1> DEFINE x == job[s].ask
           k == job[s].key
<1>1. /\ job[s].step = "act" /\ x.op = "upload"
      /\ UNCHANGED <<marker, redis, spent, ghosts>>
  BY DEF UploadMove
<1>2. /\ k \in VaultKeys /\ x \in Asks /\ VaultType(vault) /\ x.body \in Bodies
      /\ Target(x) \in Paths /\ Target(x) # Root
      /\ spent' \in [work : 0..MaxWork, faults : 0..MaxFaults]
  BY <1>1, WorkHas, TargetIsAPath, AsksAssumption
<1>3. Keeps(vault, vault', k, Owner) /\ WorkGoes(s)
  <2>1. CASE HasParent(vault, k, Target(x))
    <3>1. PICK e \in Entries : vault' = Put(vault, k, "file", Target(x), x.body, e)
      BY <2>1 DEF UploadMove, Places
    <3>2. EntriesMove(vault, vault', k)
      BY <1>2, <2>1, <3>1, PutMoves
    <3> QED
      BY <1>1, <1>2, <2>1, <3>2, EntriesKeep DEF UploadMove, WorkGoes
  <2>2. CASE ~HasParent(vault, k, Target(x))
    BY <1>2, <2>2, KeepsSelf DEF UploadMove, WorkGoes
  <2> QED
    BY <2>1, <2>2
<1> QED
  BY <1>1, <1>2, <1>3, WorkKeepsInv

LEMMA UploadCommitInv ==
    ASSUME Inv, NEW s \in Sessions, UploadCommit(s)
    PROVE  Inv'
<1> DEFINE x == job[s].ask
<1>1. /\ job[s].step = "commit" /\ FreeIds(vault) # {} /\ End(s)
      /\ vault' = Charged(Created(vault, Owner, Target(x), x.body, "committed"),
                          Owner, Size(x.body))
      /\ UNCHANGED <<marker, redis, spent, ghosts>>
  BY DEF UploadCommit
<1>2. x.op = "upload"
  BY <1>1 DEF Inv, JobInv
<1>3. /\ x \in Asks /\ VaultType(vault) /\ Owner \in Users
      /\ Target(x) \in Paths /\ x.body \in Bodies
      /\ spent' \in [work : 0..MaxWork, faults : 0..MaxFaults]
  BY <1>1, <1>2, WorkHas, TargetIsAPath, AsksAssumption
<1> HIDE DEF x
<1>4. Keeps(vault, vault', job[s].key, Owner)
  BY <1>1, <1>3, CreatedKeeps
<1> QED
  BY <1>1, <1>3, <1>4, WorkKeepsInv DEF WorkGoes

LEMMA UploadFailsInv ==
    ASSUME Inv, NEW s \in Sessions, UploadFails(s)
    PROVE  Inv'
<1>1. /\ job[s].step \in {"act", "commit"} /\ End(s) /\ (Fault("store") \/ Fault("abort"))
      /\ UNCHANGED <<vault, marker, redis, ghosts>>
  BY DEF UploadFails
<1>2. VaultType(vault) /\ spent \in [work : 0..MaxWork, faults : 0..MaxFaults]
  BY <1>1, WorkHas
<1>3. spent' \in [work : 0..MaxWork, faults : 0..MaxFaults]
  BY <1>1, <1>2, PrivateAssumption DEF Fault
<1>4. Keeps(vault, vault', job[s].key, Owner)
  BY <1>1, <1>2, KeepsSelf
<1> QED
  BY <1>1, <1>3, <1>4, WorkKeepsInv DEF WorkGoes

(* A request that ends with the result of its operation. *)
LEMMA AskEndInv ==
    ASSUME Inv, NEW s \in Sessions, job[s].step \in {"act", "commit", "folder", "file"},
           NEW result, AskEnd(s, result), ResultKeeps(vault, result, job[s].key, Owner)
    PROVE  Inv'
<1>1. VaultType(vault) /\ spent \in [work : 0..MaxWork, faults : 0..MaxFaults]
  BY WorkHas
<1>2. Keeps(vault, vault', job[s].key, Owner)
  BY <1>1, CommittedKeeps DEF AskEnd
<1> QED
  BY <1>1, <1>2, WorkKeepsInv DEF AskEnd, WorkGoes

LEMMA MkdirInv ==
    ASSUME Inv, NEW s \in Sessions, Mkdir(s)
    PROVE  Inv'
<1> DEFINE x == job[s].ask
           k == job[s].key
<1>1. PICK e \in Places(vault) : AskEnd(s, VaultMkdir(vault, k, Target(x), e))
  BY DEF Mkdir, Act
<1>2. job[s].step = "act" /\ x.op = "mkdir" /\ e \in Entries
  BY DEF Mkdir, Act, Places
<1>3. /\ k \in VaultKeys /\ x \in Asks /\ VaultType(vault)
      /\ Target(x) \in Paths /\ Target(x) # Root
  BY <1>2, WorkHas, TargetIsAPath
<1>4. ResultKeeps(vault, VaultMkdir(vault, k, Target(x), e), k, Owner)
  BY <1>2, <1>3, MkdirKeeps
<1> QED
  BY <1>1, <1>2, <1>4, AskEndInv

LEMMA RenameInv ==
    ASSUME Inv, NEW s \in Sessions, Rename(s)
    PROVE  Inv'
<1> DEFINE x == job[s].ask
           k == job[s].key
<1>1. PICK e \in Places(vault) : AskEnd(s, VaultRenamed(vault, k, x.at, x.to, e))
  BY DEF Rename, Act
<1>2. job[s].step = "act" /\ x.op = "rename"
  BY DEF Rename, Act
<1>3. /\ k \in VaultKeys /\ x \in Asks /\ VaultType(vault) /\ Owner \in Users
      /\ x.at \in Paths /\ x.at # Root /\ x.to \in Names
  BY <1>2, WorkHas, AsksAssumption DEF Ask
<1>4. ResultKeeps(vault, VaultRenamed(vault, k, x.at, x.to, e), k, Owner)
  BY <1>3, RenameKeeps
<1> QED
  BY <1>1, <1>2, <1>4, AskEndInv

LEMMA DeleteInv ==
    ASSUME Inv, NEW s \in Sessions, Delete(s)
    PROVE  Inv'
<1> DEFINE x == job[s].ask
           k == job[s].key
<1>1. PICK e \in Places(vault) : AskEnd(s, VaultDeleted(vault, k, Owner, x.at))
  BY DEF Delete, Act
<1>2. job[s].step = "act"
  BY DEF Delete, Act
<1>3. x \in Ask /\ VaultType(vault) /\ Owner \in Users /\ x.at \in Paths
  BY <1>2, WorkHas DEF Ask
<1>4. ResultKeeps(vault, VaultDeleted(vault, k, Owner, x.at), k, Owner)
  BY <1>3, DeleteKeeps
<1> QED
  BY <1>1, <1>2, <1>4, AskEndInv

LEMMA KeysFolderReadyInv ==
    ASSUME Inv, NEW s \in Sessions, KeysFolderReady(s)
    PROVE  Inv'
<1> DEFINE k == job[s].key
           p == <<KeysFolder>>
<1>1. /\ job[s].step = "folder" /\ Goto(s, "file")
      /\ UNCHANGED <<marker, redis, spent, ghosts>>
      /\ \/ vault' = vault
         \/ \E e \in Places(vault) : vault' = Put(vault, k, "dir", p, 0, e)
  BY DEF KeysFolderReady
<1>2. /\ k \in VaultKeys /\ VaultType(vault) /\ p \in Paths /\ p # Root
      /\ spent' \in [work : 0..MaxWork, faults : 0..MaxFaults]
  BY <1>1, WorkHas
<1>3. HasParent(vault, k, p)
  <2>1. Front(p) = Root
    BY DEF Front, Root
  <2> QED
    BY <2>1, RootIsTop, VaultAssumption DEF HasParent
<1> HIDE DEF p
<1>4. Keeps(vault, vault', k, Owner)
  <2>1. CASE vault' = vault
    BY <1>2, <2>1, KeepsSelf
  <2>2. ASSUME NEW e \in Places(vault), vault' = Put(vault, k, "dir", p, 0, e)
        PROVE  Keeps(vault, vault', k, Owner)
    <3>1. e \in Entries
      BY DEF Places
    <3>2. EntriesMove(vault, vault', k)
      BY <1>2, <1>3, <2>2, <3>1, PutMoves
    <3> QED
      BY <1>2, <3>2, EntriesKeep
  <2> QED
    BY <1>1, <2>1, <2>2
<1> QED
  BY <1>1, <1>2, <1>4, WorkKeepsInv DEF WorkGoes

LEMMA KeysDoneInv ==
    ASSUME Inv, NEW s \in Sessions, KeysDone(s)
    PROVE  Inv'
<1> DEFINE x == job[s].ask
           k == job[s].key
           result(e) == IF x.op = "listKeys" THEN RegistryListed(k, e)
                        ELSE RegistryWritten(k, x.body, e)
<1>1. PICK e \in Places(vault) : AskEnd(s, result(e))
  BY DEF KeysDone
<1>2. /\ job[s].step = "file" /\ FreeIds(vault) # {} /\ e \in Entries
      /\ x.op \in {"listKeys", "saveKeys"}
  BY DEF KeysDone, Free, Places, Inv, JobInv
<1>3. /\ k \in VaultKeys /\ x \in Asks /\ VaultType(vault) /\ Owner \in Users
      /\ RegistryPath \in Paths /\ RegistryPath # Root
      /\ NoKeys \in Bodies
      /\ x.op = "saveKeys" => x.body \in Bodies
  BY <1>2, WorkHas, PrivateAssumption, AsksAssumption
<1>4. ASSUME NEW b \in Bodies
      PROVE  ResultKeeps(vault, RegistryWritten(k, b, e), k, Owner)
  BY <1>2, <1>3, OverwriteKeeps DEF RegistryWritten
<1>5. ResultKeeps(vault, RegistryListed(k, e), k, Owner)
  <2>1. ResultKeeps(vault, Done(Healed(vault, RegistryPath)), k, Owner)
    BY <1>3, HealedMoves, RowsKeep DEF ResultKeeps
  <2>2. ResultKeeps(vault, Raised(vault), k, Owner)
    BY DEF ResultKeeps
  <2>3. ResultKeeps(vault, RegistryWritten(k, NoKeys, e), k, Owner)
    BY <1>3, <1>4
  <2>4. \/ RegistryListed(k, e) = RegistryWritten(k, NoKeys, e)
        \/ RegistryListed(k, e) = Raised(vault)
        \/ RegistryListed(k, e) = Done(Healed(vault, RegistryPath))
    BY DEF RegistryListed
  <2> QED
    BY <2>1, <2>2, <2>3, <2>4
<1>6. ResultKeeps(vault, result(e), k, Owner)
  <2>1. CASE x.op = "listKeys"
    <3>1. result(e) = RegistryListed(k, e)
      BY <2>1
    <3> HIDE DEF result
    <3> QED
      BY <1>5, <3>1
  <2>2. CASE x.op # "listKeys"
    <3>1. result(e) = RegistryWritten(k, x.body, e) /\ x.body \in Bodies
      BY <1>2, <1>3, <2>2
    <3> HIDE DEF result
    <3> QED
      BY <1>4, <3>1
  <2> QED
    BY <2>1, <2>2
<1> HIDE DEF result
<1> QED
  BY <1>1, <1>2, <1>6, AskEndInv

-----------------------------------------------------------------------------
(* The steps at which a request begins. *)

(* An idle session takes up a request that does not try a passphrase; it may    *)
(* lose its key by it.                                                       *)
LEMMA StartInv ==
    ASSUME Inv, NEW s \in Sessions, NEW step, NEW key, NEW ask, Start(s, step, key, ask),
           [step |-> step, key |-> key, ask |-> ask] \in Jobs,
           \/ step \in {"act", "folder"} /\ key = held[s] /\ key \in VaultKeys
                 /\ ask \in Asks /\ held' = held
                 /\ (step = "folder" => ask.op \in {"listKeys", "saveKeys"})
           \/ step = "wipe" /\ held' = [held EXCEPT ![s] = None],
           spent' \in [work : 0..MaxWork, faults : 0..MaxFaults],
           UNCHANGED <<vault, marker, attempts, expiring, ghosts>>
    PROVE  Inv'
<1> DEFINE j == [step |-> step, key |-> key, ask |-> ask]
<1>1. /\ job' \in [Sessions -> Jobs] /\ job'[s] = j
      /\ \A o \in Sessions \ {s} : job'[o] = job[o]
  BY JobMoves DEF Inv, Start
<1>2. /\ held' \in [Sessions -> VaultKeys \cup {None}]
      /\ \A o \in Sessions : held'[o] \in {None, held[o]}
      /\ step = "wipe" => held'[s] = None
  BY DEF Inv, TypeOK
<1>3. TypeOK'
  BY <1>1, <1>2 DEF Inv, TypeOK, Jobs, ghosts
<1>4. \A o \in Sessions : JobInv(o)'
  BY <1>1, <1>2 DEF Inv, JobInv
<1>5. KeyInv'
  <2> SUFFICES ASSUME ~torn
               PROVE  /\ OneKeyed(vault, marker)
                      /\ \A o \in Sessions :
                            /\ held'[o] \in {None, marker}
                            /\ AtWork(o)' => job'[o].key = marker
    BY DEF KeyInv, OneKeyed, Kept, Places, ghosts
  <2>1. KeyInv
    BY DEF Inv
  <2>2. \A o \in Sessions : held'[o] \in {None, marker}
    BY <1>2, <2>1 DEF KeyInv
  <2>3. AtWork(s)' => j.key = marker
    BY <1>1, <2>1, VaultAssumption DEF KeyInv, AtWork
  <2>4. \A o \in Sessions : AtWork(o)' => job'[o].key = marker
    BY <1>1, <2>1, <2>3 DEF KeyInv, AtWork
  <2> QED
    BY <2>1, <2>2, <2>4 DEF KeyInv
<1>6. Balanced(vault, Owner)'
  BY DEF Inv
<1>7. AttemptsInv'
  BY <1>1, NobodyTries DEF Inv, ghosts
<1> QED
  BY <1>3, <1>4, <1>5, <1>6, <1>7 DEF Inv

LEMMA WorkSpends ==
    ASSUME Inv, NEW n \in Nat, Work(n)
    PROVE  spent' \in [work : 0..MaxWork, faults : 0..MaxFaults]
<1>1. /\ spent \in [work : 0..MaxWork, faults : 0..MaxFaults]
      /\ spent.work + n <= MaxWork /\ spent' = [spent EXCEPT !.work = spent.work + n]
  BY DEF Inv, TypeOK, Work
<1>2. spent.work + n \in 0..MaxWork
  BY <1>1, PrivateAssumption
<1> QED
  BY <1>1, <1>2

LEMMA AskBeginInv ==
    ASSUME Inv, NEW s \in Sessions, AskBegin(s)
    PROVE  Inv'
<1>1. PICK x \in Asks :
        Start(s, IF x.op \in {"listKeys", "saveKeys"} THEN "folder" ELSE "act", held[s], x)
  BY DEF AskBegin
<1>2. /\ held[s] \in VaultKeys /\ x \in Ask
      /\ UNCHANGED <<vault, marker, held, attempts, expiring, ghosts>>
      /\ spent' \in [work : 0..MaxWork, faults : 0..MaxFaults]
  BY WorkSpends, AsksAssumption DEF AskBegin, Inv, TypeOK, redis
<1> DEFINE step == IF x.op \in {"listKeys", "saveKeys"} THEN "folder" ELSE "act"
<1>3. /\ step \in {"act", "folder"} /\ step \in Steps
      /\ step = "folder" => x.op \in {"listKeys", "saveKeys"}
  BY DEF Steps
<1>4. Start(s, step, held[s], x)
  BY <1>1
<1> HIDE DEF step
<1>5. [step |-> step, key |-> held[s], ask |-> x] \in Jobs
  BY <1>2, <1>3 DEF Jobs
<1> QED
  BY <1>2, <1>3, <1>4, <1>5, StartInv

LEMMA ResetBeginInv ==
    ASSUME Inv, NEW s \in Sessions, ResetBegin(s)
    PROVE  Inv'
<1>1. /\ Start(s, "wipe", None, NoAsk) /\ Work(1) /\ held' = [held EXCEPT ![s] = None]
      /\ UNCHANGED <<vault, marker, attempts, expiring, ghosts>>
  BY DEF ResetBegin, Try
<1>2. [step |-> "wipe", key |-> None, ask |-> NoAsk] \in Jobs
  BY DEF Jobs, Steps
<1> QED
  BY <1>1, <1>2, StartInv, WorkSpends

-----------------------------------------------------------------------------
(* POST /unlock. *)

(* A session that tries an allowed number of times: one more may be refused.   *)
LEMMA UnlockBeginInv ==
    ASSUME Inv, NEW s \in Sessions, UnlockBegin(s)
    PROVE  Inv'
<1>1. PICK k \in Passphrases : Try(s, "look", k)
  BY DEF UnlockBegin
<1> DEFINE j == [step |-> "look", key |-> k, ask |-> NoAsk]
<1>2. /\ job[s] = Idle /\ job' = [job EXCEPT ![s] = j] /\ attempts[Ip[s]] < MaxAttempts
      /\ j \in Jobs /\ k \in VaultKeys
      /\ UNCHANGED <<vault, marker, redis, ghosts>>
      /\ spent' \in [work : 0..MaxWork, faults : 0..MaxFaults]
  BY <1>1, WorkSpends, PrivateAssumption DEF UnlockBegin, MayUnlock, Try, Start, Jobs, Steps
<1>3. /\ job' \in [Sessions -> Jobs] /\ job'[s] = j
      /\ \A o \in Sessions \ {s} : job'[o] = job[o]
  BY <1>2, JobMoves DEF Inv
<1>4. TypeOK'
  BY <1>2, <1>3 DEF Inv, TypeOK, Jobs, redis, ghosts
<1>5. \A o \in Sessions : JobInv(o)'
  BY <1>2, <1>3 DEF Inv, JobInv, redis
<1>6. KeyInv'
  BY <1>2, <1>3 DEF Inv, KeyInv, AtWork, OneKeyed, Kept, Places, redis, ghosts
<1>7. Balanced(vault, Owner)'
  BY <1>2 DEF Inv
<1>8. AttemptsInv'
  <2> SUFFICES ASSUME NEW i \in Ips
               PROVE  /\ refused[i] = attempts[i]
                      /\ refused[i] + Cardinality(Trying(i)')
                            <= MaxAttempts + Cardinality(SessionsAt(i)) - 1
    BY <1>2 DEF AttemptsInv, SessionsAt, redis, ghosts
  <2>1. /\ refused[i] = attempts[i] /\ refused[i] \in Nat
        /\ refused[i] + Cardinality(Trying(i)) <= MaxAttempts + Cardinality(SessionsAt(i)) - 1
    BY DEF Inv, AttemptsInv, TypeOK
  <2>2. CASE i = Ip[s]
    <3>1. Trying(i)' \subseteq SessionsAt(i)
      BY DEF Trying, SessionsAt
    <3>2. Cardinality(Trying(i)') <= Cardinality(SessionsAt(i)) /\ Cardinality(Trying(i)') \in Nat
      BY <3>1, TryingIsFinite, FS_Subset, FS_CardinalityType
    <3>3. refused[i] <= MaxAttempts - 1
      BY <1>2, <2>1, <2>2, PrivateAssumption
    <3> QED
      BY <2>1, <3>2, <3>3, TryingIsFinite, PrivateAssumption
  <2>3. CASE i # Ip[s]
    <3>1. Trying(i)' = Trying(i)
      BY <1>3, <2>3 DEF Trying, SessionsAt
    <3> QED
      BY <2>1, <3>1
  <2> QED
    BY <2>2, <2>3
<1> QED
  BY <1>4, <1>5, <1>6, <1>7, <1>8 DEF Inv

(* The verdict is reached in one step with the look at the marker. *)
LEMMA UnlockLookInv ==
    ASSUME Inv, NEW s \in Sessions, UnlockLook(s)
    PROVE  Inv'
<1> DEFINE v == Verdict(job[s].key)
           j == [job[s] EXCEPT !.step = v]
<1>1. /\ v \in {"write", "grant", "refuse"}
      /\ v = "grant" => marker = job[s].key
      /\ v \in Steps
  BY DEF Verdict, Steps
<1> HIDE DEF v
<1>2. /\ job[s].step = "look" /\ job' = [job EXCEPT ![s] = j] /\ j \in Jobs
      /\ UNCHANGED <<vault, marker, redis, spent, ghosts>>
  BY <1>1, JobStays DEF UnlockLook, Goto, Inv, v
<1>3. /\ job' \in [Sessions -> Jobs] /\ job'[s] = j
      /\ \A o \in Sessions \ {s} : job'[o] = job[o]
  BY <1>2, JobMoves DEF Inv
<1>4. j.step = v /\ j.key = job[s].key
  BY <1>2, JobStays DEF Inv, Jobs
<1> HIDE DEF j
<1>5. TypeOK'
  BY <1>2, <1>3 DEF Inv, TypeOK, Jobs, redis, ghosts
<1>6. \A o \in Sessions : JobInv(o)'
  BY <1>1, <1>2, <1>3, <1>4 DEF Inv, JobInv, redis
<1>7. KeyInv'
  BY <1>1, <1>2, <1>3, <1>4 DEF Inv, KeyInv, AtWork, OneKeyed, Kept, Places, redis, ghosts
<1>8. Balanced(vault, Owner)'
  BY <1>2 DEF Inv
<1>9. AttemptsInv'
  BY <1>2, <1>3, NobodyTries DEF Inv, redis, ghosts
<1> QED
  BY <1>5, <1>6, <1>7, <1>8, <1>9 DEF Inv

(* The marker is written; torn remembers whether another key had a part.       *)
LEMMA UnlockWriteInv ==
    ASSUME Inv, NEW s \in Sessions, UnlockWrite(s)
    PROVE  Inv'
<1> DEFINE k == job[s].key
           j == [job[s] EXCEPT !.step = "grant"]
<1>1. /\ job[s].step = "write" /\ job' = [job EXCEPT ![s] = j] /\ j \in Jobs
      /\ marker' = k /\ torn' = (torn \/ Contested(k))
      /\ UNCHANGED <<vault, redis, spent, refused, cut>>
  BY JobStays DEF UnlockWrite, Goto, Inv, Steps
<1>2. /\ job' \in [Sessions -> Jobs] /\ job'[s] = j
      /\ \A o \in Sessions \ {s} : job'[o] = job[o]
  BY <1>1, JobMoves DEF Inv
<1>3. j.step = "grant" /\ j.key = k /\ k \in VaultKeys
  BY <1>1, JobStays DEF Inv, Jobs, JobInv
<1> HIDE DEF j, k
<1>4. TypeOK'
  <2>1. torn' \in BOOLEAN
    BY <1>1 DEF Inv, TypeOK
  <2> QED
    BY <1>1, <1>2, <1>3, <2>1 DEF Inv, TypeOK, Jobs, redis
<1>5. \A o \in Sessions : JobInv(o)'
  BY <1>1, <1>2, <1>3 DEF Inv, JobInv, redis
<1>6. KeyInv'
  <2> SUFFICES ASSUME ~torn, ~Contested(k)
               PROVE  /\ OneKeyed(vault, k)
                      /\ \A o \in Sessions :
                            /\ held[o] \in {None, k}
                            /\ AtWork(o)' => job'[o].key = k
    BY <1>1 DEF KeyInv, OneKeyed, Kept, Places, redis
  <2>1. OneKeyed(vault, k) /\ \A o \in Sessions : held[o] \in {None, k}
    BY DEF Contested, OneKeyed
  <2>2. \A o \in Sessions : AtWork(o) => job[o].key = k
    BY DEF Contested
  <2>3. \A o \in Sessions : AtWork(o)' => job'[o].key = k
    BY <1>2, <1>3, <2>2 DEF AtWork
  <2> QED
    BY <2>1, <2>3
<1>7. Balanced(vault, Owner)'
  BY <1>1 DEF Inv
<1>8. AttemptsInv'
  BY <1>1, <1>2, <1>3, NobodyTries DEF Inv, redis
<1> QED
  BY <1>4, <1>5, <1>6, <1>7, <1>8 DEF Inv

LEMMA UnlockGrantInv ==
    ASSUME Inv, NEW s \in Sessions, UnlockGrant(s)
    PROVE  Inv'
<1>1. /\ job[s].step = "grant" /\ job' = [job EXCEPT ![s] = Idle] /\ Idle \in Jobs
      /\ held' = [held EXCEPT ![s] = job[s].key] /\ Forgotten(Ip[s])
      /\ UNCHANGED <<vault, marker, spent, torn>>
  BY JobStays DEF UnlockGrant, End, Inv
<1>2. /\ job' \in [Sessions -> Jobs] /\ job'[s] = Idle
      /\ \A o \in Sessions \ {s} : job'[o] = job[o]
  BY <1>1, JobMoves DEF Inv
<1>3. /\ job[s].key \in VaultKeys /\ held' \in [Sessions -> VaultKeys \cup {None}]
      /\ held'[s] = job[s].key /\ \A o \in Sessions \ {s} : held'[o] = held[o]
  BY <1>1 DEF Inv, TypeOK, JobInv
<1>4. /\ AttemptsInv'
      /\ attempts' \in [Ips -> Nat] /\ expiring' \in [Ips -> BOOLEAN]
      /\ refused' \in [Ips -> Nat] /\ cut' \subseteq Ips
  <2>1. Ip[s] \in Ips
    BY PrivateAssumption
  <2> QED
    BY <1>1, <1>2, <2>1, ForgottenAttempts DEF Inv, Idle
<1>5. TypeOK'
  BY <1>1, <1>2, <1>3, <1>4 DEF Inv, TypeOK, Jobs
<1>6. \A o \in Sessions : JobInv(o)'
  BY <1>2, <1>3 DEF Inv, JobInv, Idle
<1>7. KeyInv'
  BY <1>1, <1>2, <1>3 DEF Inv, KeyInv, AtWork, Idle, OneKeyed, Kept, Places
<1>8. Balanced(vault, Owner)'
  BY <1>1 DEF Inv
<1> QED
  BY <1>4, <1>5, <1>6, <1>7, <1>8 DEF Inv

(* The session that is refused leaves those that may still be. *)
LEMMA UnlockRefuseInv ==
    ASSUME Inv, NEW s \in Sessions, UnlockRefuse(s)
    PROVE  Inv'
<1> DEFINE a == Ip[s]
<1>1. PICK j \in Jobs : /\ job' = [job EXCEPT ![s] = j]
                        /\ j.step \in {"idle", "count"}
  <2>1. CASE attempts[Ip[s]] = 0
    <3>1. /\ [job[s] EXCEPT !.step = "count"] \in Jobs
          /\ job' = [job EXCEPT ![s] = [job[s] EXCEPT !.step = "count"]]
      BY <2>1, JobStays DEF UnlockRefuse, Goto, Inv, Steps
    <3> QED
      BY <3>1, JobStays DEF Inv, Jobs
  <2>2. CASE attempts[Ip[s]] # 0
    BY <2>2, JobStays DEF UnlockRefuse, End, Inv, Idle
  <2> QED
    BY <2>1, <2>2
<1>2. /\ job[s].step = "refuse"
      /\ refused' = [refused EXCEPT ![a] = refused[a] + 1]
      /\ attempts' = [attempts EXCEPT ![a] = attempts[a] + 1]
      /\ UNCHANGED <<vault, marker, held, expiring, spent, torn, cut>>
  BY DEF UnlockRefuse
<1>3. /\ job' \in [Sessions -> Jobs] /\ job'[s] = j
      /\ \A o \in Sessions \ {s} : job'[o] = job[o]
  BY <1>1, JobMoves DEF Inv
<1>4. /\ a \in Ips /\ refused' \in [Ips -> Nat] /\ attempts' \in [Ips -> Nat]
  BY <1>2, PrivateAssumption DEF Inv, TypeOK
<1>5. TypeOK'
  BY <1>2, <1>3, <1>4 DEF Inv, TypeOK, Jobs
<1>6. \A o \in Sessions : JobInv(o)'
  BY <1>1, <1>2, <1>3 DEF Inv, JobInv
<1>7. KeyInv'
  BY <1>1, <1>2, <1>3 DEF Inv, KeyInv, AtWork, OneKeyed, Kept, Places
<1>8. Balanced(vault, Owner)'
  BY <1>2 DEF Inv
<1>9. AttemptsInv'
  <2> SUFFICES ASSUME NEW i \in Ips
               PROVE  /\ refused'[i] = attempts'[i]
                      /\ refused'[i] + Cardinality(Trying(i)')
                            <= MaxAttempts + Cardinality(SessionsAt(i)) - 1
    BY DEF AttemptsInv, SessionsAt
  <2>1. /\ refused[i] = attempts[i] /\ refused[i] \in Nat
        /\ refused[i] + Cardinality(Trying(i)) <= MaxAttempts + Cardinality(SessionsAt(i)) - 1
    BY DEF Inv, AttemptsInv, TypeOK
  <2>2. CASE i = a
    <3>1. s \in Trying(i) /\ Trying(i)' = Trying(i) \ {s}
      BY <1>1, <1>2, <1>3, <2>2 DEF Trying, SessionsAt
    <3>2. Cardinality(Trying(i)') = Cardinality(Trying(i)) - 1
      BY <3>1, TryingIsFinite, FS_RemoveElement
    <3>3. refused'[i] = refused[i] + 1 /\ attempts'[i] = attempts[i] + 1
      BY <1>2, <2>2 DEF Inv, TypeOK
    <3> QED
      BY <2>1, <3>2, <3>3, TryingIsFinite, PrivateAssumption
  <2>3. CASE i # a
    <3>1. Trying(i)' = Trying(i)
      BY <1>3, <2>3 DEF Trying, SessionsAt
    <3>2. refused'[i] = refused[i] /\ attempts'[i] = attempts[i]
      BY <1>2, <2>3 DEF Inv, TypeOK
    <3> QED
      BY <2>1, <3>1, <3>2
  <2> QED
    BY <2>2, <2>3
<1> QED
  BY <1>5, <1>6, <1>7, <1>8, <1>9 DEF Inv

(* A step that ends a request or touches none, and may take a key or set a time *)
(* to live: Lock, the end of an unlock, an aborted reset.                    *)
LEMMA QuietInv ==
    ASSUME Inv, UNCHANGED <<vault, marker, attempts, refused, torn>>,
           held' \in [Sessions -> VaultKeys \cup {None}],
           \A o \in Sessions : held'[o] \in {None, held[o]},
           job' = job \/ \E s \in Sessions : End(s),
           expiring' \in [Ips -> BOOLEAN], cut' \subseteq Ips,
           spent' \in [work : 0..MaxWork, faults : 0..MaxFaults]
    PROVE  Inv'
<1>1. job' \in [Sessions -> Jobs] /\ \A o \in Sessions : job'[o] \in {Idle, job[o]}
  BY JobMoves, JobStays DEF Inv, End, TypeOK, Jobs
<1>2. TypeOK'
  BY <1>1 DEF Inv, TypeOK, Jobs
<1>3. \A o \in Sessions : JobInv(o)'
  <2> SUFFICES ASSUME NEW o \in Sessions PROVE JobInv(o)'
    OBVIOUS
  <2>1. JobInv(o) /\ held'[o] \in {None, held[o]}
    BY DEF Inv
  <2>2. CASE job'[o] = Idle
    BY <2>2 DEF JobInv, Idle
  <2>3. CASE job'[o] = job[o]
    BY <2>1, <2>3 DEF JobInv
  <2> QED
    BY <1>1, <2>2, <2>3
<1>4. KeyInv'
  <2>1. \A o \in Sessions : AtWork(o)' => AtWork(o) /\ job'[o] = job[o]
    BY <1>1 DEF AtWork, Idle
  <2> QED
    BY <2>1 DEF Inv, KeyInv, OneKeyed, Kept, Places
<1>5. Balanced(vault, Owner)'
  BY DEF Inv
<1>6. AttemptsInv'
  BY <1>1, NobodyTries DEF Inv, Idle
<1> QED
  BY <1>2, <1>3, <1>4, <1>5, <1>6 DEF Inv

LEMMA UnlockExpireInv ==
    ASSUME Inv, NEW s \in Sessions, UnlockExpire(s)
    PROVE  Inv'
<1>1. /\ End(s) /\ UNCHANGED <<vault, marker, held, attempts, spent, ghosts>>
      /\ expiring' = [expiring EXCEPT ![Ip[s]] = NeedsTtl(attempts[Ip[s]])]
  BY DEF UnlockExpire
<1>2. NeedsTtl(attempts[Ip[s]]) \in BOOLEAN
  BY DEF NeedsTtl
<1>3. expiring' \in [Ips -> BOOLEAN]
  BY <1>1, <1>2 DEF Inv, TypeOK
<1> QED
  BY <1>1, <1>3, QuietInv DEF Inv, TypeOK, ghosts

LEMMA FaultSpends ==
    ASSUME Inv, NEW kind, Fault(kind)
    PROVE  spent' \in [work : 0..MaxWork, faults : 0..MaxFaults]
<1>1. /\ spent \in [work : 0..MaxWork, faults : 0..MaxFaults] /\ spent.faults < MaxFaults
      /\ spent' = [spent EXCEPT !.faults = spent.faults + 1]
  BY DEF Inv, TypeOK, Fault
<1>2. spent.faults + 1 \in 0..MaxFaults
  BY <1>1, PrivateAssumption
<1> QED
  BY <1>1, <1>2

LEMMA UnlockCrashInv ==
    ASSUME Inv, NEW s \in Sessions, UnlockCrash(s)
    PROVE  Inv'
<1>1. /\ Fault("crash") /\ End(s)
      /\ cut' \in {cut, cut \cup {Ip[s]}}
      /\ UNCHANGED <<vault, marker, redis, refused, torn>>
  BY DEF UnlockCrash
<1>2. cut' \subseteq Ips
  BY <1>1, PrivateAssumption DEF Inv, TypeOK
<1> QED
  BY <1>1, <1>2, QuietInv, FaultSpends DEF Inv, TypeOK, redis

LEMMA CounterExpiresInv ==
    ASSUME Inv, NEW i \in Ips, CounterExpires(i)
    PROVE  Inv'
<1>1. Forgotten(i) /\ UNCHANGED <<vault, marker, held, job, spent, torn>>
  BY DEF CounterExpires
<1>2. /\ AttemptsInv'
      /\ attempts' \in [Ips -> Nat] /\ expiring' \in [Ips -> BOOLEAN]
      /\ refused' \in [Ips -> Nat] /\ cut' \subseteq Ips
  BY <1>1, ForgottenAttempts DEF Inv
<1> QED
  BY <1>1, <1>2 DEF Inv, TypeOK, JobInv, KeyInv, OneKeyed, Kept, Places, AtWork

-----------------------------------------------------------------------------
(* POST /lock and POST /reset. *)

LEMMA LockInv ==
    ASSUME Inv, NEW s \in Sessions, Lock(s)
    PROVE  Inv'
<1>1. /\ held' = [held EXCEPT ![s] = None]
      /\ UNCHANGED <<vault, marker, attempts, expiring, job, spent, ghosts>>
  BY DEF Lock
<1>2. /\ held' \in [Sessions -> VaultKeys \cup {None}]
      /\ \A o \in Sessions : held'[o] \in {None, held[o]}
  BY <1>1 DEF Inv, TypeOK
<1> QED
  BY <1>1, <1>2, QuietInv DEF Inv, TypeOK, ghosts

(* The wipe leaves nothing under any key; torn tells whether somebody was in.   *)
LEMMA ResetWipeInv ==
    ASSUME Inv, NEW s \in Sessions, ResetWipe(s)
    PROVE  Inv'
<1> DEFINE j == [job[s] EXCEPT !.step = "clear"]
<1>1. /\ job[s].step = "wipe" /\ job' = [job EXCEPT ![s] = j] /\ j \in Jobs
      /\ vault' = Dropped(vault, Entries) /\ marker' = None
      /\ torn' = (torn \/ \E o \in Sessions \ {s} : held[o] # None \/ AtWork(o))
      /\ UNCHANGED <<redis, spent, refused, cut>>
  BY JobStays DEF ResetWipe, Goto, Inv, Steps
<1>2. /\ job' \in [Sessions -> Jobs] /\ job'[s] = j
      /\ \A o \in Sessions \ {s} : job'[o] = job[o]
  BY <1>1, JobMoves DEF Inv
<1>3. j.step = "clear" /\ held[s] = None
  BY <1>1, JobStays DEF Inv, Jobs, JobInv
<1> HIDE DEF j
<1>4. VaultType(vault) /\ VaultType(vault') /\ Keeps(vault, vault', None, Owner)
  <2>1. VaultType(vault)
    BY DEF Inv, TypeOK
  <2> QED
    BY <1>1, <2>1, DroppedMoves, EntriesKeep DEF EntriesMove
<1>5. Places(vault') = Entries
  BY <1>1, <1>4 DEF Dropped, Places, NoEntry, VaultType
<1>6. TypeOK'
  <2>1. torn' \in BOOLEAN
    BY <1>1 DEF Inv, TypeOK
  <2> QED
    BY <1>1, <1>2, <1>4, <2>1 DEF Inv, TypeOK, Jobs, redis
<1>7. \A o \in Sessions : JobInv(o)'
  BY <1>1, <1>2, <1>3 DEF Inv, JobInv, redis
<1>8. KeyInv'
  <2> SUFFICES ASSUME \A o \in Sessions \ {s} : held[o] = None /\ ~AtWork(o)
               PROVE  /\ OneKeyed(vault', None)
                      /\ \A o \in Sessions : held[o] = None /\ ~AtWork(o)'
    BY <1>1 DEF KeyInv, OneKeyed, Kept, Places, redis
  <2>1. OneKeyed(vault', None)
    BY <1>5 DEF OneKeyed, Kept
  <2>2. \A o \in Sessions : held[o] = None /\ ~AtWork(o)'
    BY <1>2, <1>3 DEF AtWork
  <2> QED
    BY <2>1, <2>2
<1>9. Balanced(vault, Owner)'
  BY <1>4 DEF Inv, Keeps
<1>10. AttemptsInv'
  BY <1>1, <1>2, <1>3, NobodyTries DEF Inv, redis
<1> QED
  BY <1>6, <1>7, <1>8, <1>9, <1>10 DEF Inv

(* No record is archived, so that the committed ones are all that counts.       *)
LEMMA ClearedKeeps ==
    ASSUME NEW t, VaultType(t), NEW k, Balanced(t, Owner)
    PROVE  Keeps(t, Cleared(t), k, Owner)
<1> DEFINE n == Cleared(t)
<1>1. /\ n.ent = t.ent
      /\ n.row = [r \in Ids |-> IF r \in {x \in Ids : t.row[x].status = "committed"}
                                THEN [t.row[r] EXCEPT !.status = "deleted"] ELSE t.row[r]]
      /\ n.used = [t.used EXCEPT ![Owner] = 0]
      /\ n = [t EXCEPT !.row = n.row, !.used = n.used]
  BY DEF Cleared, RowsDeleted, VaultType
<1> HIDE DEF n
<1>2. \A r \in Ids : n.row[r] \in Row /\ n.row[r].status \notin {"committed", "archived"}
  <2> SUFFICES ASSUME NEW r \in Ids
               PROVE  n.row[r] \in Row /\ n.row[r].status \notin {"committed", "archived"}
    OBVIOUS
  <2>1. t.row[r] \in Row /\ t.row[r].status # "archived"
    BY DEF VaultType, Balanced
  <2>2. CASE t.row[r].status = "committed"
    <3>1. n.row[r] = [t.row[r] EXCEPT !.status = "deleted"]
      BY <1>1, <2>2
    <3> QED
      BY <2>1, <3>1 DEF Row
  <2>3. CASE t.row[r].status # "committed"
    <3>1. n.row[r] = t.row[r]
      BY <1>1, <2>3
    <3> QED
      BY <2>1, <2>3, <3>1
  <2> QED
    BY <2>2, <2>3
<1>3. VaultType(n)
  <2>1. n.row = [r \in Ids |-> n.row[r]]
    BY <1>1
  <2>2. n.row \in [Ids -> Row]
    BY <1>2, <2>1
  <2>3. n.used \in [Users -> Int]
    <3>1. t.used \in [Users -> Int]
      BY DEF VaultType
    <3> DEFINE charges == n.used
    <3>2. charges = [t.used EXCEPT ![Owner] = 0]
      BY <1>1
    <3> HIDE DEF charges
    <3>3. charges = [u \in Users |-> charges[u]]
      BY <3>1, <3>2
    <3>4. \A u \in Users : charges[u] = 0 \/ charges[u] = t.used[u]
      BY <3>1, <3>2
    <3>5. \A u \in Users : charges[u] \in Int
      BY <3>1, <3>4
    <3>6. charges \in [Users -> Int]
      BY <3>3, <3>5
    <3> QED
      BY <3>6 DEF charges
  <2> QED
    BY <1>1, <2>2, <2>3 DEF VaultType
<1>4. LiveRows(n) = {}
  BY <1>2 DEF LiveRows, Live
<1>5. BytesOf(n, LiveRows(n)) = 0
  BY <1>4, SumEmpty DEF BytesOf
<1>6. n.used[Owner] = 0
  BY <1>1, PrivateAssumption DEF VaultType
<1>7. Balanced(n, Owner)
  BY <1>2, <1>5, <1>6 DEF Balanced
<1>8. OneKeyed(t, k) => OneKeyed(n, k)
  BY <1>1 DEF OneKeyed, Kept, Places
<1> QED
  BY <1>3, <1>7, <1>8 DEF Keeps, n

LEMMA ResetCommitInv ==
    ASSUME Inv, NEW s \in Sessions, ResetCommit(s)
    PROVE  Inv'
<1>1. /\ job[s].step = "clear" /\ job' = [job EXCEPT ![s] = Idle] /\ Idle \in Jobs
      /\ vault' = Cleared(vault) /\ Forgotten(Ip[s])
      /\ UNCHANGED <<marker, held, spent, torn>>
  BY JobStays DEF ResetCommit, End, Inv
<1>2. /\ job' \in [Sessions -> Jobs] /\ job'[s] = Idle
      /\ \A o \in Sessions \ {s} : job'[o] = job[o]
  BY <1>1, JobMoves DEF Inv
<1>3. Keeps(vault, vault', marker, Owner)
  BY <1>1, ClearedKeeps DEF Inv, TypeOK
<1>4. /\ AttemptsInv'
      /\ attempts' \in [Ips -> Nat] /\ expiring' \in [Ips -> BOOLEAN]
      /\ refused' \in [Ips -> Nat] /\ cut' \subseteq Ips
  <2>1. Ip[s] \in Ips
    BY PrivateAssumption
  <2> QED
    BY <1>1, <1>2, <2>1, ForgottenAttempts DEF Inv, Idle
<1>5. TypeOK'
  BY <1>1, <1>2, <1>3, <1>4 DEF Inv, TypeOK, Jobs, Keeps
<1>6. \A o \in Sessions : JobInv(o)'
  BY <1>1, <1>2 DEF Inv, JobInv, Idle
<1>7. KeyInv'
  <2> SUFFICES ASSUME ~torn
               PROVE  /\ OneKeyed(vault', marker)
                      /\ \A o \in Sessions :
                            /\ held[o] \in {None, marker}
                            /\ AtWork(o)' => job'[o].key = marker
    BY <1>1 DEF KeyInv, OneKeyed, Kept, Places
  <2>1. KeyInv
    BY DEF Inv
  <2>2. OneKeyed(vault', marker)
    BY <1>3, <2>1 DEF KeyInv, Keeps
  <2>3. \A o \in Sessions : AtWork(o)' => job'[o].key = marker
    BY <1>2, <2>1 DEF KeyInv, AtWork, Idle
  <2> QED
    BY <2>1, <2>2, <2>3 DEF KeyInv
<1>8. Balanced(vault, Owner)'
  BY <1>3 DEF Inv, Keeps
<1> QED
  BY <1>4, <1>5, <1>6, <1>7, <1>8 DEF Inv

LEMMA ResetAbortInv ==
    ASSUME Inv, NEW s \in Sessions, ResetAbort(s)
    PROVE  Inv'
<1>1. Fault("abort") /\ End(s) /\ UNCHANGED <<vault, marker, redis, ghosts>>
  BY DEF ResetAbort
<1> QED
  BY <1>1, QuietInv, FaultSpends DEF Inv, TypeOK, redis, ghosts

-----------------------------------------------------------------------------
LEMMA NextInv == Inv /\ [Next]_vars => Inv'
<1> SUFFICES ASSUME Inv, [Next]_vars PROVE Inv'
  OBVIOUS
<1>1. ASSUME NEW s \in Sessions, Unlock(s) PROVE Inv'
  BY <1>1, UnlockBeginInv, UnlockLookInv, UnlockWriteInv, UnlockGrantInv, UnlockRefuseInv,
     UnlockExpireInv, UnlockCrashInv DEF Unlock
<1>2. ASSUME NEW s \in Sessions, Lock(s) PROVE Inv'
  BY <1>2, LockInv
<1>3. ASSUME NEW s \in Sessions, Reset(s) PROVE Inv'
  BY <1>3, ResetBeginInv, ResetWipeInv, ResetCommitInv, ResetAbortInv DEF Reset
<1>4. ASSUME NEW s \in Sessions, FileRequest(s) PROVE Inv'
  BY <1>4, AskBeginInv, UploadMoveInv, UploadCommitInv, UploadFailsInv, MkdirInv, RenameInv,
     DeleteInv, KeysFolderReadyInv, KeysDoneInv DEF FileRequest
<1>5. ASSUME NEW i \in Ips, CounterExpires(i) PROVE Inv'
  BY <1>5, CounterExpiresInv
<1>6. CASE UNCHANGED vars
  BY <1>6 DEF vars, redis, ghosts, Inv, TypeOK, JobInv, KeyInv, AttemptsInv, Trying,
     SessionsAt, OneKeyed, Kept, Places, AtWork
<1> QED
  BY <1>1, <1>2, <1>3, <1>4, <1>5, <1>6 DEF Next

LEMMA Invariance == Spec => []Inv
<1>1. Init => Inv
  BY InitInv
<1>2. Inv /\ [Next]_vars => Inv'
  BY NextInv
<1> QED
  BY <1>1, <1>2, PTL DEF Spec

-----------------------------------------------------------------------------
(* What a request reaches: the paths it names.                                *)
GoesApart(s) ==
    job[s] # job'[s] /\ SameFor(vault, vault', marker, Touches(job[s].ask))

LEMMA TouchesOf ==
    ASSUME NEW x
    PROVE  /\ x.op \in {"upload", "mkdir"} => Touches(x) = {Target(x)}
           /\ x.op = "rename" => Touches(x) = {x.at, Target([x EXCEPT !.at = Front(@)])}
           /\ x.op = "delete" => Touches(x) = {x.at}
           /\ x.op \in {"listKeys", "saveKeys"} => Touches(x) = {<<KeysFolder>>}
BY DEF Touches

LEMMA JobGoesOn ==
    ASSUME Inv, NEW s \in Sessions, NEW step \in Steps, job[s].step # step,
           Goto(s, step) \/ (step = "idle" /\ End(s))
    PROVE  job[s] # job'[s]
<1>1. CASE Goto(s, step)
  <2>1. /\ [job[s] EXCEPT !.step = step] \in Jobs
        /\ job' = [job EXCEPT ![s] = [job[s] EXCEPT !.step = step]]
        /\ job[s] \in Jobs
    BY <1>1, JobStays DEF Goto, Inv
  <2>2. job'[s] = [job[s] EXCEPT !.step = step]
    BY <2>1, JobMoves DEF Inv
  <2>3. job'[s].step = step
    BY <2>1, <2>2 DEF Jobs
  <2> QED
    BY <2>3
<1>2. CASE step = "idle" /\ End(s)
  <2>1. job'[s] = Idle
    BY <1>2, JobStays, JobMoves DEF End, Inv
  <2> QED
    BY <1>2, <2>1 DEF Idle
<1> QED
  BY <1>1, <1>2

(* What is in Keys/ is below Keys. *)
LEMMA RegistryIsBelow ==
    ASSUME RegistryPath \in Paths, <<KeysFolder>> \in Paths,
           NEW t, NEW n, NEW m, SameFor(t, n, m, {RegistryPath})
    PROVE  SameFor(t, n, m, {<<KeysFolder>>})
<1>1. ASSUME NEW q \in Paths, IsPrefix(RegistryPath, q) PROVE IsPrefix(<<KeysFolder>>, q)
  <2>1. Len(RegistryPath) = 2 /\ RegistryPath[1] = KeysFolder
    BY DEF RegistryPath
  <2>2. 2 <= Len(q) /\ RegistryPath[1] = q[1] /\ Len(q) \in Nat
    <3>1. Len(RegistryPath) <= Len(q) /\ \A x \in 1..Len(RegistryPath) : RegistryPath[x] = q[x]
      BY <1>1, PrefixHasNames
    <3>2. Len(q) \in Nat
      BY PathLength
    <3> QED
      BY <2>1, <3>1, <3>2
  <2>3. Len(<<KeysFolder>>) = 1 /\ <<KeysFolder>>[1] = KeysFolder
    OBVIOUS
  <2>4. \A x \in 1..Len(<<KeysFolder>>) : <<KeysFolder>>[x] = q[x]
    BY <2>1, <2>2, <2>3
  <2>5. Len(<<KeysFolder>>) <= Len(q)
    BY <2>2, <2>3
  <2> DEFINE f == <<KeysFolder>>
  <2> HIDE DEF f
  <2>6. f \in Paths /\ Len(f) <= Len(q) /\ \A x \in 1..Len(f) : f[x] = q[x]
    BY <2>4, <2>5 DEF f
  <2>7. IsPrefix(f, q)
    BY <2>6, PrefixByNames
  <2> QED
    BY <2>7 DEF f
<1> QED
  BY <1>1 DEF SameFor

LEMMA AskEndApart ==
    ASSUME Inv, NEW s \in Sessions, job[s].step \in {"act", "commit", "folder", "file"},
           NEW result, AskEnd(s, result),
           ResultApart(vault, result, marker, Touches(job[s].ask))
    PROVE  GoesApart(s)
<1>1. VaultType(vault)
  BY WorkHas
<1>2. SameFor(vault, vault', marker, Touches(job[s].ask))
  BY <1>1, CommittedApart DEF AskEnd
<1>3. job[s] # job'[s]
  <2>1. End(s) /\ "idle" \in Steps /\ job[s].step # "idle"
    BY DEF AskEnd, Steps
  <2> QED
    BY <2>1, JobGoesOn
<1> QED
  BY <1>2, <1>3 DEF GoesApart

LEMMA UploadMoveApart ==
    ASSUME Inv, NEW s \in Sessions, UploadMove(s)
    PROVE  vault' = vault \/ GoesApart(s)
<1> DEFINE x == job[s].ask
           k == job[s].key
<1>1. job[s].step = "act" /\ x.op = "upload"
  BY DEF UploadMove
<1>2. /\ VaultType(vault) /\ Target(x) \in Paths /\ Target(x) # Root
      /\ Touches(x) = {Target(x)}
  BY <1>1, WorkHas, TargetIsAPath, TouchesOf
<1>3. CASE HasParent(vault, k, Target(x))
  <2>1. PICK e \in Places(vault) : vault' = Put(vault, k, "file", Target(x), x.body, e)
    BY <1>3 DEF UploadMove
  <2>2. SameFor(vault, vault', marker, {Target(x)})
    BY <1>2, <1>3, <2>1, PutApart
  <2>3. Goto(s, "commit") /\ "commit" \in Steps /\ job[s].step # "commit"
    BY <1>1, <1>3 DEF UploadMove, Steps
  <2>4. job[s] # job'[s]
    BY <2>3, JobGoesOn
  <2> QED
    BY <1>2, <2>2, <2>4 DEF GoesApart
<1>4. CASE ~HasParent(vault, k, Target(x))
  BY <1>4 DEF UploadMove
<1> QED
  BY <1>3, <1>4

LEMMA UploadCommitApart ==
    ASSUME Inv, NEW s \in Sessions, UploadCommit(s)
    PROVE  GoesApart(s)
<1>1. job[s].step = "commit" /\ End(s) /\ "idle" \in Steps
  BY DEF UploadCommit, Steps
<1>2. VaultType(vault)
  BY <1>1, WorkHas
<1>3. vault'.ent = vault.ent
  BY <1>2 DEF UploadCommit, Charged, Created, VaultType
<1>4. job[s] # job'[s]
  BY <1>1, JobGoesOn
<1> QED
  BY <1>3, <1>4, SameForEntries DEF GoesApart

LEMMA MkdirApartStep ==
    ASSUME Inv, NEW s \in Sessions, Mkdir(s)
    PROVE  GoesApart(s)
<1> DEFINE x == job[s].ask
           k == job[s].key
<1>1. PICK e \in Places(vault) : AskEnd(s, VaultMkdir(vault, k, Target(x), e))
  BY DEF Mkdir, Act
<1>2. job[s].step = "act" /\ x.op = "mkdir"
  BY DEF Mkdir, Act
<1>3. /\ VaultType(vault) /\ Target(x) \in Paths /\ Target(x) # Root
      /\ Touches(x) = {Target(x)}
  BY <1>2, WorkHas, TargetIsAPath, TouchesOf
<1>4. ResultApart(vault, VaultMkdir(vault, k, Target(x), e), marker, {Target(x)})
  BY <1>3, MkdirApart
<1> QED
  BY <1>1, <1>2, <1>3, <1>4, AskEndApart

LEMMA RenameApartStep ==
    ASSUME Inv, NEW s \in Sessions, Rename(s)
    PROVE  GoesApart(s)
<1> DEFINE x == job[s].ask
           k == job[s].key
<1>1. PICK e \in Places(vault) : AskEnd(s, VaultRenamed(vault, k, x.at, x.to, e))
  BY DEF Rename, Act
<1>2. job[s].step = "act" /\ x.op = "rename"
  BY DEF Rename, Act
<1>3. /\ k \in VaultKeys /\ x \in Ask /\ VaultType(vault)
      /\ x.at \in Paths /\ x.at # Root /\ x.to \in Names
  BY <1>2, WorkHas, AsksAssumption DEF Ask
<1>4. Touches(x) = {x.at, Append(Front(x.at), x.to)}
  <2>1. Touches(x) = {x.at, Target([x EXCEPT !.at = Front(@)])}
    BY <1>2, TouchesOf
  <2> HIDE DEF x
  <2>2. Target([x EXCEPT !.at = Front(@)]) = Append(Front(x.at), x.to)
    BY <1>3 DEF Target, Ask
  <2> QED
    BY <2>1, <2>2
<1>5. ResultApart(vault, VaultRenamed(vault, k, x.at, x.to, e), marker,
                  {x.at, Append(Front(x.at), x.to)})
  BY <1>3, RenameApart
<1> QED
  BY <1>1, <1>2, <1>4, <1>5, AskEndApart

LEMMA DeleteApartStep ==
    ASSUME Inv, NEW s \in Sessions, Delete(s)
    PROVE  GoesApart(s)
<1> DEFINE x == job[s].ask
           k == job[s].key
<1>1. PICK e \in Places(vault) : AskEnd(s, VaultDeleted(vault, k, Owner, x.at))
  BY DEF Delete, Act
<1>2. job[s].step = "act" /\ x.op = "delete"
  BY DEF Delete, Act
<1>3. VaultType(vault) /\ x.at \in Paths /\ Touches(x) = {x.at}
  BY <1>2, WorkHas, TouchesOf DEF Ask
<1>4. ResultApart(vault, VaultDeleted(vault, k, Owner, x.at), marker, {x.at})
  BY <1>3, DeleteApart
<1> QED
  BY <1>1, <1>2, <1>3, <1>4, AskEndApart

LEMMA KeysFolderReadyApart ==
    ASSUME Inv, NEW s \in Sessions, KeysFolderReady(s)
    PROVE  GoesApart(s)
<1> DEFINE k == job[s].key
           p == <<KeysFolder>>
<1>1. /\ job[s].step = "folder" /\ Goto(s, "file") /\ "file" \in Steps
      /\ \/ vault' = vault
         \/ \E e \in Places(vault) : vault' = Put(vault, k, "dir", p, 0, e)
  BY DEF KeysFolderReady, Steps
<1>2. VaultType(vault) /\ p \in Paths /\ p # Root /\ Touches(job[s].ask) = {p}
  BY <1>1, WorkHas, TouchesOf DEF Inv, JobInv
<1>3. HasParent(vault, k, p)
  <2>1. Front(p) = Root
    BY DEF Front, Root
  <2> QED
    BY <2>1, RootIsTop, VaultAssumption DEF HasParent
<1>4. job[s] # job'[s]
  BY <1>1, JobGoesOn
<1> HIDE DEF p
<1>5. SameFor(vault, vault', marker, {p})
  <2>1. CASE vault' = vault
    BY <2>1 DEF SameFor
  <2>2. ASSUME NEW e \in Places(vault), vault' = Put(vault, k, "dir", p, 0, e)
        PROVE  SameFor(vault, vault', marker, {p})
    BY <1>2, <1>3, <2>2, PutApart
  <2> QED
    BY <1>1, <2>1, <2>2
<1> QED
  BY <1>2, <1>4, <1>5 DEF GoesApart

LEMMA KeysDoneApart ==
    ASSUME Inv, NEW s \in Sessions, KeysDone(s)
    PROVE  GoesApart(s)
<1> DEFINE x == job[s].ask
           k == job[s].key
           result(e) == IF x.op = "listKeys" THEN RegistryListed(k, e)
                        ELSE RegistryWritten(k, x.body, e)
           apart(r) == ResultApart(vault, r, marker, {RegistryPath})
<1>1. PICK e \in Places(vault) : AskEnd(s, result(e))
  BY DEF KeysDone
<1>2. job[s].step = "file" /\ x.op \in {"listKeys", "saveKeys"}
  BY DEF KeysDone, Inv, JobInv
<1>3. /\ k \in VaultKeys /\ x \in Asks /\ VaultType(vault)
      /\ RegistryPath \in Paths /\ RegistryPath # Root /\ <<KeysFolder>> \in Paths
      /\ NoKeys \in Bodies
      /\ x.op = "saveKeys" => x.body \in Bodies
      /\ Touches(x) = {<<KeysFolder>>}
  BY <1>2, WorkHas, PrivateAssumption, AsksAssumption, TouchesOf
<1>4. ASSUME NEW b \in Bodies PROVE apart(RegistryWritten(k, b, e))
  BY <1>3, OverwriteApart DEF RegistryWritten
<1>5. apart(RegistryListed(k, e))
  <2>1. apart(Done(Healed(vault, RegistryPath)))
    <3>1. RowsMove(vault, Healed(vault, RegistryPath))
      BY <1>3, HealedMoves
    <3>2. SameFor(vault, Healed(vault, RegistryPath), marker, {RegistryPath})
      BY <3>1, SameForEntries DEF RowsMove
    <3> QED
      BY <3>2 DEF ResultApart
  <2>2. apart(Raised(vault))
    BY DEF ResultApart
  <2>3. apart(RegistryWritten(k, NoKeys, e))
    BY <1>3, <1>4
  <2>4. \/ RegistryListed(k, e) = RegistryWritten(k, NoKeys, e)
        \/ RegistryListed(k, e) = Raised(vault)
        \/ RegistryListed(k, e) = Done(Healed(vault, RegistryPath))
    BY DEF RegistryListed
  <2> HIDE DEF apart
  <2> QED
    BY <2>1, <2>2, <2>3, <2>4
<1>6. apart(result(e))
  <2>1. CASE x.op = "listKeys"
    <3>1. result(e) = RegistryListed(k, e)
      BY <2>1
    <3> HIDE DEF result, apart
    <3> QED
      BY <1>5, <3>1
  <2>2. CASE x.op # "listKeys"
    <3>1. result(e) = RegistryWritten(k, x.body, e) /\ x.body \in Bodies
      BY <1>2, <1>3, <2>2
    <3> HIDE DEF result, apart
    <3> QED
      BY <1>4, <3>1
  <2> QED
    BY <2>1, <2>2
<1> HIDE DEF result
<1>7. ResultApart(vault, result(e), marker, {<<KeysFolder>>})
  BY <1>3, <1>6, RegistryIsBelow DEF ResultApart
<1> QED
  BY <1>1, <1>2, <1>3, <1>7, AskEndApart

LEMMA ResetCommitApart ==
    ASSUME Inv, NEW s \in Sessions, ResetCommit(s)
    PROVE  GoesApart(s)
<1>1. /\ job[s].step = "clear" /\ End(s) /\ "idle" \in Steps /\ VaultType(vault)
      /\ vault' = Cleared(vault)
  BY DEF ResetCommit, Steps, Inv, TypeOK
<1>2. vault'.ent = vault.ent
  BY <1>1 DEF Cleared, RowsDeleted, VaultType
<1>3. job[s] # job'[s]
  BY <1>1, JobGoesOn
<1> QED
  BY <1>2, <1>3, SameForEntries DEF GoesApart

(* Only requests on files and a reset change the vault, and a reset that takes   *)
(* entries away takes the marker with them.                                  *)
LEMMA OneRequestGoes ==
    ASSUME Inv, Next, marker' = marker, marker # None
    PROVE  vault' = vault \/ \E s \in Sessions : GoesApart(s)
<1>1. ASSUME NEW s \in Sessions, Unlock(s) PROVE vault' = vault
  BY <1>1 DEF Unlock, UnlockBegin, UnlockLook, UnlockWrite, UnlockGrant, UnlockRefuse,
     UnlockExpire, UnlockCrash
<1>2. ASSUME NEW s \in Sessions, Lock(s) PROVE vault' = vault
  BY <1>2 DEF Lock
<1>3. ASSUME NEW s \in Sessions, Reset(s) PROVE vault' = vault \/ GoesApart(s)
  <2>1. CASE ResetBegin(s) \/ ResetAbort(s)
    BY <2>1 DEF ResetBegin, ResetAbort
  <2>2. CASE ResetWipe(s)
    BY <2>2 DEF ResetWipe
  <2>3. CASE ResetCommit(s)
    BY <2>3, ResetCommitApart
  <2> QED
    BY <1>3, <2>1, <2>2, <2>3 DEF Reset
<1>4. ASSUME NEW s \in Sessions, FileRequest(s) PROVE vault' = vault \/ GoesApart(s)
  <2>1. CASE AskBegin(s) \/ UploadFails(s)
    BY <2>1 DEF AskBegin, UploadFails
  <2>2. CASE ~(AskBegin(s) \/ UploadFails(s))
    BY <1>4, <2>2, UploadMoveApart, UploadCommitApart, MkdirApartStep, RenameApartStep,
       DeleteApartStep, KeysFolderReadyApart, KeysDoneApart DEF FileRequest
  <2> QED
    BY <2>1, <2>2
<1>5. ASSUME NEW i \in Ips, CounterExpires(i) PROVE vault' = vault
  BY <1>5 DEF CounterExpires
<1> QED
  BY <1>1, <1>2, <1>3, <1>4, <1>5 DEF Next

-----------------------------------------------------------------------------
(* The sessions, the counters, the requests in hand and the vault stay what     *)
(* they are declared to be.                                                  *)
THEOREM TypeCorrect == Spec => []TypeOK
<1>1. Inv => TypeOK
  BY DEF Inv
<1> QED
  BY <1>1, Invariance, PTL

(* private_bytes is charged and given back for exactly the live records, by     *)
(* uploads, overwrites, deletes, the registry and resets in any interleaving,   *)
(* faults included.                                                          *)
THEOREM BytesAreTheLiveRows == Spec => []PrivateBytesAreTheLiveRows
<1>1. Inv => PrivateBytesAreTheLiveRows
  BY DEF Inv, Balanced, PrivateBytesAreTheLiveRows
<1> QED
  BY <1>1, Invariance, PTL

(* As long as no reset and no concurrent first unlock tore the vault, the       *)
(* marker, every name in the bucket and every unlocked session have one key.    *)
THEOREM VaultHasOneKey == Spec => []OneKey
<1>1. Inv => OneKey
  BY DEF Inv, KeyInv, OneKeyed, OneKey
<1> QED
  BY <1>1, Invariance, PTL

(* However the sessions of an address interleave, the refusals before a         *)
(* lockout exceed the limit by less than the number of sessions.              *)
THEOREM AttemptsBounded == Spec => []AttemptsAreBounded
<1>1. Inv => AttemptsAreBounded
  <2> SUFFICES ASSUME Inv, NEW i \in Ips
               PROVE  refused[i] <= MaxAttempts + Cardinality(SessionsAt(i)) - 1
    BY DEF AttemptsAreBounded, SessionsAt
  <2>1. /\ refused[i] \in Nat
        /\ refused[i] + Cardinality(Trying(i)) <= MaxAttempts + Cardinality(SessionsAt(i)) - 1
    BY DEF Inv, AttemptsInv, TypeOK
  <2> QED
    BY <2>1, TryingIsFinite, PrivateAssumption
<1> QED
  BY <1>1, Invariance, PTL

(* A request on one file does not reach another: under the key of the marker     *)
(* every path reads what it did before, unless the request that takes the step    *)
(* names it or a directory above it. It holds for every depth of the tree, every  *)
(* choice of the places that are written, and with entries of other keys about.  *)
THEOREM PathsStayApart == Spec => PathsAreApart
<1>1. Inv /\ [Next]_vars =>
        (vault' # vault /\ marker' = marker /\ marker # None =>
            \A q \in Paths :
                (\A s \in Sessions : job[s] # job'[s] =>
                    \A p \in Touches(job[s].ask) : ~IsPrefix(p, q))
                => Decrypted(vault', marker, q) = Decrypted(vault, marker, q))
  <2> SUFFICES ASSUME Inv, [Next]_vars, vault' # vault, marker' = marker, marker # None,
                      NEW q \in Paths,
                      \A s \in Sessions : job[s] # job'[s] =>
                          \A p \in Touches(job[s].ask) : ~IsPrefix(p, q)
               PROVE  Decrypted(vault', marker, q) = Decrypted(vault, marker, q)
    OBVIOUS
  <2>1. Next
    BY DEF vars
  <2>2. PICK s \in Sessions : GoesApart(s)
    BY <2>1, OneRequestGoes
  <2> QED
    BY <2>2 DEF GoesApart, SameFor
<1> QED
  BY <1>1, Invariance, PTL DEF Spec, PathsAreApart
=============================================================================
