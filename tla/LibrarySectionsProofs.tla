-------------------------- MODULE LibrarySectionsProofs --------------------------
(***************************************************************************)
(* What the library keeps of its records and its quota, for every set of       *)
(* sections, users, names, records and requests and every bound on them: of     *)
(* every operation of FileTree, and of the requests that come between a check   *)
(* and the work it was for.                                                  *)
(***************************************************************************)
EXTENDS LibrarySections, TreeTheorems

(* A tree, as a member of a set.                                             *)
Buckets == UNION {[K -> Bodies] : K \in SUBSET Keys}
Trees == [obj : Buckets, dirs : SUBSET (Paths \ {Root}), row : [Ids -> Row],
          used : [Users -> Int]]

(* What user v pays for.                                                    *)
Owned(t, v) == {r \in LiveRows(t) : t.row[r].owner = v}
Balanced(t) == \A v \in Users : t.used[v] = BytesOf(t, Owned(t, v))
OwnedBy(t, u) == \A r \in LiveRows(t) : t.row[r].owner = u

(* What the checks on arrival have shown of a request in flight, and nobody     *)
(* can undo.                                                                *)
Checked(x) ==
    /\ x.op = "create" => Len(x.at) < NodeDepth /\ x.to \in Names
    /\ x.op = "renameNode" => x.at # Root /\ x.to \in Names
    /\ x.op \in {"save", "read"} => IsVacancy(x.at)

Inv ==
    /\ section \in Sections
    /\ tree \in Trees
    /\ flight \subseteq Requests[section] /\ IsFiniteSet(flight)
    /\ Cardinality(flight) <= InFlight[section]
    /\ \A x \in flight : Checked(x)
    /\ spent \in [requests : 0..MaxRequests, faults : Seq(Faults[section])]
    /\ Len(spent.faults) <= MaxFaults
    /\ section # "SHARED" => \A x \in Requests[section] : OwnedBy(tree, x.user)
    /\ Balanced(tree)

-----------------------------------------------------------------------------
(* The type of a tree.                                                      *)

LEMMA TreeFields ==
    ASSUME NEW t \in Trees
    PROVE  /\ DOMAIN t = {"obj", "dirs", "row", "used"}
           /\ t.obj \in Buckets /\ t.dirs \in SUBSET (Paths \ {Root})
           /\ t.row \in [Ids -> Row] /\ t.used \in [Users -> Int]
           /\ t = [obj |-> t.obj, dirs |-> t.dirs, row |-> t.row, used |-> t.used]
BY DEF Trees

LEMMA BucketMade ==
    ASSUME NEW K \in SUBSET Keys, NEW f, f = [k \in K |-> f[k]], \A k \in K : f[k] \in Bodies
    PROVE  f \in Buckets
<1>1. f \in [K -> Bodies]
  OBVIOUS
<1> QED
  BY <1>1 DEF Buckets

LEMMA BucketIs ==
    ASSUME NEW f \in Buckets
    PROVE  /\ DOMAIN f \in SUBSET Keys /\ f = [k \in DOMAIN f |-> f[k]]
           /\ \A k \in DOMAIN f : f[k] \in Bodies
<1> PICK K \in SUBSET Keys : f \in [K -> Bodies]
  BY DEF Buckets
<1> QED
  OBVIOUS

LEMMA TreesAreTyped ==
    ASSUME NEW t \in Trees
    PROVE  TreeType(t)
<1>1. Range(t.obj) \subseteq Bodies
  BY TreeFields, BucketIs DEF Range
<1> QED
  BY <1>1, TreeFields, BucketIs DEF TreeType

LEMMA EmptyTreeTyped ==
    ASSUME NEW dirs \in SUBSET (Paths \ {Root})
    PROVE  EmptyTree(dirs) \in Trees
<1> DEFINE none == [k \in {} |-> 0]
<1>1. none \in Buckets
  <2>1. {} \in SUBSET Keys /\ none = [k \in {} |-> none[k]] /\ \A k \in {} : none[k] \in Bodies
    OBVIOUS
  <2> HIDE DEF none
  <2> QED
    BY <2>1, BucketMade
<1>2. NoRow \in Row
  BY RootIsAPath DEF NoRow, Row
<1> HIDE DEF none
<1>3. [obj |-> none, dirs |-> dirs, row |-> [r \in Ids |-> NoRow],
       used |-> [u \in Users |-> 0]] \in Trees
  BY <1>1, <1>2 DEF Trees
<1> QED
  BY <1>3 DEF EmptyTree, none

LEMMA KeysOfPaths ==
    ASSUME NEW p \in Paths
    PROVE  Hot(p) \in Keys /\ Zst(p) \in Keys /\ Hot(p).at = p /\ Zst(p).at = p
BY DEF Keys, Hot, Zst

LEMMA KeyFields ==
    ASSUME NEW k \in Keys
    PROVE  k.at \in Paths /\ k.zst \in BOOLEAN /\ k = [at |-> k.at, zst |-> k.zst]
BY DEF Keys

(* What is done to the bucket leaves the records and the quota alone.          *)
BucketMoves(t, n) == n \in Trees /\ n.row = t.row /\ n.used = t.used

LEMMA StoredMoves ==
    ASSUME NEW t \in Trees, NEW p \in Paths, NEW b \in Bodies
    PROVE  BucketMoves(t, Stored(t, p, b))
<1> DEFINE f == [k \in DOMAIN t.obj \cup {Hot(p)} |-> IF k = Hot(p) THEN b ELSE t.obj[k]]
<1>1. f \in Buckets
  <2>1. /\ DOMAIN t.obj \cup {Hot(p)} \in SUBSET Keys
        /\ \A k \in DOMAIN t.obj \cup {Hot(p)} : f[k] \in Bodies
    BY TreeFields, BucketIs, KeysOfPaths
  <2>2. f = [k \in DOMAIN t.obj \cup {Hot(p)} |-> f[k]]
    OBVIOUS
  <2> HIDE DEF f
  <2> QED
    BY <2>1, <2>2, BucketMade
<1>2. Stored(t, p, b) = [t EXCEPT !.obj = f]
  BY DEF Stored
<1> HIDE DEF f
<1> QED
  BY <1>1, <1>2 DEF BucketMoves, Trees

LEMMA CutMoves ==
    ASSUME NEW t \in Trees, NEW S, NEW D \in SUBSET (Paths \ {Root})
    PROVE  /\ [t EXCEPT !.obj = Restrict(@, DOMAIN @ \ S)] \in Trees
           /\ BucketMoves(t, [t EXCEPT !.obj = Restrict(@, DOMAIN @ \ S), !.dirs = D])
           /\ BucketMoves(t, [t EXCEPT !.obj = Restrict(@, DOMAIN @ \ S)])
<1> DEFINE K == DOMAIN t.obj \ S
           f == [k \in K |-> t.obj[k]]
<1>1. f \in Buckets
  <2>1. K \in SUBSET Keys /\ \A k \in K : f[k] \in Bodies
    BY TreeFields, BucketIs
  <2>2. f = [k \in K |-> f[k]]
    OBVIOUS
  <2> HIDE DEF f, K
  <2> QED
    BY <2>1, <2>2, BucketMade
<1>2. Restrict(t.obj, DOMAIN t.obj \ S) = f
  BY DEF Restrict
<1> HIDE DEF f
<1> QED
  BY <1>1, <1>2 DEF BucketMoves, Trees

LEMMA ErasedMoves ==
    ASSUME NEW t \in Trees, NEW p
    PROVE  BucketMoves(t, Erased(t, p))
<1>1. t.dirs \ MarkersUnder(t, p) \in SUBSET (Paths \ {Root})
  BY TreeFields
<1> QED
  BY <1>1, CutMoves DEF Erased


LEMMA MadeDirectoryMoves ==
    ASSUME NEW t \in Trees, NEW p \in Paths
    PROVE  BucketMoves(t, MadeDirectory(t, p))
<1>1. Prefixes(p) \subseteq Paths
  BY PrePath DEF Prefixes, Pre
<1> DEFINE D == t.dirs \cup (Prefixes(p) \ {Root})
<1>2. D \in SUBSET (Paths \ {Root})
  BY <1>1, TreeFields
<1>3. MadeDirectory(t, p) = [t EXCEPT !.dirs = D]
  BY DEF MadeDirectory
<1> HIDE DEF D
<1> QED
  BY <1>2, <1>3 DEF BucketMoves, Trees

LEMMA PathStaysLong ==
    ASSUME NEW p \in Paths, NEW s \in Paths, IsPrefix(p, s), p # Root
    PROVE  s # Root
<1>1. Len(p) > 0 /\ Len(p) \in Nat /\ Len(s) \in Nat /\ Len(p) <= Len(s)
  BY PathLength DEF IsPrefix
<1>2. Len(Root) = 0
  BY DEF Root
<1> QED
  BY <1>1, <1>2

LEMMA IsPrefixOfItself == \A p : IsPrefix(p, p)
<1>1. SUFFICES ASSUME NEW p PROVE Len(p) <= Len(p)
  BY DEF IsPrefix
<1> QED
  OBVIOUS

LEMMA MovedMoves ==
    ASSUME NEW t \in Trees, NEW p \in Paths, p # Root, NEW q \in Paths, Len(p) = Len(q)
    PROVE  BucketMoves(t, Moved(t, p, q))
<1> DEFINE file == HasObject(t, p)
           from == IF file THEN {Hot(p)} ELSE KeysUnder(t, p)
           marks == IF file THEN {} ELSE MarkersUnder(t, p)
           to(k) == [k EXCEPT !.at = Regrafted(@, p, q)]
           came(k) == CHOOSE x \in from : to(x) = k
           dest == {to(k) : k \in from}
           K == (DOMAIN t.obj \ from) \cup dest
           f == [k \in K |-> IF k \in dest THEN t.obj[came(k)] ELSE t.obj[k]]
           D == (t.dirs \ marks) \cup {Regrafted(d, p, q) : d \in marks}
<1>1. Moved(t, p, q) = [t EXCEPT !.obj = f, !.dirs = D]
  BY DEF Moved
<1>2. /\ from \in SUBSET DOMAIN t.obj /\ DOMAIN t.obj \in SUBSET Keys
      /\ \A k \in from : IsPrefix(p, k.at) /\ k.at \in Paths
  <2>1. DOMAIN t.obj \in SUBSET Keys
    BY TreeFields, BucketIs
  <2>2. CASE file
    BY <2>1, <2>2, KeysOfPaths, IsPrefixOfItself DEF HasObject
  <2>3. CASE ~file
    BY <2>1, <2>3, KeyFields DEF KeysUnder, IsStrictPrefix
  <2> QED
    BY <2>1, <2>2, <2>3
<1>3. dest \in SUBSET Keys
  <2>1. ASSUME NEW k \in from PROVE to(k) \in Keys
    <3>1. k \in Keys /\ Regrafted(k.at, p, q) \in Paths
      <4> HIDE DEF from
      <4> QED
        BY <1>2, PathRegrafted
    <3> QED
      BY <3>1 DEF Keys
  <2> HIDE DEF to, from
  <2> QED
    BY <2>1
<1>4. ASSUME NEW k \in dest PROVE came(k) \in from
  <2> HIDE DEF to, from
  <2> QED
    OBVIOUS
<1>5. f \in Buckets
  <2>1. f = [k \in K |-> f[k]] /\ \A k \in K : f[k] = IF k \in dest THEN t.obj[came(k)] ELSE t.obj[k]
    OBVIOUS
  <2> HIDE DEF f, came, dest, from
  <2>2. K \in SUBSET Keys
    BY <1>2, <1>3
  <2>3. ASSUME NEW k \in K PROVE f[k] \in Bodies
    BY <1>2, <1>4, <2>1, TreeFields, BucketIs
  <2> QED
    BY <2>1, <2>2, <2>3, BucketMade
<1>6. D \in SUBSET (Paths \ {Root})
  <2>1. ASSUME NEW d \in marks PROVE Regrafted(d, p, q) \in Paths \ {Root}
    <3>1. d \in Paths /\ IsPrefix(p, d)
      BY TreeFields DEF MarkersUnder
    <3>2. d # Root /\ Regrafted(d, p, q) \in Paths /\ Len(Regrafted(d, p, q)) = Len(d)
      BY <3>1, PathRegrafted, PathStaysLong
    <3>3. Len(d) > 0 /\ Len(Root) = 0
      BY <3>1, <3>2, PathLength DEF Root
    <3> QED
      BY <3>2, <3>3
  <2> HIDE DEF marks
  <2> QED
    BY <2>1, TreeFields
<1> HIDE DEF f, D
<1> QED
  BY <1>1, <1>5, <1>6 DEF BucketMoves, Trees

LEMMA BlobsErasedMoves ==
    ASSUME NEW t \in Trees, NEW S, NEW r
    PROVE  BucketMoves(t, BlobsErased(t, S)) /\ BucketMoves(t, BlobErased(t, r))
<1>1. Root \in Paths /\ t.dirs \in SUBSET (Paths \ {Root})
  BY RootIsAPath, TreeFields
<1>2. BucketMoves(t, BlobsErased(t, S))
  BY <1>1, CutMoves DEF BlobsErased
<1>3. BucketMoves(t, BlobErased(t, r))
  <2>1. CASE t.row[r].status = "archived"
    BY <1>1, <2>1, CutMoves DEF BlobErased
  <2>2. CASE t.row[r].status # "archived"
    BY <2>2 DEF BlobErased, BucketMoves
  <2> QED
    BY <2>1, <2>2
<1> QED
  BY <1>2, <1>3


-----------------------------------------------------------------------------
(* What an operation of user u keeps. It takes at most c ids. Some are only      *)
(* right about the quota of a tree that is all of u (delete_directory_recursive  *)
(* gives back to its caller what the whole directory held); the others are Fair   *)
(* in every tree.                                                           *)
Fair(t, n) == Balanced(t) => Balanced(n)
Keeps(t, n, u, c) ==
    /\ n \in Trees
    /\ c \in Nat /\ Cardinality(FreeIds(t)) <= Cardinality(FreeIds(n)) + c
    /\ OwnedBy(t, u) => OwnedBy(n, u) /\ Fair(t, n)

SameRows(t, n) ==
    /\ n \in Trees /\ n.used = t.used
    /\ \A r \in Ids :
          /\ Live(n.row[r]) <=> Live(t.row[r])
          /\ n.row[r].status = "none" <=> t.row[r].status = "none"
          /\ n.row[r].owner = t.row[r].owner /\ n.row[r].body = t.row[r].body

LEMMA RowType ==
    ASSUME NEW t \in Trees, NEW r \in Ids
    PROVE  /\ t.row[r] \in Row /\ t.row[r].path \in Paths
           /\ t.row[r].owner \in Users \cup {None} /\ t.row[r].body \in Nat
BY TreeFields, BodiesAreNat DEF Row

LEMMA FreeIdsCounted ==
    ASSUME NEW t
    PROVE  IsFiniteSet(FreeIds(t)) /\ Cardinality(FreeIds(t)) \in Nat
<1>1. IsFiniteSet(FreeIds(t))
  BY TreeAssumption, FS_Subset DEF FreeIds
<1> QED
  BY <1>1, FS_CardinalityType

LEMMA SameRowsKeep ==
    ASSUME NEW t \in Trees, NEW n, NEW u, SameRows(t, n)
    PROVE  Keeps(t, n, u, 0) /\ Fair(t, n)
<1>1. LiveRows(n) = LiveRows(t) /\ FreeIds(n) = FreeIds(t) /\ n \in Trees
  BY DEF SameRows, LiveRows, FreeIds
<1>2. OwnedBy(t, u) => OwnedBy(n, u)
  BY <1>1 DEF OwnedBy, SameRows, LiveRows
<1>3. ASSUME NEW v \in Users PROVE BytesOf(n, Owned(n, v)) = BytesOf(t, Owned(t, v))
  <2>1. Owned(n, v) = Owned(t, v) /\ Owned(t, v) \in SUBSET Ids
    BY <1>1 DEF Owned, SameRows, LiveRows
  <2>2. \A r \in Owned(t, v) : n.row[r].body = t.row[r].body
    BY <2>1 DEF SameRows
  <2> QED
    BY <1>1, <2>1, <2>2, TreeFields, BytesSame
<1>4. Fair(t, n)
  BY <1>3 DEF Fair, Balanced, SameRows
<1> QED
  BY <1>1, <1>2, <1>4, FreeIdsCounted DEF Keeps

LEMMA BucketKeeps ==
    ASSUME NEW t \in Trees, NEW n, NEW u, BucketMoves(t, n)
    PROVE  Keeps(t, n, u, 0) /\ Fair(t, n) /\ SameRows(t, n)
<1>1. SameRows(t, n)
  BY DEF SameRows, BucketMoves
<1> QED
  BY <1>1, SameRowsKeep

LEMMA KeepsOn ==
    ASSUME NEW t, NEW m, NEW n, NEW u, NEW c, NEW d, Keeps(t, m, u, c), Keeps(m, n, u, d)
    PROVE  Keeps(t, n, u, c + d)
BY FreeIdsCounted DEF Keeps, Fair

LEMMA FairOn ==
    ASSUME NEW t, NEW m, NEW n, Fair(t, m), Fair(m, n)
    PROVE  Fair(t, n)
BY DEF Fair

LEMMA KeepsMore ==
    ASSUME NEW t, NEW n, NEW u, NEW c, NEW d \in Nat, Keeps(t, n, u, c), c <= d
    PROVE  Keeps(t, n, u, d)
BY FreeIdsCounted DEF Keeps

LEMMA KeepsSelf ==
    ASSUME NEW t \in Trees, NEW u
    PROVE  Keeps(t, t, u, 0) /\ Fair(t, t)
BY FreeIdsCounted DEF Keeps, Fair

(* One record changes: what v pays for changes by what it counts for.           *)
CountsFor(t, r, v) == IF Live(t.row[r]) /\ t.row[r].owner = v THEN t.row[r].body ELSE 0

LEMMA OneRowCounts ==
    ASSUME NEW t \in Trees, NEW n \in Trees, NEW r \in Ids, NEW v,
           \A x \in Ids \ {r} : n.row[x] = t.row[x]
    PROVE  /\ BytesOf(n, Owned(n, v))
                = BytesOf(t, Owned(t, v)) - CountsFor(t, r, v) + CountsFor(n, r, v)
           /\ CountsFor(t, r, v) \in Nat /\ CountsFor(n, r, v) \in Nat
           /\ BytesOf(t, Owned(t, v)) \in Int
<1> DEFINE Rest == Owned(t, v) \ {r}
<1>0. t.row \in [Ids -> Row] /\ n.row \in [Ids -> Row]
  BY TreeFields
<1>1. /\ Rest \in SUBSET Ids /\ Owned(n, v) \ {r} = Rest
      /\ Owned(n, v) \in SUBSET Ids /\ Owned(t, v) \in SUBSET Ids
  BY DEF Owned, LiveRows
<1>2. BytesOf(n, Rest) = BytesOf(t, Rest) /\ BytesOf(t, Rest) \in Int
  <2>1. \A x \in Rest : n.row[x].body = t.row[x].body
    BY DEF Owned, LiveRows
  <2> HIDE DEF Rest
  <2> QED
    BY <1>0, <1>1, <2>1, BytesSame, RowsAreSummed
<1>3. t.row[r].body \in Nat /\ n.row[r].body \in Nat
  BY RowType
<1>4. r \in Owned(t, v) <=> Live(t.row[r]) /\ t.row[r].owner = v
  BY DEF Owned, LiveRows
<1>5. r \in Owned(n, v) <=> Live(n.row[r]) /\ n.row[r].owner = v
  BY DEF Owned, LiveRows
<1>6. BytesOf(t, Owned(t, v)) = CountsFor(t, r, v) + BytesOf(t, Rest)
  <2>1. CASE r \in Owned(t, v)
    <3>1. BytesOf(t, Owned(t, v)) = t.row[r].body + BytesOf(t, Owned(t, v) \ {r})
      BY <1>0, <1>1, <2>1, BytesWithout
    <3> QED
      BY <1>4, <2>1, <3>1 DEF CountsFor
  <2>2. CASE r \notin Owned(t, v)
    <3>1. Owned(t, v) = Rest
      BY <2>2
    <3> HIDE DEF Rest
    <3> QED
      BY <1>2, <1>4, <2>2, <3>1 DEF CountsFor
  <2> QED
    BY <2>1, <2>2
<1>7. BytesOf(n, Owned(n, v)) = CountsFor(n, r, v) + BytesOf(n, Rest)
  <2>1. CASE r \in Owned(n, v)
    <3>1. BytesOf(n, Owned(n, v)) = n.row[r].body + BytesOf(n, Owned(n, v) \ {r})
      BY <1>0, <1>1, <2>1, BytesWithout
    <3> QED
      BY <1>1, <1>5, <2>1, <3>1 DEF CountsFor
  <2>2. CASE r \notin Owned(n, v)
    <3>1. Owned(n, v) = Rest
      BY <1>1, <2>2
    <3> HIDE DEF Rest
    <3> QED
      BY <1>2, <1>5, <2>2, <3>1 DEF CountsFor
  <2> QED
    BY <2>1, <2>2
<1>8. CountsFor(t, r, v) \in Nat /\ CountsFor(n, r, v) \in Nat
  BY <1>3 DEF CountsFor
<1> HIDE DEF Rest
<1> QED
  BY <1>2, <1>6, <1>7, <1>8


(* One record changes, and whoever owns it is charged by the difference.        *)
LEMMA OneRowFair ==
    ASSUME NEW t \in Trees, NEW n \in Trees, NEW r \in Ids,
           \A x \in Ids \ {r} : n.row[x] = t.row[x],
           \A v \in Users : n.used[v] = t.used[v] - CountsFor(t, r, v) + CountsFor(n, r, v)
    PROVE  Fair(t, n)
<1>1. SUFFICES ASSUME Balanced(t), NEW v \in Users
               PROVE  n.used[v] = BytesOf(n, Owned(n, v))
  BY DEF Fair, Balanced
<1>2. t.used[v] = BytesOf(t, Owned(t, v))
  BY <1>1 DEF Balanced
<1> QED
  BY <1>2, OneRowCounts

LEMMA FreshIdIn ==
    ASSUME NEW t, FreeIds(t) # {}
    PROVE  FreshId(t) \in Ids /\ t.row[FreshId(t)].status = "none"
<1>1. FreeIds(t) \in SUBSET Nat
  BY TreeAssumption DEF FreeIds
<1>2. FreshId(t) \in FreeIds(t)
  BY <1>1, MinIn DEF FreshId
<1> QED
  BY <1>2 DEF FreeIds

LEMMA ChargedTyped ==
    ASSUME NEW t \in Trees, NEW w, NEW d \in Int
    PROVE  Charged(t, w, d) \in Trees
<1> DEFINE n == Charged(t, w, d)
<1>1. /\ n.obj = t.obj /\ n.dirs = t.dirs /\ n.row = t.row
      /\ n.used = [t.used EXCEPT ![w] = t.used[w] + d]
      /\ n = [obj |-> n.obj, dirs |-> n.dirs, row |-> n.row, used |-> n.used]
  BY DEF Trees, Charged
<1> HIDE DEF n
<1>2. n.used \in [Users -> Int]
  <2>1. n.used = [v \in Users |-> n.used[v]] /\ \A v \in Users : t.used[v] \in Int
    BY <1>1, TreeFields
  <2>2. \A v \in Users : n.used[v] = IF v = w THEN t.used[v] + d ELSE t.used[v]
    BY <1>1, TreeFields
  <2>3. \A v \in Users : n.used[v] \in Int
    BY <2>1, <2>2
  <2> QED
    BY <2>1, <2>3
<1>3. n \in Trees
  BY <1>1, <1>2, TreeFields DEF Trees
<1> QED
  BY <1>3 DEF n

LEMMA CreatedTyped ==
    ASSUME NEW t \in Trees, NEW u \in Users, NEW p \in Paths, NEW b \in Bodies,
           NEW status \in {"pending", "committed"}
    PROVE  Created(t, u, p, b, status) \in Trees
<1> DEFINE new == [NoRow EXCEPT !.status = status, !.owner = u, !.path = p, !.body = b]
           f == FreshId(t)
<1>1. new \in Row
  BY RootIsAPath DEF NoRow, Row
<1> HIDE DEF new, f
<1>2. [t EXCEPT !.row = [t.row EXCEPT ![f] = new]] \in Trees
  <2>1. [t.row EXCEPT ![f] = new] \in [Ids -> Row]
    BY <1>1, TreeFields
  <2> QED
    BY <2>1 DEF Trees
<1>3. Created(t, u, p, b, status) = [t EXCEPT !.row = [t.row EXCEPT ![f] = new]]
  BY DEF Created, f, new
<1> QED
  BY <1>2, <1>3

(* A new record takes an id. *)
LEMMA OneIdLess ==
    ASSUME NEW t, NEW n, NEW r \in Ids, \A x \in Ids \ {r} : n.row[x] = t.row[x]
    PROVE  Cardinality(FreeIds(t)) <= Cardinality(FreeIds(n)) + 1
<1>1. FreeIds(t) \ {r} \subseteq FreeIds(n)
  BY DEF FreeIds
<1>2. IsFiniteSet(FreeIds(t)) /\ IsFiniteSet(FreeIds(n)) /\ IsFiniteSet(FreeIds(t) \ {r})
  BY FreeIdsCounted, FS_RemoveElement
<1>3. Cardinality(FreeIds(t) \ {r}) <= Cardinality(FreeIds(n))
  BY <1>1, <1>2, FS_Subset
<1>4. Cardinality(FreeIds(t)) <= Cardinality(FreeIds(t) \ {r}) + 1
  <2>1. CASE r \in FreeIds(t)
    <3>1. Cardinality(FreeIds(t) \ {r}) = Cardinality(FreeIds(t)) - 1
      BY <1>2, <2>1, FS_RemoveElement
    <3> QED
      BY <3>1, FreeIdsCounted
  <2>2. CASE r \notin FreeIds(t)
    <3>1. FreeIds(t) \ {r} = FreeIds(t)
      BY <2>2
    <3> QED
      BY <3>1, FreeIdsCounted
  <2> QED
    BY <2>1, <2>2
<1>5. Cardinality(FreeIds(t) \ {r}) \in Nat
  BY <1>2, FS_CardinalityType
<1> QED
  BY <1>3, <1>4, <1>5, FreeIdsCounted

(* A record that keeps its owner, or is new and of user u. *)
LEMMA OneRowKeeps ==
    ASSUME NEW t \in Trees, NEW n \in Trees, NEW r \in Ids, NEW u,
           \A x \in Ids \ {r} : n.row[x] = t.row[x],
           Live(n.row[r]) => n.row[r].owner = u \/ (Live(t.row[r]) /\ n.row[r].owner = t.row[r].owner),
           OwnedBy(t, u) => Fair(t, n)
    PROVE  Keeps(t, n, u, 1)
<1>1. OwnedBy(t, u) => OwnedBy(n, u)
  BY DEF OwnedBy, LiveRows
<1> QED
  BY <1>1, OneIdLess DEF Keeps


-----------------------------------------------------------------------------
(* The operations of FileTree.                                              *)

LEMMA CreatedFields ==
    ASSUME NEW t \in Trees, NEW u \in Users, NEW p \in Paths, NEW b \in Bodies,
           NEW status \in {"pending", "committed"}, FreeIds(t) # {}
    PROVE  LET n == Created(t, u, p, b, status)
               r == FreshId(t)
           IN  /\ r \in Ids /\ t.row[r].status = "none" /\ n \in Trees
               /\ n.used = t.used
               /\ n.row[r].status = status /\ n.row[r].owner = u /\ n.row[r].body = b
               /\ \A x \in Ids \ {r} : n.row[x] = t.row[x]
<1> DEFINE n == Created(t, u, p, b, status)
           r == FreshId(t)
           new == [NoRow EXCEPT !.status = status, !.owner = u, !.path = p, !.body = b]
<1>1. r \in Ids /\ t.row[r].status = "none"
  BY FreshIdIn
<1>2. n \in Trees
  BY CreatedTyped
<1>3. n = [t EXCEPT !.row = [t.row EXCEPT ![r] = new]]
  BY DEF Created
<1>4. new.status = status /\ new.owner = u /\ new.body = b
  BY DEF NoRow
<1> HIDE DEF r, new, n
<1>5. n.row = [t.row EXCEPT ![r] = new] /\ n.used = t.used
  BY <1>3, TreeFields
<1>6. n.row[r] = new /\ \A x \in Ids \ {r} : n.row[x] = t.row[x]
  BY <1>1, <1>5, TreeFields
<1> QED
  BY <1>1, <1>2, <1>4, <1>5, <1>6 DEF n, r

LEMMA PendingKeeps ==
    ASSUME NEW t \in Trees, NEW u \in Users, NEW p \in Paths, NEW b \in Bodies,
           FreeIds(t) # {}
    PROVE  LET n == Created(t, u, p, b, "pending") IN Keeps(t, n, u, 1) /\ Fair(t, n)
<1> DEFINE n == Created(t, u, p, b, "pending")
           r == FreshId(t)
<1>1. /\ r \in Ids /\ t.row[r].status = "none" /\ n \in Trees /\ n.used = t.used
      /\ n.row[r].status = "pending" /\ \A x \in Ids \ {r} : n.row[x] = t.row[x]
  BY CreatedFields
<1> HIDE DEF n, r
<1>2. ASSUME NEW v \in Users PROVE n.used[v] = t.used[v] - CountsFor(t, r, v) + CountsFor(n, r, v)
  <2>1. CountsFor(t, r, v) = 0 /\ CountsFor(n, r, v) = 0
    BY <1>1 DEF CountsFor, Live
  <2>2. t.used[v] \in Int
    BY TreeFields
  <2> QED
    BY <1>1, <2>1, <2>2
<1>3. Fair(t, n)
  BY <1>1, <1>2, OneRowFair
<1>4. ~Live(n.row[r])
  BY <1>1 DEF Live
<1>5. Keeps(t, n, u, 1)
  BY <1>1, <1>3, <1>4, OneRowKeeps
<1> QED
  BY <1>3, <1>5 DEF n

LEMMA CommittedRowKeeps ==
    ASSUME NEW t \in Trees, NEW u \in Users, NEW p \in Paths, NEW b \in Bodies,
           FreeIds(t) # {}
    PROVE  LET n == Charged(Created(t, u, p, b, "committed"), u, Size(b))
           IN  Keeps(t, n, u, 1) /\ Fair(t, n)
<1> DEFINE m == Created(t, u, p, b, "committed")
           n == Charged(m, u, Size(b))
           r == FreshId(t)
<1>1. /\ r \in Ids /\ t.row[r].status = "none" /\ m \in Trees /\ m.used = t.used
      /\ m.row[r].status = "committed" /\ m.row[r].owner = u /\ m.row[r].body = b
      /\ \A x \in Ids \ {r} : m.row[x] = t.row[x]
  BY CreatedFields
<1>2. b \in Nat /\ Size(b) = b
  BY BodiesAreNat DEF Size
<1> HIDE DEF m, r
<1>3. n \in Trees
  BY <1>1, <1>2, ChargedTyped
<1>4. n.row = m.row /\ n.used = [t.used EXCEPT ![u] = t.used[u] + b]
  BY <1>1, <1>2, TreeFields DEF Charged
<1> HIDE DEF n
<1>5. ASSUME NEW v \in Users PROVE n.used[v] = t.used[v] - CountsFor(t, r, v) + CountsFor(n, r, v)
  <2>1. CountsFor(t, r, v) = 0 /\ CountsFor(n, r, v) = IF v = u THEN b ELSE 0
    BY <1>1, <1>4 DEF CountsFor, Live
  <2>2. t.used[v] \in Int /\ n.used[v] = IF v = u THEN t.used[u] + b ELSE t.used[v]
    BY <1>4, TreeFields
  <2> QED
    BY <1>2, <2>1, <2>2
<1>6. \A x \in Ids \ {r} : n.row[x] = t.row[x]
  BY <1>1, <1>4
<1>7. Fair(t, n)
  BY <1>1, <1>3, <1>5, <1>6, OneRowFair
<1>8. /\ Live(n.row[r]) =>
            n.row[r].owner = u \/ (Live(t.row[r]) /\ n.row[r].owner = t.row[r].owner)
      /\ OwnedBy(t, u) => Fair(t, n)
  BY <1>1, <1>4, <1>7
<1>9. Keeps(t, n, u, 1)
  BY <1>1, <1>3, <1>6, <1>8, OneRowKeeps
<1> QED
  BY <1>7, <1>9 DEF n, m

LEMMA UploadedTyped ==
    ASSUME NEW t \in Trees, NEW u \in Users, NEW p \in Paths, NEW b \in Bodies
    PROVE  Uploaded(t, u, p, b) \in Trees
<1>1. Stored(t, p, b) \in Trees
  BY StoredMoves DEF BucketMoves
<1>2. Created(Stored(t, p, b), u, p, b, "committed") \in Trees
  BY <1>1, CreatedTyped
<1>3. Size(b) \in Int
  BY BodiesAreNat DEF Size
<1> QED
  BY <1>2, <1>3, ChargedTyped DEF Uploaded

LEMMA UploadedKeeps ==
    ASSUME NEW t \in Trees, NEW u \in Users, NEW p \in Paths, NEW b \in Bodies,
           FreeIds(t) # {}
    PROVE  Keeps(t, Uploaded(t, u, p, b), u, 1) /\ Fair(t, Uploaded(t, u, p, b))
<1> DEFINE m == Stored(t, p, b)
           n == Charged(Created(m, u, p, b, "committed"), u, Size(b))
<1>1. BucketMoves(t, m)
  BY StoredMoves
<1> HIDE DEF m
<1>2. Keeps(t, m, u, 0) /\ Fair(t, m) /\ m \in Trees /\ FreeIds(m) # {}
  BY <1>1, BucketKeeps DEF BucketMoves, FreeIds
<1>3. Keeps(m, n, u, 1) /\ Fair(m, n)
  BY <1>2, CommittedRowKeeps
<1> HIDE DEF n
<1>4. Keeps(t, n, u, 0 + 1) /\ Fair(t, n)
  BY <1>2, <1>3, KeepsOn, FairOn
<1>5. Uploaded(t, u, p, b) = n
  BY DEF Uploaded, n, m
<1> QED
  BY <1>4, <1>5

(* Records that change their paths alone. *)
LEMMA RowsSame ==
    ASSUME NEW t \in Trees, NEW rows, NEW n, n = [t EXCEPT !.row = rows],
           rows = [r \in Ids |-> rows[r]],
           \A r \in Ids :
              /\ rows[r] \in Row
              /\ Live(rows[r]) <=> Live(t.row[r])
              /\ rows[r].status = "none" <=> t.row[r].status = "none"
              /\ rows[r].owner = t.row[r].owner /\ rows[r].body = t.row[r].body
    PROVE  SameRows(t, n)
<1>1. rows \in [Ids -> Row]
  OBVIOUS
<1>2. n.row = rows /\ n.used = t.used /\ n \in Trees
  BY <1>1, TreeFields DEF Trees
<1> QED
  BY <1>2 DEF SameRows

LEMMA Repathed ==
    ASSUME NEW f \in Row, NEW p \in Paths
    PROVE  LET g == [f EXCEPT !.path = p]
           IN  g \in Row /\ g.status = f.status /\ g.owner = f.owner /\ g.body = f.body
BY DEF Row

LEMMA HealedSame ==
    ASSUME NEW t \in Trees, NEW p \in Paths
    PROVE  SameRows(t, Healed(t, p))
<1> DEFINE rows == [r \in Ids |-> IF Heals(t, p) /\ r \in Namesakes(t, p)
                                  THEN [t.row[r] EXCEPT !.path = p] ELSE t.row[r]]
<1>1. Healed(t, p) = [t EXCEPT !.row = rows]
  BY DEF Healed
<1>2. ASSUME NEW r \in Ids
      PROVE  /\ rows[r] \in Row /\ rows[r].status = t.row[r].status
             /\ rows[r].owner = t.row[r].owner /\ rows[r].body = t.row[r].body
  BY RowType, Repathed
<1>3. rows = [r \in Ids |-> rows[r]]
  OBVIOUS
<1> HIDE DEF rows
<1> QED
  BY <1>1, <1>2, <1>3, RowsSame DEF Live

LEMMA RowsMovedSame ==
    ASSUME NEW t \in Trees, NEW p \in Paths, NEW q \in Paths, Len(p) = Len(q)
    PROVE  SameRows(t, RowsMoved(t, p, q))
<1> DEFINE moves(r) == t.row[r].status = "committed" /\ r \in LiveUnder(t, p)
           rows == [r \in Ids |-> IF moves(r)
                        THEN [t.row[r] EXCEPT !.path = Regrafted(t.row[r].path, p, q)]
                        ELSE t.row[r]]
<1>1. RowsMoved(t, p, q) = [t EXCEPT !.row = rows]
  BY DEF RowsMoved
<1>2. ASSUME NEW r \in Ids
      PROVE  /\ rows[r] \in Row /\ rows[r].status = t.row[r].status
             /\ rows[r].owner = t.row[r].owner /\ rows[r].body = t.row[r].body
  <2>1. ASSUME moves(r) PROVE Regrafted(t.row[r].path, p, q) \in Paths
    <3>1. IsPrefix(p, t.row[r].path) /\ t.row[r].path \in Paths
      BY <2>1, RowType DEF LiveUnder, IsStrictPrefix
    <3> QED
      BY <3>1, PathRegrafted
  <2> QED
    BY <2>1, RowType, Repathed
<1>3. rows = [r \in Ids |-> rows[r]]
  OBVIOUS
<1> HIDE DEF rows
<1> QED
  BY <1>1, <1>2, <1>3, RowsSame DEF Live


LEMMA FoundIn ==
    ASSUME NEW t, NEW p, Found(t, p) # {}
    PROVE  LET r == CHOOSE x \in Found(t, p) : TRUE IN r \in Ids /\ Live(t.row[r])
<1> DEFINE r == CHOOSE x \in Found(t, p) : TRUE
<1>1. r \in Found(t, p)
  OBVIOUS
<1> HIDE DEF r
<1>2. r \in Ids /\ Live(t.row[r])
  BY <1>1, FoundIsLive
<1> QED
  BY <1>2 DEF r

LEMMA SameOn ==
    ASSUME NEW t \in Trees, NEW m, NEW n, SameRows(t, m), SameRows(m, n)
    PROVE  SameRows(t, n)
BY DEF SameRows

(* A request ends Done with a tree that keeps what is to be kept, or Raised with *)
(* some tree, of which only the bucket stays.                                 *)
Results == [tree : Trees, ok : BOOLEAN]
ResultKeeps(t, result, u, c) ==
    result \in Results /\ (result.ok => Keeps(t, result.tree, u, c))
ResultFair(t, result) == result.ok => Fair(t, result.tree)

LEMMA DoneIs ==
    ASSUME NEW n \in Trees
    PROVE  /\ Done(n) \in Results /\ Done(n).ok = TRUE /\ Done(n).tree = n
           /\ Raised(n) \in Results /\ Raised(n).ok = FALSE /\ Raised(n).tree = n
BY DEF Done, Raised, Results

LEMMA DoneKeeps ==
    ASSUME NEW t, NEW n, NEW u, NEW c, Keeps(t, n, u, c)
    PROVE  ResultKeeps(t, Done(n), u, c) /\ (Fair(t, n) => ResultFair(t, Done(n)))
BY DoneIs DEF ResultKeeps, ResultFair, Keeps

LEMMA RaisedKeeps ==
    ASSUME NEW t, NEW n \in Trees, NEW u, NEW c
    PROVE  ResultKeeps(t, Raised(n), u, c) /\ ResultFair(t, Raised(n))
BY DoneIs DEF ResultKeeps, ResultFair

(* commit, or rollback. *)
LEMMA CommittedKeeps ==
    ASSUME NEW t \in Trees, NEW result, NEW u, NEW c \in Nat, ResultKeeps(t, result, u, c)
    PROVE  /\ Keeps(t, Committed(t, result), u, c)
           /\ ResultFair(t, result) => Fair(t, Committed(t, result))
<1>1. result.tree \in Trees /\ result.ok \in BOOLEAN
  BY DEF ResultKeeps, Results
<1>2. CASE result.ok
  BY <1>2 DEF Committed, ResultKeeps, ResultFair
<1>3. CASE ~result.ok
  <2> DEFINE n == [result.tree EXCEPT !.row = t.row, !.used = t.used]
  <2>1. BucketMoves(t, n)
    BY <1>1, TreeFields DEF BucketMoves, Trees
  <2> HIDE DEF n
  <2>2. Keeps(t, n, u, 0) /\ Fair(t, n)
    BY <2>1, BucketKeeps
  <2>3. Keeps(t, n, u, c)
    BY <2>2, KeepsMore
  <2>4. Committed(t, result) = n
    BY <1>3 DEF Committed, n
  <2> QED
    BY <2>2, <2>3, <2>4
<1> QED
  BY <1>1, <1>2, <1>3

LEMMA SiblingPath ==
    ASSUME NEW p \in Paths, p # Root, NEW n \in Names
    PROVE  LET q == Append(Front(p), n) IN q \in Paths /\ q # Root /\ Len(q) = Len(p)
<1>1. /\ Front(p) \in Paths /\ Len(Front(p)) = Len(p) - 1 /\ Len(p) \in Nat
      /\ Len(p) <= MaxDepth
  BY PathParts, PathLength
<1>2. Len(Front(p)) < MaxDepth
  BY <1>1, TreeAssumption
<1> QED
  BY <1>1, <1>2, PathAppended

LEMMA RenamedSame ==
    ASSUME NEW t \in Trees, NEW p \in Paths, p # Root, NEW name \in Names
    PROVE  LET result == RenamedPath(t, p, name)
           IN  result \in Results /\ (result.ok => SameRows(t, result.tree))
<1> DEFINE q == Append(Front(p), name)
           r == CHOOSE x \in Found(t, p) : TRUE
           dir == RowsMoved(Moved(t, p, q), p, q)
           m == Moved(Healed(t, p), p, q)
           file == [m EXCEPT !.row[r].path = q]
           result == IF ~Exists(t, p) THEN Raised(t)
                     ELSE IF IsDirectory(t, p) THEN Done(dir)
                     ELSE IF Ambiguous(t, p) \/ Found(t, p) = {} THEN Raised(t)
                     ELSE IF t.row[r].status = "archived" THEN Raised(t)
                     ELSE Done(file)
<1>1. RenamedPath(t, p, name) = result
  BY DEF RenamedPath
<1>2. q \in Paths /\ Len(p) = Len(q)
  BY SiblingPath
<1> HIDE DEF q
<1>3. SameRows(t, dir)
  <2> DEFINE d == Moved(t, p, q)
  <2>1. BucketMoves(t, d)
    BY <1>2, MovedMoves
  <2> HIDE DEF d
  <2>2. SameRows(t, d) /\ d \in Trees
    BY <2>1, BucketKeeps DEF BucketMoves
  <2>3. SameRows(d, RowsMoved(d, p, q))
    BY <1>2, <2>2, RowsMovedSame
  <2>4. SameRows(t, RowsMoved(d, p, q))
    BY <2>2, <2>3, SameOn
  <2> QED
    BY <2>4 DEF d
<1>4. ASSUME Found(t, p) # {} PROVE SameRows(t, file)
  <2>1. r \in Ids
    BY <1>4, FoundIn
  <2> DEFINE h == Healed(t, p)
  <2>2. SameRows(t, h) /\ h \in Trees
    BY HealedSame DEF SameRows
  <2> HIDE DEF h, r
  <2>3. m = Moved(h, p, q)
    BY DEF h
  <2>4. BucketMoves(h, m)
    BY <1>2, <2>2, <2>3, MovedMoves
  <2> HIDE DEF m
  <2>5. SameRows(h, m) /\ m \in Trees
    BY <2>2, <2>4, BucketKeeps DEF BucketMoves
  <2>6. SameRows(t, m)
    BY <2>2, <2>5, SameOn
  <2> DEFINE g == [m.row[r] EXCEPT !.path = q]
             rows == [m.row EXCEPT ![r] = g]
  <2>7. file = [m EXCEPT !.row = rows]
    BY <2>1, <2>5, TreeFields
  <2>8. /\ g \in Row /\ g.status = m.row[r].status
        /\ g.owner = m.row[r].owner /\ g.body = m.row[r].body
    BY <1>2, <2>1, <2>5, RowType, Repathed
  <2> HIDE DEF g, file
  <2>9. rows = [x \in Ids |-> rows[x]] /\ rows[r] = g /\ \A x \in Ids \ {r} : rows[x] = m.row[x]
    BY <2>1, <2>5, TreeFields
  <2> HIDE DEF rows
  <2>10. ASSUME NEW x \in Ids
         PROVE  /\ rows[x] \in Row /\ rows[x].status = m.row[x].status
                /\ rows[x].owner = m.row[x].owner /\ rows[x].body = m.row[x].body
    BY <2>5, <2>8, <2>9, RowType
  <2>11. SameRows(m, file)
    BY <2>5, <2>7, <2>9, <2>10, RowsSame DEF Live
  <2> QED
    BY <2>6, <2>11, SameOn
<1>5. dir \in Trees /\ (Found(t, p) # {} => file \in Trees)
  <2> HIDE DEF dir, file
  <2> QED
    BY <1>3, <1>4 DEF SameRows
<1>6. \/ result = Raised(t)
      \/ result = Done(dir)
      \/ result = Done(file) /\ Found(t, p) # {}
  <2> HIDE DEF dir, file
  <2> QED
    OBVIOUS
<1> HIDE DEF dir, file, result
<1> QED
  BY <1>1, <1>3, <1>4, <1>5, <1>6, DoneIs

LEMMA RenamedKeeps ==
    ASSUME NEW t \in Trees, NEW u, NEW p \in Paths, p # Root, NEW name \in Names
    PROVE  LET result == RenamedPath(t, p, name)
           IN  ResultKeeps(t, result, u, 0) /\ ResultFair(t, result)
<1> DEFINE result == RenamedPath(t, p, name)
<1>1. result \in Results /\ (result.ok => SameRows(t, result.tree))
  BY RenamedSame
<1> HIDE DEF result
<1>2. result.ok => Keeps(t, result.tree, u, 0) /\ Fair(t, result.tree)
  BY <1>1, SameRowsKeep
<1>3. ResultKeeps(t, result, u, 0) /\ ResultFair(t, result)
  BY <1>1, <1>2 DEF ResultKeeps, ResultFair
<1> QED
  BY <1>3 DEF result


LEMMA Deleted ==
    ASSUME NEW f \in Row
    PROVE  LET g == [f EXCEPT !.status = "deleted"]
           IN  g \in Row /\ g.status = "deleted" /\ g.owner = f.owner /\ g.body = f.body
BY DEF Row

LEMMA RowsDeletedFields ==
    ASSUME NEW t \in Trees, NEW S
    PROVE  LET n == RowsDeleted(t, S)
           IN  /\ n \in Trees /\ n.used = t.used
               /\ \A r \in Ids :
                     /\ r \in S => n.row[r].status = "deleted"
                     /\ r \notin S => n.row[r] = t.row[r]
                     /\ n.row[r].body = t.row[r].body
<1> DEFINE rows == [r \in Ids |-> IF r \in S THEN [t.row[r] EXCEPT !.status = "deleted"]
                                  ELSE t.row[r]]
           n == RowsDeleted(t, S)
<1>1. n = [t EXCEPT !.row = rows]
  BY DEF RowsDeleted
<1>2. rows \in [Ids -> Row]
  <2>1. ASSUME NEW r \in Ids PROVE rows[r] \in Row
    BY RowType, Deleted
  <2> QED
    BY <2>1
<1>3. ASSUME NEW r \in Ids
      PROVE  /\ r \in S => rows[r].status = "deleted"
             /\ r \notin S => rows[r] = t.row[r]
             /\ rows[r].body = t.row[r].body
  BY RowType, Deleted
<1> HIDE DEF rows, n
<1>4. n.row = rows /\ n.used = t.used /\ n \in Trees
  BY <1>1, <1>2, TreeFields DEF Trees
<1> QED
  BY <1>3, <1>4 DEF n

LEMMA DeletedFileKeeps ==
    ASSUME NEW t \in Trees, NEW u, NEW r \in Ids, Live(t.row[r])
    PROVE  LET n == DeletedFile(t, u, r) IN Keeps(t, n, u, 1) /\ Fair(t, n)
<1> DEFINE f == t.row[r]
           bare == IF f.status = "archived" THEN BlobErased(t, r) ELSE Erased(t, f.path)
           m == RowsDeleted(bare, {r})
           n == Charged(m, f.owner, 0 - Size(f.body))
<1>1. BucketMoves(t, bare)
  BY BlobsErasedMoves, ErasedMoves
<1> HIDE DEF bare
<1>2. bare \in Trees /\ bare.row = t.row /\ bare.used = t.used
  BY <1>1 DEF BucketMoves
<1>3. /\ m \in Trees /\ m.used = bare.used
      /\ m.row[r].status = "deleted"
      /\ \A x \in Ids \ {r} : m.row[x] = bare.row[x]
  BY <1>2, RowsDeletedFields
<1>4. f.body \in Nat /\ Size(f.body) = f.body
  BY RowType DEF Size
<1> HIDE DEF m
<1>5. n \in Trees
  BY <1>3, <1>4, ChargedTyped
<1>6. n.row = m.row /\ n.used = [t.used EXCEPT ![f.owner] = t.used[f.owner] + (0 - f.body)]
  BY <1>2, <1>3, <1>4, TreeFields DEF Charged
<1>7. n.row[r].status = "deleted" /\ \A x \in Ids \ {r} : n.row[x] = t.row[x]
  BY <1>2, <1>3, <1>6
<1> DEFINE o == f.owner
           b == f.body
<1>8. o = t.row[r].owner /\ b = t.row[r].body /\ n.used = [t.used EXCEPT ![o] = t.used[o] + (0 - b)]
  BY <1>6
<1> HIDE DEF n, o, b
<1>9. ASSUME NEW v \in Users PROVE n.used[v] = t.used[v] - CountsFor(t, r, v) + CountsFor(n, r, v)
  <2>1. CountsFor(n, r, v) = 0 /\ CountsFor(t, r, v) = IF v = o THEN b ELSE 0
    BY <1>7, <1>8 DEF CountsFor, Live
  <2>2. t.used[v] \in Int /\ n.used[v] = IF v = o THEN t.used[v] + (0 - b) ELSE t.used[v]
    BY <1>8, TreeFields
  <2> QED
    BY <1>4, <1>8, <2>1, <2>2
<1>10. Fair(t, n)
  BY <1>5, <1>7, <1>9, OneRowFair
<1>11. ~Live(n.row[r])
  BY <1>7 DEF Live
<1>12. Keeps(t, n, u, 1)
  BY <1>5, <1>7, <1>10, <1>11, OneRowKeeps
<1>13. DeletedFile(t, u, r) = n
  BY DEF DeletedFile, n, m, bare
<1> QED
  BY <1>10, <1>12, <1>13

(* A directory that is all of u. *)
LEMMA DeletedTreeTyped ==
    ASSUME NEW t \in Trees, NEW u, NEW p
    PROVE  DeletedTree(t, u, p).tree \in Trees /\ DeletedTree(t, u, p) \in Results
<1> DEFINE S == LiveUnder(t, p)
           e == Erased(t, p)
           b == BlobsErased(e, S)
           m == RowsDeleted(b, S)
           n == Charged(m, u, 0 - BytesOf(t, S))
<1>1. S \in SUBSET Ids
  BY DEF LiveUnder, LiveRows
<1>2. BytesOf(t, S) \in Int
  <2> HIDE DEF S
  <2> QED
    BY <1>1, RowsAreSummed, TreeFields
<1>3. e \in Trees
  BY ErasedMoves DEF BucketMoves
<1> HIDE DEF S, e
<1>4. b \in Trees
  BY <1>3, BlobsErasedMoves DEF BucketMoves
<1> HIDE DEF b
<1>5. m \in Trees
  BY <1>4, RowsDeletedFields
<1> HIDE DEF m
<1>6. n \in Trees
  BY <1>2, <1>5, ChargedTyped
<1>7. DeletedTree(t, u, p) = IF p = Root \/ ~Exists(t, p) \/ ~IsDirectory(t, p) THEN Raised(t) ELSE Done(n)
  BY DEF DeletedTree, n, m, b, e, S
<1> HIDE DEF n
<1> QED
  BY <1>6, <1>7, DoneIs

LEMMA DeletedTreeKeeps ==
    ASSUME NEW t \in Trees, NEW u \in Users, NEW p
    PROVE  ResultKeeps(t, DeletedTree(t, u, p), u, 0)
<1> DEFINE S == LiveUnder(t, p)
           e == Erased(t, p)
           b == BlobsErased(e, S)
           m == RowsDeleted(b, S)
           n == Charged(m, u, 0 - BytesOf(t, S))
<1>1. S \in SUBSET LiveRows(t) /\ LiveRows(t) \in SUBSET Ids
  BY DEF LiveUnder, LiveRows
<1> HIDE DEF S
<1>2. BytesOf(t, S) \in Int /\ BytesOf(t, LiveRows(t)) = BytesOf(t, S) + BytesOf(t, LiveRows(t) \ S)
      /\ BytesOf(t, LiveRows(t) \ S) \in Int
  <2> DEFINE L == LiveRows(t)
             R == L \ S
  <2>1. L \in SUBSET Ids /\ R \in SUBSET Ids /\ S \in SUBSET Ids /\ S \in SUBSET L
    BY <1>1
  <2> HIDE DEF L, R
  <2>2. /\ BytesOf(t, L) = SumFunctionOnSet(BodyOf(t), L)
        /\ BytesOf(t, S) = SumFunctionOnSet(BodyOf(t), S)
        /\ BytesOf(t, R) = SumFunctionOnSet(BodyOf(t), R)
        /\ IsFiniteSet(L) /\ IntOn(BodyOf(t), L) /\ BytesOf(t, S) \in Int /\ BytesOf(t, R) \in Int
    BY <2>1, RowsAreSummed, TreeFields
  <2>3. SumFunctionOnSet(BodyOf(t), L)
          = SumFunctionOnSet(BodyOf(t), S) + SumFunctionOnSet(BodyOf(t), L \ S)
    BY <2>1, <2>2, SumSplit
  <2>4. L \ S = R
    BY DEF R
  <2>5. BytesOf(t, L) = BytesOf(t, S) + BytesOf(t, R)
    BY <2>2, <2>3, <2>4
  <2> QED
    BY <2>2, <2>5 DEF R, L
<1>3. e \in Trees /\ e.row = t.row /\ e.used = t.used
  BY ErasedMoves DEF BucketMoves
<1> HIDE DEF e
<1>4. b \in Trees /\ b.row = t.row /\ b.used = t.used
  BY <1>3, BlobsErasedMoves DEF BucketMoves
<1> HIDE DEF b
<1>5. /\ m \in Trees /\ m.used = b.used
      /\ \A r \in Ids :
            /\ r \in S => m.row[r].status = "deleted"
            /\ r \notin S => m.row[r] = b.row[r]
            /\ m.row[r].body = b.row[r].body
  BY <1>4, RowsDeletedFields
<1> HIDE DEF m
<1>6. n \in Trees
  BY <1>2, <1>5, ChargedTyped
<1>7. n.row = m.row /\ n.used = [t.used EXCEPT ![u] = t.used[u] + (0 - BytesOf(t, S))]
  BY <1>4, <1>5, TreeFields DEF Charged
<1> HIDE DEF n
<1>8. ASSUME NEW r \in Ids
      PROVE  /\ r \in S => n.row[r].status = "deleted"
             /\ r \notin S => n.row[r] = t.row[r]
             /\ n.row[r].body = t.row[r].body
  BY <1>4, <1>5, <1>7
<1>9. LiveRows(n) = LiveRows(t) \ S
  BY <1>1, <1>8 DEF LiveRows, Live
<1>10. FreeIds(n) = FreeIds(t)
  BY <1>1, <1>8 DEF FreeIds, LiveRows, Live
<1>11. ASSUME OwnedBy(t, u) PROVE OwnedBy(n, u)
  BY <1>1, <1>8, <1>9, <1>11 DEF OwnedBy
<1>12. ASSUME OwnedBy(t, u), Balanced(t), NEW v \in Users
       PROVE  n.used[v] = BytesOf(n, Owned(n, v))
  <2>1. t.used[v] = BytesOf(t, Owned(t, v))
    BY <1>12 DEF Balanced
  <2>2. CASE v = u
    <3>1. Owned(t, u) = LiveRows(t) /\ Owned(n, u) = LiveRows(t) \ S
      BY <1>9, <1>11, <1>12 DEF Owned, OwnedBy
    <3>2. BytesOf(n, LiveRows(t) \ S) = BytesOf(t, LiveRows(t) \ S)
      <4> DEFINE R == LiveRows(t) \ S
      <4>1. R \in SUBSET Ids
        BY <1>1
      <4> HIDE DEF R
      <4>2. BytesOf(n, R) = BytesOf(t, R)
        BY <1>6, <1>8, <4>1, TreeFields, BytesSame
      <4> QED
        BY <4>2 DEF R
    <3>3. n.used[u] = t.used[u] + (0 - BytesOf(t, S)) /\ t.used[u] \in Int
      BY <1>7, TreeFields
    <3>4. t.used[u] = BytesOf(t, S) + BytesOf(t, LiveRows(t) \ S)
      BY <1>2, <2>1, <2>2, <3>1
    <3>5. n.used[u] = BytesOf(t, LiveRows(t) \ S)
      BY <1>2, <3>3, <3>4
    <3>6. BytesOf(n, Owned(n, u)) = BytesOf(t, LiveRows(t) \ S)
      BY <3>1, <3>2
    <3> QED
      BY <2>2, <3>5, <3>6
  <2>3. CASE v # u
    <3>1. Owned(t, v) = {} /\ Owned(n, v) = {}
      BY <1>11, <1>12, <2>3 DEF Owned, OwnedBy
    <3>2. BytesOf(n, {}) = BytesOf(t, {})
      BY <1>6, TreeFields, BytesSame
    <3>3. n.used[v] = t.used[v]
      BY <1>7, <2>3, TreeFields
    <3> QED
      BY <2>1, <3>1, <3>2, <3>3
  <2> QED
    BY <2>2, <2>3
<1>13. Keeps(t, n, u, 0)
  BY <1>6, <1>10, <1>11, <1>12, FreeIdsCounted DEF Keeps, Fair, Balanced
<1>14. DeletedTree(t, u, p) = IF p = Root \/ ~Exists(t, p) \/ ~IsDirectory(t, p) THEN Raised(t) ELSE Done(n)
  BY DEF DeletedTree, n, m, b, e, S
<1> QED
  BY <1>13, <1>14, DoneKeeps, RaisedKeeps


LEMMA DeletedPathKeeps ==
    ASSUME NEW t \in Trees, NEW u \in Users, NEW p \in Paths, NEW sec
    PROVE  LET result == DeletedPath(sec, t, u, p)
           IN  ResultKeeps(t, result, u, 1) /\ (sec # "FILES" => ResultFair(t, result))
<1> DEFINE r == CHOOSE x \in Found(t, p) : TRUE
           h == Healed(t, p)
           file == DeletedFile(h, u, r)
           dir == DeletedTree(t, u, p)
           bare == Erased(t, p)
           result == DeletedPath(sec, t, u, p)
<1>1. \/ result = Raised(t)
      \/ result = Done(file) /\ Found(t, p) # {}
      \/ result = dir /\ sec = "FILES"
      \/ result = Done(bare)
  <2> DEFINE cases == IF Ambiguous(t, p) THEN Raised(t)
                      ELSE IF Found(t, p) # {} THEN
                          IF MayDelete(sec, t, u, r) THEN Done(file) ELSE Raised(t)
                      ELSE IF ~Exists(t, p) THEN Raised(t)
                      ELSE IF IsDirectory(t, p) /\ sec = "FILES" /\ p # Root THEN dir
                      ELSE Done(bare)
  <2>1. result = cases
    BY DEF DeletedPath
  <2> HIDE DEF result, file, dir, bare, r
  <2> QED
    BY <2>1
<1>2. ASSUME Found(t, p) # {} PROVE Keeps(t, file, u, 1) /\ Fair(t, file)
  <2>1. r \in Ids /\ Live(t.row[r])
    BY <1>2, FoundIn
  <2> HIDE DEF r
  <2>2. SameRows(t, h)
    BY HealedSame
  <2> HIDE DEF h
  <2>3. Keeps(t, h, u, 0) /\ Fair(t, h) /\ h \in Trees /\ Live(h.row[r])
    BY <2>1, <2>2, SameRowsKeep DEF SameRows
  <2>4. Keeps(h, file, u, 1) /\ Fair(h, file)
    BY <2>1, <2>3, DeletedFileKeeps
  <2> HIDE DEF file
  <2>5. Keeps(t, file, u, 0 + 1) /\ Fair(t, file)
    BY <2>3, <2>4, KeepsOn, FairOn
  <2> QED
    BY <2>5
<1>3. Keeps(t, bare, u, 1) /\ Fair(t, bare)
  <2>1. BucketMoves(t, bare)
    BY ErasedMoves
  <2> HIDE DEF bare
  <2> QED
    BY <2>1, BucketKeeps, KeepsMore
<1>4. ResultKeeps(t, dir, u, 1)
  <2>1. ResultKeeps(t, dir, u, 0)
    BY DeletedTreeKeeps
  <2> HIDE DEF dir
  <2> QED
    BY <2>1, KeepsMore DEF ResultKeeps
<1> HIDE DEF file, bare, dir, result
<1>5. ResultKeeps(t, result, u, 1) /\ (sec # "FILES" => ResultFair(t, result))
  BY <1>1, <1>2, <1>3, <1>4, DoneKeeps, RaisedKeeps
<1> QED
  BY <1>5 DEF result

LEMMA RowOverwritten ==
    ASSUME NEW t \in Trees, NEW u \in Users, NEW r \in Ids, Live(t.row[r]), NEW b \in Bodies,
           NEW more, more = b - t.row[r].body
    PROVE  Keeps(t, Charged([t EXCEPT !.row[r].body = b], u, more), u, 1)
<1> DEFINE f == t.row[r]
           g == [f EXCEPT !.body = b]
           n == Charged([t EXCEPT !.row[r].body = b], u, more)
<1>1. g \in Row /\ g.status = f.status /\ g.owner = f.owner /\ g.body = b /\ f.body \in Nat
  BY RowType DEF Row
<1>2. more \in Int
  BY <1>1, BodiesAreNat
<1> DEFINE rows == [t.row EXCEPT ![r] = g]
           m == [t EXCEPT !.row = rows]
<1>3. [t EXCEPT !.row[r].body = b] = m
  BY TreeFields
<1> HIDE DEF g
<1>4. /\ n \in Trees /\ n.row[r] = g /\ \A x \in Ids \ {r} : n.row[x] = t.row[x]
      /\ \A v \in Users : n.used[v] = IF v = u THEN t.used[v] + more ELSE t.used[v]
  <2>1. rows \in [Ids -> Row] /\ rows[r] = g /\ \A x \in Ids \ {r} : rows[x] = t.row[x]
    BY <1>1, TreeFields
  <2> HIDE DEF rows
  <2>2. m \in Trees /\ m.row = rows /\ m.used = t.used
    BY <2>1, TreeFields DEF Trees
  <2>3. n = Charged(m, u, more)
    BY <1>3, Zenon
  <2> HIDE DEF m, n
  <2>4. n \in Trees
    BY <1>2, <2>2, <2>3, ChargedTyped
  <2>5. n.row = rows /\ n.used = [t.used EXCEPT ![u] = t.used[u] + more]
    BY <2>2, <2>3, TreeFields DEF Charged
  <2>6. \A v \in Users : n.used[v] = IF v = u THEN t.used[v] + more ELSE t.used[v]
    BY <2>5, TreeFields
  <2> QED
    BY <2>1, <2>4, <2>5, <2>6
<1> HIDE DEF n
<1>5. ASSUME OwnedBy(t, u) PROVE Fair(t, n)
  <2>1. f.owner = u
    BY <1>5 DEF OwnedBy, LiveRows
  <2>2. ASSUME NEW v \in Users
        PROVE  n.used[v] = t.used[v] - CountsFor(t, r, v) + CountsFor(n, r, v)
    <3>1. /\ CountsFor(t, r, v) = IF v = u THEN f.body ELSE 0
          /\ CountsFor(n, r, v) = IF v = u THEN b ELSE 0
      BY <1>1, <1>4, <2>1 DEF CountsFor, Live
    <3>2. t.used[v] \in Int /\ b \in Nat
      BY TreeFields, BodiesAreNat
    <3> QED
      BY <1>1, <1>4, <3>1, <3>2
  <2> QED
    BY <1>4, <2>2, OneRowFair
<1>6. Live(n.row[r]) =>
         n.row[r].owner = u \/ (Live(t.row[r]) /\ n.row[r].owner = t.row[r].owner)
  BY <1>1, <1>4
<1>7. Keeps(t, n, u, 1)
  BY <1>4, <1>5, <1>6, OneRowKeeps
<1> QED
  BY <1>7 DEF n

LEMMA OverwrittenKeeps ==
    ASSUME NEW t \in Trees, NEW u \in Users, NEW p \in Paths, NEW b \in Bodies,
           FreeIds(t) # {}
    PROVE  ResultKeeps(t, Overwritten(t, u, p, b), u, 1)
<1> DEFINE h == Healed(t, p)
           r == CHOOSE x \in Found(t, p) : TRUE
           more == Size(b) - Size(t.row[r].body)
           s == Stored(h, p, b)
           n == Charged([s EXCEPT !.row[r].body = b], u, more)
           new == Uploaded(t, u, p, b)
           result == Overwritten(t, u, p, b)
<1>1. \/ result = Raised(t)
      \/ result = Done(new)
      \/ result = Done(n) /\ Found(t, p) # {}
  <2> DEFINE cases == CASE Ambiguous(t, p) -> Raised(t)
                        [] Found(t, p) = {} -> Done(new)
                        [] OTHER -> IF GrowthRefused(t, u, more) THEN Raised(t) ELSE Done(n)
  <2>1. result = cases
    BY DEF Overwritten
  <2> HIDE DEF result, n, new
  <2>2. CASE Ambiguous(t, p) /\ Found(t, p) # {}
    <3>1. cases = Raised(t)
      BY <2>2, Zenon
    <3> QED
      BY <2>1, <3>1
  <2>3. CASE ~Ambiguous(t, p) /\ Found(t, p) = {}
    <3>1. cases = Done(new)
      BY <2>3, Zenon
    <3> QED
      BY <2>1, <3>1
  <2>4. CASE Ambiguous(t, p) /\ Found(t, p) = {}
    <3>1. At(t, p) = {} \/ Heals(t, p)
      BY <2>4 DEF Found
    <3>2. At(t, p) = {} /\ Cardinality({}) = 0
      BY <3>1, FS_EmptySet DEF Heals
    <3>3. ~Ambiguous(t, p)
      BY <3>2 DEF Ambiguous
    <3> QED
      BY <2>4, <3>3
  <2>5. CASE ~Ambiguous(t, p) /\ Found(t, p) # {}
    <3>1. cases = IF GrowthRefused(t, u, more) THEN Raised(t) ELSE Done(n)
      BY <2>5, Zenon
    <3> QED
      BY <2>1, <2>5, <3>1
  <2> QED
    BY <2>2, <2>3, <2>4, <2>5
<1>2. ASSUME Found(t, p) # {} PROVE Keeps(t, n, u, 1)
  <2>1. r \in Ids /\ Live(t.row[r])
    BY <1>2, FoundIn
  <2>2. more = b - t.row[r].body
    BY DEF Size
  <2> HIDE DEF r, more
  <2>3. SameRows(t, h)
    BY HealedSame
  <2> HIDE DEF h
  <2>4. h \in Trees
    BY <2>3 DEF SameRows
  <2>5. BucketMoves(h, s)
    BY <2>4, StoredMoves
  <2> HIDE DEF s
  <2>6. SameRows(h, s)
    BY <2>4, <2>5, BucketKeeps
  <2>7. SameRows(t, s)
    BY <2>3, <2>6, SameOn
  <2>8. Keeps(t, s, u, 0) /\ s \in Trees /\ Live(s.row[r]) /\ s.row[r].body = t.row[r].body
    BY <2>1, <2>7, SameRowsKeep DEF SameRows
  <2>9. more = b - s.row[r].body
    BY <2>2, <2>8
  <2>10. Keeps(s, n, u, 1)
    BY <2>1, <2>8, <2>9, RowOverwritten
  <2> HIDE DEF n
  <2>11. Keeps(t, n, u, 0 + 1)
    BY <2>8, <2>10, KeepsOn
  <2> QED
    BY <2>11
<1>3. Keeps(t, new, u, 1)
  BY UploadedKeeps
<1> HIDE DEF n, new, result
<1>4. ResultKeeps(t, result, u, 1)
  BY <1>1, <1>2, <1>3, DoneKeeps, RaisedKeeps
<1> QED
  BY <1>4 DEF result

LEMMA ArchivedKeeps ==
    ASSUME NEW t \in Trees, NEW r \in Ids, t.row[r].status = "committed",
           HasObject(t, t.row[r].path), NEW u
    PROVE  Keeps(t, ArchivedFile(t, r), u, 0) /\ Fair(t, ArchivedFile(t, r))
<1> DEFINE p == t.row[r].path
           K == (DOMAIN t.obj \ {Hot(p)}) \cup {Zst(p)}
           f == [k \in K |-> IF k = Zst(p) THEN t.obj[Hot(p)] ELSE t.obj[k]]
           m == [t EXCEPT !.obj = f]
           g == [t.row[r] EXCEPT !.status = "archived", !.blob = p]
           rows == [t.row EXCEPT ![r] = g]
           n == ArchivedFile(t, r)
<1>1. p \in Paths /\ t.row[r] \in Row
  BY RowType
<1>2. n = [t EXCEPT !.obj = f, !.row = rows]
  <2>1. n = [t EXCEPT !.obj = f,
                      !.row = [t.row EXCEPT ![r].status = "archived", ![r].blob = p]]
    BY TreeFields DEF ArchivedFile
  <2>2. [t.row EXCEPT ![r].status = "archived", ![r].blob = p] = rows
    BY TreeFields
  <2> QED
    BY <2>1, <2>2
<1>3. f \in Buckets
  <2>1. K \in SUBSET Keys /\ \A k \in K : f[k] \in Bodies
    BY <1>1, TreeFields, BucketIs, KeysOfPaths DEF HasObject
  <2>2. f = [k \in K |-> f[k]]
    OBVIOUS
  <2> HIDE DEF f, K
  <2> QED
    BY <2>1, <2>2, BucketMade
<1>4. g \in Row /\ g.status = "archived" /\ g.owner = t.row[r].owner /\ g.body = t.row[r].body
  BY <1>1 DEF Row
<1> HIDE DEF f, g, n
<1>5. rows[r] = g /\ (\A x \in Ids \ {r} : rows[x] = t.row[x]) /\ rows \in [Ids -> Row]
  BY <1>4, TreeFields
<1> HIDE DEF rows
<1>6. n \in Trees /\ n.row = rows /\ n.used = t.used
  BY <1>2, <1>3, <1>5, TreeFields DEF Trees
<1>7. ASSUME NEW x \in Ids
      PROVE  /\ Live(n.row[x]) <=> Live(t.row[x])
             /\ n.row[x].status = "none" <=> t.row[x].status = "none"
             /\ n.row[x].owner = t.row[x].owner /\ n.row[x].body = t.row[x].body
  <2>1. CASE x = r
    BY <1>4, <1>5, <1>6, <2>1 DEF Live
  <2>2. CASE x # r
    BY <1>5, <1>6, <2>2
  <2> QED
    BY <2>1, <2>2
<1>8. SameRows(t, n)
  BY <1>6, <1>7 DEF SameRows
<1> QED
  BY <1>8, SameRowsKeep DEF n

(* Records go: those left are what they were. *)
LEMMA RemovedKeeps ==
    ASSUME NEW t \in Trees, NEW n \in Trees, NEW M, Fair(t, n), NEW u,
           \A r \in Ids : /\ r \in M => n.row[r] = NoRow
                          /\ r \notin M => n.row[r] = t.row[r]
    PROVE  Keeps(t, n, u, 0)
<1>1. FreeIds(t) \subseteq FreeIds(n)
  BY DEF FreeIds, NoRow
<1>2. Cardinality(FreeIds(t)) <= Cardinality(FreeIds(n))
  BY <1>1, FreeIdsCounted, FS_Subset
<1>3. ASSUME NEW r \in LiveRows(n) PROVE r \in LiveRows(t) /\ n.row[r] = t.row[r]
  <2>1. r \notin M
    BY DEF LiveRows, Live, NoRow
  <2> QED
    BY <2>1 DEF LiveRows
<1>4. OwnedBy(t, u) => OwnedBy(n, u)
  BY <1>3 DEF OwnedBy
<1> QED
  BY <1>2, <1>4, FreeIdsCounted DEF Keeps

LEMMA NoRowIsARow == NoRow \in Row
BY RootIsAPath DEF NoRow, Row

LEMMA PendingRemovedKeeps ==
    ASSUME NEW t \in Trees, NEW u
    PROVE  Keeps(t, PendingRemoved(t), u, 0) /\ Fair(t, PendingRemoved(t))
<1> DEFINE M == {r \in Ids : t.row[r].status = "pending"}
           rows == [r \in Ids |-> IF t.row[r].status = "pending" THEN NoRow ELSE t.row[r]]
           n == PendingRemoved(t)
<1>1. n = [t EXCEPT !.row = rows]
  BY DEF PendingRemoved
<1>2. rows \in [Ids -> Row] /\ \A r \in Ids : /\ r \in M => rows[r] = NoRow
                                              /\ r \notin M => rows[r] = t.row[r]
  BY NoRowIsARow, TreeFields
<1> HIDE DEF rows, n
<1>3. n \in Trees /\ n.row = rows /\ n.used = t.used
  BY <1>1, <1>2, TreeFields DEF Trees
<1>4. ASSUME NEW v \in Users PROVE BytesOf(n, Owned(n, v)) = BytesOf(t, Owned(t, v))
  <2>1. ASSUME NEW r \in Ids PROVE Live(n.row[r]) <=> Live(t.row[r])
    <3>1. CASE r \in M
      BY <1>2, <1>3, <3>1 DEF Live, NoRow
    <3>2. CASE r \notin M
      BY <1>2, <1>3, <3>2
    <3> QED
      BY <3>1, <3>2
  <2>2. ASSUME NEW r \in LiveRows(t) PROVE r \in Ids /\ n.row[r] = t.row[r]
    BY <1>2, <1>3 DEF LiveRows, Live
  <2>3. Owned(n, v) = Owned(t, v) /\ Owned(t, v) \in SUBSET Ids
    BY <2>1, <2>2 DEF Owned, LiveRows
  <2>4. \A r \in Owned(t, v) : n.row[r].body = t.row[r].body
    BY <2>2 DEF Owned
  <2> QED
    BY <1>3, <2>3, <2>4, TreeFields, BytesSame
<1>5. Fair(t, n)
  BY <1>3, <1>4 DEF Fair, Balanced
<1>6. Keeps(t, n, u, 0)
  BY <1>2, <1>3, <1>5, RemovedKeeps
<1> QED
  BY <1>5, <1>6 DEF n

LEMMA UserDeletedKeeps ==
    ASSUME NEW t \in Trees, NEW v \in Users, NEW u
    PROVE  Keeps(t, UserDeleted(t, v), u, 0) /\ Fair(t, UserDeleted(t, v))
<1> DEFINE mine == {r \in Ids : t.row[r].owner = v}
           blobs == {t.row[r].blob : r \in {x \in mine : t.row[x].blob # Root}}
           paths == {t.row[r].path : r \in {x \in mine : t.row[x].blob = Root}}
           spared(k) == /\ \A p \in paths : k # Hot(p) /\ ~IsStrictPrefix(p, k.at)
                        /\ \A p \in blobs : k # Zst(p)
           S == {k \in DOMAIN t.obj : ~spared(k)}
           D == {d \in t.dirs : \A p \in paths : ~IsPrefix(p, d)}
           cut == [t EXCEPT !.obj = Restrict(@, DOMAIN @ \ S), !.dirs = D]
           rows == [r \in Ids |-> IF r \in mine THEN NoRow ELSE t.row[r]]
           n == UserDeleted(t, v)
<1>1. n = [cut EXCEPT !.row = rows, !.used = [t.used EXCEPT ![v] = 0]]
  <2>1. n = [t EXCEPT !.obj = Restrict(t.obj, {k \in DOMAIN t.obj : spared(k)}), !.dirs = D,
                      !.row = rows, !.used = [t.used EXCEPT ![v] = 0]]
    BY DEF UserDeleted
  <2>2. {k \in DOMAIN t.obj : spared(k)} = DOMAIN t.obj \ S
    <3> HIDE DEF spared
    <3> QED
      OBVIOUS
  <2> HIDE DEF S, D, rows, n, mine, blobs, paths
  <2>3. n = [t EXCEPT !.obj = Restrict(t.obj, DOMAIN t.obj \ S), !.dirs = D,
                      !.row = rows, !.used = [t.used EXCEPT ![v] = 0]]
    BY <2>1, <2>2
  <2> QED
    BY <2>3, TreeFields
<1>2. BucketMoves(t, cut)
  <2>1. D \in SUBSET (Paths \ {Root})
    BY TreeFields
  <2> HIDE DEF D, S
  <2> QED
    BY <2>1, CutMoves
<1> HIDE DEF cut
<1>3. rows \in [Ids -> Row] /\ \A r \in Ids : /\ r \in mine => rows[r] = NoRow
                                              /\ r \notin mine => rows[r] = t.row[r]
  BY NoRowIsARow, TreeFields
<1>4. [t.used EXCEPT ![v] = 0] \in [Users -> Int]
  BY TreeFields
<1> HIDE DEF rows, n
<1>5. n \in Trees /\ n.row = rows /\ n.used = [t.used EXCEPT ![v] = 0]
  BY <1>1, <1>2, <1>3, <1>4, TreeFields DEF Trees, BucketMoves
<1>6. ASSUME NEW w \in Users, Balanced(t) PROVE n.used[w] = BytesOf(n, Owned(n, w))
  <2>1. CASE w = v
    <3>1. ASSUME NEW r \in Owned(n, v) PROVE FALSE
      <4>1. r \in Ids /\ Live(n.row[r]) /\ n.row[r].owner = v
        BY DEF Owned, LiveRows
      <4>2. CASE r \in mine
        BY <1>3, <1>5, <4>1, <4>2 DEF Live, NoRow
      <4>3. CASE r \notin mine
        BY <1>3, <1>5, <4>1, <4>3
      <4> QED
        BY <4>2, <4>3
    <3>2. Owned(n, v) = {}
      BY <3>1
    <3>3. BytesOf(n, {}) = 0
      BY SumEmpty DEF BytesOf
    <3> QED
      BY <1>5, <2>1, <3>2, <3>3, TreeFields
  <2>2. CASE w # v
    <3>1. ASSUME NEW r \in Owned(n, w) PROVE r \in Owned(t, w)
      <4>1. r \in Ids /\ Live(n.row[r]) /\ n.row[r].owner = w
        BY DEF Owned, LiveRows
      <4>2. r \notin mine
        BY <1>3, <1>5, <4>1 DEF Live, NoRow
      <4> QED
        BY <1>3, <1>5, <4>1, <4>2 DEF Owned, LiveRows
    <3>2. ASSUME NEW r \in Owned(t, w) PROVE r \in Owned(n, w) /\ n.row[r] = t.row[r]
      <4>1. r \in Ids /\ Live(t.row[r]) /\ t.row[r].owner = w
        BY DEF Owned, LiveRows
      <4>2. n.row[r] = t.row[r]
        BY <1>3, <1>5, <2>2, <4>1
      <4> QED
        BY <4>1, <4>2 DEF Owned, LiveRows
    <3>3. Owned(n, w) = Owned(t, w) /\ Owned(t, w) \in SUBSET Ids
      BY <3>1, <3>2 DEF Owned, LiveRows
    <3>4. BytesOf(n, Owned(t, w)) = BytesOf(t, Owned(t, w))
      BY <1>5, <3>2, <3>3, TreeFields, BytesSame
    <3>5. n.used[w] = t.used[w]
      BY <1>5, <2>2, TreeFields
    <3> QED
      BY <1>6, <3>3, <3>4, <3>5 DEF Balanced
  <2> QED
    BY <2>1, <2>2
<1>7. Fair(t, n)
  BY <1>6 DEF Fair, Balanced
<1> HIDE DEF mine
<1>8. Keeps(t, n, u, 0)
  BY <1>3, <1>5, <1>7, RemovedKeeps
<1> QED
  BY <1>7, <1>8 DEF n


-----------------------------------------------------------------------------
(* Reads, which heal.                                                       *)

ResultSame(t, result) == result \in Results /\ (result.ok => SameRows(t, result.tree))

LEMMA SameSelf ==
    ASSUME NEW t \in Trees
    PROVE  SameRows(t, t) /\ ResultSame(t, Done(t)) /\ ResultSame(t, Raised(t))
BY DoneIs DEF SameRows, ResultSame

LEMMA ResultSameKeeps ==
    ASSUME NEW t \in Trees, NEW result, NEW u, ResultSame(t, result)
    PROVE  ResultKeeps(t, result, u, 0) /\ ResultFair(t, result)
<1>1. result.ok => Keeps(t, result.tree, u, 0) /\ Fair(t, result.tree)
  BY SameRowsKeep DEF ResultSame
<1> QED
  BY <1>1 DEF ResultSame, ResultKeeps, ResultFair

LEMMA DoneSame ==
    ASSUME NEW t, NEW n, SameRows(t, n)
    PROVE  ResultSame(t, Done(n))
<1>1. n \in Trees
  BY DEF SameRows
<1> QED
  BY <1>1, DoneIs DEF ResultSame

(* A read that comes after. *)
LEMMA SameThen ==
    ASSUME NEW t \in Trees, NEW before, ResultSame(t, before),
           NEW after, before.ok => ResultSame(before.tree, after)
    PROVE  ResultSame(t, IF before.ok THEN after ELSE before)
<1>1. CASE before.ok
  <2>1. SameRows(t, before.tree) /\ before.tree \in Trees /\ ResultSame(before.tree, after)
    BY <1>1 DEF ResultSame, Results
  <2>2. after.ok => SameRows(before.tree, after.tree)
    BY <2>1 DEF ResultSame
  <2>3. after.ok => SameRows(t, after.tree)
    BY <2>1, <2>2, SameOn
  <2> QED
    BY <1>1, <2>1, <2>3 DEF ResultSame
<1>2. CASE ~before.ok
  BY <1>2
<1> QED
  BY <1>1, <1>2

LEMMA FileReadSame ==
    ASSUME NEW t \in Trees, NEW p \in Paths
    PROVE  ResultSame(t, FileRead(t, p))
<1>1. ResultSame(t, Done(Healed(t, p)))
  BY HealedSame, DoneSame
<1> QED
  BY <1>1, SameSelf DEF FileRead

LEMMA RunReadSame ==
    ASSUME NEW t \in Trees, NEW p \in Paths, Len(p) < MaxDepth
    PROVE  ResultSame(t, RunRead(t, p))
<1>1. RunMetaOf(p) \in Paths
  BY PathAppended, LibraryAssumption DEF RunMetaOf
<1>2. ResultSame(t, Done(Healed(t, RunMetaOf(p))))
  BY <1>1, HealedSame, DoneSame
<1> QED
  BY <1>2, SameSelf DEF RunRead

LEMMA ThenKeeps ==
    ASSUME NEW t \in Trees, NEW before, NEW u, NEW c, ResultKeeps(t, before, u, c),
           NEW after, NEW d \in Nat, before.ok => ResultKeeps(before.tree, after, u, d)
    PROVE  ResultKeeps(t, IF before.ok THEN after ELSE before, u, c + d)
<1>1. CASE before.ok
  <2>1. Keeps(t, before.tree, u, c) /\ ResultKeeps(before.tree, after, u, d)
    BY <1>1 DEF ResultKeeps
  <2>2. after.ok => Keeps(t, after.tree, u, c + d)
    BY <2>1, KeepsOn DEF ResultKeeps
  <2> QED
    BY <1>1, <2>1, <2>2 DEF ResultKeeps
<1>2. CASE ~before.ok
  BY <1>2 DEF ResultKeeps
<1> QED
  BY <1>1, <1>2

LEMMA ResultKeepsMore ==
    ASSUME NEW t, NEW result, NEW u, NEW c, NEW d \in Nat, ResultKeeps(t, result, u, c), c <= d
    PROVE  ResultKeeps(t, result, u, d)
BY KeepsMore DEF ResultKeeps

LEMMA SomeIdsAreFree ==
    ASSUME NEW t, NEW n \in Nat, Cardinality(FreeIds(t)) >= n, n > 0
    PROVE  FreeIds(t) # {}
<1>1. Cardinality({}) = 0
  BY FS_EmptySet
<1> QED
  BY <1>1, FreeIdsCounted

(* Directories below a directory. *)
LEMMA ChildDirsNamed ==
    ASSUME NEW t \in Trees, NEW p \in Paths
    PROVE  ChildDirs(t, p) \subseteq Names /\ IsFiniteSet(ChildDirs(t, p))
<1> DEFINE deeper == {k.at : k \in {x \in KeysUnder(t, p) : Len(x.at) > Len(p) + 1}}
           S == deeper \cup (MarkersUnder(t, p) \ {p})
<1>1. ChildDirs(t, p) = {s[Len(p) + 1] : s \in S}
  BY DEF ChildDirs
<1>2. ASSUME NEW s \in S PROVE s[Len(p) + 1] \in Names
  <2>0. Len(p) \in Nat
    BY PathLength
  <2>1. s \in Paths /\ Len(s) >= Len(p) + 1
    <3>1. CASE s \in deeper
      <4>1. PICK k \in KeysUnder(t, p) : Len(k.at) > Len(p) + 1 /\ s = k.at
        BY <3>1
      <4>2. k \in Keys
        BY TreeFields, BucketIs DEF KeysUnder
      <4>3. s \in Paths
        BY <4>1, <4>2, KeyFields
      <4> QED
        BY <2>0, <4>1, <4>3, PathLength
    <3>2. CASE s \in MarkersUnder(t, p) \ {p}
      <4>1. s \in Paths /\ IsPrefix(p, s) /\ s # p
        BY <3>2, TreeFields DEF MarkersUnder
      <4>2. Len(p) <= Len(s) /\ \A i \in 1..Len(p) : p[i] = s[i]
        BY <2>0, <4>1, PathLength DEF IsPrefix
      <4>3. Len(p) # Len(s)
        BY <4>1, <4>2, PathsEqual
      <4> QED
        BY <2>0, <4>1, <4>2, <4>3, PathLength
    <3> QED
      BY <3>1, <3>2
  <2> HIDE DEF S
  <2>2. Len(p) + 1 \in 1..Len(s)
    BY <2>0, <2>1, PathLength
  <2> QED
    BY <2>1, <2>2, PathLength
<1> HIDE DEF S
<1>3. ChildDirs(t, p) \subseteq Names
  BY <1>1, <1>2
<1> QED
  BY <1>3, TreeAssumption, FS_Subset

LEMMA ChildPathsAre ==
    ASSUME NEW t \in Trees, NEW p \in Paths, Len(p) < MaxDepth
    PROVE  /\ IsFiniteSet(ChildPaths(t, p))
           /\ \A q \in ChildPaths(t, p) : q \in Paths /\ Len(q) = Len(p) + 1
<1>1. ChildDirs(t, p) \subseteq Names /\ IsFiniteSet(ChildDirs(t, p))
  BY ChildDirsNamed
<1> DEFINE f == [n \in ChildDirs(t, p) |-> Append(p, n)]
<1>2. ChildPaths(t, p) = {f[n] : n \in ChildDirs(t, p)}
  BY DEF ChildPaths
<1>3. DOMAIN f = ChildDirs(t, p) /\ f = [n \in ChildDirs(t, p) |-> f[n]]
  OBVIOUS
<1>4. \A q \in ChildPaths(t, p) : q \in Paths /\ Len(q) = Len(p) + 1
  BY <1>1, PathAppended DEF ChildPaths
<1> HIDE DEF f
<1>5. IsFiniteSet({f[n] : n \in ChildDirs(t, p)})
  <2> DEFINE S == ChildDirs(t, p)
  <2>1. IsFiniteSet(S) /\ DOMAIN f = S /\ f = [n \in S |-> f[n]]
    BY <1>1, <1>3
  <2> HIDE DEF S
  <2>2. IsFiniteSet({f[n] : n \in S})
    BY <2>1, FiniteImage
  <2> QED
    BY <2>2 DEF S
<1> QED
  BY <1>2, <1>4, <1>5


LEMMA ChildPathsOfAll ==
    ASSUME NEW t \in Trees, NEW S \in SUBSET Paths, IsFiniteSet(S), NEW l \in Nat, l < MaxDepth,
           \A p \in S : Len(p) = l
    PROVE  LET U == UNION {ChildPaths(t, p) : p \in S}
           IN  IsFiniteSet(U) /\ \A q \in U : q \in Paths /\ Len(q) = l + 1
<1> DEFINE f == [p \in S |-> ChildPaths(t, p)]
           T == {f[p] : p \in S}
           U == UNION {ChildPaths(t, p) : p \in S}
<1>1. \A p \in S : /\ f[p] = ChildPaths(t, p) /\ IsFiniteSet(f[p])
                   /\ \A q \in f[p] : q \in Paths /\ Len(q) = l + 1
  BY ChildPathsAre
<1>2. DOMAIN f = S /\ f = [p \in S |-> f[p]]
  OBVIOUS
<1>3. U = UNION T
  OBVIOUS
<1> HIDE DEF f, U
<1>4. IsFiniteSet(T)
  BY <1>2, FiniteImage
<1>5. \A x \in T : IsFiniteSet(x) /\ \A q \in x : q \in Paths /\ Len(q) = l + 1
  BY <1>1
<1> HIDE DEF T
<1>6. IsFiniteSet(UNION T)
  BY <1>4, <1>5, FS_UNION
<1>7. \A q \in U : q \in Paths /\ Len(q) = l + 1
  BY <1>3, <1>5
<1> QED
  BY <1>3, <1>6, <1>7 DEF U

LEMMA VacanciesAre ==
    ASSUME NEW t \in Trees, NEW p \in Paths
    PROVE  /\ IsFiniteSet(VacanciesUnder(t, p))
           /\ VacanciesUnder(t, p) \subseteq {v \in Paths : IsVacancy(v)}
<1>0. NodeDepth = 3 /\ NodeDepth < MaxDepth /\ MaxDepth \in Nat /\ Len(Root) = 0 /\ Root \in Paths
  BY RequestsAssumption, TreeAssumption, RootIsAPath DEF NodeDepth, Root
<1>1. CASE p = Root
  <2> DEFINE A == ChildPaths(t, Root)
             B == UNION {ChildPaths(t, l) : l \in A}
             C == UNION {ChildPaths(t, c) : c \in B}
  <2>1. IsFiniteSet(A) /\ A \in SUBSET Paths /\ \A q \in A : Len(q) = 1
    <3>1. Len(Root) < MaxDepth
      BY <1>0
    <3>2. IsFiniteSet(A) /\ \A q \in A : q \in Paths /\ Len(q) = Len(Root) + 1
      BY <1>0, <3>1, ChildPathsAre
    <3> HIDE DEF A
    <3> QED
      BY <1>0, <3>2
  <2> HIDE DEF A
  <2>2. IsFiniteSet(B) /\ B \in SUBSET Paths /\ \A q \in B : Len(q) = 2
    <3>1. 1 \in Nat /\ 1 < MaxDepth
      BY <1>0
    <3>2. IsFiniteSet(B) /\ \A q \in B : q \in Paths /\ Len(q) = 1 + 1
      BY <2>1, <3>1, ChildPathsOfAll
    <3> QED
      BY <3>2
  <2> HIDE DEF B
  <2>3. IsFiniteSet(C) /\ C \in SUBSET Paths /\ \A q \in C : Len(q) = 3
    <3>1. 2 \in Nat /\ 2 < MaxDepth
      BY <1>0
    <3>2. IsFiniteSet(C) /\ \A q \in C : q \in Paths /\ Len(q) = 2 + 1
      BY <2>2, <3>1, ChildPathsOfAll
    <3> QED
      BY <3>2
  <2>4. VacanciesUnder(t, p) = C
    BY <1>1 DEF VacanciesUnder, C, B, A
  <2> QED
    BY <1>0, <2>3, <2>4 DEF IsVacancy
<1>2. CASE p # Root /\ Len(p) = NodeDepth - 1
  <2>1. VacanciesUnder(t, p) = ChildPaths(t, p)
    BY <1>2 DEF VacanciesUnder
  <2>2. Len(p) < MaxDepth
    BY <1>0, <1>2
  <2> DEFINE A == ChildPaths(t, p)
  <2>3. IsFiniteSet(A) /\ \A q \in A : q \in Paths /\ Len(q) = Len(p) + 1
    BY <2>2, ChildPathsAre
  <2>4. Len(p) + 1 = NodeDepth
    BY <1>0, <1>2
  <2> HIDE DEF A
  <2>5. \A q \in A : q \in Paths /\ IsVacancy(q)
    BY <2>3, <2>4 DEF IsVacancy
  <2> QED
    BY <2>1, <2>3, <2>5 DEF A
<1>3. CASE p # Root /\ Len(p) # NodeDepth - 1
  BY <1>3, FS_EmptySet DEF VacanciesUnder
<1> QED
  BY <1>1, <1>2, <1>3

LEMMA VacancyMeta ==
    ASSUME NEW v \in Paths, IsVacancy(v)
    PROVE  MetaOf(v) \in Paths
BY PathAppended, LibraryAssumption, RequestsAssumption DEF MetaOf, IsVacancy

LEMMA MetaReadSame ==
    ASSUME NEW t \in Trees, NEW v \in Paths, IsVacancy(v)
    PROVE  ResultSame(t, MetaRead(t, v))
BY VacancyMeta, FileReadSame DEF MetaRead

LEMMA MetasReadSame ==
    ASSUME NEW t \in Trees, NEW S, IsFiniteSet(S), S \subseteq {v \in Paths : IsVacancy(v)}
    PROVE  ResultSame(t, MetasRead(t, S))
<1> DEFINE seq == SetToSeq(S)
           n == Cardinality(S)
           V == {x \in Results : ResultSame(t, x)}
           read(acc, v) == IF acc.ok THEN MetaRead(acc.tree, v) ELSE acc
           Def(g) == [s \in SUBSET DOMAIN seq |->
                        IF s = {} THEN Done(t) ELSE read(g[s \ {Max(s)}], seq[Max(s)])]
           iter == CHOOSE g : g = Def(g)
           step == [z \in (1..n) \X V |-> read(z[2], seq[z[1]])]
<1>1. MetasRead(t, S) = iter[DOMAIN seq]
  BY DEF MetasRead, FoldLeft, MapThenFoldSet, Then
<1>2. n \in Nat /\ DOMAIN seq = 1..n /\ \A i \in 1..n : seq[i] \in S
  BY Listing
<1> HIDE DEF seq, n
<1>3. Done(t) \in V
  BY SameSelf DEF ResultSame
<1>4. ASSUME NEW acc \in V, NEW v \in S PROVE read(acc, v) \in V
  <2>1. v \in Paths /\ IsVacancy(v) /\ acc.tree \in Trees /\ ResultSame(t, acc)
    BY DEF Results
  <2>2. ResultSame(acc.tree, MetaRead(acc.tree, v))
    BY <2>1, MetaReadSame
  <2>3. ResultSame(t, read(acc, v))
    BY <2>1, <2>2, SameThen
  <2> HIDE DEF read
  <2> QED
    BY <2>3 DEF ResultSame
<1> HIDE DEF V, read
<1>5. step \in [(1..n) \X V -> V]
  BY <1>2, <1>4
<1> DEFINE base == Done(t)
<1>6. PICK g \in [SUBSET (1..n) -> V] : Follows(g, n, base, step)
  <2> HIDE DEF step, base
  <2> QED
    BY <1>2, <1>3, <1>5, SeqRecursion DEF base
<1>7. g = Def(g)
  <2>1. ASSUME NEW s \in SUBSET (1..n), s # {}
        PROVE  g[s] = read(g[s \ {Max(s)}], seq[Max(s)])
    <3>1. Max(s) \in 1..n /\ g[s \ {Max(s)}] \in V
      BY <1>2, <2>1, MaxIn
    <3> QED
      BY <1>6, <2>1, <3>1 DEF Follows
  <2>2. ASSUME NEW s \in SUBSET (1..n) PROVE g[s] = Def(g)[s]
    BY <1>2, <1>6, <2>1 DEF Follows
  <2>3. g = [s \in SUBSET (1..n) |-> g[s]]
    OBVIOUS
  <2> QED
    BY <1>2, <2>2, <2>3
<1>8. iter = Def(iter)
  <2> HIDE DEF Def
  <2> QED
    BY <1>7
<1>9. ASSUME NEW s \in SUBSET (1..n), s # {}, iter[s \ {Max(s)}] \in V
      PROVE  iter[s] \in V
  <2>1. Max(s) \in 1..n
    BY <1>2, <1>9, MaxIn
  <2> HIDE DEF iter
  <2>2. iter[s] = read(iter[s \ {Max(s)}], seq[Max(s)])
    BY <1>2, <1>8, <1>9
  <2> QED
    BY <1>2, <1>4, <1>9, <2>1, <2>2
<1>10. iter[{}] \in V
  <2> HIDE DEF iter
  <2> QED
    BY <1>2, <1>3, <1>8
<1> HIDE DEF iter
<1>11. iter[1..n] \in V
  BY <1>2, <1>9, <1>10, FoldsInto
<1> QED
  BY <1>1, <1>2, <1>11 DEF V


LEMMA RunDirsAre ==
    ASSUME NEW t \in Trees
    PROVE  IsFiniteSet(RunDirs(t)) /\ \A p \in RunDirs(t) : p \in Paths /\ Len(p) < MaxDepth
<1>0. Len(Root) = 0 /\ Len(Root) < MaxDepth /\ 1 < MaxDepth /\ Root \in Paths
  BY RequestsAssumption, TreeAssumption, RootIsAPath DEF NodeDepth, Root
<1>1. RunDirs(t) = ChildPaths(t, Root)
  <2>1. \A n : Append(Root, n) = <<n>>
    BY DEF Root
  <2> QED
    BY <2>1 DEF RunDirs, ChildPaths
<1> DEFINE A == ChildPaths(t, Root)
<1>2. IsFiniteSet(A) /\ \A q \in A : q \in Paths /\ Len(q) = Len(Root) + 1
  BY <1>0, ChildPathsAre
<1>3. RunDirs(t) = A
  BY <1>1
<1> HIDE DEF A
<1> QED
  BY <1>0, <1>2, <1>3

LEMMA RunsListedSame ==
    ASSUME NEW t \in Trees
    PROVE  ResultSame(t, RunsListed(t))
<1> DEFINE S == RunDirs(t)
<1>0. IsFiniteSet(S) /\ \A p \in S : p \in Paths /\ Len(p) < MaxDepth
  BY RunDirsAre
<1> HIDE DEF S
<1> DEFINE seq == SetToSeq(S)
           n == Cardinality(S)
           V == {x \in Results : ResultSame(t, x)}
           read(acc, v) == IF acc.ok THEN RunRead(acc.tree, v) ELSE acc
           Def(g) == [s \in SUBSET DOMAIN seq |->
                        IF s = {} THEN Done(t) ELSE read(g[s \ {Max(s)}], seq[Max(s)])]
           iter == CHOOSE g : g = Def(g)
           step == [z \in (1..n) \X V |-> read(z[2], seq[z[1]])]
<1>1. RunsListed(t) = iter[DOMAIN seq]
  BY DEF RunsListed, FoldLeft, MapThenFoldSet, S
<1>2. n \in Nat /\ DOMAIN seq = 1..n /\ \A i \in 1..n : seq[i] \in S
  BY <1>0, Listing
<1> HIDE DEF seq, n
<1>3. Done(t) \in V
  BY SameSelf DEF ResultSame
<1>4. ASSUME NEW acc \in V, NEW v \in S PROVE read(acc, v) \in V
  <2>1. v \in Paths /\ Len(v) < MaxDepth /\ acc.tree \in Trees /\ ResultSame(t, acc)
    BY <1>0 DEF Results
  <2>2. ResultSame(acc.tree, RunRead(acc.tree, v))
    BY <2>1, RunReadSame
  <2>3. ResultSame(t, read(acc, v))
    BY <2>1, <2>2, SameThen
  <2> HIDE DEF read
  <2> QED
    BY <2>3 DEF ResultSame
<1> HIDE DEF V, read
<1>5. step \in [(1..n) \X V -> V]
  BY <1>2, <1>4
<1> DEFINE base == Done(t)
<1>6. PICK g \in [SUBSET (1..n) -> V] : Follows(g, n, base, step)
  <2> HIDE DEF step, base
  <2> QED
    BY <1>2, <1>3, <1>5, SeqRecursion DEF base
<1>7. g = Def(g)
  <2>1. ASSUME NEW s \in SUBSET (1..n), s # {}
        PROVE  g[s] = read(g[s \ {Max(s)}], seq[Max(s)])
    <3>1. Max(s) \in 1..n /\ g[s \ {Max(s)}] \in V
      BY <1>2, <2>1, MaxIn
    <3> QED
      BY <1>6, <2>1, <3>1 DEF Follows
  <2>2. ASSUME NEW s \in SUBSET (1..n) PROVE g[s] = Def(g)[s]
    BY <1>2, <1>6, <2>1 DEF Follows
  <2>3. g = [s \in SUBSET (1..n) |-> g[s]]
    OBVIOUS
  <2> QED
    BY <1>2, <2>2, <2>3
<1>8. iter = Def(iter)
  <2> HIDE DEF Def
  <2> QED
    BY <1>7
<1>9. ASSUME NEW s \in SUBSET (1..n), s # {}, iter[s \ {Max(s)}] \in V
      PROVE  iter[s] \in V
  <2>1. Max(s) \in 1..n
    BY <1>2, <1>9, MaxIn
  <2> HIDE DEF iter
  <2>2. iter[s] = read(iter[s \ {Max(s)}], seq[Max(s)])
    BY <1>2, <1>8, <1>9
  <2> QED
    BY <1>2, <1>4, <1>9, <2>1, <2>2
<1>10. iter[{}] \in V
  <2> HIDE DEF iter
  <2> QED
    BY <1>2, <1>3, <1>8
<1> HIDE DEF iter
<1>11. iter[1..n] \in V
  BY <1>2, <1>9, <1>10, FoldsInto
<1> QED
  BY <1>1, <1>2, <1>11 DEF V


-----------------------------------------------------------------------------
(* Many uploads in one request.                                             *)

(* Steps that take an id each. *)
LEMMA StepsKeep ==
    ASSUME NEW t \in Trees, NEW u, NEW n \in Nat, Cardinality(FreeIds(t)) >= n,
           NEW g, Keeps(t, g[{}], u, 0), Fair(t, g[{}]),
           \A i \in 1..n : g[1..(i - 1)] \in Trees /\ FreeIds(g[1..(i - 1)]) # {} =>
                 /\ Keeps(g[1..(i - 1)], g[1..i], u, 1)
                 /\ Fair(g[1..(i - 1)], g[1..i])
    PROVE  Keeps(t, g[1..n], u, n) /\ Fair(t, g[1..n])
<1> DEFINE Good == {i \in 0..n : Keeps(t, g[1..i], u, i) /\ Fair(t, g[1..i])}
<1>1. 0 \in Good
  <2>1. 1..0 = {}
    OBVIOUS
  <2> QED
    BY <2>1
<1>2. ASSUME NEW i \in 1..n, i - 1 \in Good PROVE i \in Good
  <2> DEFINE a == g[1..(i - 1)]
             b == g[1..i]
  <2>1. Keeps(t, a, u, i - 1) /\ Fair(t, a)
    BY <1>2
  <2>2. (a \in Trees /\ FreeIds(a) # {}) => Keeps(a, b, u, 1) /\ Fair(a, b)
    OBVIOUS
  <2> HIDE DEF a, b
  <2>3. a \in Trees /\ Cardinality(FreeIds(t)) <= Cardinality(FreeIds(a)) + (i - 1)
    BY <2>1 DEF Keeps
  <2>4. Cardinality(FreeIds(a)) >= 1
    BY <2>3, FreeIdsCounted
  <2>5. FreeIds(a) # {}
    BY <2>4, SomeIdsAreFree
  <2>6. Keeps(a, b, u, 1) /\ Fair(a, b)
    BY <2>2, <2>3, <2>5
  <2>7. Keeps(t, b, u, (i - 1) + 1) /\ Fair(t, b)
    BY <2>1, <2>6, KeepsOn, FairOn
  <2>8. (i - 1) + 1 = i
    OBVIOUS
  <2>9. Keeps(t, b, u, i) /\ Fair(t, b)
    BY <2>7, <2>8
  <2> QED
    BY <2>9 DEF b
<1> HIDE DEF Good
<1>3. n \in Good
  BY <1>1, <1>2, Climb
<1> QED
  BY <1>3 DEF Good

LEMMA PartIs ==
    ASSUME NEW parts \in Seq(Names \X Bodies), NEW i \in 1..Len(parts),
           NEW p \in Paths, Len(p) < MaxDepth
    PROVE  Append(p, parts[i][1]) \in Paths /\ parts[i][2] \in Bodies
<1>1. parts[i] \in Names \X Bodies
  OBVIOUS
<1>2. parts[i][1] \in Names /\ parts[i][2] \in Bodies
  BY <1>1
<1> QED
  BY <1>2, PathAppended

(* The trees a run goes through while it is stored, file by file.              *)
RunSteps(g, t, u, p, parts) ==
    /\ g[{}] = MadeDirectory(t, p)
    /\ \A i \in 1..Len(parts) :
          g[1..i] = Uploaded(g[1..(i - 1)], u, Append(p, parts[i][1]), parts[i][2])

LEMMA RunFollowed ==
    ASSUME NEW t \in Trees, NEW u \in Users, NEW p \in Paths, Len(p) < MaxDepth,
           NEW parts \in Seq(Names \X Bodies)
    PROVE  \E g : RunStored(t, u, p, parts) = g[1..Len(parts)] /\ RunSteps(g, t, u, p, parts)
<1> DEFINE n == Len(parts)
           base == MadeDirectory(t, p)
           put(acc, e) == Uploaded(acc, u, Append(p, e[1]), e[2])
           Def(g) == [s \in SUBSET DOMAIN parts |->
                        IF s = {} THEN base ELSE put(g[s \ {Max(s)}], parts[Max(s)])]
           iter == CHOOSE g : g = Def(g)
           step == [z \in (1..n) \X Trees |-> put(z[2], parts[z[1]])]
<1>1. RunStored(t, u, p, parts) = iter[DOMAIN parts]
  BY DEF RunStored, FoldLeft, MapThenFoldSet
<1>2. n \in Nat /\ DOMAIN parts = 1..n
  OBVIOUS
<1>3. ASSUME NEW i \in 1..n
      PROVE  Append(p, parts[i][1]) \in Paths /\ parts[i][2] \in Bodies
  <2>1. parts[i] \in Names \X Bodies
    OBVIOUS
  <2>2. parts[i][1] \in Names /\ parts[i][2] \in Bodies
    BY <2>1
  <2> QED
    BY <2>2, PathAppended
<1> HIDE DEF n
<1>4. base \in Trees
  BY MadeDirectoryMoves DEF BucketMoves
<1>5. ASSUME NEW acc \in Trees, NEW i \in 1..n PROVE put(acc, parts[i]) \in Trees
  BY <1>3, UploadedTyped
<1> HIDE DEF base, put
<1>7. step \in [(1..n) \X Trees -> Trees]
  BY <1>5
<1>8. PICK g \in [SUBSET (1..n) -> Trees] : Follows(g, n, base, step)
  <2> HIDE DEF step
  <2> QED
    BY <1>2, <1>4, <1>7, SeqRecursion
<1>9. g = Def(g)
  <2>1. ASSUME NEW s \in SUBSET (1..n), s # {}
        PROVE  g[s] = put(g[s \ {Max(s)}], parts[Max(s)])
    <3>1. Max(s) \in 1..n /\ g[s \ {Max(s)}] \in Trees
      BY <1>2, <2>1, MaxIn
    <3> QED
      BY <1>8, <2>1, <3>1 DEF Follows
  <2>2. ASSUME NEW s \in SUBSET (1..n) PROVE g[s] = Def(g)[s]
    BY <1>2, <1>8, <2>1 DEF Follows
  <2>3. g = [s \in SUBSET (1..n) |-> g[s]]
    OBVIOUS
  <2> QED
    BY <1>2, <2>2, <2>3
<1>10. iter = Def(iter)
  <2> HIDE DEF Def
  <2> QED
    BY <1>9
<1> HIDE DEF iter
<1>11. iter[{}] = base
  BY <1>2, <1>10
<1>12. ASSUME NEW i \in 1..n PROVE iter[1..i] = put(iter[1..(i - 1)], parts[i])
  <2>1. /\ 1..i \in SUBSET (1..n) /\ 1..i # {} /\ Max(1..i) = i
        /\ (1..i) \ {i} = 1..(i - 1)
    BY <1>2, UpTo
  <2> DEFINE s == 1..i
             r == 1..(i - 1)
  <2>2. s \in SUBSET DOMAIN parts /\ s # {} /\ Max(s) = i /\ s \ {i} = r
    BY <1>2, <2>1
  <2> HIDE DEF s, r
  <2>3. iter[s] = put(iter[s \ {Max(s)}], parts[Max(s)])
    BY <1>10, <2>2
  <2>4. iter[s] = put(iter[r], parts[i])
    BY <2>2, <2>3
  <2> QED
    BY <2>4 DEF s, r
<1>13. RunSteps(iter, t, u, p, parts)
  BY <1>11, <1>12 DEF RunSteps, base, put, n
<1> QED
  BY <1>1, <1>2, <1>13 DEF n

LEMMA RunStoredKeeps ==
    ASSUME NEW t \in Trees, NEW u \in Users, NEW p \in Paths, Len(p) < MaxDepth,
           NEW parts \in Seq(Names \X Bodies), Cardinality(FreeIds(t)) >= Len(parts)
    PROVE  LET m == RunStored(t, u, p, parts) IN Keeps(t, m, u, Len(parts)) /\ Fair(t, m)
<1> DEFINE n == Len(parts)
<1>1. PICK g : RunStored(t, u, p, parts) = g[1..n] /\ RunSteps(g, t, u, p, parts)
  BY RunFollowed
<1>2. n \in Nat /\ Cardinality(FreeIds(t)) >= n
  OBVIOUS
<1>3. Keeps(t, g[{}], u, 0) /\ Fair(t, g[{}])
  <2>1. BucketMoves(t, g[{}])
    BY <1>1, MadeDirectoryMoves DEF RunSteps
  <2> QED
    BY <2>1, BucketKeeps
<1>4. ASSUME NEW i \in 1..n, g[1..(i - 1)] \in Trees, FreeIds(g[1..(i - 1)]) # {}
      PROVE  Keeps(g[1..(i - 1)], g[1..i], u, 1) /\ Fair(g[1..(i - 1)], g[1..i])
  <2>1. Append(p, parts[i][1]) \in Paths /\ parts[i][2] \in Bodies
    BY PartIs
  <2>2. g[1..i] = Uploaded(g[1..(i - 1)], u, Append(p, parts[i][1]), parts[i][2])
    BY <1>1 DEF RunSteps
  <2> QED
    BY <1>4, <2>1, <2>2, UploadedKeeps
<1> HIDE DEF n
<1>5. Keeps(t, g[1..n], u, n) /\ Fair(t, g[1..n])
  BY <1>2, <1>3, <1>4, StepsKeep
<1> QED
  BY <1>1, <1>5 DEF n

(* The trees a ZIP goes through, entry by entry.                              *)
ZipSteps(g, t, u, p, parts, failed) ==
    /\ g[{}] = MadeDirectory(t, p)
    /\ \A i \in 1..Len(parts) :
          g[1..i] = ExtractedEntry(g[1..(i - 1)], u, p, parts[i], i \in failed)

LEMMA ZipRoot ==
    ASSUME NEW at \in Paths, NEW to \in Names, Len(at) + 1 < MaxDepth
    PROVE  Append(at, to) \in Paths /\ Len(Append(at, to)) < MaxDepth
<1>1. Len(at) \in Nat /\ Len(at) < MaxDepth
  BY PathLength, TreeAssumption
<1>2. Append(at, to) \in Paths /\ Len(Append(at, to)) = Len(at) + 1
  BY <1>1, PathAppended
<1> QED
  BY <1>2

LEMMA EntryTyped ==
    ASSUME NEW t \in Trees, NEW u \in Users, NEW p \in Paths, Len(p) < MaxDepth,
           NEW parts \in Seq(Names \X Bodies), NEW i \in 1..Len(parts), NEW fails \in BOOLEAN
    PROVE  /\ ExtractedEntry(t, u, p, parts[i], fails) \in Trees
           /\ FreeIds(t) # {} =>
                 /\ Keeps(t, ExtractedEntry(t, u, p, parts[i], fails), u, 1)
                 /\ Fair(t, ExtractedEntry(t, u, p, parts[i], fails))
<1> DEFINE q == Append(p, parts[i][1])
           b == parts[i][2]
           n == ExtractedEntry(t, u, p, parts[i], fails)
<1>1. q \in Paths /\ b \in Bodies
  BY PartIs
<1>2. n = IF fails THEN Created(t, u, q, b, "pending") ELSE Uploaded(t, u, q, b)
  BY DEF ExtractedEntry
<1> HIDE DEF q, b, n
<1>3. n \in Trees /\ (FreeIds(t) # {} => Keeps(t, n, u, 1) /\ Fair(t, n))
  BY <1>1, <1>2, CreatedTyped, PendingKeeps, UploadedTyped, UploadedKeeps
<1> QED
  BY <1>3 DEF n

LEMMA ZipFollowed ==
    ASSUME NEW t \in Trees, NEW u \in Users, NEW at \in Paths, NEW to \in Names,
           Len(at) + 1 < MaxDepth, NEW failed, NEW parts \in Seq(Names \X Bodies)
    PROVE  \E g : /\ Extracted(t, u, at, to, parts, failed) = g[1..Len(parts)]
                  /\ ZipSteps(g, t, u, Append(at, to), parts, failed)
<1> DEFINE n == Len(parts)
           p == Append(at, to)
           base == MadeDirectory(t, p)
           put(acc, i) == ExtractedEntry(acc, u, p, parts[i], i \in failed)
           Def(g) == [s \in SUBSET DOMAIN parts |->
                        IF s = {} THEN base ELSE put(g[s \ {Max(s)}], Max(s))]
           iter == CHOOSE g : g = Def(g)
           step == [z \in (1..n) \X Trees |-> put(z[2], z[1])]
<1> HIDE DEF put, base
<1>1. Extracted(t, u, at, to, parts, failed) = iter[DOMAIN parts]
  <2> DEFINE places == [i \in DOMAIN parts |-> i]
             Via(g) == [s \in SUBSET DOMAIN places |->
                          IF s = {} THEN base ELSE put(g[s \ {Max(s)}], places[Max(s)])]
  <2>1. Extracted(t, u, at, to, parts, failed) = (CHOOSE g : g = Via(g))[DOMAIN places]
    BY DEF Extracted, FoldLeftDomain, FoldLeft, MapThenFoldSet, put, base
  <2>2. DOMAIN places = DOMAIN parts
    OBVIOUS
  <2>3. ASSUME NEW s \in SUBSET DOMAIN parts, s # {} PROVE places[Max(s)] = Max(s)
    <3>1. DOMAIN parts = 1..Len(parts) /\ Len(parts) \in Nat
      OBVIOUS
    <3>2. Max(s) \in DOMAIN parts
      BY <2>3, <3>1, MaxIn
    <3> QED
      BY <3>2
  <2> HIDE DEF places
  <2>4. ASSUME NEW g PROVE Via(g) = Def(g)
    BY <2>2, <2>3
  <2> HIDE DEF Via, Def
  <2>5. (CHOOSE g : g = Via(g)) = (CHOOSE g : g = Def(g))
    BY <2>4
  <2> USE DEF Def
  <2> QED
    BY <2>1, <2>2, <2>5
<1> USE DEF put, base
<1>0. p \in Paths /\ Len(p) < MaxDepth
  BY ZipRoot
<1>2. n \in Nat /\ DOMAIN parts = 1..n
  OBVIOUS
<1>4. base \in Trees
  <2> HIDE DEF p
  <2> QED
    BY <1>0, MadeDirectoryMoves DEF BucketMoves
<1>5. ASSUME NEW acc \in Trees, NEW i \in 1..n PROVE put(acc, i) \in Trees
  <2> HIDE DEF p
  <2>1. (i \in failed) \in BOOLEAN
    OBVIOUS
  <2> QED
    BY <1>0, <2>1, EntryTyped
<1> HIDE DEF n, p, base, put
<1>7. step \in [(1..n) \X Trees -> Trees]
  BY <1>5
<1>8. PICK g \in [SUBSET (1..n) -> Trees] : Follows(g, n, base, step)
  <2> HIDE DEF step
  <2> QED
    BY <1>2, <1>4, <1>7, SeqRecursion
<1>9. g = Def(g)
  <2>1. ASSUME NEW s \in SUBSET (1..n), s # {}
        PROVE  g[s] = put(g[s \ {Max(s)}], Max(s))
    <3>1. Max(s) \in 1..n /\ g[s \ {Max(s)}] \in Trees
      BY <1>2, <2>1, MaxIn
    <3> QED
      BY <1>8, <2>1, <3>1 DEF Follows
  <2>2. ASSUME NEW s \in SUBSET (1..n) PROVE g[s] = Def(g)[s]
    BY <1>2, <1>8, <2>1 DEF Follows
  <2>3. g = [s \in SUBSET (1..n) |-> g[s]]
    OBVIOUS
  <2> QED
    BY <1>2, <2>2, <2>3
<1>10. iter = Def(iter)
  <2> HIDE DEF Def
  <2> QED
    BY <1>9
<1> HIDE DEF iter
<1>11. iter[{}] = base
  BY <1>2, <1>10
<1>12. ASSUME NEW i \in 1..n PROVE iter[1..i] = put(iter[1..(i - 1)], i)
  <2>1. /\ 1..i \in SUBSET (1..n) /\ 1..i # {} /\ Max(1..i) = i
        /\ (1..i) \ {i} = 1..(i - 1)
    BY <1>2, UpTo
  <2> DEFINE s == 1..i
             r == 1..(i - 1)
  <2>2. s \in SUBSET DOMAIN parts /\ s # {} /\ Max(s) = i /\ s \ {i} = r
    BY <1>2, <2>1
  <2> HIDE DEF s, r
  <2>3. iter[s] = put(iter[s \ {Max(s)}], Max(s))
    BY <1>10, <2>2
  <2>4. iter[s] = put(iter[r], i)
    BY <2>2, <2>3
  <2> QED
    BY <2>4 DEF s, r
<1>13. ZipSteps(iter, t, u, Append(at, to), parts, failed)
  BY <1>11, <1>12 DEF ZipSteps, base, put, n, p
<1> QED
  BY <1>1, <1>2, <1>13 DEF n

LEMMA ExtractedKeeps ==
    ASSUME NEW t \in Trees, NEW u \in Users, NEW at \in Paths, NEW to \in Names,
           Len(at) + 1 < MaxDepth, NEW failed,
           NEW parts \in Seq(Names \X Bodies), Cardinality(FreeIds(t)) >= Len(parts)
    PROVE  LET m == Extracted(t, u, at, to, parts, failed) IN Keeps(t, m, u, Len(parts)) /\ Fair(t, m)
<1> DEFINE n == Len(parts)
           p == Append(at, to)
<1>1. PICK g : Extracted(t, u, at, to, parts, failed) = g[1..n] /\ ZipSteps(g, t, u, p, parts, failed)
  BY ZipFollowed
<1>2. n \in Nat /\ Cardinality(FreeIds(t)) >= n
  OBVIOUS
<1>3. p \in Paths /\ Len(p) < MaxDepth
  BY ZipRoot
<1> HIDE DEF p
<1>4. Keeps(t, g[{}], u, 0) /\ Fair(t, g[{}])
  <2>1. BucketMoves(t, g[{}])
    BY <1>1, <1>3, MadeDirectoryMoves DEF ZipSteps
  <2> QED
    BY <2>1, BucketKeeps
<1>5. ASSUME NEW i \in 1..n, g[1..(i - 1)] \in Trees, FreeIds(g[1..(i - 1)]) # {}
      PROVE  Keeps(g[1..(i - 1)], g[1..i], u, 1) /\ Fair(g[1..(i - 1)], g[1..i])
  <2> DEFINE fails == i \in failed
  <2>1. g[1..i] = ExtractedEntry(g[1..(i - 1)], u, p, parts[i], fails) /\ fails \in BOOLEAN
    BY <1>1 DEF ZipSteps
  <2> HIDE DEF fails
  <2> QED
    BY <1>3, <1>5, <2>1, EntryTyped
<1> HIDE DEF n
<1>6. Keeps(t, g[1..n], u, n) /\ Fair(t, g[1..n])
  BY <1>2, <1>4, <1>5, StepsKeep
<1> QED
  BY <1>1, <1>6 DEF n


-----------------------------------------------------------------------------
(* The operations of ResumeService.                                         *)

LEMMA StatusPath == <<StatusFile>> \in Paths
<1>1. <<StatusFile>> \in Seq(Names) /\ Len(<<StatusFile>>) = 1
  BY ResumesAssumption
<1>2. 1 <= MaxDepth
  BY RequestsAssumption, TreeAssumption DEF NodeDepth
<1> QED
  BY <1>1, <1>2, PathsAreSeqs

LEMMA StatusesListedKeep ==
    ASSUME NEW t \in Trees, NEW u \in Users, FreeIds(t) # {}
    PROVE  ResultKeeps(t, StatusesListed(t, u), u, 1)
<1> DEFINE body == FileBody(t, <<StatusFile>>)
           seeded == Overwritten(t, u, <<StatusFile>>, Blank)
           read == FileRead(t, <<StatusFile>>)
           result == StatusesListed(t, u)
<1>1. result = seeded \/ result = Raised(t) \/ result = read
  <2> DEFINE cases == CASE body = None -> seeded
                        [] body \in Garbled -> Raised(t)
                        [] OTHER -> read
  <2>1. result = cases
    BY DEF StatusesListed
  <2>2. None \notin Garbled
    BY TreeAssumption, LibraryAssumption
  <2> HIDE DEF body, seeded, read, result
  <2>3. CASE body = None /\ body \notin Garbled
    <3>1. cases = seeded
      BY <2>3, Zenon
    <3> QED
      BY <2>1, <3>1
  <2>4. CASE body # None /\ body \in Garbled
    <3>1. cases = Raised(t)
      BY <2>4, Zenon
    <3> QED
      BY <2>1, <3>1
  <2>5. CASE body # None /\ body \notin Garbled
    <3>1. cases = read
      BY <2>5, Zenon
    <3> QED
      BY <2>1, <3>1
  <2> QED
    BY <2>2, <2>3, <2>4, <2>5
<1>2. ResultKeeps(t, seeded, u, 1)
  BY StatusPath, ResumesAssumption, OverwrittenKeeps
<1>3. ResultKeeps(t, read, u, 0)
  BY StatusPath, FileReadSame, ResultSameKeeps
<1> HIDE DEF seeded, read, result
<1>4. ResultKeeps(t, read, u, 1)
  BY <1>3, ResultKeepsMore
<1>5. ResultKeeps(t, result, u, 1)
  BY <1>1, <1>2, <1>4, RaisedKeeps
<1> QED
  BY <1>5 DEF result

LEMMA StatusResolvedKeeps ==
    ASSUME NEW t \in Trees, NEW u \in Users, FreeIds(t) # {},
           NEW tag \in {"none", "known", "unknown"}
    PROVE  ResultKeeps(t, StatusResolved(t, u, tag), u, 1)
<1> DEFINE listed == StatusesListed(t, u)
           result == StatusResolved(t, u, tag)
<1>1. ResultKeeps(t, listed, u, 1)
  BY StatusesListedKeep
<1>2. listed.tree \in Trees
  <2> HIDE DEF listed
  <2> QED
    BY <1>1 DEF ResultKeeps, Results
<1>3. result = Done(t) \/ result = listed \/ result = Raised(listed.tree)
  <2> DEFINE cases == CASE tag = "none" -> Done(t)
                        [] tag = "known" -> listed
                        [] tag = "unknown" -> Raised(listed.tree)
  <2>1. result = cases
    BY DEF StatusResolved
  <2> HIDE DEF listed, result
  <2>2. CASE tag = "none"
    <3>1. cases = Done(t)
      BY <2>2, Zenon
    <3> QED
      BY <2>1, <3>1
  <2>3. CASE tag = "known"
    <3>1. cases = listed
      BY <2>3, Zenon
    <3> QED
      BY <2>1, <3>1
  <2>4. CASE tag = "unknown"
    <3>1. cases = Raised(listed.tree)
      BY <2>4, Zenon
    <3> QED
      BY <2>1, <3>1
  <2> QED
    BY <2>2, <2>3, <2>4
<1> HIDE DEF listed, result
<1>4. ResultKeeps(t, Done(t), u, 1)
  BY KeepsSelf, KeepsMore, DoneKeeps
<1>5. ResultKeeps(t, result, u, 1)
  BY <1>1, <1>2, <1>3, <1>4, RaisedKeeps
<1> QED
  BY <1>5 DEF result

LEMMA VacancyMadeKeeps ==
    ASSUME NEW t \in Trees, NEW u \in Users, FreeIds(t) # {}, NEW p \in Paths, IsVacancy(p)
    PROVE  ResultKeeps(t, VacancyMade(t, u, p), u, 1)
<1> DEFINE m == MadeDirectory(t, p)
           o == Overwritten(m, u, MetaOf(p), Blank)
           read == MetaRead(o.tree, p)
<1>1. VacancyMade(t, u, p) = IF o.ok THEN read ELSE o
  BY DEF VacancyMade, Then
<1>2. BucketMoves(t, m)
  BY MadeDirectoryMoves
<1>3. MetaOf(p) \in Paths
  BY VacancyMeta
<1> HIDE DEF m
<1>4. Keeps(t, m, u, 0) /\ m \in Trees /\ FreeIds(m) # {}
  BY <1>2, BucketKeeps DEF BucketMoves, FreeIds
<1>5. ResultKeeps(m, o, u, 1)
  BY <1>3, <1>4, OverwrittenKeeps, ResumesAssumption
<1> HIDE DEF o
<1>6. o.tree \in Trees
  BY <1>5 DEF ResultKeeps, Results
<1>7. ResultKeeps(o.tree, read, u, 0)
  BY <1>6, MetaReadSame, ResultSameKeeps
<1> HIDE DEF read
<1> DEFINE result == IF o.ok THEN read ELSE o
<1>8. ResultKeeps(m, result, u, 1 + 0)
  <2>1. 0 \in Nat /\ m \in Trees
    BY <1>4
  <2> QED
    BY <1>5, <1>7, <2>1, ThenKeeps
<1> HIDE DEF result
<1>9. result \in Results /\ (result.ok => Keeps(m, result.tree, u, 1))
  BY <1>8 DEF ResultKeeps
<1>10. result.ok => Keeps(t, result.tree, u, 0 + 1)
  BY <1>4, <1>9, KeepsOn
<1>11. ResultKeeps(t, result, u, 1)
  BY <1>9, <1>10 DEF ResultKeeps
<1> QED
  BY <1>1, <1>11 DEF result

LEMMA NodeCreatedKeeps ==
    ASSUME NEW t \in Trees, NEW u \in Users, Cardinality(FreeIds(t)) >= 2, NEW p \in Paths,
           NEW tag \in {"none", "known", "unknown"}
    PROVE  ResultKeeps(t, NodeCreated(t, u, p, tag), u, 2)
<1> DEFINE s == StatusResolved(t, u, tag)
           v == VacancyMade(s.tree, u, p)
           m == MadeDirectory(t, p)
<1>1. NodeCreated(t, u, p, tag) =
         IF IsVacancy(p) THEN IF s.ok THEN v ELSE s ELSE Done(m)
  BY DEF NodeCreated, Then
<1>2. CASE IsVacancy(p)
  <2>1. FreeIds(t) # {}
    BY SomeIdsAreFree
  <2>2. ResultKeeps(t, s, u, 1)
    BY <2>1, StatusResolvedKeeps
  <2> HIDE DEF s
  <2>3. ASSUME s.ok PROVE ResultKeeps(s.tree, v, u, 1)
    <3>1. s.tree \in Trees /\ Cardinality(FreeIds(t)) <= Cardinality(FreeIds(s.tree)) + 1
      BY <2>2, <2>3 DEF ResultKeeps, Keeps
    <3>2. Cardinality(FreeIds(s.tree)) >= 1
      BY <3>1, FreeIdsCounted
    <3>3. FreeIds(s.tree) # {}
      BY <3>2, SomeIdsAreFree
    <3> QED
      BY <1>2, <3>1, <3>3, VacancyMadeKeeps
  <2> HIDE DEF v
  <2>4. ResultKeeps(t, IF s.ok THEN v ELSE s, u, 1 + 1)
    BY <2>2, <2>3, ThenKeeps
  <2>5. ResultKeeps(t, IF s.ok THEN v ELSE s, u, 2)
    BY <2>4
  <2> QED
    BY <1>1, <1>2, <2>5
<1>3. CASE ~IsVacancy(p)
  <2>1. BucketMoves(t, m)
    BY MadeDirectoryMoves
  <2> HIDE DEF m
  <2>2. Keeps(t, m, u, 2)
    BY <2>1, BucketKeeps, KeepsMore
  <2> QED
    BY <1>1, <1>3, <2>2, DoneKeeps
<1> QED
  BY <1>2, <1>3

LEMMA NodeRenamedSame ==
    ASSUME NEW t \in Trees, NEW p \in Paths, p # Root, NEW name \in Names
    PROVE  ResultSame(t, NodeRenamed(t, p, name))
<1> DEFINE q == Append(Front(p), name)
           moved == IF q = p THEN Done(t) ELSE RenamedPath(t, p, name)
           read == MetaRead(moved.tree, q)
<1>1. NodeRenamed(t, p, name) = IF IsVacancy(p) THEN IF moved.ok THEN read ELSE moved ELSE moved
  BY DEF NodeRenamed, Then
<1>2. q \in Paths /\ Len(q) = Len(p)
  BY SiblingPath
<1> HIDE DEF q
<1>3. ResultSame(t, moved)
  <2>1. ResultSame(t, RenamedPath(t, p, name))
    BY RenamedSame DEF ResultSame
  <2> QED
    BY <2>1, SameSelf
<1> HIDE DEF moved
<1>4. ASSUME IsVacancy(p) PROVE ResultSame(moved.tree, read)
  <2>1. moved.tree \in Trees
    BY <1>3 DEF ResultSame, Results
  <2>2. IsVacancy(q)
    BY <1>2, <1>4 DEF IsVacancy
  <2> QED
    BY <1>2, <2>1, <2>2, MetaReadSame
<1> HIDE DEF read
<1>5. IsVacancy(p) => ResultSame(t, IF moved.ok THEN read ELSE moved)
  BY <1>3, <1>4, SameThen
<1> QED
  BY <1>1, <1>3, <1>5


-----------------------------------------------------------------------------
(* Requests.                                                                *)

LEMMA Asked ==
    ASSUME NEW s \in Sections, NEW x \in Requests[s]
    PROVE  /\ x \in Request /\ x.user \in Users /\ x.at \in Paths
           /\ x.parts \in Seq(Names \X Bodies)
           /\ x.op \in {"upload", "save", "saveStatuses"} => x.body \in Bodies
           /\ x.op \in {"upload", "zip", "mkdir", "rename", "getFile"} => x.to \in Names
           /\ x.op = "rename" => x.at # Root
           /\ x.op \in {"upload", "mkdir", "store", "getRun", "getFile"} => Len(x.at) < MaxDepth
           /\ x.op = "zip" => Len(x.at) + 1 < MaxDepth
           /\ s # "SHARED" => \A y \in Requests[s] : y.user = x.user
<1>1. x \in Request
  BY RequestsAssumption
<1>2. x.user \in Users /\ x.at \in Paths /\ x.parts \in Seq(Names \X Bodies)
  BY <1>1 DEF Request
<1> QED
  BY <1>1, <1>2, RequestsAssumption

(* Which section it is, of the requests that only one takes. *)
LEMMA AskedOf ==
    ASSUME NEW s \in Sections, NEW x \in Requests[s]
    PROVE  x.op \in ResumesRequests \cup RunsRequests => s # "SHARED"
<1>1. x.op \in TakenBy(s)
  BY RequestsAssumption
<1>2. SUFFICES ASSUME s = "SHARED" PROVE x.op \notin ResumesRequests \cup RunsRequests
  OBVIOUS
<1>3. TakenBy(s) = FilesRequests \cup {"purge"}
  BY <1>2, Zenon DEF TakenBy
<1> QED
  BY <1>1, <1>3 DEF FilesRequests, ResumesRequests, RunsRequests

LEMMA Counted ==
    ASSUME NEW R, NEW F, NEW s \in [requests : R, faults : F], NEW r \in R, NEW f \in F
    PROVE  /\ [s EXCEPT !.requests = r] \in [requests : R, faults : F]
           /\ [s EXCEPT !.faults = f] \in [requests : R, faults : F]
           /\ [s EXCEPT !.requests = r].faults = s.faults
           /\ [s EXCEPT !.faults = f].faults = f
OBVIOUS

LEMMA ArriveKeeps ==
    ASSUME Inv, NEW x \in Requests[section], NEW admitted, Arrive(x, admitted), Checked(x)
    PROVE  Inv'
<1>1. /\ spent.requests < MaxRequests
      /\ Cardinality(flight) < InFlight[section]
      /\ x \notin flight
      /\ flight' = flight \cup {x}
      /\ spent' = [spent EXCEPT !.requests = @ + 1]
      /\ section' = section /\ tree' = tree
  BY DEF Arrive
<1>2. /\ section \in Sections /\ tree \in Trees
      /\ flight \subseteq Requests[section] /\ IsFiniteSet(flight)
      /\ \A y \in flight : Checked(y)
      /\ spent \in [requests : 0..MaxRequests, faults : Seq(Faults[section])]
      /\ Len(spent.faults) <= MaxFaults
      /\ section # "SHARED" => \A y \in Requests[section] : OwnedBy(tree, y.user)
      /\ Balanced(tree)
  BY DEF Inv
<1>3. IsFiniteSet(flight') /\ Cardinality(flight') = Cardinality(flight) + 1
  BY <1>1, <1>2, FS_AddElement
<1>4. Cardinality(flight') <= InFlight[section]
  BY <1>1, <1>2, <1>3, FS_CardinalityType, LibraryAssumption
<1>5. /\ spent' \in [requests : 0..MaxRequests, faults : Seq(Faults[section])]
      /\ spent'.faults = spent.faults
  <2>1. spent.requests + 1 \in 0..MaxRequests
    BY <1>1, <1>2, LibraryAssumption
  <2> QED
    BY <1>1, <1>2, <2>1, Counted
<1>6. flight' \subseteq Requests[section] /\ \A y \in flight' : Checked(y)
  BY <1>1, <1>2
<1> QED
  BY <1>1, <1>2, <1>3, <1>4, <1>5, <1>6 DEF Inv

(* A request ends. *)
LEMMA EndKeeps ==
    ASSUME Inv, NEW x \in Requests[section], NEW result, NEW c \in Nat,
           ResultKeeps(tree, result, x.user, c),
           section = "SHARED" => ResultFair(tree, result),
           tree' = Committed(tree, result), flight' = flight \ {x}, section' = section
    PROVE  /\ section' \in Sections /\ tree' \in Trees
           /\ flight' \subseteq Requests'[section'] /\ IsFiniteSet(flight')
           /\ Cardinality(flight') <= InFlight'[section']
           /\ \A y \in flight' : Checked(y)
           /\ section' # "SHARED" => \A y \in Requests'[section'] : OwnedBy(tree', y.user)
           /\ Balanced(tree')
<1>1. /\ section \in Sections /\ tree \in Trees
      /\ flight \subseteq Requests[section] /\ IsFiniteSet(flight)
      /\ Cardinality(flight) <= InFlight[section]
      /\ \A y \in flight : Checked(y)
      /\ section # "SHARED" => \A y \in Requests[section] : OwnedBy(tree, y.user)
      /\ Balanced(tree)
  BY DEF Inv
<1>2. Keeps(tree, tree', x.user, c) /\ (section = "SHARED" => Fair(tree, tree'))
  BY <1>1, CommittedKeeps
<1>3. tree' \in Trees
  BY <1>2 DEF Keeps
<1>4. flight' \subseteq flight /\ IsFiniteSet(flight') /\ Cardinality(flight') <= Cardinality(flight)
  BY <1>1, FS_Subset
<1>5. Cardinality(flight') <= InFlight[section]
  BY <1>1, <1>4, FS_CardinalityType, LibraryAssumption
<1>6. section # "SHARED" => (\A y \in Requests[section] : OwnedBy(tree', y.user)) /\ Fair(tree, tree')
  BY <1>1, <1>2, Asked DEF Keeps
<1>7. Balanced(tree')
  BY <1>1, <1>2, <1>6 DEF Fair
<1> QED
  BY <1>1, <1>3, <1>4, <1>5, <1>6, <1>7

LEMMA FinishKeeps ==
    ASSUME Inv, NEW x \in Requests[section], NEW op, NEW result, Finish(x, op, result),
           NEW c \in Nat, ResultKeeps(tree, result, x.user, c),
           section = "SHARED" => ResultFair(tree, result)
    PROVE  Inv'
<1>1. tree' = Committed(tree, result) /\ flight' = flight \ {x} /\ section' = section /\ spent' = spent
  BY DEF Finish
<1>2. /\ spent \in [requests : 0..MaxRequests, faults : Seq(Faults[section])]
      /\ Len(spent.faults) <= MaxFaults
  BY DEF Inv
<1>3. /\ section' \in Sections /\ tree' \in Trees
      /\ flight' \subseteq Requests'[section'] /\ IsFiniteSet(flight')
      /\ Cardinality(flight') <= InFlight'[section']
      /\ \A y \in flight' : Checked(y)
      /\ section' # "SHARED" => \A y \in Requests'[section'] : OwnedBy(tree', y.user)
      /\ Balanced(tree')
  BY <1>1, EndKeeps
<1> QED
  BY <1>1, <1>2, <1>3 DEF Inv

LEMMA FinishFaultyKeeps ==
    ASSUME Inv, NEW x \in Requests[section], NEW op, NEW kind, NEW result,
           FinishFaulty(x, op, kind, result),
           NEW c \in Nat, ResultKeeps(tree, result, x.user, c),
           section = "SHARED" => ResultFair(tree, result)
    PROVE  Inv'
<1>1. /\ tree' = Committed(tree, result) /\ flight' = flight \ {x} /\ section' = section
      /\ kind \in Faults[section] /\ Len(spent.faults) < MaxFaults
      /\ spent' = [spent EXCEPT !.faults = Append(spent.faults, kind)]
  BY DEF FinishFaulty
<1>2. /\ spent \in [requests : 0..MaxRequests, faults : Seq(Faults[section])]
      /\ spent.faults \in Seq(Faults[section])
  BY DEF Inv
<1>3. /\ section' \in Sections /\ tree' \in Trees
      /\ flight' \subseteq Requests'[section'] /\ IsFiniteSet(flight')
      /\ Cardinality(flight') <= InFlight'[section']
      /\ \A y \in flight' : Checked(y)
      /\ section' # "SHARED" => \A y \in Requests'[section'] : OwnedBy(tree', y.user)
      /\ Balanced(tree')
  BY <1>1, EndKeeps
<1>4. /\ spent' \in [requests : 0..MaxRequests, faults : Seq(Faults[section])]
      /\ spent'.faults = Append(spent.faults, kind) /\ Len(spent'.faults) = Len(spent.faults) + 1
  <2>1. /\ Append(spent.faults, kind) \in Seq(Faults[section])
        /\ Len(Append(spent.faults, kind)) = Len(spent.faults) + 1
    BY <1>1, <1>2
  <2> QED
    BY <1>1, <1>2, <2>1, Counted
<1>5. Len(spent'.faults) <= MaxFaults
  BY <1>1, <1>2, <1>4, LibraryAssumption
<1> QED
  BY <1>1, <1>3, <1>4, <1>5 DEF Inv


LEMMA Held ==
    ASSUME Inv, NEW x \in Requests[section]
    PROVE  /\ section \in Sections /\ tree \in Trees /\ x.user \in Users /\ x.at \in Paths
           /\ x.parts \in Seq(Names \X Bodies) /\ Len(x.parts) \in Nat
           /\ x \in flight => Checked(x)
BY Asked DEF Inv

LEMMA FilesApiKeeps ==
    ASSUME Inv, NEW x \in Requests[section], FilesApi(x)
    PROVE  Inv'
<1> DEFINE u == x.user
           p == Append(x.at, x.to)
<1>0. /\ section \in Sections /\ tree \in Trees /\ u \in Users /\ x.at \in Paths
      /\ x.parts \in Seq(Names \X Bodies) /\ Len(x.parts) \in Nat
  BY Held
<1>1. ASSUME NEW n \in Nat, Enough(n) PROVE Cardinality(FreeIds(tree)) >= n
  BY <1>1 DEF Enough
<1>2. CASE ArriveUpload(x)
  <2>1. x.op \in {"upload", "zip"} /\ Arrive(x, QuotaAdmits(x))
    BY <1>2 DEF ArriveUpload
  <2>2. Checked(x)
    BY <2>1 DEF Checked
  <2> QED
    BY <2>1, <2>2, ArriveKeeps
<1>3. CASE ArriveOther(x)
  <2>1. x.op \in {"mkdir", "rename", "delete"} /\ Arrive(x, TRUE)
    BY <1>3 DEF ArriveOther
  <2>2. Checked(x)
    BY <2>1 DEF Checked
  <2> QED
    BY <2>1, <2>2, ArriveKeeps
<1>4. ASSUME x.op \in {"upload", "mkdir"} PROVE p \in Paths
  BY <1>0, <1>4, Asked, PathAppended
<1>5. ASSUME x.op = "upload", Enough(1)
      PROVE  LET n == Uploaded(tree, u, p, x.body)
             IN  Keeps(tree, n, u, 1) /\ Fair(tree, n)
  <2>1. p \in Paths /\ x.body \in Bodies
    BY <1>0, <1>4, <1>5, Asked
  <2>2. FreeIds(tree) # {}
    BY <1>1, <1>5, SomeIdsAreFree
  <2> QED
    BY <1>0, <2>1, <2>2, UploadedKeeps
<1>6. ASSUME x.op = "zip", Enough(Len(x.parts)), NEW failed
      PROVE  LET n == Extracted(tree, u, x.at, x.to, x.parts, failed)
             IN  Keeps(tree, n, u, Len(x.parts)) /\ Fair(tree, n)
  <2>1. x.to \in Names /\ Len(x.at) + 1 < MaxDepth
    BY <1>0, <1>6, Asked
  <2> QED
    BY <1>0, <1>1, <1>6, <2>1, ExtractedKeeps
<1>7. ASSUME x.op = "rename"
      PROVE  LET result == RenamedPath(tree, x.at, x.to)
             IN  ResultKeeps(tree, result, u, 0) /\ ResultFair(tree, result)
  <2>1. x.at # Root /\ x.to \in Names
    BY <1>0, <1>7, Asked
  <2> QED
    BY <1>0, <2>1, RenamedKeeps
<1>8. LET result == DeletedPath(section, tree, u, x.at)
      IN  ResultKeeps(tree, result, u, 1) /\ (section # "FILES" => ResultFair(tree, result))
  BY <1>0, DeletedPathKeeps
<1> HIDE DEF p
<1>9. CASE Upload(x)
  <2> DEFINE n == Uploaded(tree, u, p, x.body)
  <2>1. Enough(1) /\ Finish(x, "upload", Done(n))
    BY <1>9 DEF Upload, p
  <2>2. x.op = "upload"
    BY <2>1 DEF Finish
  <2>3. Keeps(tree, n, u, 1) /\ Fair(tree, n)
    BY <1>5, <2>1, <2>2
  <2> HIDE DEF n
  <2>4. ResultKeeps(tree, Done(n), u, 1) /\ ResultFair(tree, Done(n))
    BY <2>3, DoneKeeps
  <2> QED
    BY <2>1, <2>4, FinishKeeps
<1>10. CASE UploadZip(x)
  <2> DEFINE n == Extracted(tree, u, x.at, x.to, x.parts, {})
             c == Len(x.parts)
  <2>1. Enough(c) /\ Finish(x, "zip", Done(n))
    BY <1>10 DEF UploadZip
  <2>2. x.op = "zip"
    BY <2>1 DEF Finish
  <2>3. Keeps(tree, n, u, c) /\ Fair(tree, n)
    BY <1>6, <2>1, <2>2
  <2>4. c \in Nat
    BY <1>0
  <2> HIDE DEF n, c
  <2>5. ResultKeeps(tree, Done(n), u, c) /\ ResultFair(tree, Done(n))
    BY <2>3, DoneKeeps
  <2> QED
    BY <2>1, <2>4, <2>5, FinishKeeps
<1>11. CASE UploadZipPartly(x)
  <2> DEFINE n(failed) == Extracted(tree, u, x.at, x.to, x.parts, failed)
             c == Len(x.parts)
  <2>1. PICK failed : Enough(c) /\ FinishFaulty(x, "zip", "entry", Done(n(failed)))
    BY <1>11 DEF UploadZipPartly
  <2>2. x.op = "zip"
    BY <2>1 DEF FinishFaulty
  <2>3. Keeps(tree, n(failed), u, c) /\ Fair(tree, n(failed))
    BY <1>6, <2>1, <2>2
  <2>4. c \in Nat
    BY <1>0
  <2> HIDE DEF n, c
  <2>5. ResultKeeps(tree, Done(n(failed)), u, c) /\ ResultFair(tree, Done(n(failed)))
    BY <2>3, DoneKeeps
  <2> QED
    BY <2>1, <2>4, <2>5, FinishFaultyKeeps
<1>12. CASE Mkdir(x)
  <2> DEFINE n == MadeDirectory(tree, p)
  <2>1. Finish(x, "mkdir", Done(n))
    BY <1>12 DEF Mkdir, p
  <2>2. p \in Paths
    BY <1>4, <2>1 DEF Finish
  <2>3. BucketMoves(tree, n)
    BY <1>0, <2>2, MadeDirectoryMoves
  <2> HIDE DEF n
  <2>4. Keeps(tree, n, u, 0) /\ Fair(tree, n)
    BY <1>0, <2>3, BucketKeeps
  <2>5. ResultKeeps(tree, Done(n), u, 0) /\ ResultFair(tree, Done(n))
    BY <2>4, DoneKeeps
  <2> QED
    BY <2>1, <2>5, FinishKeeps
<1>13. CASE Rename(x)
  <2> DEFINE result == RenamedPath(tree, x.at, x.to)
  <2>1. Finish(x, "rename", result)
    BY <1>13 DEF Rename
  <2>2. ResultKeeps(tree, result, u, 0) /\ ResultFair(tree, result)
    BY <1>7, <2>1 DEF Finish
  <2> HIDE DEF result
  <2> QED
    BY <2>1, <2>2, FinishKeeps
<1>14. CASE Delete(x)
  <2> DEFINE result == DeletedPath(section, tree, u, x.at)
  <2>1. Finish(x, "delete", result)
    BY <1>14 DEF Delete
  <2>2. ResultKeeps(tree, result, u, 1) /\ (section = "SHARED" => ResultFair(tree, result))
    BY <1>8
  <2> HIDE DEF result
  <2> QED
    BY <2>1, <2>2, FinishKeeps
<1>15. CASE AbortUpload(x)
  <2> DEFINE n == Uploaded(tree, u, p, x.body)
  <2>1. Enough(1) /\ FinishFaulty(x, "upload", "abort", Raised(n))
    BY <1>15 DEF AbortUpload, p
  <2>2. x.op = "upload"
    BY <2>1 DEF FinishFaulty
  <2>3. n \in Trees
    BY <1>5, <2>1, <2>2 DEF Keeps
  <2> HIDE DEF n
  <2>4. ResultKeeps(tree, Raised(n), u, 1) /\ ResultFair(tree, Raised(n))
    BY <2>3, RaisedKeeps
  <2> QED
    BY <2>1, <2>4, FinishFaultyKeeps
<1>16. CASE AbortRename(x)
  <2> DEFINE n == RenamedPath(tree, x.at, x.to).tree
  <2>1. FinishFaulty(x, "rename", "abort", Raised(n))
    BY <1>16 DEF AbortRename
  <2>2. n \in Trees
    BY <1>7, <2>1 DEF FinishFaulty, ResultKeeps, Results
  <2> HIDE DEF n
  <2>3. ResultKeeps(tree, Raised(n), u, 1) /\ ResultFair(tree, Raised(n))
    BY <2>2, RaisedKeeps
  <2> QED
    BY <2>1, <2>3, FinishFaultyKeeps
<1>17. CASE AbortDelete(x)
  <2> DEFINE n == DeletedPath(section, tree, u, x.at).tree
  <2>1. FinishFaulty(x, "delete", "abort", Raised(n))
    BY <1>17 DEF AbortDelete
  <2>2. n \in Trees
    BY <1>8 DEF ResultKeeps, Results
  <2> HIDE DEF n
  <2>3. ResultKeeps(tree, Raised(n), u, 1) /\ ResultFair(tree, Raised(n))
    BY <2>2, RaisedKeeps
  <2> QED
    BY <2>1, <2>3, FinishFaultyKeeps
<1> QED
  BY <1>2, <1>3, <1>9, <1>10, <1>11, <1>12, <1>13, <1>14, <1>15, <1>16, <1>17 DEF FilesApi


LEMMA ResumesApiKeeps ==
    ASSUME Inv, NEW x \in Requests[section], ResumesApi(x)
    PROVE  Inv'
<1> DEFINE u == x.user
<1>0. /\ section \in Sections /\ tree \in Trees /\ u \in Users /\ x.at \in Paths
      /\ x \in flight => Checked(x)
  BY Held
<1>1. ASSUME NEW n \in Nat, n > 0, Enough(n)
      PROVE  Cardinality(FreeIds(tree)) >= n /\ FreeIds(tree) # {}
  BY <1>1, SomeIdsAreFree DEF Enough
<1>2. ASSUME NEW op \in ResumesRequests, NEW result, Finish(x, op, result),
             NEW c \in Nat, ResultKeeps(tree, result, u, c)
      PROVE  Inv'
  <2>1. section # "SHARED"
    BY <1>0, <1>2, AskedOf DEF Finish
  <2> QED
    BY <1>2, <2>1, FinishKeeps
<1>3. CASE ArriveCreate(x)
  <2>1. x.op = "create" /\ Arrive(x, MayCreate(x)) /\ Len(x.at) < NodeDepth /\ x.to \in Names
    BY <1>3 DEF ArriveCreate, Arrive, MayCreate, ValidName
  <2>2. Checked(x)
    BY <2>1 DEF Checked
  <2> QED
    BY <2>1, <2>2, ArriveKeeps
<1>4. CASE ArriveRename(x)
  <2>1. x.op = "renameNode" /\ Arrive(x, MayRename(x)) /\ IsNode(x.at) /\ x.to \in Names
    BY <1>4 DEF ArriveRename, Arrive, MayRename, ValidName
  <2>2. x.at # Root
    <3>1. Len(x.at) >= 1
      BY <2>1 DEF IsNode
    <3> QED
      BY <3>1 DEF Root
  <2>3. Checked(x)
    BY <2>1, <2>2 DEF Checked
  <2> QED
    BY <2>1, <2>3, ArriveKeeps
<1>5. CASE ArriveDelete(x)
  <2>1. x.op = "deleteNode" /\ Arrive(x, IsNode(x.at))
    BY <1>5 DEF ArriveDelete
  <2>2. Checked(x)
    BY <2>1 DEF Checked
  <2> QED
    BY <2>1, <2>2, ArriveKeeps
<1>6. CASE ArriveVacancy(x)
  <2> DEFINE admitted == IsVacancy(x.at) /\ Exists(tree, x.at) /\ ValidBody(x.body)
  <2>1. x.op \in {"save", "read"} /\ Arrive(x, admitted) /\ IsVacancy(x.at)
    BY <1>6 DEF ArriveVacancy, Arrive
  <2>2. Checked(x)
    BY <2>1 DEF Checked
  <2> HIDE DEF admitted
  <2> QED
    BY <2>1, <2>2, ArriveKeeps
<1>7. CASE ArriveBrowse(x)
  <2>1. x.op = "browse" /\ Arrive(x, NodeExists(x.at))
    BY <1>7 DEF ArriveBrowse
  <2>2. Checked(x)
    BY <2>1 DEF Checked
  <2> QED
    BY <2>1, <2>2, ArriveKeeps
<1>8. CASE ArriveStatuses(x)
  <2>1. x.op \in {"statuses", "saveStatuses"} /\ Arrive(x, ValidBody(x.body))
    BY <1>8 DEF ArriveStatuses
  <2>2. Checked(x)
    BY <2>1 DEF Checked
  <2> QED
    BY <2>1, <2>2, ArriveKeeps
<1>9. CASE CreateNode(x)
  <2> DEFINE p == Append(x.at, x.to)
             result(tag) == NodeCreated(tree, u, p, tag)
  <2>1. PICK tag \in {"none", "known", "unknown"} :
           Enough(2) /\ Finish(x, "create", result(tag))
    BY <1>9 DEF CreateNode
  <2>2. Len(x.at) < MaxDepth /\ x.to \in Names
    <3>1. Checked(x) /\ x.op = "create"
      BY <1>0, <2>1 DEF Finish
    <3>2. Len(x.at) < NodeDepth /\ x.to \in Names
      BY <3>1 DEF Checked
    <3>3. Len(x.at) \in Nat /\ NodeDepth \in Nat /\ MaxDepth \in Nat /\ NodeDepth < MaxDepth
      BY <1>0, PathLength, RequestsAssumption, TreeAssumption DEF NodeDepth
    <3> QED
      BY <3>2, <3>3
  <2>3. p \in Paths
    BY <1>0, <2>2, PathAppended
  <2>4. Cardinality(FreeIds(tree)) >= 2
    BY <1>1, <2>1
  <2> HIDE DEF p
  <2>5. ResultKeeps(tree, result(tag), u, 2)
    BY <1>0, <2>3, <2>4, NodeCreatedKeeps
  <2> HIDE DEF result
  <2>6. "create" \in ResumesRequests
    BY DEF ResumesRequests
  <2> QED
    BY <1>2, <2>1, <2>5, <2>6
<1>10. CASE RenameNode(x)
  <2> DEFINE result == NodeRenamed(tree, x.at, x.to)
  <2>1. Finish(x, "renameNode", result)
    BY <1>10 DEF RenameNode
  <2>2. x.at # Root /\ x.to \in Names
    BY <1>0, <2>1 DEF Finish, Checked
  <2>3. ResultKeeps(tree, result, u, 0)
    BY <1>0, <2>2, NodeRenamedSame, ResultSameKeeps
  <2> HIDE DEF result
  <2>4. "renameNode" \in ResumesRequests
    BY DEF ResumesRequests
  <2> QED
    BY <1>2, <2>1, <2>3, <2>4
<1>11. CASE DeleteNode(x)
  <2> DEFINE result == DeletedTree(tree, u, x.at)
  <2>1. Finish(x, "deleteNode", result)
    BY <1>11 DEF DeleteNode
  <2>2. ResultKeeps(tree, result, u, 0)
    BY <1>0, DeletedTreeKeeps
  <2> HIDE DEF result
  <2>3. "deleteNode" \in ResumesRequests
    BY DEF ResumesRequests
  <2> QED
    BY <1>2, <2>1, <2>2, <2>3
<1>12. CASE SaveVacancy(x)
  <2> DEFINE result == Overwritten(tree, u, MetaOf(x.at), x.body)
  <2>1. Enough(1) /\ Finish(x, "save", result)
    BY <1>12 DEF SaveVacancy
  <2>2. MetaOf(x.at) \in Paths /\ x.body \in Bodies
    BY <1>0, <2>1, VacancyMeta, Asked DEF Finish, Checked
  <2>3. FreeIds(tree) # {}
    BY <1>1, <2>1
  <2>4. ResultKeeps(tree, result, u, 1)
    BY <1>0, <2>2, <2>3, OverwrittenKeeps
  <2> HIDE DEF result
  <2>5. "save" \in ResumesRequests
    BY DEF ResumesRequests
  <2> QED
    BY <1>2, <2>1, <2>4, <2>5
<1>13. CASE GetVacancy(x)
  <2> DEFINE result == IF MetaGarbled(tree, x.at) THEN Raised(tree) ELSE MetaRead(tree, x.at)
  <2>1. Finish(x, "read", result)
    BY <1>13 DEF GetVacancy
  <2>2. IsVacancy(x.at)
    BY <1>0, <2>1 DEF Finish, Checked
  <2>3. ResultSame(tree, MetaRead(tree, x.at)) /\ ResultSame(tree, Raised(tree))
    BY <1>0, <2>2, MetaReadSame, SameSelf
  <2>4. ResultSame(tree, result)
    BY <2>3
  <2> HIDE DEF result
  <2>5. ResultKeeps(tree, result, u, 0)
    BY <1>0, <2>4, ResultSameKeeps
  <2>6. "read" \in ResumesRequests
    BY DEF ResumesRequests
  <2> QED
    BY <1>2, <2>1, <2>5, <2>6
<1>14. CASE Browse(x)
  <2> DEFINE S == VacanciesUnder(tree, x.at)
             result == MetasRead(tree, S)
  <2>1. Finish(x, "browse", result)
    BY <1>14 DEF Browse
  <2>2. IsFiniteSet(S) /\ S \subseteq {v \in Paths : IsVacancy(v)}
    BY <1>0, VacanciesAre
  <2> HIDE DEF S
  <2>3. ResultSame(tree, result)
    BY <1>0, <2>2, MetasReadSame
  <2> HIDE DEF result
  <2>4. ResultKeeps(tree, result, u, 0)
    BY <1>0, <2>3, ResultSameKeeps
  <2>5. "browse" \in ResumesRequests
    BY DEF ResumesRequests
  <2> QED
    BY <1>2, <2>1, <2>4, <2>5
<1>15. CASE ListStatuses(x)
  <2> DEFINE result == StatusesListed(tree, u)
  <2>1. Enough(1) /\ Finish(x, "statuses", result)
    BY <1>15 DEF ListStatuses
  <2>2. FreeIds(tree) # {}
    BY <1>1, <2>1
  <2>3. ResultKeeps(tree, result, u, 1)
    BY <1>0, <2>2, StatusesListedKeep
  <2> HIDE DEF result
  <2>4. "statuses" \in ResumesRequests
    BY DEF ResumesRequests
  <2> QED
    BY <1>2, <2>1, <2>3, <2>4
<1>16. CASE SaveStatuses(x)
  <2> DEFINE result == Overwritten(tree, u, <<StatusFile>>, x.body)
  <2>1. Enough(1) /\ Finish(x, "saveStatuses", result)
    BY <1>16 DEF SaveStatuses
  <2>2. x.body \in Bodies
    BY <1>0, <2>1, Asked DEF Finish
  <2>3. FreeIds(tree) # {}
    BY <1>1, <2>1
  <2>4. ResultKeeps(tree, result, u, 1)
    BY <1>0, <2>2, <2>3, StatusPath, OverwrittenKeeps
  <2> HIDE DEF result
  <2>5. "saveStatuses" \in ResumesRequests
    BY DEF ResumesRequests
  <2> QED
    BY <1>2, <2>1, <2>4, <2>5
<1> QED
  BY <1>3, <1>4, <1>5, <1>6, <1>7, <1>8, <1>9, <1>10, <1>11, <1>12, <1>13, <1>14, <1>15, <1>16
     DEF ResumesApi

(* GET of a file of a run. *)
FileServed(t, d, name) ==
    LET p == Append(d, name)
        meta == RunRead(t, d)
    IN  IF RunBroken(t, d) \/ ~meta.ok \/ Ambiguous(t, p) \/ ReadPath(meta.tree, p) = None
        THEN Raised(t) ELSE Done(Healed(meta.tree, p))

LEMMA FileServedSame ==
    ASSUME NEW t \in Trees, NEW d \in Paths, Len(d) < MaxDepth, NEW name \in Names
    PROVE  ResultSame(t, FileServed(t, d, name))
<1> DEFINE p == Append(d, name)
           meta == RunRead(t, d)
           healed == Done(Healed(meta.tree, p))
           fails == RunBroken(t, d) \/ ~meta.ok \/ Ambiguous(t, p) \/ ReadPath(meta.tree, p) = None
           result == IF fails THEN Raised(t) ELSE healed
<1>1. FileServed(t, d, name) = result
  BY DEF FileServed
<1>2. p \in Paths
  BY PathAppended
<1>3. ResultSame(t, meta)
  BY RunReadSame
<1>4. ~fails => meta.ok
  OBVIOUS
<1> HIDE DEF p, meta, fails
<1>5. meta.tree \in Trees
  BY <1>3 DEF ResultSame, Results
<1>6. ResultSame(meta.tree, healed)
  BY <1>2, <1>5, HealedSame, DoneSame
<1> HIDE DEF healed
<1>7. meta.ok => ResultSame(t, healed)
  <2>1. ResultSame(t, IF meta.ok THEN healed ELSE meta)
    BY <1>3, <1>6, SameThen
  <2> QED
    BY <2>1
<1>8. ResultSame(t, result)
  BY <1>4, <1>7, SameSelf
<1> QED
  BY <1>1, <1>8

LEMMA RunsApiKeeps ==
    ASSUME Inv, NEW x \in Requests[section], RunsApi(x)
    PROVE  Inv'
<1> DEFINE u == x.user
           m == Len(x.parts)
<1>0. /\ section \in Sections /\ tree \in Trees /\ u \in Users /\ x.at \in Paths
      /\ x.parts \in Seq(Names \X Bodies) /\ m \in Nat
  BY Held
<1>1. ASSUME Enough(m) PROVE Cardinality(FreeIds(tree)) >= m
  BY <1>1 DEF Enough
<1>2. ASSUME NEW op \in RunsRequests, NEW result, Finish(x, op, result),
             NEW c \in Nat, ResultKeeps(tree, result, u, c)
      PROVE  Inv'
  <2>1. section # "SHARED"
    BY <1>0, <1>2, AskedOf DEF Finish
  <2> QED
    BY <1>2, <2>1, FinishKeeps
<1>3. ASSUME NEW op \in RunsRequests, NEW kind, NEW n \in Trees,
             FinishFaulty(x, op, kind, Raised(n))
      PROVE  Inv'
  <2>1. ResultKeeps(tree, Raised(n), u, 0) /\ ResultFair(tree, Raised(n)) /\ 0 \in Nat
    BY <1>3, RaisedKeeps
  <2> QED
    BY <1>3, <2>1, FinishFaultyKeeps
<1>4. CASE ArriveStore(x)
  <2> DEFINE admitted == ValidRun(x) /\ QuotaAdmits(x) /\ ~Exists(tree, x.at)
  <2>1. x.op = "store" /\ Arrive(x, admitted)
    BY <1>4 DEF ArriveStore
  <2>2. Checked(x)
    BY <2>1 DEF Checked
  <2> HIDE DEF admitted
  <2> QED
    BY <2>1, <2>2, ArriveKeeps
<1>5. CASE ArriveRun(x)
  <2>1. x.op \in {"listRuns", "deleteRun"} /\ Arrive(x, TRUE)
    BY <1>5 DEF ArriveRun
  <2>2. Checked(x)
    BY <2>1 DEF Checked
  <2> QED
    BY <2>1, <2>2, ArriveKeeps
<1>6. CASE ArriveGetRun(x)
  <2>1. x.op = "getRun" /\ Arrive(x, Exists(tree, x.at))
    BY <1>6 DEF ArriveGetRun
  <2>2. Checked(x)
    BY <2>1 DEF Checked
  <2> QED
    BY <2>1, <2>2, ArriveKeeps
<1>7. CASE ArriveGetFile(x)
  <2>1. x.op = "getFile" /\ Arrive(x, Exists(tree, x.at))
    BY <1>7 DEF ArriveGetFile
  <2>2. Checked(x)
    BY <2>1 DEF Checked
  <2> QED
    BY <2>1, <2>2, ArriveKeeps
<1>8. CASE StoreRun(x)
  <2> DEFINE n == RunStored(tree, u, x.at, x.parts)
  <2>1. Enough(m) /\ Finish(x, "store", Done(n))
    BY <1>8 DEF StoreRun
  <2>2. Len(x.at) < MaxDepth
    BY <1>0, <2>1, Asked DEF Finish
  <2>3. Keeps(tree, n, u, m)
    BY <1>0, <1>1, <2>1, <2>2, RunStoredKeeps
  <2> HIDE DEF n, m
  <2>4. ResultKeeps(tree, Done(n), u, m)
    BY <2>3, DoneKeeps
  <2>5. "store" \in RunsRequests
    BY DEF RunsRequests
  <2> QED
    BY <1>0, <1>2, <2>1, <2>4, <2>5
<1>9. ASSUME Enough(m), NEW n \in 0..m, x.op = "store"
      PROVE  Partly(x, n) \in Trees
  <2> DEFINE first == SubSeq(x.parts, 1, n)
  <2>1. first \in Seq(Names \X Bodies) /\ Len(first) = n
    <3>1. \A i \in 1..n : x.parts[i] \in Names \X Bodies
      BY <1>0
    <3> QED
      BY <1>0, <3>1, SubSeqProperties
  <2>2. Len(x.at) < MaxDepth
    BY <1>0, <1>9, Asked
  <2>3. Cardinality(FreeIds(tree)) >= n
    BY <1>0, <1>1, <1>9, FreeIdsCounted
  <2> HIDE DEF first
  <2>4. Keeps(tree, RunStored(tree, u, x.at, first), u, Len(first))
    BY <1>0, <2>1, <2>2, <2>3, RunStoredKeeps
  <2> QED
    BY <2>4 DEF Partly, Keeps, first
<1>10. CASE StoreFails(x)
  <2> DEFINE n(i) == DeletedTree(Partly(x, i), u, x.at).tree
  <2>1. PICK i \in 0..m - 1 : Enough(m) /\ FinishFaulty(x, "store", "store", Raised(n(i)))
    BY <1>10 DEF StoreFails
  <2>2. Partly(x, i) \in Trees
    BY <1>0, <1>9, <2>1 DEF FinishFaulty
  <2>3. n(i) \in Trees
    BY <2>2, DeletedTreeTyped
  <2> HIDE DEF n
  <2>4. "store" \in RunsRequests
    BY DEF RunsRequests
  <2> QED
    BY <1>3, <2>1, <2>3, <2>4
<1>11. CASE StoreDies(x)
  <2>1. PICK i \in 0..m : Enough(m) /\ FinishFaulty(x, "store", "abort", Raised(Partly(x, i)))
    BY <1>11 DEF StoreDies
  <2>2. Partly(x, i) \in Trees
    BY <1>9, <2>1 DEF FinishFaulty
  <2>3. "store" \in RunsRequests
    BY DEF RunsRequests
  <2> QED
    BY <1>3, <2>1, <2>2, <2>3
<1>12. CASE ListRuns(x)
  <2> DEFINE result == RunsListed(tree)
  <2>1. Finish(x, "listRuns", result)
    BY <1>12 DEF ListRuns
  <2>2. ResultKeeps(tree, result, u, 0)
    BY <1>0, RunsListedSame, ResultSameKeeps
  <2> HIDE DEF result
  <2>3. "listRuns" \in RunsRequests
    BY DEF RunsRequests
  <2> QED
    BY <1>2, <2>1, <2>2, <2>3
<1>13. CASE DeleteRun(x)
  <2> DEFINE result == DeletedTree(tree, u, x.at)
  <2>1. Finish(x, "deleteRun", result)
    BY <1>13 DEF DeleteRun
  <2>2. ResultKeeps(tree, result, u, 0)
    BY <1>0, DeletedTreeKeeps
  <2> HIDE DEF result
  <2>3. "deleteRun" \in RunsRequests
    BY DEF RunsRequests
  <2> QED
    BY <1>2, <2>1, <2>2, <2>3
<1>14. CASE GetRun(x)
  <2> DEFINE result == IF RunBroken(tree, x.at) THEN Raised(tree) ELSE RunRead(tree, x.at)
  <2>1. Finish(x, "getRun", result)
    BY <1>14 DEF GetRun
  <2>2. Len(x.at) < MaxDepth
    BY <1>0, <2>1, Asked DEF Finish
  <2>3. ResultSame(tree, RunRead(tree, x.at)) /\ ResultSame(tree, Raised(tree))
    BY <1>0, <2>2, RunReadSame, SameSelf
  <2>4. ResultSame(tree, result)
    BY <2>3
  <2> HIDE DEF result
  <2>5. ResultKeeps(tree, result, u, 0)
    BY <1>0, <2>4, ResultSameKeeps
  <2>6. "getRun" \in RunsRequests
    BY DEF RunsRequests
  <2> QED
    BY <1>2, <2>1, <2>5, <2>6
<1>15. CASE GetFile(x)
  <2> DEFINE result == FileServed(tree, x.at, x.to)
  <2>1. Finish(x, "getFile", result)
    BY <1>15 DEF GetFile, FileServed
  <2>2. Len(x.at) < MaxDepth /\ x.to \in Names
    BY <1>0, <2>1, Asked DEF Finish
  <2>3. ResultSame(tree, result)
    BY <1>0, <2>2, FileServedSame
  <2> HIDE DEF result
  <2>4. ResultKeeps(tree, result, u, 0)
    BY <1>0, <2>3, ResultSameKeeps
  <2>5. "getFile" \in RunsRequests
    BY DEF RunsRequests
  <2> QED
    BY <1>2, <2>1, <2>4, <2>5
<1> QED
  BY <1>4, <1>5, <1>6, <1>7, <1>8, <1>10, <1>11, <1>12, <1>13, <1>14, <1>15 DEF RunsApi


LEMMA PurgeKeeps ==
    ASSUME Inv, NEW x \in Requests[section], ArrivePurge(x) \/ PurgeUser(x)
    PROVE  Inv'
<1>1. CASE ArrivePurge(x)
  <2>1. x.op = "purge" /\ Arrive(x, x.user \in Admins)
    BY <1>1 DEF ArrivePurge
  <2>2. Checked(x)
    BY <2>1 DEF Checked
  <2> QED
    BY <2>1, <2>2, ArriveKeeps
<1>2. CASE PurgeUser(x)
  <2> DEFINE n(v) == UserDeleted(tree, v)
  <2>1. PICK v \in Users : Finish(x, "purge", Done(n(v)))
    BY <1>2 DEF PurgeUser
  <2>2. Keeps(tree, n(v), x.user, 0) /\ Fair(tree, n(v))
    BY Held, UserDeletedKeeps
  <2> HIDE DEF n
  <2>3. ResultKeeps(tree, Done(n(v)), x.user, 0) /\ ResultFair(tree, Done(n(v)))
    BY <2>2, DoneKeeps
  <2> QED
    BY <2>1, <2>3, FinishKeeps
<1> QED
  BY <1>1, <1>2

(* The nightly jobs are nobody's, and keep what every user's requests keep. *)
LEMMA NightlyKeeps ==
    ASSUME Inv, Archive \/ CleanPending
    PROVE  Inv'
<1>1. /\ section \in Sections /\ tree \in Trees
      /\ flight \subseteq Requests[section] /\ IsFiniteSet(flight)
      /\ Cardinality(flight) <= InFlight[section]
      /\ \A x \in flight : Checked(x)
      /\ spent \in [requests : 0..MaxRequests, faults : Seq(Faults[section])]
      /\ Len(spent.faults) <= MaxFaults
      /\ section # "SHARED" => \A x \in Requests[section] : OwnedBy(tree, x.user)
      /\ Balanced(tree)
  BY DEF Inv
<1>2. UNCHANGED <<section, flight, spent>>
  BY DEF Archive, CleanPending
<1>3. section' = section /\ flight' = flight /\ spent' = spent
  BY <1>2
<1>4. Fair(tree, tree') /\ \A u : Keeps(tree, tree', u, 0)
  <2>1. CASE Archive
    <3>1. PICK r \in Ids : /\ tree.row[r].status = "committed" /\ HasObject(tree, tree.row[r].path)
                           /\ tree' = ArchivedFile(tree, r)
      BY <2>1 DEF Archive
    <3> QED
      BY <1>1, <3>1, ArchivedKeeps
  <2>2. CASE CleanPending
    <3>1. tree' = PendingRemoved(tree)
      BY <2>2 DEF CleanPending
    <3> QED
      BY <1>1, <3>1, PendingRemovedKeeps
  <2> QED
    BY <2>1, <2>2
<1>5. tree' \in Trees /\ Balanced(tree') /\ \A u : OwnedBy(tree, u) => OwnedBy(tree', u)
  BY <1>1, <1>4 DEF Keeps, Fair
<1> QED
  BY <1>1, <1>3, <1>5 DEF Inv

LEMMA InitInv ==
    ASSUME Init
    PROVE  Inv
<1> DEFINE dirs == Start[section]
<1>1. /\ section \in Sections /\ tree = EmptyTree(dirs) /\ flight = {}
      /\ spent = [requests |-> 0, faults |-> <<>>]
  BY DEF Init
<1>2. dirs \in SUBSET (Paths \ {Root})
  BY <1>1, RequestsAssumption
<1> HIDE DEF dirs
<1>3. tree \in Trees
  BY <1>1, <1>2, EmptyTreeTyped
<1>4. /\ \A u \in Users : tree.used[u] = 0
      /\ LiveRows(tree) = {}
  BY <1>1 DEF EmptyTree, LiveRows, Live, NoRow
<1>5. Balanced(tree)
  <2>1. \A v \in Users : Owned(tree, v) = {}
    BY <1>4 DEF Owned
  <2>2. BytesOf(tree, {}) = 0
    BY SumEmpty DEF BytesOf
  <2> QED
    BY <1>4, <2>1, <2>2 DEF Balanced
<1>6. IsFiniteSet(flight) /\ Cardinality(flight) = 0 /\ flight \subseteq Requests[section]
  BY <1>1, FS_EmptySet
<1>7. Cardinality(flight) <= InFlight[section]
  BY <1>1, <1>6, LibraryAssumption
<1>8. /\ spent \in [requests : 0..MaxRequests, faults : Seq(Faults[section])]
      /\ Len(spent.faults) <= MaxFaults
  <2>1. 0 \in 0..MaxRequests /\ <<>> \in Seq(Faults[section]) /\ Len(<<>>) <= MaxFaults
    BY LibraryAssumption
  <2> QED
    BY <1>1, <2>1
<1>9. \A x \in flight : Checked(x)
  BY <1>1
<1>10. \A u : OwnedBy(tree, u)
  BY <1>4 DEF OwnedBy
<1> QED
  BY <1>1, <1>3, <1>5, <1>6, <1>7, <1>8, <1>9, <1>10 DEF Inv

LEMMA StepInv ==
    ASSUME Inv, [Next]_vars
    PROVE  Inv'
<1>1. CASE Next
  <2>1. CASE \E x \in Requests[section] :
                FilesApi(x) \/ ResumesApi(x) \/ RunsApi(x) \/ ArrivePurge(x) \/ PurgeUser(x)
    <3> PICK x \in Requests[section] :
           FilesApi(x) \/ ResumesApi(x) \/ RunsApi(x) \/ ArrivePurge(x) \/ PurgeUser(x)
      BY <2>1
    <3> QED
      BY FilesApiKeeps, ResumesApiKeeps, RunsApiKeeps, PurgeKeeps
  <2>2. CASE Archive \/ CleanPending
    BY <2>2, NightlyKeeps
  <2> QED
    BY <1>1, <2>1, <2>2 DEF Next
<1>2. CASE UNCHANGED vars
  <2>1. section' = section /\ tree' = tree /\ flight' = flight /\ spent' = spent
    BY <1>2 DEF vars
  <2> QED
    BY <2>1 DEF Inv
<1> QED
  BY <1>1, <1>2

LEMMA InvTypes ==
    ASSUME Inv
    PROVE  TypeOK
<1>1. /\ section \in Sections /\ TreeType(tree)
      /\ flight \subseteq Requests[section] /\ Cardinality(flight) <= InFlight[section]
      /\ spent \in [requests : 0..MaxRequests, faults : Seq(Faults[section])]
      /\ Len(spent.faults) <= MaxFaults
  BY TreesAreTyped DEF Inv
<1>2. spent.requests \in 0..MaxRequests /\ spent.faults \in Seq(Faults[section])
  BY <1>1
<1> QED
  BY <1>1, <1>2 DEF TypeOK

LEMMA InvBalances ==
    ASSUME Inv
    PROVE  QuotaIsTheLiveRows
BY DEF Inv, Balanced, Owned, QuotaIsTheLiveRows

-----------------------------------------------------------------------------
(* The limit. What an operation charges: at most w to user u, and nothing to the  *)
(* others.                                                                  *)
Spends(t, n, u, w) ==
    \A v \in Users : n.used[v] <= t.used[v] + (IF v = u THEN w ELSE 0)
ResultSpends(t, result, u, w) == result.ok => Spends(t, result.tree, u, w)

LEMMA SpendsSame ==
    ASSUME NEW t \in Trees, NEW n, n.used = t.used, NEW u, NEW w \in Nat
    PROVE  Spends(t, n, u, w)
<1>1. \A v \in Users : t.used[v] \in Int
  BY TreeFields
<1> QED
  BY <1>1 DEF Spends

LEMMA SpendsOn ==
    ASSUME NEW t \in Trees, NEW m \in Trees, NEW n \in Trees, NEW u, NEW w \in Nat, NEW x \in Nat,
           Spends(t, m, u, w), Spends(m, n, u, x)
    PROVE  Spends(t, n, u, w + x)
<1>1. SUFFICES ASSUME NEW v \in Users
               PROVE  n.used[v] <= t.used[v] + (IF v = u THEN w + x ELSE 0)
  BY DEF Spends
<1>2. t.used[v] \in Int /\ m.used[v] \in Int /\ n.used[v] \in Int
  BY TreeFields
<1>3. /\ m.used[v] <= t.used[v] + (IF v = u THEN w ELSE 0)
      /\ n.used[v] <= m.used[v] + (IF v = u THEN x ELSE 0)
  BY DEF Spends
<1> QED
  BY <1>2, <1>3

LEMMA ChargedSpends ==
    ASSUME NEW t \in Trees, NEW m, m.used = t.used, NEW w, NEW d \in Int, NEW c \in Nat, d <= c
    PROVE  Spends(t, Charged(m, w, d), w, c) /\ (c = 0 => \A u : Spends(t, Charged(m, w, d), u, 0))
<1> DEFINE n == Charged(m, w, d)
<1>1. n.used = [t.used EXCEPT ![w] = t.used[w] + d]
  BY DEF Charged
<1> HIDE DEF n
<1>2. ASSUME NEW v \in Users
      PROVE  t.used[v] \in Int /\ n.used[v] = IF v = w THEN t.used[v] + d ELSE t.used[v]
  BY <1>1, TreeFields
<1>3. Spends(t, n, w, c)
  BY <1>2 DEF Spends
<1>4. c = 0 => \A u : Spends(t, n, u, 0)
  BY <1>2 DEF Spends
<1> QED
  BY <1>3, <1>4 DEF n

LEMMA UploadedSpends ==
    ASSUME NEW t \in Trees, NEW u \in Users, NEW p \in Paths, NEW b \in Bodies
    PROVE  Spends(t, Uploaded(t, u, p, b), u, b) /\ b \in Nat
<1> DEFINE s == Stored(t, p, b)
           m == Created(s, u, p, b, "committed")
<1>1. s \in Trees /\ s.used = t.used
  BY StoredMoves DEF BucketMoves
<1> HIDE DEF s
<1>2. m.used = t.used
  BY <1>1, TreeFields DEF Created
<1> HIDE DEF m
<1>3. b \in Nat /\ b \in Int
  BY BodiesAreNat
<1>4. Spends(t, Charged(m, u, b), u, b)
  BY <1>2, <1>3, ChargedSpends
<1>5. Uploaded(t, u, p, b) = Charged(m, u, b)
  BY DEF Uploaded, Size, m, s
<1> QED
  BY <1>3, <1>4, <1>5

LEMMA DeletedFileSpends ==
    ASSUME NEW t \in Trees, NEW u, NEW r \in Ids
    PROVE  Spends(t, DeletedFile(t, u, r), u, 0)
<1> DEFINE f == t.row[r]
           bare == IF f.status = "archived" THEN BlobErased(t, r) ELSE Erased(t, f.path)
           m == RowsDeleted(bare, {r})
<1>1. bare \in Trees /\ bare.used = t.used
  BY BlobsErasedMoves, ErasedMoves DEF BucketMoves
<1> HIDE DEF bare
<1>2. m.used = t.used
  BY <1>1, RowsDeletedFields
<1>3. 0 - Size(f.body) \in Int /\ 0 - Size(f.body) <= 0
  BY RowType DEF Size
<1> HIDE DEF m
<1> DEFINE o == f.owner
           d == 0 - Size(f.body)
<1>4. DeletedFile(t, u, r) = Charged(m, o, d)
  BY DEF DeletedFile, m, bare
<1>5. d \in Int /\ d <= 0
  BY <1>3
<1> HIDE DEF o, d
<1>6. Spends(t, Charged(m, o, d), u, 0)
  BY <1>2, <1>5, ChargedSpends
<1> QED
  BY <1>4, <1>6

LEMMA BytesAreNat ==
    ASSUME NEW t \in Trees, NEW S \in SUBSET Ids
    PROVE  BytesOf(t, S) \in Nat
<1>1. /\ IsFiniteSet(S) /\ IntOn(BodyOf(t), S)
      /\ BytesOf(t, S) = SumFunctionOnSet(BodyOf(t), S)
      /\ \A r \in S : BodyOf(t)[r] \in Nat
  BY RowsAreSummed, TreeFields
<1>2. SumFunctionOnSet(BodyOf(t), S) \in Nat
  BY <1>1, SumIsNat
<1> QED
  BY <1>1, <1>2

LEMMA DeletedTreeSpends ==
    ASSUME NEW t \in Trees, NEW u, NEW p
    PROVE  ResultSpends(t, DeletedTree(t, u, p), u, 0)
<1> DEFINE S == LiveUnder(t, p)
           e == Erased(t, p)
           b == BlobsErased(e, S)
           m == RowsDeleted(b, S)
           d == 0 - BytesOf(t, S)
           n == Charged(m, u, d)
<1>1. S \in SUBSET Ids
  BY DEF LiveUnder, LiveRows
<1> HIDE DEF S
<1>2. d \in Int /\ d <= 0
  BY <1>1, BytesAreNat
<1>3. e \in Trees /\ e.used = t.used
  BY ErasedMoves DEF BucketMoves
<1> HIDE DEF e
<1>4. b \in Trees /\ b.used = t.used
  BY <1>3, BlobsErasedMoves DEF BucketMoves
<1> HIDE DEF b
<1>5. m \in Trees /\ m.used = t.used
  BY <1>4, RowsDeletedFields
<1> HIDE DEF m
<1>6. Spends(t, n, u, 0) /\ n \in Trees
  <2> HIDE DEF d
  <2> QED
    BY <1>2, <1>5, ChargedSpends, ChargedTyped
<1>7. DeletedTree(t, u, p) = IF p = Root \/ ~Exists(t, p) \/ ~IsDirectory(t, p) THEN Raised(t) ELSE Done(n)
  BY DEF DeletedTree, n, d, m, b, e, S
<1> HIDE DEF n
<1> QED
  BY <1>6, <1>7, DoneIs DEF ResultSpends

LEMMA DeletedPathSpends ==
    ASSUME NEW t \in Trees, NEW u \in Users, NEW p \in Paths, NEW sec
    PROVE  ResultSpends(t, DeletedPath(sec, t, u, p), u, 0)
<1> DEFINE r == CHOOSE x \in Found(t, p) : TRUE
           h == Healed(t, p)
           file == DeletedFile(h, u, r)
           dir == DeletedTree(t, u, p)
           bare == Erased(t, p)
           result == DeletedPath(sec, t, u, p)
<1>1. \/ result = Raised(t)
      \/ result = Done(file) /\ Found(t, p) # {}
      \/ result = dir
      \/ result = Done(bare)
  <2> DEFINE cases == IF Ambiguous(t, p) THEN Raised(t)
                      ELSE IF Found(t, p) # {} THEN
                          IF MayDelete(sec, t, u, r) THEN Done(file) ELSE Raised(t)
                      ELSE IF ~Exists(t, p) THEN Raised(t)
                      ELSE IF IsDirectory(t, p) /\ sec = "FILES" /\ p # Root THEN dir
                      ELSE Done(bare)
  <2>1. result = cases
    BY DEF DeletedPath
  <2> HIDE DEF result, file, dir, bare, r
  <2> QED
    BY <2>1
<1>2. ASSUME Found(t, p) # {} PROVE Spends(t, file, u, 0) /\ file \in Trees
  <2>1. r \in Ids /\ Live(t.row[r])
    BY <1>2, FoundIn
  <2> HIDE DEF r
  <2>2. SameRows(t, h)
    BY HealedSame
  <2> HIDE DEF h
  <2>3. h \in Trees /\ h.used = t.used /\ Live(h.row[r])
    BY <2>1, <2>2 DEF SameRows
  <2>4. Spends(h, file, u, 0) /\ file \in Trees
    BY <2>1, <2>3, DeletedFileSpends, DeletedFileKeeps DEF Keeps
  <2> HIDE DEF file
  <2> QED
    BY <2>3, <2>4 DEF Spends
<1>3. Spends(t, bare, u, 0) /\ bare \in Trees
  <2>1. BucketMoves(t, bare)
    BY ErasedMoves
  <2> HIDE DEF bare
  <2> QED
    BY <2>1, SpendsSame DEF BucketMoves
<1>4. ResultSpends(t, dir, u, 0)
  BY DeletedTreeSpends
<1> HIDE DEF file, bare, dir, result
<1>5. ResultSpends(t, result, u, 0)
  BY <1>1, <1>2, <1>3, <1>4, DoneIs DEF ResultSpends
<1> QED
  BY <1>5 DEF result

LEMMA UserDeletedSpends ==
    ASSUME NEW t \in Trees, NEW v \in Users, NEW u, Balanced(t)
    PROVE  Spends(t, UserDeleted(t, v), u, 0)
<1> DEFINE n == UserDeleted(t, v)
<1>1. n.used = [t.used EXCEPT ![v] = 0]
  BY TreeFields DEF UserDeleted
<1>2. t.used[v] \in Nat
  <2>1. Owned(t, v) \in SUBSET Ids
    BY DEF Owned, LiveRows
  <2> QED
    BY <2>1, BytesAreNat DEF Balanced
<1> HIDE DEF n
<1>3. ASSUME NEW w \in Users PROVE n.used[w] <= t.used[w] /\ t.used[w] \in Int
  BY <1>1, <1>2, TreeFields
<1>4. Spends(t, n, u, 0)
  BY <1>3 DEF Spends
<1> QED
  BY <1>4 DEF n

(* The size of a list of files, part by part. *)
Tally(h, parts) ==
    /\ h \in [SUBSET (1..Len(parts)) -> Nat] /\ h[{}] = 0
    /\ \A i \in 1..Len(parts) : h[1..i] = h[1..(i - 1)] + parts[i][2] /\ parts[i][2] \in Nat

LEMMA PartsTallied ==
    ASSUME NEW parts \in Seq(Names \X Bodies)
    PROVE  \E h : Tally(h, parts) /\ PartsSize(parts) = h[1..Len(parts)]
<1> DEFINE n == Len(parts)
           put(acc, e) == acc + Size(e[2])
           Def(g) == [s \in SUBSET DOMAIN parts |->
                        IF s = {} THEN 0 ELSE put(g[s \ {Max(s)}], parts[Max(s)])]
           iter == CHOOSE g : g = Def(g)
           V == Nat
           base == 0
           step == [z \in (1..n) \X V |-> put(z[2], parts[z[1]])]
<1>1. PartsSize(parts) = iter[DOMAIN parts]
  BY DEF PartsSize, FoldLeft, MapThenFoldSet
<1>2. n \in Nat /\ DOMAIN parts = 1..n
  OBVIOUS
<1>3. ASSUME NEW i \in 1..n PROVE parts[i][2] \in Nat
  <2>1. parts[i] \in Names \X Bodies
    OBVIOUS
  <2>2. parts[i][2] \in Bodies
    BY <2>1
  <2> QED
    BY <2>2, BodiesAreNat
<1> HIDE DEF n
<1>4. ASSUME NEW acc \in V, NEW i \in 1..n
      PROVE  put(acc, parts[i]) \in V /\ put(acc, parts[i]) = acc + parts[i][2]
  BY <1>3 DEF Size
<1> HIDE DEF put
<1>5. base \in V /\ step \in [(1..n) \X V -> V]
  BY <1>4
<1>6. PICK g \in [SUBSET (1..n) -> V] : Follows(g, n, base, step)
  <2> HIDE DEF step, base, V
  <2> QED
    BY <1>2, <1>5, SeqRecursion
<1>7. g = Def(g)
  <2>1. ASSUME NEW s \in SUBSET (1..n), s # {}
        PROVE  g[s] = put(g[s \ {Max(s)}], parts[Max(s)])
    <3>1. Max(s) \in 1..n /\ g[s \ {Max(s)}] \in V
      BY <1>2, <2>1, MaxIn
    <3> QED
      BY <1>6, <2>1, <3>1 DEF Follows
  <2>2. ASSUME NEW s \in SUBSET (1..n) PROVE g[s] = Def(g)[s]
    BY <1>2, <1>6, <2>1 DEF Follows
  <2>3. g = [s \in SUBSET (1..n) |-> g[s]]
    OBVIOUS
  <2> QED
    BY <1>2, <2>2, <2>3
<1>8. iter = Def(iter)
  <2> HIDE DEF Def
  <2> QED
    BY <1>7
<1> HIDE DEF iter
<1>9. ASSUME NEW s \in SUBSET (1..n), s # {}
      PROVE  Max(s) \in 1..n /\ s \ {Max(s)} \in SUBSET (1..n)
  BY <1>2, <1>9, MaxIn
<1>10. iter \in [SUBSET (1..n) -> Nat]
  <2> DEFINE Good == {s \in SUBSET (1..n) : iter[s] \in Nat}
  <2>1. {} \in Good
    BY <1>2, <1>8
  <2>2. ASSUME NEW s \in SUBSET (1..n), s # {}, \A x \in s : s \ {x} \in Good
        PROVE  s \in Good
    <3>1. Max(s) \in s /\ Max(s) \in 1..n
      BY <1>2, <2>2, MaxIn
    <3>2. iter[s] = put(iter[s \ {Max(s)}], parts[Max(s)])
      BY <1>2, <1>8, <2>2
    <3>3. iter[s \ {Max(s)}] \in V
      BY <2>2, <3>1
    <3>4. iter[s] \in V
      <4> HIDE DEF V
      <4> QED
        BY <1>4, <3>1, <3>2, <3>3
    <3> QED
      BY <2>2, <3>4
  <2> HIDE DEF Good
  <2>3. SUBSET (1..n) \subseteq Good
    <3> DEFINE D == 1..n
    <3>1. IsFiniteSet(D)
      BY <1>2, FS_Interval
    <3>2. \A s \in SUBSET D : (s # {} /\ \A x \in s : s \ {x} \in Good) => s \in Good
      BY <2>2
    <3> HIDE DEF D
    <3>3. SUBSET D \subseteq Good
      BY <2>1, <3>1, <3>2, SubsetInduction
    <3> QED
      BY <3>3 DEF D
  <2>4. \A s \in SUBSET (1..n) : iter[s] \in Nat
    BY <2>3 DEF Good
  <2>5. iter = [s \in SUBSET (1..n) |-> iter[s]]
    BY <1>2, <1>8
  <2> QED
    BY <2>4, <2>5
<1>11. iter[{}] = 0
  BY <1>2, <1>8
<1>12. ASSUME NEW i \in 1..n PROVE iter[1..i] = iter[1..(i - 1)] + parts[i][2]
  <2> DEFINE s == 1..i
             r == 1..(i - 1)
  <2>1. s \in SUBSET (1..n) /\ s # {} /\ Max(s) = i /\ s \ {i} = r /\ r \in SUBSET (1..n)
    BY <1>2, UpTo
  <2> HIDE DEF s, r
  <2>2. iter[s] = put(iter[s \ {Max(s)}], parts[Max(s)])
    BY <1>2, <1>8, <2>1
  <2>3. iter[r] \in V
    BY <1>10, <2>1
  <2>4. iter[s] = iter[r] + parts[i][2]
    BY <1>4, <2>1, <2>2, <2>3
  <2> QED
    BY <2>4 DEF s, r
<1>13. Tally(iter, parts)
  BY <1>3, <1>10, <1>11, <1>12 DEF Tally, n
<1> QED
  BY <1>1, <1>2, <1>13 DEF n

(* Steps that spend what their part has. *)
LEMMA StepsSpend ==
    ASSUME NEW t \in Trees, NEW u, NEW parts \in Seq(Names \X Bodies), NEW h, Tally(h, parts),
           NEW g, g[{}] \in Trees, g[{}].used = t.used,
           \A i \in 1..Len(parts) : g[1..(i - 1)] \in Trees =>
                 g[1..i] \in Trees /\ Spends(g[1..(i - 1)], g[1..i], u, parts[i][2])
    PROVE  Spends(t, g[1..Len(parts)], u, h[1..Len(parts)])
<1> DEFINE n == Len(parts)
           Good == {i \in 0..n : g[1..i] \in Trees /\ Spends(t, g[1..i], u, h[1..i])}
<1>0. n \in Nat /\ \A i \in 0..n : h[1..i] \in Nat
  <2>1. n \in Nat
    OBVIOUS
  <2>2. \A i \in 0..n : 1..i \in SUBSET (1..n)
    BY <2>1
  <2> QED
    BY <2>1, <2>2 DEF Tally
<1>1. 0 \in Good
  <2>1. 1..0 = {}
    OBVIOUS
  <2>2. Spends(t, g[{}], u, 0) /\ h[{}] = 0
    BY SpendsSame DEF Tally
  <2> QED
    BY <1>0, <2>1, <2>2
<1>2. ASSUME NEW i \in 1..n, i - 1 \in Good PROVE i \in Good
  <2> DEFINE a == g[1..(i - 1)]
             b == g[1..i]
             c == h[1..(i - 1)]
             d == parts[i][2]
  <2>1. a \in Trees /\ Spends(t, a, u, c) /\ c \in Nat
    BY <1>0, <1>2
  <2>2. b \in Trees /\ Spends(a, b, u, d)
    BY <2>1
  <2>3. h[1..i] = c + d /\ d \in Nat
    BY DEF Tally
  <2> HIDE DEF a, b, c, d
  <2>4. Spends(t, b, u, c + d)
    BY <2>1, <2>2, <2>3, SpendsOn
  <2> QED
    BY <2>2, <2>3, <2>4 DEF b
<1>3. \A i \in 1..n : i - 1 \in Good => i \in Good
  BY <1>2
<1>4. n \in Nat
  BY <1>0
<1> HIDE DEF Good, n
<1>5. n \in Good
  <2>1. \A i \in 0..n : i \in Good
    BY <1>1, <1>3, <1>4, Climb
  <2> QED
    BY <1>4, <2>1
<1> QED
  BY <1>5 DEF Good, n

LEMMA RunStoredSpends ==
    ASSUME NEW t \in Trees, NEW u \in Users, NEW p \in Paths, Len(p) < MaxDepth,
           NEW parts \in Seq(Names \X Bodies)
    PROVE  Spends(t, RunStored(t, u, p, parts), u, PartsSize(parts))
<1>1. PICK g : RunStored(t, u, p, parts) = g[1..Len(parts)] /\ RunSteps(g, t, u, p, parts)
  BY RunFollowed
<1>2. PICK h : Tally(h, parts) /\ PartsSize(parts) = h[1..Len(parts)]
  BY PartsTallied
<1>3. g[{}] \in Trees /\ g[{}].used = t.used
  BY <1>1, MadeDirectoryMoves DEF RunSteps, BucketMoves
<1>4. ASSUME NEW i \in 1..Len(parts), g[1..(i - 1)] \in Trees
      PROVE  g[1..i] \in Trees /\ Spends(g[1..(i - 1)], g[1..i], u, parts[i][2])
  <2>1. Append(p, parts[i][1]) \in Paths /\ parts[i][2] \in Bodies
    BY PartIs
  <2>2. g[1..i] = Uploaded(g[1..(i - 1)], u, Append(p, parts[i][1]), parts[i][2])
    BY <1>1 DEF RunSteps
  <2> QED
    BY <1>4, <2>1, <2>2, UploadedTyped, UploadedSpends
<1>5. Spends(t, g[1..Len(parts)], u, h[1..Len(parts)])
  BY <1>2, <1>3, <1>4, StepsSpend
<1> QED
  BY <1>1, <1>2, <1>5

LEMMA ExtractedSpends ==
    ASSUME NEW t \in Trees, NEW u \in Users, NEW at \in Paths, NEW to \in Names,
           Len(at) + 1 < MaxDepth, NEW failed, NEW parts \in Seq(Names \X Bodies)
    PROVE  Spends(t, Extracted(t, u, at, to, parts, failed), u, PartsSize(parts))
<1> DEFINE p == Append(at, to)
<1>0. p \in Paths /\ Len(p) < MaxDepth
  BY ZipRoot
<1>1. PICK g : /\ Extracted(t, u, at, to, parts, failed) = g[1..Len(parts)]
               /\ ZipSteps(g, t, u, p, parts, failed)
  BY ZipFollowed
<1> HIDE DEF p
<1>2. PICK h : Tally(h, parts) /\ PartsSize(parts) = h[1..Len(parts)]
  BY PartsTallied
<1>3. g[{}] \in Trees /\ g[{}].used = t.used
  BY <1>0, <1>1, MadeDirectoryMoves DEF ZipSteps, BucketMoves
<1>4. ASSUME NEW i \in 1..Len(parts), g[1..(i - 1)] \in Trees
      PROVE  g[1..i] \in Trees /\ Spends(g[1..(i - 1)], g[1..i], u, parts[i][2])
  <2> DEFINE fails == i \in failed
             q == Append(p, parts[i][1])
             b == parts[i][2]
             a == g[1..(i - 1)]
             n == g[1..i]
  <2>1. q \in Paths /\ b \in Bodies
    BY <1>0, PartIs
  <2>2. n = ExtractedEntry(a, u, p, parts[i], fails) /\ fails \in BOOLEAN
    BY <1>1 DEF ZipSteps
  <2>3. n = IF fails THEN Created(a, u, q, b, "pending") ELSE Uploaded(a, u, q, b)
    BY <2>2 DEF ExtractedEntry
  <2>4. a \in Trees
    BY <1>4
  <2> HIDE DEF fails
  <2>5. n \in Trees
    BY <1>0, <2>2, <2>4, EntryTyped
  <2> HIDE DEF q, b, a, n
  <2>6. b \in Nat
    BY <2>1, BodiesAreNat
  <2>7. Created(a, u, q, b, "pending").used = a.used
    BY <2>4, TreeFields DEF Created
  <2>8. Spends(a, n, u, b)
    BY <2>1, <2>3, <2>4, <2>6, <2>7, SpendsSame, UploadedSpends
  <2> QED
    BY <2>5, <2>8 DEF n, a, b
<1>5. Spends(t, g[1..Len(parts)], u, h[1..Len(parts)])
  BY <1>2, <1>3, <1>4, StepsSpend
<1> QED
  BY <1>1, <1>2, <1>5

-----------------------------------------------------------------------------
(* What the requests in flight may still spend.                             *)

LEMMA MaxOfNat ==
    ASSUME NEW S \in SUBSET Nat, IsFiniteSet(S), S # {}
    PROVE  Max(S) \in S /\ \A y \in S : y <= Max(S)
<1> DEFINE Good == {s \in SUBSET S : s = {} \/ \E m \in s : \A y \in s : y <= m}
<1>1. {} \in Good
  OBVIOUS
<1>2. ASSUME NEW s \in SUBSET S, s # {}, \A x \in s : s \ {x} \in Good
      PROVE  s \in Good
  <2>1. PICK x \in s : s \ {x} \in Good
    BY <1>2
  <2>2. CASE s \ {x} = {}
    BY <2>2
  <2>3. CASE \E m \in s \ {x} : \A y \in s \ {x} : y <= m
    <3>1. PICK m \in s \ {x} : \A y \in s \ {x} : y <= m
      BY <2>3
    <3>2. m \in Nat /\ x \in Nat
      OBVIOUS
    <3>3. CASE x <= m
      BY <3>1, <3>2, <3>3
    <3>4. CASE m <= x
      <4>1. \A y \in s : y \in Nat
        OBVIOUS
      <4>2. \A y \in s : y <= x
        BY <3>1, <3>2, <3>4, <4>1
      <4> QED
        BY <4>2
    <3> QED
      BY <3>2, <3>3, <3>4
  <2> QED
    BY <2>1, <2>2, <2>3
<1> HIDE DEF Good
<1>3. SUBSET S \subseteq Good
  BY <1>1, <1>2, SubsetInduction
<1>4. S \in Good
  BY <1>3
<1>5. PICK m \in S : \A y \in S : y <= m
  BY <1>4 DEF Good
<1>6. Max(S) \in S /\ \A y \in S : Max(S) >= y
  BY <1>5 DEF Max
<1> QED
  BY <1>6

LEMMA PartsSizeIsNat ==
    ASSUME NEW parts \in Seq(Names \X Bodies)
    PROVE  PartsSize(parts) \in Nat
<1>1. PICK h : Tally(h, parts) /\ PartsSize(parts) = h[1..Len(parts)]
  BY PartsTallied
<1> DEFINE D == 1..Len(parts)
<1>2. h \in [SUBSET D -> Nat]
  BY <1>1 DEF Tally
<1>3. PartsSize(parts) = h[D]
  BY <1>1
<1> HIDE DEF D
<1> QED
  BY <1>2, <1>3

(* The heaviest request of a section. *)
Most(s) == Max({0} \cup {Weight(x) : x \in Requests[s]})

LEMMA WeightMost ==
    ASSUME NEW s \in Sections
    PROVE  Most(s) \in Nat /\ \A x \in Requests[s] : Weight(x) \in Nat /\ Weight(x) <= Most(s)
<1> DEFINE R == Requests[s]
           f == [x \in R |-> Weight(x)]
           T == {f[x] : x \in R}
           W == {0} \cup {Weight(x) : x \in R}
<1>1. ASSUME NEW x \in R PROVE Weight(x) \in Nat
  <2>1. x.op = "upload" => Size(x.body) \in Nat
    BY Asked, BodiesAreNat DEF Size
  <2>2. PartsSize(x.parts) \in Nat
    BY Asked, PartsSizeIsNat
  <2> QED
    BY <2>1, <2>2 DEF Weight
<1>2. IsFiniteSet(R)
  BY RequestsAssumption
<1> HIDE DEF R
<1>3. IsFiniteSet(T)
  <2>1. DOMAIN f = R /\ f = [x \in R |-> f[x]]
    OBVIOUS
  <2> HIDE DEF f
  <2> QED
    BY <1>2, <2>1, FiniteImage
<1>4. W = T \cup {0}
  OBVIOUS
<1> HIDE DEF T
<1>5. IsFiniteSet(W)
  BY <1>3, <1>4, FS_AddElement
<1>6. W \in SUBSET Nat /\ W # {} /\ \A x \in R : Weight(x) \in W
  BY <1>1
<1>7. Most(s) = Max(W)
  BY DEF Most, R
<1> HIDE DEF W
<1> QED
  BY <1>1, <1>5, <1>6, <1>7, MaxOfNat DEF R

(* What a set of requests adds up to. *)
Total(F) == MapThenSumSet(Weight, F)
WeightsOf(s) == [x \in Requests[s] |-> Weight(x)]

LEMMA TotalIsSum ==
    ASSUME NEW s, NEW F \in SUBSET Requests[s]
    PROVE  Total(F) = SumFunctionOnSet(WeightsOf(s), F)
<1> DEFINE ch(t) == CHOOSE x \in t : TRUE
           w == WeightsOf(s)
           One(g) == [t \in SUBSET F |-> IF t = {} THEN 0 ELSE Weight(ch(t)) + g[t \ {ch(t)}]]
           Two(g) == [t \in SUBSET F |-> IF t = {} THEN 0 ELSE w[ch(t)] + g[t \ {ch(t)}]]
<1>1. Total(F) = (CHOOSE g : g = One(g))[F]
  BY DEF Total, MapThenSumSet, MapThenFoldSet
<1>2. SumFunctionOnSet(w, F) = (CHOOSE g : g = Two(g))[F]
  <2> HIDE DEF w
  <2> QED
    BY DEF SumFunctionOnSet, FoldFunctionOnSet, MapThenFoldSet
<1>3. ASSUME NEW t \in SUBSET F, t # {} PROVE w[ch(t)] = Weight(ch(t))
  <2>1. ch(t) \in Requests[s]
    BY <1>3
  <2> HIDE DEF ch
  <2> QED
    BY <2>1 DEF WeightsOf
<1> HIDE DEF w, ch
<1>4. ASSUME NEW g PROVE One(g) = Two(g)
  BY <1>3
<1> HIDE DEF One, Two
<1>5. (CHOOSE g : g = One(g)) = (CHOOSE g : g = Two(g))
  BY <1>4
<1> QED
  BY <1>1, <1>2, <1>5 DEF w

(* In flight, of one user: one more, one less, and what they can be at most. *)
Due(F, v) == Total({x \in F : x.user = v})

LEMMA DueIs ==
    ASSUME NEW s \in Sections, NEW F \in SUBSET Requests[s], IsFiniteSet(F), NEW v
    PROVE  /\ Due(F, v) \in Nat /\ Due(F, v) <= Cardinality(F) * Most(s)
           /\ \A x \in Requests[s] \ F :
                 Due(F \cup {x}, v) = Due(F, v) + (IF x.user = v THEN Weight(x) ELSE 0)
           /\ \A x \in F :
                 Due(F, v) = Due(F \ {x}, v) + (IF x.user = v THEN Weight(x) ELSE 0)
<1> DEFINE w == WeightsOf(s)
           P(G) == {x \in G : x.user = v}
           Sum(G) == SumFunctionOnSet(w, P(G))
           m == Most(s)
<1>1. \A x \in Requests[s] : w[x] = Weight(x) /\ Weight(x) \in Nat /\ Weight(x) <= m
  BY WeightMost DEF WeightsOf
<1>2. m \in Nat
  BY WeightMost
<1>3. ASSUME NEW G \in SUBSET Requests[s], IsFiniteSet(G)
      PROVE  /\ Due(G, v) = Sum(G) /\ IsFiniteSet(P(G)) /\ IntOn(w, P(G)) /\ Sum(G) \in Nat
             /\ Cardinality(P(G)) <= Cardinality(G) /\ Cardinality(G) \in Nat
             /\ Sum(G) <= Cardinality(P(G)) * m /\ Cardinality(P(G)) \in Nat
  <2>1. P(G) \in SUBSET Requests[s] /\ P(G) \subseteq G
    OBVIOUS
  <2>2. Due(G, v) = Sum(G)
    BY <2>1, TotalIsSum DEF Due
  <2> DEFINE Q == P(G)
  <2> HIDE DEF P, w, m
  <2>3. IsFiniteSet(Q) /\ Cardinality(Q) <= Cardinality(G) /\ Cardinality(G) \in Nat
    BY <1>3, <2>1, FS_Subset, FS_CardinalityType
  <2>4. \A x \in Q : w[x] \in Nat /\ w[x] <= m
    BY <1>1, <2>1
  <2> HIDE DEF Q
  <2>5. /\ SumFunctionOnSet(w, Q) \in Nat /\ Cardinality(Q) \in Nat
        /\ SumFunctionOnSet(w, Q) <= Cardinality(Q) * m
    BY <1>2, <2>3, <2>4, SumBounded
  <2>6. IntOn(w, Q)
    BY <2>4 DEF IntOn
  <2> QED
    BY <2>2, <2>3, <2>5, <2>6 DEF Q
<1> HIDE DEF w, m
<1>4. Due(F, v) <= Cardinality(F) * m
  <2> DEFINE a == Cardinality(P(F))
             b == Cardinality(F)
  <2>1. a \in Nat /\ b \in Nat /\ a <= b /\ Due(F, v) \in Nat /\ Due(F, v) <= a * m
    BY <1>3
  <2> HIDE DEF a, b
  <2>2. PICK d \in Nat : b = a + d
    <3>1. b - a \in Nat /\ b = a + (b - a)
      BY <2>1
    <3> QED
      BY <3>1
  <2>3. (a + d) * m = a * m + d * m /\ d * m \in Nat /\ a * m \in Nat
    BY <1>2, <2>1, <2>2
  <2>4. Due(F, v) <= b * m
    BY <2>1, <2>2, <2>3
  <2> QED
    BY <2>4 DEF b
<1>5. ASSUME NEW G \in SUBSET Requests[s], IsFiniteSet(G), NEW x \in Requests[s] \ G
      PROVE  Due(G \cup {x}, v) = Due(G, v) + (IF x.user = v THEN Weight(x) ELSE 0)
  <2> DEFINE H == G \cup {x}
  <2>1. H \in SUBSET Requests[s] /\ IsFiniteSet(H)
    BY <1>5, FS_AddElement
  <2>2. /\ Due(G, v) = Sum(G) /\ IsFiniteSet(P(G)) /\ IntOn(w, P(G)) /\ Sum(G) \in Nat
        /\ Due(H, v) = Sum(H)
    BY <1>3, <1>5, <2>1
  <2>3. w[x] = Weight(x) /\ w[x] \in Nat
    BY <1>1
  <2>4. CASE x.user = v
    <3> DEFINE Q == P(G)
    <3>1. P(H) = Q \cup {x} /\ x \notin Q
      BY <2>4
    <3>2. /\ IsFiniteSet(Q) /\ IntOn(w, Q)
          /\ Due(G, v) = SumFunctionOnSet(w, Q) /\ Due(G, v) \in Nat
          /\ Due(H, v) = SumFunctionOnSet(w, Q \cup {x})
      BY <2>2, <3>1
    <3> HIDE DEF Q, H, P, Sum
    <3>3. w[x] \in Int
      BY <2>3
    <3>4. SumFunctionOnSet(w, Q \cup {x}) = w[x] + SumFunctionOnSet(w, Q)
      BY <3>1, <3>2, <3>3, SumAdd
    <3>5. Due(H, v) = Due(G, v) + Weight(x)
      BY <2>3, <3>2, <3>4
    <3> QED
      BY <2>4, <3>5 DEF H
  <2>5. CASE x.user # v
    <3>1. P(H) = P(G)
      BY <2>5
    <3> HIDE DEF P
    <3> QED
      BY <2>2, <2>5, <3>1
  <2> QED
    BY <2>4, <2>5
<1>6. ASSUME NEW x \in F
      PROVE  Due(F, v) = Due(F \ {x}, v) + (IF x.user = v THEN Weight(x) ELSE 0)
  <2> DEFINE G == F \ {x}
  <2>1. G \in SUBSET Requests[s] /\ IsFiniteSet(G) /\ x \in Requests[s] \ G /\ G \cup {x} = F
    BY FS_RemoveElement
  <2> HIDE DEF G
  <2>2. Due(G \cup {x}, v) = Due(G, v) + (IF x.user = v THEN Weight(x) ELSE 0)
    BY <1>5, <2>1
  <2> QED
    BY <2>1, <2>2 DEF G
<1>7. Due(F, v) \in Nat
  BY <1>3
<1> QED
  BY <1>4, <1>5, <1>6, <1>7 DEF m

-----------------------------------------------------------------------------
(* The limit, step by step.                                                 *)

(* Usage and what is in flight, per user.                                   *)
Within(t, F, s) ==
    \A v \in Users : t.used[v] + Due(F, v) <= Limit + (InFlight[s] - 1) * Most(s)
LimitInv == Limit > 0 /\ section # "RESUMES" => Within(tree, flight, section)

LEMMA SectionSizes ==
    ASSUME NEW s \in Sections
    PROVE  /\ InFlight[s] \in Nat \ {0} /\ Most(s) \in Nat /\ Limit \in Nat
           /\ (InFlight[s] - 1) * Most(s) \in Nat
<1>1. InFlight[s] \in Nat \ {0} /\ Most(s) \in Nat /\ Limit \in Nat
  BY LibraryAssumption, TreeAssumption, WeightMost
<1>2. \A a, b \in Nat : a * b \in Nat
  OBVIOUS
<1>3. InFlight[s] - 1 \in Nat
  BY <1>1
<1> QED
  BY <1>1, <1>2, <1>3

LEMMA EndWithin ==
    ASSUME Inv, tree' \in Trees, LimitInv, NEW x \in flight, NEW result,
           ResultSpends(tree, result, x.user, Weight(x)),
           tree' = Committed(tree, result), flight' = flight \ {x}, section' = section
    PROVE  LimitInv'
<1> DEFINE u == x.user
           w == Weight(x)
           room == Limit + (InFlight[section] - 1) * Most(section)
<1>1. /\ section \in Sections /\ tree \in Trees
      /\ flight \in SUBSET Requests[section] /\ IsFiniteSet(flight)
  BY DEF Inv
<1>2. w \in Nat
  BY <1>1, WeightMost
<1>3. Spends(tree, tree', u, w)
  <2>1. CASE result.ok
    BY <2>1 DEF Committed, ResultSpends
  <2>2. CASE ~result.ok
    <3> DEFINE n == [result.tree EXCEPT !.row = tree.row, !.used = tree.used]
    <3>1. tree' = n
      BY <2>2 DEF Committed
    <3>2. "used" \in DOMAIN n
      BY <3>1, TreeFields
    <3>3. n.used = tree.used
      BY <3>2
    <3> HIDE DEF n
    <3> QED
      BY <1>1, <1>2, <3>1, <3>3, SpendsSame
  <2> QED
    BY <2>1, <2>2
<1>4. SUFFICES ASSUME Limit > 0 /\ section # "RESUMES", NEW v \in Users
               PROVE  tree'.used[v] + Due(flight', v) <= room
  BY DEF LimitInv, Within
<1>5. tree.used[v] + Due(flight, v) <= room
  BY <1>4 DEF LimitInv, Within
<1>6. Due(flight, v) = Due(flight', v) + (IF u = v THEN w ELSE 0)
  BY <1>1, DueIs
<1>7. Due(flight', v) \in Nat /\ Due(flight, v) \in Nat
  <2>1. flight' \in SUBSET Requests[section] /\ IsFiniteSet(flight')
    BY <1>1, FS_Subset
  <2> QED
    BY <1>1, <2>1, DueIs
<1>8. tree'.used[v] <= tree.used[v] + (IF v = u THEN w ELSE 0)
  BY <1>3 DEF Spends
<1>9. tree'.used[v] \in Int /\ tree.used[v] \in Int
  BY <1>1, TreeFields
<1>10. room \in Nat
  BY <1>1, SectionSizes
<1> HIDE DEF u, w, room
<1> QED
  BY <1>2, <1>5, <1>6, <1>7, <1>8, <1>9, <1>10

LEMMA FinishWithin ==
    ASSUME Inv, Inv', LimitInv, NEW x, NEW op, NEW result, Finish(x, op, result),
           ResultSpends(tree, result, x.user, Weight(x))
    PROVE  LimitInv'
<1>1. x \in flight /\ tree' = Committed(tree, result) /\ flight' = flight \ {x} /\ section' = section
  BY DEF Finish
<1>2. tree' \in Trees
  BY DEF Inv
<1> QED
  BY <1>1, <1>2, EndWithin

LEMMA FinishFaultyWithin ==
    ASSUME Inv, Inv', LimitInv, NEW x, NEW op, NEW kind, NEW result, FinishFaulty(x, op, kind, result),
           ResultSpends(tree, result, x.user, Weight(x))
    PROVE  LimitInv'
<1>1. x \in flight /\ tree' = Committed(tree, result) /\ flight' = flight \ {x} /\ section' = section
  BY DEF FinishFaulty
<1>2. tree' \in Trees
  BY DEF Inv
<1> QED
  BY <1>1, <1>2, EndWithin

(* Either the check has seen room for the request, or it brings nothing. *)
LEMMA ArriveWithin ==
    ASSUME Inv, LimitInv, NEW x \in Requests[section], NEW admitted, Arrive(x, admitted),
           (admitted => QuotaAdmits(x)) \/ Weight(x) = 0
    PROVE  LimitInv'
<1> DEFINE u == x.user
           w == Weight(x)
           m == Most(section)
           k == InFlight[section]
           c == Cardinality(flight)
<1>1. /\ section \in Sections /\ tree \in Trees
      /\ flight \in SUBSET Requests[section] /\ IsFiniteSet(flight)
  BY DEF Inv
<1>2. /\ c < k /\ x \notin flight /\ admitted /\ flight' = flight \cup {x}
      /\ section' = section /\ tree' = tree
  BY DEF Arrive
<1>3. w \in Nat
  BY <1>1, WeightMost
<1>4. SUFFICES ASSUME Limit > 0 /\ section # "RESUMES", NEW v \in Users
               PROVE  tree.used[v] + Due(flight', v) <= Limit + (k - 1) * m
  BY <1>2 DEF LimitInv, Within
<1>5. tree.used[v] + Due(flight, v) <= Limit + (k - 1) * m
  BY <1>4 DEF LimitInv, Within
<1>6. Due(flight', v) = Due(flight, v) + (IF u = v THEN w ELSE 0)
  BY <1>1, <1>2, DueIs
<1>7. Due(flight, v) \in Nat /\ Due(flight, v) <= c * m
  BY <1>1, DueIs
<1>8. k \in Nat \ {0} /\ m \in Nat /\ Limit \in Nat /\ (k - 1) * m \in Nat /\ c \in Nat
  BY <1>1, SectionSizes, FS_CardinalityType
<1>9. tree.used[v] \in Int
  BY <1>1, TreeFields
<1>10. w = 0 \/ (u = v => tree.used[v] + w <= Limit)
  <2>1. CASE admitted => QuotaAdmits(x)
    <3>1. ~(tree.used[u] + w > Limit)
      BY <1>2, <1>4, <2>1 DEF QuotaAdmits, WouldExceed
    <3> QED
      BY <1>3, <1>8, <1>9, <3>1
  <2>2. CASE w = 0
    BY <2>2
  <2> QED
    BY <2>1, <2>2
<1> HIDE DEF u, w, m, k, c
<1>11. c * m <= (k - 1) * m
  <2>1. PICK d \in Nat : k - 1 = c + d
    <3>1. k - 1 - c \in Nat /\ k - 1 = c + (k - 1 - c)
      BY <1>2, <1>8
    <3> QED
      BY <3>1
  <2>2. (c + d) * m = c * m + d * m /\ d * m \in Nat /\ c * m \in Nat
    BY <1>8
  <2> QED
    BY <2>1, <2>2
<1>12. c * m \in Nat
  BY <1>8
<1> QED
  BY <1>3, <1>5, <1>6, <1>7, <1>8, <1>9, <1>10, <1>11, <1>12

LEMMA RaisedSpends ==
    ASSUME NEW t, NEW n, NEW u, NEW w
    PROVE  ResultSpends(t, Raised(n), u, w)
BY DEF ResultSpends, Raised

LEMMA DoneSpends ==
    ASSUME NEW t, NEW n, NEW u, NEW w, Spends(t, n, u, w)
    PROVE  ResultSpends(t, Done(n), u, w)
BY DEF ResultSpends, Done

LEMMA SameSpends ==
    ASSUME NEW t \in Trees, NEW result, ResultSame(t, result), NEW u, NEW w \in Nat
    PROVE  ResultSpends(t, result, u, w)
BY SpendsSame DEF ResultSpends, ResultSame, SameRows

LEMMA FilesApiWithin ==
    ASSUME Inv, Inv', LimitInv, NEW x \in Requests[section], FilesApi(x)
    PROVE  LimitInv'
<1> DEFINE u == x.user
           p == Append(x.at, x.to)
           w == Weight(x)
<1>0. /\ section \in Sections /\ tree \in Trees /\ u \in Users /\ x.at \in Paths
      /\ x.parts \in Seq(Names \X Bodies)
  BY Held
<1>1. w \in Nat /\ (x.op \notin {"upload", "zip", "store"} => w = 0)
      /\ (x.op = "upload" => w = x.body) /\ (x.op = "zip" => w = PartsSize(x.parts))
  BY <1>0, WeightMost DEF Weight, Size
<1>2. CASE ArriveUpload(x)
  BY <1>2, ArriveWithin DEF ArriveUpload
<1>3. CASE ArriveOther(x)
  <2>1. Arrive(x, TRUE) /\ w = 0
    BY <1>1, <1>3 DEF ArriveOther
  <2> QED
    BY <2>1, ArriveWithin
<1>4. ASSUME x.op \in {"upload", "mkdir"} PROVE p \in Paths
  BY <1>0, <1>4, Asked, PathAppended
<1>5. ASSUME x.op = "zip", NEW failed
      PROVE  Spends(tree, Extracted(tree, u, x.at, x.to, x.parts, failed), u, w)
  <2>1. x.to \in Names /\ Len(x.at) + 1 < MaxDepth
    BY <1>0, <1>5, Asked
  <2> QED
    BY <1>0, <1>1, <1>5, <2>1, ExtractedSpends
<1>6. CASE Upload(x)
  <2> DEFINE n == Uploaded(tree, u, p, x.body)
  <2>1. Finish(x, "upload", Done(n)) /\ x.op = "upload"
    BY <1>6 DEF Upload, Finish
  <2>2. x.body \in Bodies /\ p \in Paths
    BY <1>0, <1>4, <2>1, Asked
  <2>3. Spends(tree, n, u, w)
    BY <1>0, <1>1, <2>1, <2>2, UploadedSpends
  <2> HIDE DEF n, w
  <2>4. ResultSpends(tree, Done(n), u, w)
    BY <2>3, DoneSpends
  <2> QED
    BY <2>1, <2>4, FinishWithin DEF w
<1>7. CASE UploadZip(x)
  <2> DEFINE n == Extracted(tree, u, x.at, x.to, x.parts, {})
  <2>1. Finish(x, "zip", Done(n)) /\ x.op = "zip"
    BY <1>7 DEF UploadZip, Finish
  <2>2. Spends(tree, n, u, w)
    BY <1>5, <2>1
  <2> HIDE DEF n, w
  <2>3. ResultSpends(tree, Done(n), u, w)
    BY <2>2, DoneSpends
  <2> QED
    BY <2>1, <2>3, FinishWithin DEF w
<1>8. CASE UploadZipPartly(x)
  <2> DEFINE n(failed) == Extracted(tree, u, x.at, x.to, x.parts, failed)
  <2>1. PICK failed : FinishFaulty(x, "zip", "entry", Done(n(failed)))
    BY <1>8 DEF UploadZipPartly
  <2>2. Spends(tree, n(failed), u, w)
    BY <1>5, <2>1 DEF FinishFaulty
  <2> HIDE DEF n, w
  <2>3. ResultSpends(tree, Done(n(failed)), u, w)
    BY <2>2, DoneSpends
  <2> QED
    BY <2>1, <2>3, FinishFaultyWithin DEF w
<1>9. CASE Mkdir(x)
  <2> DEFINE n == MadeDirectory(tree, p)
  <2>1. Finish(x, "mkdir", Done(n)) /\ x.op = "mkdir"
    BY <1>9 DEF Mkdir, Finish
  <2>2. BucketMoves(tree, n)
    BY <1>0, <1>4, <2>1, MadeDirectoryMoves
  <2> HIDE DEF n, w
  <2>3. ResultSpends(tree, Done(n), u, w)
    BY <1>0, <1>1, <2>2, SpendsSame, DoneSpends DEF BucketMoves
  <2> QED
    BY <2>1, <2>3, FinishWithin DEF w
<1>10. CASE Rename(x)
  <2> DEFINE result == RenamedPath(tree, x.at, x.to)
  <2>1. Finish(x, "rename", result) /\ x.op = "rename"
    BY <1>10 DEF Rename, Finish
  <2>2. x.at # Root /\ x.to \in Names
    BY <1>0, <2>1, Asked
  <2>3. ResultSame(tree, result)
    BY <1>0, <2>2, RenamedSame DEF ResultSame
  <2> HIDE DEF result, w
  <2>4. ResultSpends(tree, result, u, w)
    BY <1>0, <1>1, <2>3, SameSpends
  <2> QED
    BY <2>1, <2>4, FinishWithin DEF w
<1>11. CASE Delete(x)
  <2> DEFINE result == DeletedPath(section, tree, u, x.at)
  <2>1. Finish(x, "delete", result) /\ x.op = "delete"
    BY <1>11 DEF Delete, Finish
  <2>2. ResultSpends(tree, result, u, 0) /\ w = 0
    BY <1>0, <1>1, <2>1, DeletedPathSpends
  <2> HIDE DEF result
  <2> QED
    BY <2>1, <2>2, FinishWithin
<1>12. ASSUME NEW op, NEW n, FinishFaulty(x, op, "abort", Raised(n)) PROVE LimitInv'
  BY <1>12, RaisedSpends, FinishFaultyWithin
<1>13. CASE AbortUpload(x) \/ AbortRename(x) \/ AbortDelete(x)
  BY <1>12, <1>13 DEF AbortUpload, AbortRename, AbortDelete
<1> QED
  BY <1>2, <1>3, <1>6, <1>7, <1>8, <1>9, <1>10, <1>11, <1>13 DEF FilesApi

(* Vacancies are left out. *)
LEMMA ResumesApiWithin ==
    ASSUME Inv, Inv', NEW x \in Requests[section], ResumesApi(x)
    PROVE  LimitInv'
<1>1. section \in Sections /\ section \in {"FILES", "SHARED", "RESUMES", "GENERATED"}
  BY LibraryAssumption DEF Inv
<1>2. section' = section
  BY DEF ResumesApi, ArriveCreate, ArriveRename, ArriveDelete, ArriveVacancy, ArriveBrowse,
         ArriveStatuses, Arrive, CreateNode, RenameNode, DeleteNode, SaveVacancy, GetVacancy,
         Browse, ListStatuses, SaveStatuses, Finish
<1>3. x.op \in ResumesRequests
  BY DEF ResumesApi, ArriveCreate, ArriveRename, ArriveDelete, ArriveVacancy, ArriveBrowse,
         ArriveStatuses, CreateNode, RenameNode, DeleteNode, SaveVacancy, GetVacancy,
         Browse, ListStatuses, SaveStatuses, Finish, ResumesRequests
<1>4. section = "RESUMES"
  <2>1. x.op \in TakenBy(section)
    BY <1>1, RequestsAssumption
  <2>2. /\ section = "FILES" => TakenBy(section) = FilesRequests
        /\ section = "SHARED" => TakenBy(section) = FilesRequests \cup {"purge"}
        /\ section = "GENERATED" => TakenBy(section) = RunsRequests
    <3>1. section = "FILES" => TakenBy(section) = FilesRequests
      BY Zenon DEF TakenBy
    <3>2. section = "SHARED" => TakenBy(section) = FilesRequests \cup {"purge"}
      BY Zenon DEF TakenBy
    <3>3. section = "GENERATED" => TakenBy(section) = RunsRequests
      BY Zenon DEF TakenBy
    <3> QED
      BY <3>1, <3>2, <3>3
  <2> QED
    BY <1>1, <1>3, <2>1, <2>2 DEF FilesRequests, RunsRequests, ResumesRequests
<1> QED
  BY <1>2, <1>4 DEF LimitInv

LEMMA RunsApiWithin ==
    ASSUME Inv, Inv', LimitInv, NEW x \in Requests[section], RunsApi(x)
    PROVE  LimitInv'
<1> DEFINE u == x.user
           w == Weight(x)
<1>0. /\ section \in Sections /\ tree \in Trees /\ u \in Users /\ x.at \in Paths
      /\ x.parts \in Seq(Names \X Bodies)
  BY Held
<1>1. w \in Nat /\ (x.op \notin {"upload", "zip", "store"} => w = 0)
      /\ (x.op = "store" => w = PartsSize(x.parts))
  BY <1>0, WeightMost DEF Weight, Size
<1>2. CASE ArriveStore(x)
  <2> DEFINE admitted == ValidRun(x) /\ QuotaAdmits(x) /\ ~Exists(tree, x.at)
  <2>1. Arrive(x, admitted) /\ (admitted => QuotaAdmits(x))
    BY <1>2 DEF ArriveStore
  <2> HIDE DEF admitted
  <2> QED
    BY <2>1, ArriveWithin
<1>3. CASE ArriveRun(x) \/ ArriveGetRun(x) \/ ArriveGetFile(x)
  <2>1. PICK admitted : Arrive(x, admitted)
    BY <1>3 DEF ArriveRun, ArriveGetRun, ArriveGetFile
  <2>2. w = 0
    BY <1>1, <1>3 DEF ArriveRun, ArriveGetRun, ArriveGetFile
  <2> QED
    BY <2>1, <2>2, ArriveWithin
<1>4. CASE StoreRun(x)
  <2> DEFINE n == RunStored(tree, u, x.at, x.parts)
  <2>1. Finish(x, "store", Done(n)) /\ x.op = "store"
    BY <1>4 DEF StoreRun, Finish
  <2>2. Len(x.at) < MaxDepth
    BY <1>0, <2>1, Asked
  <2>3. Spends(tree, n, u, w)
    BY <1>0, <1>1, <2>1, <2>2, RunStoredSpends
  <2> HIDE DEF n, w
  <2>4. ResultSpends(tree, Done(n), u, w)
    BY <2>3, DoneSpends
  <2> QED
    BY <2>1, <2>4, FinishWithin DEF w
<1>5. ASSUME NEW op, NEW kind, NEW n, FinishFaulty(x, op, kind, Raised(n)) PROVE LimitInv'
  BY <1>5, RaisedSpends, FinishFaultyWithin
<1>6. CASE StoreFails(x) \/ StoreDies(x)
  BY <1>5, <1>6 DEF StoreFails, StoreDies
<1>7. ASSUME NEW op, NEW result, Finish(x, op, result), ResultSame(tree, result)
      PROVE  LimitInv'
  <2>1. ResultSpends(tree, result, u, w)
    <3> HIDE DEF u, w
    <3> QED
      BY <1>0, <1>1, <1>7, SameSpends
  <2> QED
    BY <1>7, <2>1, FinishWithin
<1>8. CASE ListRuns(x)
  BY <1>0, <1>7, <1>8, RunsListedSame DEF ListRuns
<1>9. CASE GetRun(x)
  <2> DEFINE result == IF RunBroken(tree, x.at) THEN Raised(tree) ELSE RunRead(tree, x.at)
  <2>1. Finish(x, "getRun", result) /\ x.op = "getRun"
    BY <1>9 DEF GetRun, Finish
  <2>2. Len(x.at) < MaxDepth
    BY <1>0, <2>1, Asked
  <2>3. ResultSame(tree, RunRead(tree, x.at)) /\ ResultSame(tree, Raised(tree))
    BY <1>0, <2>2, RunReadSame, SameSelf
  <2>4. ResultSame(tree, result)
    BY <2>3
  <2> HIDE DEF result
  <2> QED
    BY <1>7, <2>1, <2>4
<1>10. CASE GetFile(x)
  <2> DEFINE result == FileServed(tree, x.at, x.to)
  <2>1. Finish(x, "getFile", result) /\ x.op = "getFile"
    BY <1>10 DEF GetFile, FileServed, Finish
  <2>2. Len(x.at) < MaxDepth /\ x.to \in Names
    BY <1>0, <2>1, Asked
  <2>3. ResultSame(tree, result)
    BY <1>0, <2>2, FileServedSame
  <2> HIDE DEF result
  <2> QED
    BY <1>7, <2>1, <2>3
<1>11. CASE DeleteRun(x)
  <2> DEFINE result == DeletedTree(tree, u, x.at)
  <2>1. Finish(x, "deleteRun", result) /\ x.op = "deleteRun"
    BY <1>11 DEF DeleteRun, Finish
  <2>2. ResultSpends(tree, result, u, 0) /\ w = 0
    BY <1>0, <1>1, <2>1, DeletedTreeSpends
  <2> HIDE DEF result
  <2> QED
    BY <2>1, <2>2, FinishWithin
<1> QED
  BY <1>2, <1>3, <1>4, <1>6, <1>8, <1>9, <1>10, <1>11 DEF RunsApi

LEMMA PurgeWithin ==
    ASSUME Inv, Inv', LimitInv, NEW x \in Requests[section], ArrivePurge(x) \/ PurgeUser(x)
    PROVE  LimitInv'
<1>1. CASE ArrivePurge(x)
  <2>1. Arrive(x, x.user \in Admins) /\ Weight(x) = 0
    BY <1>1 DEF ArrivePurge, Weight
  <2> QED
    BY <2>1, ArriveWithin
<1>2. CASE PurgeUser(x)
  <2> DEFINE n(v) == UserDeleted(tree, v)
  <2>1. PICK v \in Users : Finish(x, "purge", Done(n(v)))
    BY <1>2 DEF PurgeUser
  <2>2. Weight(x) = 0
    BY <2>1 DEF Finish, Weight
  <2>3. Spends(tree, n(v), x.user, 0)
    BY UserDeletedSpends DEF Inv
  <2> HIDE DEF n
  <2>4. ResultSpends(tree, Done(n(v)), x.user, 0)
    BY <2>3, DoneSpends
  <2> QED
    BY <2>1, <2>2, <2>4, FinishWithin
<1> QED
  BY <1>1, <1>2

(* The nightly jobs charge nobody. *)
LEMMA NightlyWithin ==
    ASSUME Inv, LimitInv, Archive \/ CleanPending
    PROVE  LimitInv'
<1>1. section' = section /\ flight' = flight
  BY DEF Archive, CleanPending
<1>2. tree \in Trees
  BY DEF Inv
<1>3. tree'.used = tree.used
  BY <1>2, TreeFields DEF Archive, CleanPending, ArchivedFile, PendingRemoved
<1> QED
  BY <1>1, <1>3 DEF LimitInv, Within

LEMMA InitWithin ==
    ASSUME Init
    PROVE  LimitInv
<1>1. /\ section \in Sections /\ flight = {} /\ flight \in SUBSET Requests[section]
      /\ IsFiniteSet(flight) /\ Cardinality(flight) = 0
  BY FS_EmptySet DEF Init
<1>2. ASSUME NEW v \in Users
      PROVE  tree.used[v] + Due(flight, v) <= Limit + (InFlight[section] - 1) * Most(section)
  <2>1. tree.used[v] = 0
    BY DEF Init, EmptyTree
  <2>2. Due(flight, v) = 0
    <3>1. {x \in flight : x.user = v} = {} /\ {} \in SUBSET Requests[section]
      BY <1>1
    <3>2. Total({}) = SumFunctionOnSet(WeightsOf(section), {})
      BY TotalIsSum
    <3> QED
      BY <3>1, <3>2, SumEmpty DEF Due
  <2> QED
    BY <1>1, <2>1, <2>2, SectionSizes
<1> QED
  BY <1>2 DEF LimitInv, Within

LEMMA StepWithin ==
    ASSUME Inv, Inv', LimitInv, [Next]_vars
    PROVE  LimitInv'
<1>1. CASE \E x \in Requests[section] :
              FilesApi(x) \/ ResumesApi(x) \/ RunsApi(x) \/ ArrivePurge(x) \/ PurgeUser(x)
  <2> PICK x \in Requests[section] :
         FilesApi(x) \/ ResumesApi(x) \/ RunsApi(x) \/ ArrivePurge(x) \/ PurgeUser(x)
    BY <1>1
  <2> QED
    BY FilesApiWithin, ResumesApiWithin, RunsApiWithin, PurgeWithin
<1>2. CASE Archive \/ CleanPending
  BY <1>2, NightlyWithin
<1>3. CASE UNCHANGED vars
  <2>1. section' = section /\ tree' = tree /\ flight' = flight
    BY <1>3 DEF vars
  <2> QED
    BY <2>1 DEF LimitInv
<1> QED
  BY <1>1, <1>2, <1>3 DEF Next

LEMMA LimitInvHolds ==
    ASSUME LimitInv
    PROVE  UsageWithinLimit
<1>1. Heaviest = Most(section)
  BY DEF Heaviest, Most
<1>2. \A v : Due(flight, v) = MapThenSumSet(Weight, {x \in flight : x.user = v})
  BY DEF Due, Total
<1> QED
  BY <1>1, <1>2 DEF LimitInv, Within, UsageWithinLimit

-----------------------------------------------------------------------------
(* What an archived record says of its archive.                             *)

(* The archive of a record lies where the record says it was.                 *)
Placed(t) == \A r \in Ids : t.row[r].status = "archived" => t.row[r].blob = t.row[r].path

LEMMA PlacedAlike ==
    ASSUME NEW t, NEW n, Placed(t),
           \A r \in Ids : \/ n.row[r].status # "archived"
                          \/ /\ n.row[r].status = t.row[r].status
                             /\ n.row[r].blob = t.row[r].blob /\ n.row[r].path = t.row[r].path
                          \/ n.row[r].blob = n.row[r].path
    PROVE  Placed(n)
BY DEF Placed

LEMMA CreatedPlaced ==
    ASSUME NEW t \in Trees, NEW u \in Users, NEW p \in Paths, NEW b \in Bodies,
           NEW status \in {"pending", "committed"}, Placed(t)
    PROVE  Placed(Created(t, u, p, b, status))
<1> DEFINE n == Created(t, u, p, b, status)
           r == FreshId(t)
           new == [NoRow EXCEPT !.status = status, !.owner = u, !.path = p, !.body = b]
<1>1. n = [t EXCEPT !.row = [t.row EXCEPT ![r] = new]]
  BY DEF Created
<1>2. new.status = status
  BY DEF NoRow
<1> HIDE DEF r, new, n
<1>3. n.row = [t.row EXCEPT ![r] = new]
  BY <1>1, TreeFields
<1>4. \A x \in Ids : n.row[x] = new \/ n.row[x] = t.row[x]
  BY <1>3, TreeFields
<1>5. Placed(n)
  BY <1>2, <1>4 DEF Placed
<1> QED
  BY <1>5 DEF n

LEMMA UploadedPlaced ==
    ASSUME NEW t \in Trees, NEW u \in Users, NEW p \in Paths, NEW b \in Bodies, Placed(t)
    PROVE  Placed(Uploaded(t, u, p, b))
<1> DEFINE m == Stored(t, p, b)
           c == Created(m, u, p, b, "committed")
<1>1. m \in Trees /\ m.row = t.row
  BY StoredMoves DEF BucketMoves
<1>2. Placed(m)
  BY <1>1 DEF Placed
<1> HIDE DEF m
<1>3. Placed(c) /\ c \in Trees
  BY <1>1, <1>2, CreatedPlaced, CreatedTyped
<1> HIDE DEF c
<1>4. Charged(c, u, Size(b)).row = c.row
  BY <1>3, TreeFields DEF Charged
<1>5. Placed(Charged(c, u, Size(b)))
  BY <1>3, <1>4 DEF Placed
<1> QED
  BY <1>5 DEF Uploaded, c, m

LEMMA EntryPlaced ==
    ASSUME NEW t \in Trees, NEW u \in Users, NEW p \in Paths, Len(p) < MaxDepth,
           NEW parts \in Seq(Names \X Bodies), NEW i \in 1..Len(parts), NEW fails \in BOOLEAN,
           Placed(t)
    PROVE  Placed(ExtractedEntry(t, u, p, parts[i], fails))
<1> DEFINE q == Append(p, parts[i][1])
           b == parts[i][2]
           n == ExtractedEntry(t, u, p, parts[i], fails)
<1>1. q \in Paths /\ b \in Bodies
  BY PartIs
<1>2. n = IF fails THEN Created(t, u, q, b, "pending") ELSE Uploaded(t, u, q, b)
  BY DEF ExtractedEntry
<1> HIDE DEF q, b, n
<1>3. Placed(n)
  BY <1>1, <1>2, CreatedPlaced, UploadedPlaced
<1> QED
  BY <1>3 DEF n

LEMMA ExtractedPlaced ==
    ASSUME NEW t \in Trees, NEW u \in Users, NEW at \in Paths, NEW to \in Names,
           Len(at) + 1 < MaxDepth, NEW failed,
           NEW parts \in Seq(Names \X Bodies), Placed(t)
    PROVE  Placed(Extracted(t, u, at, to, parts, failed))
<1> DEFINE n == Len(parts)
           p == Append(at, to)
<1>1. PICK g : Extracted(t, u, at, to, parts, failed) = g[1..n] /\ ZipSteps(g, t, u, p, parts, failed)
  BY ZipFollowed
<1>2. n \in Nat
  OBVIOUS
<1>3. p \in Paths /\ Len(p) < MaxDepth
  BY ZipRoot
<1> HIDE DEF p
<1> DEFINE Good == {i \in 0..n : g[1..i] \in Trees /\ Placed(g[1..i])}
<1>4. 0 \in Good
  <2>1. g[{}] \in Trees /\ g[{}].row = t.row
    BY <1>1, <1>3, MadeDirectoryMoves DEF ZipSteps, BucketMoves
  <2>2. Placed(g[{}])
    BY <2>1 DEF Placed
  <2>3. 1..0 = {}
    OBVIOUS
  <2> QED
    BY <1>2, <2>1, <2>2, <2>3
<1>5. ASSUME NEW i \in 1..n, i - 1 \in Good PROVE i \in Good
  <2> DEFINE fails == i \in failed
             a == g[1..(i - 1)]
             b == g[1..i]
  <2>1. b = ExtractedEntry(a, u, p, parts[i], fails) /\ fails \in BOOLEAN
    BY <1>1 DEF ZipSteps
  <2>2. a \in Trees /\ Placed(a)
    BY <1>5
  <2> HIDE DEF fails, a, b
  <2>3. b \in Trees /\ Placed(b)
    BY <1>3, <2>1, <2>2, EntryTyped, EntryPlaced
  <2> QED
    BY <1>2, <2>3 DEF b
<1> HIDE DEF Good, n
<1>6. \A i \in 1..n : i - 1 \in Good => i \in Good
  BY <1>5
<1>7. \A i \in 0..n : i \in Good
  BY <1>2, <1>4, <1>6, Climb
<1>8. n \in Good
  BY <1>2, <1>7
<1> QED
  BY <1>1, <1>8 DEF Good

LEMMA HealedPlaced ==
    ASSUME NEW t \in Trees, NEW p \in Paths, Placed(t)
    PROVE  Placed(Healed(t, p))
<1> DEFINE rows == [r \in Ids |-> IF Heals(t, p) /\ r \in Namesakes(t, p)
                                  THEN [t.row[r] EXCEPT !.path = p] ELSE t.row[r]]
           n == Healed(t, p)
<1>1. n = [t EXCEPT !.row = rows]
  BY DEF Healed
<1>2. ASSUME NEW r \in Ids PROVE rows[r] = t.row[r] \/ rows[r].status = "committed"
  <2>1. CASE r \in Namesakes(t, p)
    BY <2>1, RowType, Repathed DEF Namesakes
  <2>2. CASE r \notin Namesakes(t, p)
    BY <2>2
  <2> QED
    BY <2>1, <2>2
<1> HIDE DEF rows, n
<1>3. n.row = rows
  BY <1>1, TreeFields
<1>4. \A r \in Ids : n.row[r] = t.row[r] \/ n.row[r].status = "committed"
  BY <1>2, <1>3
<1>5. Placed(n)
  BY <1>4 DEF Placed
<1> QED
  BY <1>5 DEF n

LEMMA RowsMovedPlaced ==
    ASSUME NEW t \in Trees, NEW p \in Paths, NEW q \in Paths, Len(p) = Len(q), Placed(t)
    PROVE  Placed(RowsMoved(t, p, q))
<1> DEFINE moves(r) == t.row[r].status = "committed" /\ r \in LiveUnder(t, p)
           rows == [r \in Ids |-> IF moves(r)
                        THEN [t.row[r] EXCEPT !.path = Regrafted(t.row[r].path, p, q)]
                        ELSE t.row[r]]
           n == RowsMoved(t, p, q)
<1>1. n = [t EXCEPT !.row = rows]
  BY DEF RowsMoved
<1>2. ASSUME NEW r \in Ids PROVE rows[r] = t.row[r] \/ rows[r].status = "committed"
  <2>1. CASE moves(r)
    <3>1. rows[r].status = t.row[r].status
      BY <2>1, RowType DEF Row
    <3> QED
      BY <2>1, <3>1
  <2>2. CASE ~moves(r)
    BY <2>2
  <2> QED
    BY <2>1, <2>2
<1> HIDE DEF rows, n
<1>3. n.row = rows
  BY <1>1, TreeFields
<1>4. \A r \in Ids : n.row[r] = t.row[r] \/ n.row[r].status = "committed"
  BY <1>2, <1>3
<1>5. Placed(n)
  BY <1>4 DEF Placed
<1> QED
  BY <1>5 DEF n

LEMMA RenamedPlaced ==
    ASSUME NEW t \in Trees, NEW p \in Paths, p # Root, NEW name \in Names, Placed(t)
    PROVE  LET result == RenamedPath(t, p, name) IN result.ok => Placed(result.tree)
<1> DEFINE q == Append(Front(p), name)
           r == CHOOSE x \in Found(t, p) : TRUE
           d == Moved(t, p, q)
           dir == RowsMoved(d, p, q)
           h == Healed(t, p)
           m == Moved(h, p, q)
           file == [m EXCEPT !.row[r].path = q]
           result == IF ~Exists(t, p) THEN Raised(t)
                     ELSE IF IsDirectory(t, p) THEN Done(dir)
                     ELSE IF Ambiguous(t, p) \/ Found(t, p) = {} THEN Raised(t)
                     ELSE IF t.row[r].status = "archived" THEN Raised(t)
                     ELSE Done(file)
<1>1. RenamedPath(t, p, name) = result
  BY DEF RenamedPath
<1>2. q \in Paths /\ Len(p) = Len(q)
  BY SiblingPath
<1> HIDE DEF q
<1>3. Placed(dir)
  <2>1. BucketMoves(t, d)
    BY <1>2, MovedMoves
  <2> HIDE DEF d
  <2>2. d \in Trees /\ d.row = t.row
    BY <2>1 DEF BucketMoves
  <2>3. Placed(d)
    BY <2>2 DEF Placed
  <2> QED
    BY <1>2, <2>2, <2>3, RowsMovedPlaced
<1>4. ASSUME Found(t, p) # {}, t.row[r].status # "archived" PROVE Placed(file)
  <2>1. r \in Ids
    BY <1>4, FoundIn
  <2>2. SameRows(t, h) /\ h \in Trees /\ Placed(h)
    BY HealedSame, HealedPlaced DEF SameRows
  <2>3. h.row[r].status # "archived"
    <3>1. h.row[r] = IF Heals(t, p) /\ r \in Namesakes(t, p)
                     THEN [t.row[r] EXCEPT !.path = p] ELSE t.row[r]
      <4> HIDE DEF r
      <4> QED
        BY <2>1, TreeFields DEF Healed
    <3> HIDE DEF h, r
    <3>2. t.row[r] \in Row
      BY <2>1, RowType
    <3> QED
      BY <1>4, <3>1, <3>2, Repathed
  <2> HIDE DEF h, r
  <2>4. BucketMoves(h, m)
    BY <1>2, <2>2, MovedMoves
  <2> HIDE DEF m
  <2>5. m \in Trees /\ m.row = h.row
    BY <2>4 DEF BucketMoves
  <2> DEFINE g == [m.row[r] EXCEPT !.path = q]
             rows == [m.row EXCEPT ![r] = g]
  <2>6. file = [m EXCEPT !.row = rows]
    BY <2>1, <2>5, TreeFields
  <2>7. g.status = m.row[r].status
    BY <1>2, <2>1, <2>5, RowType, Repathed
  <2> HIDE DEF g, file
  <2>8. rows[r] = g /\ \A x \in Ids \ {r} : rows[x] = m.row[x]
    BY <2>1, <2>5, TreeFields
  <2> HIDE DEF rows
  <2>9. file.row = rows
    BY <2>5, <2>6, TreeFields
  <2>10. ASSUME NEW x \in Ids, file.row[x].status = "archived"
         PROVE  file.row[x].blob = file.row[x].path
    <3>1. x # r
      BY <2>3, <2>5, <2>7, <2>8, <2>9, <2>10
    <3>2. file.row[x] = h.row[x]
      BY <2>5, <2>8, <2>9, <3>1
    <3> QED
      BY <2>2, <2>10, <3>2 DEF Placed
  <2> QED
    BY <2>10 DEF Placed
<1>6. \/ result = Raised(t)
      \/ result = Done(dir)
      \/ result = Done(file) /\ Found(t, p) # {} /\ t.row[r].status # "archived"
  <2> HIDE DEF dir, file, r
  <2> QED
    OBVIOUS
<1> HIDE DEF dir, file, result, r
<1>7. result.ok => Placed(result.tree)
  BY <1>3, <1>4, <1>6 DEF Done, Raised
<1> QED
  BY <1>1, <1>7

LEMMA DeletedFilePlaced ==
    ASSUME NEW t \in Trees, NEW u, NEW r \in Ids, Live(t.row[r]), Placed(t)
    PROVE  Placed(DeletedFile(t, u, r))
<1> DEFINE f == t.row[r]
           bare == IF f.status = "archived" THEN BlobErased(t, r) ELSE Erased(t, f.path)
           m == RowsDeleted(bare, {r})
           n == Charged(m, f.owner, 0 - Size(f.body))
<1>1. BucketMoves(t, bare)
  BY BlobsErasedMoves, ErasedMoves
<1> HIDE DEF bare
<1>2. bare \in Trees /\ bare.row = t.row
  BY <1>1 DEF BucketMoves
<1>3. /\ m \in Trees /\ m.row[r].status = "deleted"
      /\ \A x \in Ids \ {r} : m.row[x] = bare.row[x]
  BY <1>2, RowsDeletedFields
<1> HIDE DEF m
<1>4. n.row = m.row
  BY <1>3, TreeFields DEF Charged
<1> HIDE DEF n
<1>5. Placed(n)
  BY <1>2, <1>3, <1>4 DEF Placed
<1>6. DeletedFile(t, u, r) = n
  BY DEF DeletedFile, n, m, bare
<1> QED
  BY <1>5, <1>6

LEMMA DeletedPathPlaced ==
    ASSUME NEW t \in Trees, NEW u \in Users, NEW p \in Paths, Placed(t)
    PROVE  LET result == DeletedPath("SHARED", t, u, p) IN result.ok => Placed(result.tree)
<1> DEFINE r == CHOOSE x \in Found(t, p) : TRUE
           h == Healed(t, p)
           file == DeletedFile(h, u, r)
           bare == Erased(t, p)
           result == DeletedPath("SHARED", t, u, p)
<1>1. \/ result = Raised(t)
      \/ result = Done(file) /\ Found(t, p) # {}
      \/ result = Done(bare)
  <2> DEFINE dir == DeletedTree(t, u, p)
             cases == IF Ambiguous(t, p) THEN Raised(t)
                      ELSE IF Found(t, p) # {} THEN
                          IF MayDelete("SHARED", t, u, r) THEN Done(file) ELSE Raised(t)
                      ELSE IF ~Exists(t, p) THEN Raised(t)
                      ELSE IF IsDirectory(t, p) /\ "SHARED" = "FILES" /\ p # Root THEN dir
                      ELSE Done(bare)
  <2>1. result = cases
    BY DEF DeletedPath
  <2> HIDE DEF result, file, dir, bare, r
  <2> QED
    BY <2>1
<1>2. ASSUME Found(t, p) # {} PROVE Placed(file)
  <2>1. r \in Ids /\ Live(t.row[r])
    BY <1>2, FoundIn
  <2> HIDE DEF r
  <2>2. SameRows(t, h) /\ Placed(h)
    BY HealedSame, HealedPlaced
  <2> HIDE DEF h
  <2>3. h \in Trees /\ Live(h.row[r])
    BY <2>1, <2>2 DEF SameRows
  <2> QED
    BY <2>1, <2>2, <2>3, DeletedFilePlaced
<1>3. Placed(bare)
  <2>1. BucketMoves(t, bare)
    BY ErasedMoves
  <2> HIDE DEF bare
  <2> QED
    BY <2>1 DEF Placed, BucketMoves
<1> HIDE DEF file, bare, result
<1>4. result.ok => Placed(result.tree)
  BY <1>1, <1>2, <1>3 DEF Done, Raised
<1> QED
  BY <1>4 DEF result

LEMMA UserDeletedPlaced ==
    ASSUME NEW t \in Trees, NEW v \in Users, Placed(t)
    PROVE  Placed(UserDeleted(t, v))
<1> DEFINE mine == {r \in Ids : t.row[r].owner = v}
           rows == [r \in Ids |-> IF r \in mine THEN NoRow ELSE t.row[r]]
<1>1. UserDeleted(t, v).row = rows
  BY TreeFields DEF UserDeleted
<1>2. \A r \in Ids : rows[r] = NoRow \/ rows[r] = t.row[r]
  OBVIOUS
<1> HIDE DEF rows
<1>3. NoRow.status # "archived"
  BY DEF NoRow
<1> QED
  BY <1>1, <1>2, <1>3 DEF Placed

LEMMA ArchivedPlaced ==
    ASSUME NEW t \in Trees, NEW r \in Ids, Placed(t)
    PROVE  Placed(ArchivedFile(t, r))
<1> DEFINE p == t.row[r].path
           g == [t.row[r] EXCEPT !.status = "archived", !.blob = p]
           rows == [t.row EXCEPT ![r] = g]
<1>1. ArchivedFile(t, r).row = [t.row EXCEPT ![r].status = "archived", ![r].blob = p]
  BY TreeFields DEF ArchivedFile
<1>2. [t.row EXCEPT ![r].status = "archived", ![r].blob = p] = rows
  BY TreeFields
<1>3. g.blob = g.path
  BY RowType DEF Row
<1> HIDE DEF g
<1>4. \A x \in Ids : rows[x] = g \/ rows[x] = t.row[x]
  BY TreeFields
<1> HIDE DEF rows
<1> QED
  BY <1>1, <1>2, <1>3, <1>4 DEF Placed

LEMMA PendingRemovedPlaced ==
    ASSUME NEW t \in Trees, Placed(t)
    PROVE  Placed(PendingRemoved(t))
<1> DEFINE rows == [r \in Ids |-> IF t.row[r].status = "pending" THEN NoRow ELSE t.row[r]]
<1>1. PendingRemoved(t).row = rows
  BY TreeFields DEF PendingRemoved
<1>2. \A r \in Ids : rows[r] = NoRow \/ rows[r] = t.row[r]
  OBVIOUS
<1> HIDE DEF rows
<1>3. NoRow.status # "archived"
  BY DEF NoRow
<1> QED
  BY <1>1, <1>2, <1>3 DEF Placed

LEMMA CommittedPlaced ==
    ASSUME NEW t \in Trees, Placed(t), NEW result \in Results, result.ok => Placed(result.tree)
    PROVE  Placed(Committed(t, result))
<1>1. CASE result.ok
  BY <1>1 DEF Committed
<1>2. CASE ~result.ok
  <2> DEFINE m == result.tree
             n == [m EXCEPT !.row = t.row, !.used = t.used]
  <2>1. m \in Trees
    BY DEF Results
  <2> HIDE DEF m
  <2>2. n.row = t.row
    BY <2>1, TreeFields
  <2>3. Placed(n)
    BY <2>2 DEF Placed
  <2> QED
    BY <1>2, <2>3 DEF Committed, m
<1> QED
  BY <1>1, <1>2 DEF Results

-----------------------------------------------------------------------------
(* The shared section. *)

PlacedInv == section = "SHARED" => Placed(tree)

LEMMA SharedRequests ==
    ASSUME Inv, section = "SHARED", NEW x \in Requests[section]
    PROVE  x.op \in FilesRequests \cup {"purge"}
<1>1. x.op \in TakenBy(section) /\ section \in Sections
  BY RequestsAssumption DEF Inv
<1>2. TakenBy(section) = FilesRequests \cup {"purge"}
  BY Zenon DEF TakenBy
<1> QED
  BY <1>1, <1>2

LEMMA EndPlaced ==
    ASSUME Inv, Placed(tree), NEW x, NEW op, NEW kind, NEW result \in Results,
           result.ok => Placed(result.tree),
           Finish(x, op, result) \/ FinishFaulty(x, op, kind, result)
    PROVE  Placed(tree')
<1>1. tree \in Trees /\ tree' = Committed(tree, result)
  BY DEF Inv, Finish, FinishFaulty
<1> QED
  BY <1>1, CommittedPlaced

LEMMA FilesApiPlaced ==
    ASSUME Inv, section = "SHARED", Placed(tree), NEW x \in Requests[section], FilesApi(x)
    PROVE  Placed(tree')
<1> DEFINE u == x.user
           p == Append(x.at, x.to)
<1>0. /\ section \in Sections /\ tree \in Trees /\ u \in Users /\ x.at \in Paths
      /\ x.parts \in Seq(Names \X Bodies) /\ Len(x.parts) \in Nat
  BY Held
<1>1. CASE ArriveUpload(x) \/ ArriveOther(x)
  BY <1>1 DEF ArriveUpload, ArriveOther, Arrive
<1>2. ASSUME x.op \in {"upload", "mkdir"} PROVE p \in Paths
  BY <1>0, <1>2, Asked, PathAppended
<1> HIDE DEF p
<1>3. ASSUME x.op = "upload"
      PROVE  LET n == Uploaded(tree, u, p, x.body) IN n \in Trees /\ Placed(n)
  <2>1. p \in Paths /\ x.body \in Bodies
    BY <1>0, <1>2, <1>3, Asked
  <2> QED
    BY <1>0, <2>1, UploadedTyped, UploadedPlaced
<1>4. ASSUME x.op = "zip", Enough(Len(x.parts)), NEW failed
      PROVE  LET n == Extracted(tree, u, x.at, x.to, x.parts, failed) IN n \in Trees /\ Placed(n)
  <2> DEFINE n == Extracted(tree, u, x.at, x.to, x.parts, failed)
  <2>1. x.to \in Names /\ Len(x.at) + 1 < MaxDepth
    BY <1>0, <1>4, Asked
  <2>2. Cardinality(FreeIds(tree)) >= Len(x.parts)
    BY <1>4 DEF Enough
  <2>3. Keeps(tree, n, u, Len(x.parts))
    BY <1>0, <2>1, <2>2, ExtractedKeeps
  <2>4. Placed(n)
    BY <1>0, <2>1, ExtractedPlaced
  <2> HIDE DEF n
  <2> QED
    BY <2>3, <2>4 DEF Keeps, n
<1>5. ASSUME x.op = "rename"
      PROVE  LET result == RenamedPath(tree, x.at, x.to)
             IN  result \in Results /\ (result.ok => Placed(result.tree))
  <2>1. x.at # Root /\ x.to \in Names
    BY <1>0, <1>5, Asked
  <2> QED
    BY <1>0, <2>1, RenamedSame, RenamedPlaced
<1>6. LET result == DeletedPath(section, tree, u, x.at)
      IN  result \in Results /\ (result.ok => Placed(result.tree))
  <2> DEFINE result == DeletedPath(section, tree, u, x.at)
  <2>1. ResultKeeps(tree, result, u, 1)
    BY <1>0, DeletedPathKeeps
  <2>2. result.ok => Placed(result.tree)
    BY <1>0, DeletedPathPlaced
  <2> HIDE DEF result
  <2> QED
    BY <2>1, <2>2 DEF ResultKeeps, result
<1>7. CASE Upload(x)
  <2> DEFINE n == Uploaded(tree, u, p, x.body)
  <2>1. Finish(x, "upload", Done(n)) /\ x.op = "upload"
    BY <1>7 DEF Upload, p, Finish
  <2>2. n \in Trees /\ Placed(n)
    BY <1>3, <2>1
  <2> HIDE DEF n
  <2> QED
    BY <2>1, <2>2, DoneIs, EndPlaced
<1>8. CASE UploadZip(x)
  <2> DEFINE n == Extracted(tree, u, x.at, x.to, x.parts, {})
  <2>1. Enough(Len(x.parts)) /\ Finish(x, "zip", Done(n)) /\ x.op = "zip"
    BY <1>8 DEF UploadZip, Finish
  <2>2. n \in Trees /\ Placed(n)
    BY <1>4, <2>1
  <2> HIDE DEF n
  <2> QED
    BY <2>1, <2>2, DoneIs, EndPlaced
<1>9. CASE UploadZipPartly(x)
  <2> DEFINE n(failed) == Extracted(tree, u, x.at, x.to, x.parts, failed)
  <2>1. PICK failed : Enough(Len(x.parts)) /\ FinishFaulty(x, "zip", "entry", Done(n(failed)))
    BY <1>9 DEF UploadZipPartly
  <2>2. x.op = "zip"
    BY <2>1 DEF FinishFaulty
  <2>3. n(failed) \in Trees /\ Placed(n(failed))
    BY <1>4, <2>1, <2>2
  <2> HIDE DEF n
  <2> QED
    BY <2>1, <2>3, DoneIs, EndPlaced
<1>10. CASE Mkdir(x)
  <2> DEFINE n == MadeDirectory(tree, p)
  <2>1. Finish(x, "mkdir", Done(n)) /\ p \in Paths
    BY <1>2, <1>10 DEF Mkdir, p, Finish
  <2>2. BucketMoves(tree, n)
    BY <1>0, <2>1, MadeDirectoryMoves
  <2> HIDE DEF n
  <2>3. n \in Trees /\ Placed(n)
    BY <2>2 DEF BucketMoves, Placed
  <2> QED
    BY <2>1, <2>3, DoneIs, EndPlaced
<1>11. CASE Rename(x)
  <2> DEFINE result == RenamedPath(tree, x.at, x.to)
  <2>1. Finish(x, "rename", result)
    BY <1>11 DEF Rename
  <2>2. result \in Results /\ (result.ok => Placed(result.tree))
    BY <1>5, <2>1 DEF Finish
  <2> HIDE DEF result
  <2> QED
    BY <2>1, <2>2, EndPlaced
<1>12. CASE Delete(x)
  <2> DEFINE result == DeletedPath(section, tree, u, x.at)
  <2>1. Finish(x, "delete", result)
    BY <1>12 DEF Delete
  <2>2. result \in Results /\ (result.ok => Placed(result.tree))
    BY <1>6
  <2> HIDE DEF result
  <2> QED
    BY <2>1, <2>2, EndPlaced
<1>13. CASE AbortUpload(x)
  <2> DEFINE n == Uploaded(tree, u, p, x.body)
  <2>1. FinishFaulty(x, "upload", "abort", Raised(n)) /\ x.op = "upload"
    BY <1>13 DEF AbortUpload, p, FinishFaulty
  <2>2. n \in Trees
    BY <1>3, <2>1
  <2> HIDE DEF n
  <2> QED
    BY <2>1, <2>2, DoneIs, EndPlaced
<1>14. CASE AbortRename(x)
  <2> DEFINE n == RenamedPath(tree, x.at, x.to).tree
  <2>1. FinishFaulty(x, "rename", "abort", Raised(n))
    BY <1>14 DEF AbortRename
  <2>2. n \in Trees
    BY <1>5, <2>1 DEF FinishFaulty, Results
  <2> HIDE DEF n
  <2> QED
    BY <2>1, <2>2, DoneIs, EndPlaced
<1>15. CASE AbortDelete(x)
  <2> DEFINE n == DeletedPath(section, tree, u, x.at).tree
  <2>1. FinishFaulty(x, "delete", "abort", Raised(n))
    BY <1>15 DEF AbortDelete
  <2>2. n \in Trees
    BY <1>6 DEF Results
  <2> HIDE DEF n
  <2> QED
    BY <2>1, <2>2, DoneIs, EndPlaced
<1> QED
  BY <1>1, <1>7, <1>8, <1>9, <1>10, <1>11, <1>12, <1>13, <1>14, <1>15 DEF FilesApi

(* What all steps of a request have in common: it comes, or it goes.            *)
Moves(x) ==
    /\ section' = section
    /\ \/ flight' = flight \cup {x}
       \/ x \in flight /\ flight' = flight \ {x}

LEMMA ArriveMoves ==
    ASSUME NEW x
    PROVE  /\ \A admitted : Arrive(x, admitted) => Moves(x)
           /\ \A op, result : Finish(x, op, result) => Moves(x) /\ x.op = op
           /\ \A op, kind, result : FinishFaulty(x, op, kind, result) => Moves(x) /\ x.op = op
BY DEF Arrive, Finish, FinishFaulty, Moves

LEMMA FilesApiMoves == ASSUME NEW x, FilesApi(x) PROVE Moves(x) /\ x.op \in FilesRequests
BY ArriveMoves DEF FilesApi, ArriveUpload, ArriveOther, Upload, UploadZip, UploadZipPartly, Mkdir,
    Rename, Delete, AbortUpload, AbortRename, AbortDelete, FilesRequests, Arrive

LEMMA ResumesApiMoves == ASSUME NEW x, ResumesApi(x) PROVE Moves(x) /\ x.op \in ResumesRequests
BY ArriveMoves DEF ResumesApi, ArriveCreate, CreateNode, ArriveRename, RenameNode, ArriveDelete,
    DeleteNode, ArriveVacancy, SaveVacancy, GetVacancy, ArriveBrowse, Browse, ArriveStatuses,
    ListStatuses, SaveStatuses, ResumesRequests

LEMMA RunsApiMoves == ASSUME NEW x, RunsApi(x) PROVE Moves(x) /\ x.op \in RunsRequests
BY ArriveMoves DEF RunsApi, ArriveStore, StoreRun, StoreFails, StoreDies, ArriveRun, ListRuns,
    DeleteRun, ArriveGetRun, GetRun, ArriveGetFile, GetFile, RunsRequests

LEMMA PurgeMoves == ASSUME NEW x, ArrivePurge(x) \/ PurgeUser(x) PROVE Moves(x) /\ x.op = "purge"
BY ArriveMoves DEF ArrivePurge, PurgeUser

LEMMA StepPlaced ==
    ASSUME Inv, PlacedInv, [Next]_vars
    PROVE  PlacedInv'
<1>1. SUFFICES ASSUME section' = "SHARED" PROVE Placed(tree')
  BY DEF PlacedInv
<1>2. CASE UNCHANGED vars
  BY <1>1, <1>2 DEF vars, PlacedInv
<1>3. CASE Archive \/ CleanPending
  <2>1. section' = section /\ tree \in Trees
    BY <1>3 DEF Archive, CleanPending, Inv
  <2>2. Placed(tree)
    BY <1>1, <2>1 DEF PlacedInv
  <2>3. CASE Archive
    BY <2>1, <2>2, <2>3, ArchivedPlaced DEF Archive
  <2>4. CASE CleanPending
    BY <2>1, <2>2, <2>4, PendingRemovedPlaced DEF CleanPending
  <2> QED
    BY <1>3, <2>3, <2>4
<1>4. CASE \E x \in Requests[section] :
              FilesApi(x) \/ ResumesApi(x) \/ RunsApi(x) \/ ArrivePurge(x) \/ PurgeUser(x)
  <2> PICK x \in Requests[section] :
         FilesApi(x) \/ ResumesApi(x) \/ RunsApi(x) \/ ArrivePurge(x) \/ PurgeUser(x)
    BY <1>4
  <2>1. section' = section
    BY FilesApiMoves, ResumesApiMoves, RunsApiMoves, PurgeMoves DEF Moves
  <2>2. section = "SHARED" /\ Placed(tree) /\ tree \in Trees
    BY <1>1, <2>1 DEF PlacedInv, Inv
  <2>3. x.op \in FilesRequests \cup {"purge"}
    BY <2>2, SharedRequests
  <2>4. CASE FilesApi(x)
    BY <2>2, <2>4, FilesApiPlaced
  <2>5. CASE ResumesApi(x) \/ RunsApi(x)
    <3>1. x.op \in ResumesRequests \cup RunsRequests
      BY <2>5, ResumesApiMoves, RunsApiMoves
    <3> QED
      BY <2>3, <3>1 DEF FilesRequests, ResumesRequests, RunsRequests
  <2>6. CASE ArrivePurge(x)
    BY <2>2, <2>6 DEF ArrivePurge, Arrive
  <2>7. CASE PurgeUser(x)
    <3> DEFINE n(v) == UserDeleted(tree, v)
    <3>1. PICK v \in Users : Finish(x, "purge", Done(n(v)))
      BY <2>7 DEF PurgeUser
    <3>2. Placed(n(v)) /\ Keeps(tree, n(v), x.user, 0)
      BY <2>2, UserDeletedPlaced, UserDeletedKeeps
    <3> HIDE DEF n
    <3>3. n(v) \in Trees
      BY <3>2 DEF Keeps
    <3> QED
      BY <2>2, <3>1, <3>2, <3>3, DoneIs, EndPlaced
  <2> QED
    BY <2>4, <2>5, <2>6, <2>7
<1> QED
  BY <1>2, <1>3, <1>4 DEF Next

LEMMA InitPlaced ==
    ASSUME Init
    PROVE  PlacedInv
BY DEF Init, EmptyTree, NoRow, Placed, PlacedInv

LEMMA AtMostOne ==
    ASSUME NEW S \in SUBSET Ids, ~(Cardinality(S) > 1), NEW d \in S, NEW r \in S
    PROVE  d = r
<1>1. IsFiniteSet(S) /\ Cardinality(S) \in Nat
  BY TreeAssumption, FS_Subset, FS_CardinalityType
<1>2. Cardinality(S) # 0
  BY <1>1, FS_EmptySet
<1>3. Cardinality(S) = 1
  BY <1>1, <1>2
<1>4. \E x : S = {x}
  BY <1>1, <1>3, FS_Singleton
<1> QED
  BY <1>4

LEMMA HotAndZst ==
    ASSUME NEW p, NEW q
    PROVE  /\ Hot(p) # Zst(q) /\ (Hot(p) = Hot(q) => p = q) /\ (Zst(p) = Zst(q) => p = q)
<1>1. Hot(p).zst = FALSE /\ Zst(q).zst = TRUE
  BY DEF Hot, Zst
<1>2. Hot(p).at = p /\ Hot(q).at = q /\ Zst(p).at = p /\ Zst(q).at = q
  BY DEF Hot, Zst
<1> QED
  BY <1>1, <1>2

(* The row that a path finds has that path once it is healed, and of the others    *)
(* none has it.                                                             *)
LEMMA FoundAlone ==
    ASSUME NEW t \in Trees, NEW p \in Paths, NEW d \in Found(t, p), ~Ambiguous(t, p)
    PROVE  /\ d \in Ids /\ Healed(t, p).row[d].path = p
           /\ \A r \in LiveRows(t) \ {d} :
                 t.row[r].path # p /\ Healed(t, p).row[r] = t.row[r]
<1> DEFINE h == Healed(t, p)
<1>1. /\ h.row = [r \in Ids |-> IF Heals(t, p) /\ r \in Namesakes(t, p)
                                THEN [t.row[r] EXCEPT !.path = p] ELSE t.row[r]]
  BY TreeFields DEF Healed
<1>2. d \in Ids
  BY FoundIsLive
<1>3. At(t, p) \in SUBSET Ids /\ Namesakes(t, p) \in SUBSET Ids /\ LiveRows(t) \in SUBSET Ids
  BY DEF At, Namesakes, LiveRows
<1> HIDE DEF h
<1>4. CASE Heals(t, p)
  <2>1. d \in Namesakes(t, p) /\ At(t, p) = {} /\ Cardinality(Namesakes(t, p)) = 1
    BY <1>4 DEF Found, Heals
  <2>2. ~(Cardinality(Namesakes(t, p)) > 1)
    BY <2>1
  <2>3. \A r \in Namesakes(t, p) : r = d
    BY <1>3, <2>1, <2>2, AtMostOne
  <2>4. h.row[d].path = p
    BY <1>1, <1>2, <1>4, <2>1, RowType DEF Row
  <2>5. ASSUME NEW r \in LiveRows(t) \ {d} PROVE t.row[r].path # p /\ h.row[r] = t.row[r]
    <3>1. r \notin At(t, p) /\ r \notin Namesakes(t, p) /\ r \in Ids
      BY <1>3, <2>1, <2>3
    <3> QED
      BY <1>1, <3>1 DEF At
  <2> QED
    BY <1>2, <2>4, <2>5 DEF h
<1>5. CASE ~Heals(t, p)
  <2>1. d \in At(t, p) /\ ~(Cardinality(At(t, p)) > 1)
    BY <1>5 DEF Found, Ambiguous
  <2>2. \A r \in At(t, p) : r = d
    BY <1>3, <2>1, AtMostOne
  <2>3. \A r \in Ids : h.row[r] = t.row[r]
    BY <1>1, <1>5
  <2>4. h.row[d].path = p
    BY <1>2, <2>1, <2>3 DEF At
  <2>5. ASSUME NEW r \in LiveRows(t) \ {d} PROVE t.row[r].path # p /\ h.row[r] = t.row[r]
    BY <1>3, <2>2, <2>3 DEF At
  <2> QED
    BY <1>2, <2>4, <2>5 DEF h
<1> QED
  BY <1>4, <1>5

LEMMA NoneFound ==
    ASSUME NEW t, NEW p, Found(t, p) = {}
    PROVE  At(t, p) = {}
<1>1. CASE Heals(t, p)
  BY <1>1 DEF Heals
<1>2. CASE ~Heals(t, p)
  BY <1>2 DEF Found
<1> QED
  BY <1>1, <1>2

LEMMA ErasedDomain ==
    ASSUME NEW t \in Trees, NEW p
    PROVE  /\ DOMAIN Erased(t, p).obj = DOMAIN t.obj \ ({Hot(p)} \cup KeysUnder(t, p))
           /\ Erased(t, p).dirs = t.dirs \ MarkersUnder(t, p)
<1> DEFINE K == {Hot(p)} \cup KeysUnder(t, p)
<1>1. Erased(t, p).obj = Restrict(t.obj, DOMAIN t.obj \ K) /\ Erased(t, p).dirs = t.dirs \ MarkersUnder(t, p)
  BY TreeFields DEF Erased
<1> HIDE DEF K
<1>2. DOMAIN Restrict(t.obj, DOMAIN t.obj \ K) = DOMAIN t.obj \ K
  BY DEF Restrict
<1> QED
  BY <1>1, <1>2 DEF K

LEMMA BlobErasedDomain ==
    ASSUME NEW t \in Trees, NEW r, t.row[r].status = "archived"
    PROVE  DOMAIN BlobErased(t, r).obj = DOMAIN t.obj \ {Zst(t.row[r].blob)}
<1> DEFINE K == {Zst(t.row[r].blob)}
<1>1. BlobErased(t, r).obj = Restrict(t.obj, DOMAIN t.obj \ K)
  BY TreeFields DEF BlobErased
<1> HIDE DEF K
<1>2. DOMAIN Restrict(t.obj, DOMAIN t.obj \ K) = DOMAIN t.obj \ K
  BY DEF Restrict
<1> QED
  BY <1>1, <1>2 DEF K

(* The file of another user, beside the one that is deleted. *)
LEMMA OtherFileStays ==
    ASSUME NEW t \in Trees, NEW u, NEW d \in Ids, Placed(t), Live(t.row[d]),
           KeysUnder(t, t.row[d].path) = {},
           NEW r \in Ids, r # d, Live(t.row[r]), t.row[r].path # t.row[d].path,
           KeyOf(t.row[r]) \in DOMAIN t.obj
    PROVE  LET n == DeletedFile(t, u, d)
           IN  n.row[r] = t.row[r] /\ KeyOf(t.row[r]) \in DOMAIN n.obj
<1> DEFINE f == t.row[d]
           bare == IF f.status = "archived" THEN BlobErased(t, d) ELSE Erased(t, f.path)
           m == RowsDeleted(bare, {d})
           n == Charged(m, f.owner, 0 - Size(f.body))
<1>1. BucketMoves(t, bare)
  BY BlobsErasedMoves, ErasedMoves
<1>2. KeyOf(t.row[r]) \in DOMAIN bare.obj
  <2>1. /\ t.row[r].status = "archived" => t.row[r].blob = t.row[r].path
        /\ f.status = "archived" => f.blob = f.path
    BY DEF Placed
  <2>2. CASE f.status = "archived"
    <3>1. DOMAIN bare.obj = DOMAIN t.obj \ {Zst(f.path)}
      BY <2>1, <2>2, BlobErasedDomain
    <3> QED
      BY <2>1, <3>1, HotAndZst DEF KeyOf
  <2>3. CASE f.status # "archived"
    <3>1. DOMAIN bare.obj = DOMAIN t.obj \ {Hot(f.path)}
      BY <2>3, ErasedDomain
    <3> QED
      BY <2>1, <3>1, HotAndZst DEF KeyOf
  <2> QED
    BY <2>2, <2>3
<1> HIDE DEF bare
<1>3. bare \in Trees /\ bare.row = t.row
  BY <1>1 DEF BucketMoves
<1>4. m \in Trees /\ m.row[r] = bare.row[r]
  BY <1>3, RowsDeletedFields
<1>5. m.obj = bare.obj
  BY <1>3, TreeFields DEF RowsDeleted
<1> HIDE DEF m
<1>6. n.row = m.row /\ n.obj = m.obj
  BY <1>4, TreeFields DEF Charged
<1> HIDE DEF n
<1>7. n.row[r] = t.row[r] /\ KeyOf(t.row[r]) \in DOMAIN n.obj
  BY <1>2, <1>3, <1>4, <1>5, <1>6
<1>8. DeletedFile(t, u, d) = n
  BY DEF DeletedFile, n, m, bare
<1> QED
  BY <1>7, <1>8

LEMMA DeletedPathSpares ==
    ASSUME NEW t \in Trees, NEW u \in Users, u \notin Admins, NEW p \in Paths, Placed(t),
           ~IsDirectory(t, p), NEW r \in LiveRows(t), t.row[r].owner # u, Readable(t, r)
    PROVE  LET result == DeletedPath("SHARED", t, u, p)
           IN  /\ KeyOf(t.row[r]) \in DOMAIN result.tree.obj
               /\ result.ok => result.tree.row[r] = t.row[r]
<1> DEFINE d == CHOOSE x \in Found(t, p) : TRUE
           h == Healed(t, p)
           file == DeletedFile(h, u, d)
           bare == Erased(t, p)
           result == DeletedPath("SHARED", t, u, p)
<1>0. r \in Ids /\ Live(t.row[r]) /\ KeyOf(t.row[r]) \in DOMAIN t.obj /\ KeysUnder(t, p) = {}
  BY DEF LiveRows, Readable, IsDirectory
<1>1. \/ result = Raised(t)
      \/ result = Done(file) /\ Found(t, p) # {} /\ ~Ambiguous(t, p) /\ t.row[d].owner = u
      \/ result = Done(bare) /\ Found(t, p) = {}
  <2> DEFINE dir == DeletedTree(t, u, p)
             cases == IF Ambiguous(t, p) THEN Raised(t)
                      ELSE IF Found(t, p) # {} THEN
                          IF MayDelete("SHARED", t, u, d) THEN Done(file) ELSE Raised(t)
                      ELSE IF ~Exists(t, p) THEN Raised(t)
                      ELSE IF IsDirectory(t, p) /\ "SHARED" = "FILES" /\ p # Root THEN dir
                      ELSE Done(bare)
  <2>1. result = cases
    BY DEF DeletedPath
  <2>2. MayDelete("SHARED", t, u, d) => t.row[d].owner = u
    BY DEF MayDelete
  <2> HIDE DEF result, file, dir, bare, d
  <2> QED
    BY <2>1, <2>2
<1>2. ASSUME Found(t, p) # {}, ~Ambiguous(t, p), t.row[d].owner = u
      PROVE  file.row[r] = t.row[r] /\ KeyOf(t.row[r]) \in DOMAIN file.obj
  <2>1. d \in Found(t, p)
    BY <1>2
  <2> HIDE DEF d
  <2>2. d # r /\ d \in Ids /\ Live(t.row[d])
    BY <1>2, <2>1, FoundIsLive
  <2>3. h.row[d].path = p /\ t.row[r].path # p /\ h.row[r] = t.row[r]
    BY <1>2, <2>1, <2>2, FoundAlone
  <2>4. SameRows(t, h) /\ Placed(h)
    BY HealedSame, HealedPlaced
  <2>5. h.obj = t.obj
    BY TreeFields DEF Healed
  <2> HIDE DEF h
  <2>6. h \in Trees /\ Live(h.row[d]) /\ Live(h.row[r])
    BY <1>0, <2>2, <2>4 DEF SameRows
  <2>7. KeysUnder(h, h.row[d].path) = {}
    BY <1>0, <2>3, <2>5 DEF KeysUnder
  <2>8. KeyOf(h.row[r]) \in DOMAIN h.obj
    BY <1>0, <2>3, <2>5
  <2>9. file.row[r] = h.row[r] /\ KeyOf(h.row[r]) \in DOMAIN file.obj
    BY <1>0, <2>2, <2>3, <2>4, <2>6, <2>7, <2>8, OtherFileStays
  <2> QED
    BY <2>3, <2>9
<1>3. ASSUME Found(t, p) = {}
      PROVE  bare.row = t.row /\ KeyOf(t.row[r]) \in DOMAIN bare.obj
  <2>1. BucketMoves(t, bare) /\ DOMAIN bare.obj = DOMAIN t.obj \ {Hot(p)}
    BY <1>0, ErasedMoves, ErasedDomain
  <2>2. t.row[r].path # p
    BY <1>0, <1>3, NoneFound DEF At
  <2>3. KeyOf(t.row[r]) # Hot(p)
    BY <2>2, HotAndZst DEF KeyOf
  <2> HIDE DEF bare
  <2> QED
    BY <1>0, <2>1, <2>3 DEF BucketMoves
<1> HIDE DEF file, bare, result, d
<1>4. /\ KeyOf(t.row[r]) \in DOMAIN result.tree.obj
      /\ result.ok => result.tree.row[r] = t.row[r]
  BY <1>0, <1>1, <1>2, <1>3 DEF Done, Raised
<1> QED
  BY <1>4 DEF result

(* What has no archive beside it of its own loses nothing when a request rolls     *)
(* back, and nothing but what the request took when it ends.                    *)
LEMMA CommittedSpares ==
    ASSUME NEW t \in Trees, NEW r \in LiveRows(t), NEW result \in Results,
           KeyOf(t.row[r]) \in DOMAIN result.tree.obj,
           result.ok => result.tree.row[r] = t.row[r]
    PROVE  Live(Committed(t, result).row[r]) /\ Readable(Committed(t, result), r)
<1> DEFINE n == Committed(t, result)
           m == result.tree
<1>1. m \in Trees /\ result.ok \in BOOLEAN /\ Live(t.row[r])
  BY DEF Results, LiveRows
<1>2. CASE result.ok
  BY <1>1, <1>2 DEF Committed, Readable
<1>3. CASE ~result.ok
  <2>1. n = [m EXCEPT !.row = t.row, !.used = t.used]
    BY <1>3 DEF Committed
  <2> HIDE DEF m, n
  <2>2. n.row = t.row /\ n.obj = m.obj
    BY <1>1, <2>1, TreeFields
  <2>3. Live(n.row[r]) /\ Readable(n, r)
    BY <1>1, <2>2 DEF Readable, m
  <2> QED
    BY <2>3 DEF n
<1> QED
  BY <1>1, <1>2, <1>3

LEMMA DeleteSpares ==
    ASSUME Inv, PlacedInv, section = "SHARED", NEW x \in Requests[section], FilesApi(x),
           x \in Answered, x.op = "delete", x.user \notin Admins, ~IsDirectory(tree, x.at),
           NEW r \in LiveRows(tree), tree.row[r].owner # x.user, Readable(tree, r)
    PROVE  Live(tree'.row[r]) /\ Readable(tree', r)
<1> DEFINE result == DeletedPath(section, tree, x.user, x.at)
<1>1. Placed(tree) /\ tree \in Trees /\ x.user \in Users /\ x.at \in Paths
  BY Held DEF PlacedInv
<1>2. /\ KeyOf(tree.row[r]) \in DOMAIN result.tree.obj
      /\ result.ok => result.tree.row[r] = tree.row[r]
  BY <1>1, DeletedPathSpares
<1>3. result \in Results
  <2>1. ResultKeeps(tree, result, x.user, 1)
    BY <1>1, DeletedPathKeeps
  <2> QED
    BY <2>1 DEF ResultKeeps
<1>4. ~ArriveUpload(x) /\ ~ArriveOther(x)
  BY DEF Answered, ArriveUpload, ArriveOther, Arrive
<1>5. Delete(x) \/ AbortDelete(x)
  BY <1>4, ArriveMoves DEF FilesApi, Upload, UploadZip, UploadZipPartly, Mkdir, Rename,
      AbortUpload, AbortRename
<1>6. CASE Delete(x)
  <2>1. tree' = Committed(tree, result)
    BY <1>6 DEF Delete, Finish
  <2> HIDE DEF result
  <2> QED
    BY <1>1, <1>2, <1>3, <2>1, CommittedSpares
<1>7. CASE AbortDelete(x)
  <2>1. tree' = Committed(tree, Raised(result.tree))
    BY <1>7 DEF AbortDelete, FinishFaulty
  <2> HIDE DEF result
  <2>2. Raised(result.tree) \in Results /\ ~Raised(result.tree).ok /\ Raised(result.tree).tree = result.tree
    BY <1>3, DoneIs DEF Results
  <2> QED
    BY <1>1, <1>2, <2>1, <2>2, CommittedSpares
<1> QED
  BY <1>5, <1>6, <1>7

OthersFilesSpared ==
    section = "SHARED" =>
        \A x \in Answered :
            x.op = "delete" /\ x.user \notin Admins /\ ~IsDirectory(tree, x.at) =>
                \A r \in LiveRows(tree) :
                    tree.row[r].owner # x.user /\ Readable(tree, r)
                    => Live(tree'.row[r]) /\ Readable(tree', r)

LEMMA StepSpares ==
    ASSUME Inv, PlacedInv, [Next]_vars
    PROVE  OthersFilesSpared
<1> SUFFICES ASSUME section = "SHARED", NEW x \in Answered, x.op = "delete", x.user \notin Admins,
                    ~IsDirectory(tree, x.at), NEW r \in LiveRows(tree),
                    tree.row[r].owner # x.user, Readable(tree, r)
             PROVE  Live(tree'.row[r]) /\ Readable(tree', r)
  BY DEF OthersFilesSpared
<1>1. flight' # flight /\ x \in flight /\ x \notin flight'
  BY DEF Answered
<1>2. ~(UNCHANGED vars) /\ ~Archive /\ ~CleanPending
  BY <1>1 DEF vars, Archive, CleanPending
<1>3. PICK y \in Requests[section] :
         FilesApi(y) \/ ResumesApi(y) \/ RunsApi(y) \/ ArrivePurge(y) \/ PurgeUser(y)
  BY <1>2 DEF Next
<1>4. Moves(y)
  BY <1>3, FilesApiMoves, ResumesApiMoves, RunsApiMoves, PurgeMoves
<1>5. x = y
  BY <1>1, <1>4 DEF Moves
<1>6. FilesApi(x)
  <2>1. x.op \notin ResumesRequests /\ x.op \notin RunsRequests /\ x.op # "purge"
    BY DEF ResumesRequests, RunsRequests
  <2> QED
    BY <1>3, <1>5, <2>1, ResumesApiMoves, RunsApiMoves, PurgeMoves
<1> QED
  BY <1>3, <1>5, <1>6, DeleteSpares

-----------------------------------------------------------------------------
(* Generated runs.                                                          *)

LEMMA TwoNames ==
    ASSUME NEW s \in Paths, Len(s) = 2
    PROVE  /\ Front(s) \in Paths /\ Len(Front(s)) = 1 /\ Front(s)[1] = s[1]
           /\ s # Root /\ 1 < MaxDepth
<1>1. s # Root /\ Len(s) <= MaxDepth
  <2>1. Len(Root) = 0
    BY DEF Root
  <2> QED
    BY <2>1, PathLength
<1>2. /\ Front(s) \in Paths /\ Len(Front(s)) = Len(s) - 1
      /\ \A i \in 1..(Len(s) - 1) : Front(s)[i] = s[i]
  BY <1>1, PathParts
<1>3. Front(s)[1] = s[1]
  BY <1>2
<1>4. 1 < MaxDepth
  BY <1>1, TreeAssumption
<1> QED
  BY <1>1, <1>2, <1>3, <1>4

LEMMA UnderARun ==
    ASSUME NEW p \in Paths, Len(p) = 1, NEW s \in Paths
    PROVE  /\ Len(s) = 2 => (IsStrictPrefix(p, s) <=> Front(s) = p)
           /\ Len(s) = 1 => (IsPrefix(p, s) <=> p = s)
<1>1. ASSUME Len(s) = 2 PROVE IsStrictPrefix(p, s) <=> Front(s) = p
  <2>1. Pre(s, 1) = Front(s) /\ Pre(p, 1) = p
    BY <1>1, TwoNames, PreSteps
  <2>2. IsPrefix(p, s) <=> p = Front(s)
    BY <1>1, <2>1 DEF IsPrefix, Pre
  <2>3. p # s
    BY <1>1
  <2> QED
    BY <2>2, <2>3 DEF IsStrictPrefix
<1>2. ASSUME Len(s) = 1 PROVE IsPrefix(p, s) <=> p = s
  <2>1. Pre(s, 1) = s /\ Pre(p, 1) = p
    BY <1>2, PreSteps
  <2> QED
    BY <1>2, <2>1 DEF IsPrefix, Pre
<1> QED
  BY <1>1, <1>2

(* Every live record has its object, every object its record, and no two records   *)
(* share a path.                                                            *)
Matched(t) ==
    /\ \A r \in LiveRows(t) :
          /\ Len(t.row[r].path) = 2
          /\ t.row[r].status = "archived" => t.row[r].blob = t.row[r].path
          /\ KeyOf(t.row[r]) \in DOMAIN t.obj
    /\ \A k \in DOMAIN t.obj : \E r \in LiveRows(t) : KeyOf(t.row[r]) = k
    /\ \A r, s \in LiveRows(t) : t.row[r].path = t.row[s].path => r = s

(* The directory a record is in.                                            *)
RunOf(t, r) == Front(t.row[r].path)

(* Every run, and every directory, has a meta.yaml: nothing is left to heal.      *)
Rooted(t) ==
    /\ \A r \in LiveRows(t) : \E m \in LiveRows(t) : t.row[m].path = RunMetaOf(RunOf(t, r))
    /\ \A d \in t.dirs : Len(d) = 1 /\ \E r \in LiveRows(t) : RunOf(t, r) = d

(* No run has the id.                                                       *)
Vacant(t, p) == \A r \in LiveRows(t) : RunOf(t, r) # p

LEMMA KeyOfAt ==
    ASSUME NEW t, Matched(t), NEW r \in LiveRows(t)
    PROVE  /\ KeyOf(t.row[r]).at = t.row[r].path
           /\ r \in Ids /\ Live(t.row[r])
           /\ KeyOf(t.row[r]) \in {Hot(t.row[r].path), Zst(t.row[r].path)}
BY DEF Matched, KeyOf, Hot, Zst, LiveRows

LEMMA KeysAreFiles ==
    ASSUME NEW t \in Trees, Matched(t), NEW k \in DOMAIN t.obj
    PROVE  /\ k.at \in Paths /\ Len(k.at) = 2
           /\ \E r \in LiveRows(t) : KeyOf(t.row[r]) = k /\ t.row[r].path = k.at
<1>1. PICK r \in LiveRows(t) : KeyOf(t.row[r]) = k
  BY DEF Matched
<1>2. t.row[r].path = k.at
  BY <1>1, KeyOfAt
<1>3. Len(k.at) = 2
  BY <1>2 DEF Matched
<1>4. k \in Keys
  BY TreeFields, BucketIs
<1> QED
  BY <1>1, <1>2, <1>3, <1>4, KeyFields

LEMMA RunExists ==
    ASSUME NEW t \in Trees, Matched(t), Rooted(t), NEW p \in Paths, Len(p) = 1
    PROVE  Vacant(t, p) <=> ~Exists(t, p)
<1>1. ASSUME Vacant(t, p) PROVE ~Exists(t, p)
  <2>1. ASSUME NEW k \in DOMAIN t.obj PROVE k # Hot(p) /\ ~IsStrictPrefix(p, k.at)
    <3>1. PICK r \in LiveRows(t) : t.row[r].path = k.at
      BY KeysAreFiles
    <3>2. k.at \in Paths /\ Len(k.at) = 2
      BY KeysAreFiles
    <3>3. Front(k.at) # p
      BY <1>1, <3>1 DEF Vacant, RunOf
    <3> QED
      BY <3>2, <3>3, UnderARun, HotAndZst DEF Hot
  <2>2. ASSUME NEW d \in t.dirs PROVE ~IsPrefix(p, d)
    <3>1. d \in Paths /\ Len(d) = 1 /\ \E r \in LiveRows(t) : RunOf(t, r) = d
      BY TreeFields DEF Rooted
    <3>2. d # p
      BY <1>1, <3>1 DEF Vacant
    <3> QED
      BY <3>1, <3>2, UnderARun
  <2> QED
    BY <2>1, <2>2 DEF Exists, HasObject, KeysUnder, MarkersUnder
<1>2. ASSUME ~Vacant(t, p) PROVE Exists(t, p)
  <2>1. PICK r \in LiveRows(t) : RunOf(t, r) = p
    BY <1>2 DEF Vacant
  <2> DEFINE k == KeyOf(t.row[r])
  <2>2. k \in DOMAIN t.obj /\ k.at = t.row[r].path
    BY KeyOfAt DEF Matched
  <2> HIDE DEF k
  <2>3. k.at \in Paths /\ Len(k.at) = 2
    BY <2>2, KeysAreFiles
  <2>4. IsStrictPrefix(p, k.at)
    BY <2>1, <2>2, <2>3, UnderARun DEF RunOf
  <2> QED
    BY <2>2, <2>4 DEF Exists, KeysUnder
<1> QED
  BY <1>1, <1>2

(* What matters of a tree here.                                             *)
Alike(t, n) ==
    /\ DOMAIN n.obj = DOMAIN t.obj /\ n.dirs = t.dirs
    /\ LiveRows(n) = LiveRows(t) /\ \A r \in LiveRows(t) : n.row[r] = t.row[r]

LEMMA AlikeMatched ==
    ASSUME NEW t, NEW n, Alike(t, n), Matched(t), Rooted(t)
    PROVE  Matched(n) /\ Rooted(n) /\ \A p : Vacant(t, p) => Vacant(n, p)
<1>1. /\ LiveRows(n) = LiveRows(t) /\ DOMAIN n.obj = DOMAIN t.obj /\ n.dirs = t.dirs
      /\ \A r \in LiveRows(t) : n.row[r] = t.row[r]
  BY DEF Alike
<1> DEFINE S == LiveRows(t)
<1>2. LiveRows(n) = S /\ \A r \in S : n.row[r] = t.row[r]
  BY <1>1
<1>3. Matched(n)
  <2>1. \A r \in S :
          /\ Len(n.row[r].path) = 2
          /\ n.row[r].status = "archived" => n.row[r].blob = n.row[r].path
          /\ KeyOf(n.row[r]) \in DOMAIN n.obj
    BY <1>1, <1>2 DEF Matched
  <2>2. \A k \in DOMAIN n.obj : \E r \in S : KeyOf(n.row[r]) = k
    <3>1. ASSUME NEW k \in DOMAIN n.obj PROVE \E r \in S : KeyOf(n.row[r]) = k
      <4>1. PICK r \in S : KeyOf(t.row[r]) = k
        BY <1>1 DEF Matched
      <4> QED
        BY <1>2, <4>1
    <3> QED
      BY <3>1
  <2>3. \A r, s \in S : n.row[r].path = n.row[s].path => r = s
    BY <1>2 DEF Matched
  <2> HIDE DEF S
  <2> QED
    BY <1>2, <2>1, <2>2, <2>3 DEF Matched
<1>4. \A r \in S : RunOf(n, r) = RunOf(t, r)
  BY <1>2 DEF RunOf
<1>5. Rooted(n)
  <2>1. \A r \in S : \E m \in S : n.row[m].path = RunMetaOf(RunOf(n, r))
    <3>1. ASSUME NEW r \in S PROVE \E m \in S : n.row[m].path = RunMetaOf(RunOf(n, r))
      <4>1. PICK m \in S : t.row[m].path = RunMetaOf(RunOf(t, r))
        BY DEF Rooted
      <4> QED
        BY <1>2, <1>4, <4>1
    <3> QED
      BY <3>1
  <2>2. \A d \in n.dirs : Len(d) = 1 /\ \E r \in S : RunOf(n, r) = d
    <3>1. ASSUME NEW d \in n.dirs PROVE Len(d) = 1 /\ \E r \in S : RunOf(n, r) = d
      <4>1. Len(d) = 1 /\ \E r \in S : RunOf(t, r) = d
        BY <1>1 DEF Rooted
      <4> QED
        BY <1>4, <4>1
    <3> QED
      BY <3>1
  <2> HIDE DEF S
  <2> QED
    BY <1>2, <2>1, <2>2 DEF Rooted
<1>6. \A p : Vacant(t, p) => Vacant(n, p)
  BY <1>2, <1>4 DEF Vacant
<1> QED
  BY <1>3, <1>5, <1>6

-----------------------------------------------------------------------------
(* A new file.                                                              *)

(* What an upload to a new path adds.                                        *)
Added(t, n, q) ==
    /\ DOMAIN n.obj = DOMAIN t.obj \cup {Hot(q)} /\ n.dirs = t.dirs
    /\ \E f \in Ids :
          /\ ~Live(t.row[f]) /\ n.row[f].status = "committed" /\ n.row[f].path = q
          /\ \A x \in Ids \ {f} : n.row[x] = t.row[x]

LEMMA UploadAdds ==
    ASSUME NEW t \in Trees, NEW u \in Users, NEW q \in Paths, NEW b \in Bodies,
           FreeIds(t) # {}
    PROVE  Added(t, Uploaded(t, u, q, b), q)
<1> DEFINE m == Stored(t, q, b)
           f == FreshId(m)
           new == [NoRow EXCEPT !.status = "committed", !.owner = u, !.path = q, !.body = b]
           c == Created(m, u, q, b, "committed")
           n == Charged(c, u, Size(b))
<1>1. m \in Trees /\ m.row = t.row
  BY StoredMoves DEF BucketMoves
<1>2. DOMAIN m.obj = DOMAIN t.obj \cup {Hot(q)} /\ m.dirs = t.dirs
  BY TreeFields DEF Stored
<1> HIDE DEF m
<1>3. f \in Ids /\ m.row[f].status = "none"
  BY <1>1, FreshIdIn DEF FreeIds
<1>4. c = [m EXCEPT !.row = [m.row EXCEPT ![f] = new]] /\ c \in Trees
  BY <1>1, CreatedTyped DEF Created
<1>5. new.status = "committed" /\ new.path = q
  BY DEF NoRow
<1> HIDE DEF f, new, c
<1>6. c.row = [m.row EXCEPT ![f] = new] /\ c.obj = m.obj /\ c.dirs = m.dirs
  BY <1>1, <1>4, TreeFields
<1>7. n.row = c.row /\ n.obj = c.obj /\ n.dirs = c.dirs
  BY <1>4, TreeFields DEF Charged
<1> HIDE DEF n
<1>8. n.row[f] = new /\ \A x \in Ids \ {f} : n.row[x] = m.row[x]
  BY <1>1, <1>3, <1>6, <1>7, TreeFields
<1>9. ~Live(t.row[f])
  BY <1>1, <1>3 DEF Live
<1>10. Added(t, n, q)
  BY <1>1, <1>2, <1>3, <1>5, <1>6, <1>7, <1>8, <1>9 DEF Added
<1>11. Uploaded(t, u, q, b) = n
  BY DEF Uploaded, n, c, m
<1> QED
  BY <1>10, <1>11

LEMMA AddedRows ==
    ASSUME NEW t, NEW n, NEW q, Added(t, n, q)
    PROVE  /\ \E f \in LiveRows(n) : /\ n.row[f].path = q /\ n.row[f].status = "committed"
                                     /\ f \notin LiveRows(t) /\ LiveRows(n) = LiveRows(t) \cup {f}
           /\ \A r \in LiveRows(t) : n.row[r] = t.row[r]
BY DEF Added, LiveRows, Live

LEMMA AddedMatched ==
    ASSUME NEW t, NEW n, NEW q, Len(q) = 2, Matched(t), Added(t, n, q),
           \A r \in LiveRows(t) : t.row[r].path # q
    PROVE  Matched(n)
<1>1. PICK f \in LiveRows(n) : /\ n.row[f].path = q /\ n.row[f].status = "committed"
                               /\ f \notin LiveRows(t) /\ LiveRows(n) = LiveRows(t) \cup {f}
  BY AddedRows
<1>2. \A r \in LiveRows(t) : n.row[r] = t.row[r]
  BY AddedRows
<1>3. DOMAIN n.obj = DOMAIN t.obj \cup {Hot(q)}
  BY DEF Added
<1>4. KeyOf(n.row[f]) = Hot(q)
  BY <1>1 DEF KeyOf
<1>5. ASSUME NEW r \in LiveRows(n)
      PROVE  /\ Len(n.row[r].path) = 2
             /\ n.row[r].status = "archived" => n.row[r].blob = n.row[r].path
             /\ KeyOf(n.row[r]) \in DOMAIN n.obj
  <2>1. CASE r = f
    BY <1>1, <1>3, <1>4, <2>1
  <2>2. CASE r # f
    BY <1>1, <1>2, <1>3, <2>2 DEF Matched
  <2> QED
    BY <2>1, <2>2
<1>6. ASSUME NEW k \in DOMAIN n.obj PROVE \E r \in LiveRows(n) : KeyOf(n.row[r]) = k
  <2>1. CASE k = Hot(q)
    BY <1>4, <2>1
  <2>2. CASE k # Hot(q)
    <3>1. PICK r \in LiveRows(t) : KeyOf(t.row[r]) = k
      BY <1>3, <2>2 DEF Matched
    <3> QED
      BY <1>1, <1>2, <3>1
  <2> QED
    BY <2>1, <2>2
<1>7. ASSUME NEW r \in LiveRows(n), NEW s \in LiveRows(n), n.row[r].path = n.row[s].path
      PROVE  r = s
  <2>1. CASE r \in LiveRows(t) /\ s \in LiveRows(t)
    BY <1>2, <1>7, <2>1 DEF Matched
  <2>2. CASE r = f \/ s = f
    BY <1>1, <1>2, <1>7, <2>2
  <2> QED
    BY <1>1, <2>1, <2>2
<1> QED
  BY <1>5, <1>6, <1>7 DEF Matched

-----------------------------------------------------------------------------
(* A run is stored, file by file.                                            *)

Distinct(parts) == \A i, j \in DOMAIN parts : parts[i][1] = parts[j][1] => i = j

(* n is t and the first i files of a run.                                    *)
Grown(t, n, p, parts, i) ==
    /\ n \in Trees /\ Matched(n) /\ n.dirs = t.dirs \cup {p}
    /\ \A r \in LiveRows(t) : r \in LiveRows(n) /\ n.row[r] = t.row[r]
    /\ \A r \in LiveRows(n) \ LiveRows(t) :
          \E j \in 1..i : n.row[r].path = Append(p, parts[j][1])
    /\ i > 0 => \E r \in LiveRows(n) : n.row[r].path = Append(p, parts[1][1])

LEMMA RunFile ==
    ASSUME NEW p \in Paths, Len(p) = 1, Len(p) < MaxDepth, NEW a \in Names
    PROVE  /\ Append(p, a) \in Paths /\ Len(Append(p, a)) = 2
           /\ Front(Append(p, a)) = p /\ Last(Append(p, a)) = a
<1>1. Len(Append(p, a)) = Len(p) + 1 /\ Append(p, a) \in Paths
      /\ Front(Append(p, a)) = p /\ Last(Append(p, a)) = a
  BY PathAppended
<1> QED
  BY <1>1

LEMMA PrefixesOfRun ==
    ASSUME NEW p \in Paths, Len(p) = 1
    PROVE  Prefixes(p) \ {Root} = {p}
<1>1. Pre(p, 0) = Root /\ Pre(p, 1) = p
  BY PreSteps
<1>2. Prefixes(p) = {Pre(p, l) : l \in 0..1}
  BY DEF Prefixes, Pre
<1>3. p # Root
  BY DEF Root
<1>4. \A l \in 0..1 : l = 0 \/ l = 1
  OBVIOUS
<1>5. 0 \in 0..1 /\ 1 \in 0..1
  OBVIOUS
<1> QED
  BY <1>1, <1>2, <1>3, <1>4, <1>5

LEMMA GrownStarts ==
    ASSUME NEW t \in Trees, Matched(t), NEW p \in Paths, Len(p) = 1, NEW parts
    PROVE  Grown(t, MadeDirectory(t, p), p, parts, 0)
<1> DEFINE n == MadeDirectory(t, p)
<1>1. n \in Trees /\ n.row = t.row
  BY MadeDirectoryMoves DEF BucketMoves
<1>2. n.obj = t.obj /\ n.dirs = t.dirs \cup {p}
  <2>1. n = [t EXCEPT !.dirs = t.dirs \cup {p}]
    BY PrefixesOfRun DEF MadeDirectory
  <2> HIDE DEF n
  <2> QED
    BY <2>1, TreeFields
<1> HIDE DEF n
<1>3. LiveRows(n) = LiveRows(t)
  BY <1>1 DEF LiveRows
<1>4. Matched(n)
  BY <1>1, <1>2, <1>3 DEF Matched
<1>5. Grown(t, n, p, parts, 0)
  BY <1>1, <1>2, <1>3, <1>4 DEF Grown
<1> QED
  BY <1>5 DEF n

LEMMA GrownOn ==
    ASSUME NEW t \in Trees, NEW p \in Paths, Len(p) = 1, Len(p) < MaxDepth, Vacant(t, p),
           NEW parts \in Seq(Names \X Bodies), Distinct(parts), NEW i \in 1..Len(parts),
           NEW m, Grown(t, m, p, parts, i - 1),
           NEW n \in Trees, Added(m, n, Append(p, parts[i][1]))
    PROVE  Grown(t, n, p, parts, i)
<1> DEFINE q(j) == Append(p, parts[j][1])
<1>1. ASSUME NEW j \in 1..Len(parts)
      PROVE  Len(q(j)) = 2 /\ Front(q(j)) = p /\ Last(q(j)) = parts[j][1]
  <2>1. parts[j] \in Names \X Bodies
    OBVIOUS
  <2> DEFINE a == parts[j][1]
             s == Append(p, a)
  <2>2. a \in Names
    BY <2>1
  <2> HIDE DEF a
  <2>3. Len(s) = 2 /\ Front(s) = p /\ Last(s) = a
    BY <2>2, RunFile
  <2>4. q(j) = s
    BY DEF a
  <2> HIDE DEF q, s
  <2> QED
    BY <2>3, <2>4 DEF a
<1>2. /\ Matched(m) /\ m.dirs = t.dirs \cup {p}
      /\ \A r \in LiveRows(t) : r \in LiveRows(m) /\ m.row[r] = t.row[r]
      /\ \A r \in LiveRows(m) \ LiveRows(t) : \E j \in 1..(i - 1) : m.row[r].path = q(j)
      /\ i - 1 > 0 => \E r \in LiveRows(m) : m.row[r].path = q(1)
  BY DEF Grown
<1>3. PICK f \in LiveRows(n) : /\ n.row[f].path = q(i) /\ f \notin LiveRows(m)
                               /\ LiveRows(n) = LiveRows(m) \cup {f}
  <2>1. Added(m, n, q(i))
    OBVIOUS
  <2> HIDE DEF q
  <2>2. \E f \in LiveRows(n) : /\ n.row[f].path = q(i) /\ n.row[f].status = "committed"
                               /\ f \notin LiveRows(m) /\ LiveRows(n) = LiveRows(m) \cup {f}
    BY <2>1, AddedRows
  <2> QED
    BY <2>2
<1>4. \A r \in LiveRows(m) : n.row[r] = m.row[r]
  BY AddedRows
<1>5. n.dirs = m.dirs /\ Added(m, n, q(i))
  BY DEF Added
<1>6. 1..(i - 1) \in SUBSET (1..i) /\ i \in 1..i /\ 1..i \in SUBSET (1..Len(parts))
      /\ 1 \in 1..Len(parts) /\ \A j \in 1..(i - 1) : j # i
  OBVIOUS
<1>7. \A j \in 1..(i - 1) : q(j) # q(i)
  <2>1. ASSUME NEW j \in 1..(i - 1), q(j) = q(i) PROVE FALSE
    <3>1. j \in 1..Len(parts) /\ j # i
      BY <1>6
    <3>2. parts[j][1] = parts[i][1]
      BY <1>1, <2>1, <3>1
    <3>3. DOMAIN parts = 1..Len(parts)
      OBVIOUS
    <3> QED
      BY <3>1, <3>2, <3>3 DEF Distinct
  <2> QED
    BY <2>1
<1>8. Len(q(i)) = 2 /\ Front(q(i)) = p
  BY <1>1
<1> HIDE DEF q
<1>9. ASSUME NEW r \in LiveRows(m) PROVE m.row[r].path # q(i)
  <2>1. CASE r \in LiveRows(t)
    <3>1. m.row[r] = t.row[r] /\ Front(t.row[r].path) # p
      BY <1>2, <2>1 DEF Vacant, RunOf
    <3> QED
      BY <1>8, <3>1
  <2>2. CASE r \notin LiveRows(t)
    BY <1>2, <1>7, <2>2
  <2> QED
    BY <2>1, <2>2
<1>10. Matched(n)
  BY <1>2, <1>5, <1>8, <1>9, AddedMatched
<1>11. \A r \in LiveRows(t) : r \in LiveRows(n) /\ n.row[r] = t.row[r]
  BY <1>2, <1>3, <1>4
<1>12. ASSUME NEW r \in LiveRows(n) \ LiveRows(t)
       PROVE  \E j \in 1..i : n.row[r].path = q(j)
  <2>1. CASE r = f
    BY <1>3, <1>6, <2>1
  <2>2. CASE r # f
    <3>1. r \in LiveRows(m) \ LiveRows(t) /\ n.row[r] = m.row[r]
      BY <1>3, <1>4, <2>2
    <3>2. PICK j \in 1..(i - 1) : m.row[r].path = q(j)
      BY <1>2, <3>1
    <3> QED
      BY <1>6, <3>1, <3>2
  <2> QED
    BY <2>1, <2>2
<1>13. \E r \in LiveRows(n) : n.row[r].path = q(1)
  <2>1. CASE i = 1
    BY <1>3, <2>1
  <2>2. CASE i # 1
    <3>1. i - 1 > 0
      BY <2>2
    <3>2. PICK r \in LiveRows(m) : m.row[r].path = q(1)
      BY <1>2, <3>1
    <3> QED
      BY <1>3, <1>4, <3>2
  <2> QED
    BY <2>1, <2>2
<1> QED
  BY <1>2, <1>5, <1>10, <1>11, <1>12, <1>13 DEF Grown, q

LEMMA RunGrown ==
    ASSUME NEW t \in Trees, Matched(t), NEW u \in Users,
           NEW p \in Paths, Len(p) = 1, Len(p) < MaxDepth, Vacant(t, p),
           NEW parts \in Seq(Names \X Bodies), Distinct(parts),
           Cardinality(FreeIds(t)) >= Len(parts)
    PROVE  Grown(t, RunStored(t, u, p, parts), p, parts, Len(parts))
<1> DEFINE n == Len(parts)
<1>1. PICK g : RunStored(t, u, p, parts) = g[1..n] /\ RunSteps(g, t, u, p, parts)
  BY RunFollowed
<1>2. n \in Nat /\ Cardinality(FreeIds(t)) >= n
  OBVIOUS
<1> DEFINE Good == {i \in 0..n : Grown(t, g[1..i], p, parts, i) /\ Keeps(t, g[1..i], u, i)}
<1>3. 0 \in Good
  <2>1. g[{}] = MadeDirectory(t, p)
    BY <1>1 DEF RunSteps
  <2>2. Keeps(t, MadeDirectory(t, p), u, 0)
    BY MadeDirectoryMoves, BucketKeeps
  <2>3. Grown(t, MadeDirectory(t, p), p, parts, 0)
    BY GrownStarts
  <2>4. 1..0 = {} /\ 0 \in 0..n
    BY <1>2
  <2> QED
    BY <2>1, <2>2, <2>3, <2>4
<1>4. ASSUME NEW i \in 1..n, i - 1 \in Good PROVE i \in Good
  <2> DEFINE a == g[1..(i - 1)]
             b == g[1..i]
             q == Append(p, parts[i][1])
  <2>1. q \in Paths /\ parts[i][2] \in Bodies
    BY PartIs
  <2>2. b = Uploaded(a, u, q, parts[i][2])
    BY <1>1 DEF RunSteps
  <2>3. Grown(t, a, p, parts, i - 1) /\ Keeps(t, a, u, i - 1)
    BY <1>4
  <2> HIDE DEF a, b, q, n
  <2>4. a \in Trees /\ Cardinality(FreeIds(t)) <= Cardinality(FreeIds(a)) + (i - 1)
    BY <2>3 DEF Keeps
  <2>5. Cardinality(FreeIds(a)) >= 1
    BY <1>2, <2>4, FreeIdsCounted
  <2>6. FreeIds(a) # {}
    BY <2>5, SomeIdsAreFree
  <2>7. Keeps(a, b, u, 1)
    BY <2>1, <2>2, <2>4, <2>6, UploadedKeeps
  <2>8. Keeps(t, b, u, (i - 1) + 1)
    BY <2>3, <2>7, KeepsOn
  <2>9. (i - 1) + 1 = i /\ i \in 0..n
    BY <1>2
  <2>10. Keeps(t, b, u, i)
    BY <2>8, <2>9
  <2>11. b \in Trees
    BY <2>10 DEF Keeps
  <2>12. Added(a, b, q)
    BY <2>1, <2>2, <2>4, <2>6, UploadAdds
  <2>13. Grown(t, b, p, parts, i)
    BY <2>3, <2>11, <2>12, GrownOn DEF q, n
  <2> QED
    BY <2>9, <2>10, <2>13 DEF b
<1>5. \A i \in 1..n : i - 1 \in Good => i \in Good
  BY <1>4
<1> HIDE DEF Good, n
<1>6. \A i \in 0..n : i \in Good
  BY <1>2, <1>3, <1>5, Climb
<1>7. n \in Good
  BY <1>2, <1>6
<1> QED
  BY <1>1, <1>7 DEF Good, n

LEMMA GrownRooted ==
    ASSUME NEW t \in Trees, NEW p \in Paths, Len(p) = 1, Len(p) < MaxDepth,
           NEW parts \in Seq(Names \X Bodies), NEW k \in 1..Len(parts), parts[1][1] = Meta,
           Rooted(t), NEW n, Grown(t, n, p, parts, k)
    PROVE  Rooted(n)
<1>1. /\ n.dirs = t.dirs \cup {p}
      /\ \A r \in LiveRows(t) : r \in LiveRows(n) /\ n.row[r] = t.row[r]
  BY DEF Grown
<1>2. PICK m \in LiveRows(n) : n.row[m].path = RunMetaOf(p)
  BY DEF Grown, RunMetaOf
<1>3. ASSUME NEW r \in LiveRows(n) \ LiveRows(t) PROVE RunOf(n, r) = p
  <2>1. PICK j \in 1..k : n.row[r].path = Append(p, parts[j][1])
    BY DEF Grown
  <2>2. parts[j] \in Names \X Bodies
    BY <2>1
  <2>3. parts[j][1] \in Names
    BY <2>2
  <2> QED
    BY <2>1, <2>3, PathAppended DEF RunOf
<1>4. RunOf(n, m) = p
  <2>1. Meta \in Names
    BY LibraryAssumption
  <2> QED
    BY <1>2, <2>1, PathAppended DEF RunOf, RunMetaOf
<1>5. \A r \in LiveRows(t) : RunOf(n, r) = RunOf(t, r)
  BY <1>1 DEF RunOf
<1>6. ASSUME NEW r \in LiveRows(n)
      PROVE  \E x \in LiveRows(n) : n.row[x].path = RunMetaOf(RunOf(n, r))
  <2>1. CASE r \in LiveRows(t)
    <3>1. PICK x \in LiveRows(t) : t.row[x].path = RunMetaOf(RunOf(t, r))
      BY <2>1 DEF Rooted
    <3>2. x \in LiveRows(n) /\ n.row[x].path = RunMetaOf(RunOf(n, r))
      BY <1>1, <1>5, <2>1, <3>1
    <3> QED
      BY <3>2
  <2>2. CASE r \notin LiveRows(t)
    BY <1>2, <1>3, <2>2
  <2> QED
    BY <2>1, <2>2
<1>7. ASSUME NEW d \in n.dirs PROVE Len(d) = 1 /\ \E r \in LiveRows(n) : RunOf(n, r) = d
  <2>1. CASE d = p
    BY <1>4, <2>1
  <2>2. CASE d # p
    <3>1. d \in t.dirs
      BY <1>1, <2>2
    <3>2. Len(d) = 1
      BY <3>1 DEF Rooted
    <3>3. PICK r \in LiveRows(t) : RunOf(t, r) = d
      BY <3>1 DEF Rooted
    <3> QED
      BY <1>1, <1>5, <3>2, <3>3
  <2> QED
    BY <2>1, <2>2
<1> QED
  BY <1>6, <1>7 DEF Rooted

LEMMA GrownVacant ==
    ASSUME NEW t \in Trees, NEW p \in Paths, Len(p) = 1, Len(p) < MaxDepth,
           NEW parts \in Seq(Names \X Bodies), NEW k \in 0..Len(parts),
           NEW n, Grown(t, n, p, parts, k)
    PROVE  /\ \A y : Vacant(t, y) /\ y # p => Vacant(n, y)
           /\ \A r \in LiveRows(n) : RunOf(n, r) # p => r \in LiveRows(t)
<1>1. \A r \in LiveRows(t) : RunOf(n, r) = RunOf(t, r)
  BY DEF Grown, RunOf
<1>2. ASSUME NEW r \in LiveRows(n) \ LiveRows(t) PROVE RunOf(n, r) = p
  <2>1. PICK j \in 1..k : n.row[r].path = Append(p, parts[j][1])
    BY DEF Grown
  <2>2. parts[j] \in Names \X Bodies
    BY <2>1
  <2>3. parts[j][1] \in Names
    BY <2>2
  <2> QED
    BY <2>1, <2>3, PathAppended DEF RunOf
<1>3. ASSUME NEW y, Vacant(t, y), y # p, NEW r \in LiveRows(n) PROVE RunOf(n, r) # y
  <2>1. CASE r \in LiveRows(t)
    BY <1>1, <1>3, <2>1 DEF Vacant
  <2>2. CASE r \notin LiveRows(t)
    BY <1>2, <1>3, <2>2
  <2> QED
    BY <2>1, <2>2
<1>4. \A y : Vacant(t, y) /\ y # p => Vacant(n, y)
  BY <1>3 DEF Vacant
<1> QED
  BY <1>2, <1>4

-----------------------------------------------------------------------------
(* A run is removed.                                                        *)

(* n is t without the run p.                                                *)
Cut(t, n, p) ==
    /\ DOMAIN n.obj = {k \in DOMAIN t.obj : Front(k.at) # p}
    /\ n.dirs = t.dirs \ MarkersUnder(t, p)
    /\ LiveRows(n) = {r \in LiveRows(t) : RunOf(t, r) # p}
    /\ \A r \in LiveRows(n) : n.row[r] = t.row[r]

LEMMA BlobsErasedDomain ==
    ASSUME NEW t \in Trees, NEW S
    PROVE  /\ DOMAIN BlobsErased(t, S).obj = DOMAIN t.obj \
                 {Zst(t.row[r].blob) : r \in {x \in S : t.row[x].status = "archived"}}
           /\ BlobsErased(t, S).dirs = t.dirs
<1> DEFINE K == {Zst(t.row[r].blob) : r \in {x \in S : t.row[x].status = "archived"}}
<1>1. BlobsErased(t, S).obj = Restrict(t.obj, DOMAIN t.obj \ K) /\ BlobsErased(t, S).dirs = t.dirs
  BY TreeFields DEF BlobsErased
<1> HIDE DEF K
<1>2. DOMAIN Restrict(t.obj, DOMAIN t.obj \ K) = DOMAIN t.obj \ K
  BY DEF Restrict
<1>3. DOMAIN BlobsErased(t, S).obj = DOMAIN t.obj \ K
  BY <1>1, <1>2
<1> QED
  BY <1>1, <1>3 DEF K

LEMMA RowsOfRun ==
    ASSUME NEW t \in Trees, Matched(t), NEW p \in Paths, Len(p) = 1
    PROVE  LiveUnder(t, p) = {r \in LiveRows(t) : RunOf(t, r) = p}
<1>1. ASSUME NEW r \in LiveRows(t)
      PROVE  IsStrictPrefix(p, t.row[r].path) <=> RunOf(t, r) = p
  <2>1. r \in Ids
    BY DEF LiveRows
  <2>2. t.row[r].path \in Paths
    BY <2>1, RowType DEF Row
  <2>3. Len(t.row[r].path) = 2
    BY DEF Matched
  <2> QED
    BY <2>2, <2>3, UnderARun DEF RunOf
<1> QED
  BY <1>1 DEF LiveUnder

LEMMA RunCut ==
    ASSUME NEW t \in Trees, Matched(t), NEW u, NEW p \in Paths, Len(p) = 1
    PROVE  LET result == DeletedTree(t, u, p)
           IN  \/ result = Raised(t) /\ MarkersUnder(t, p) = {}
               \/ \E n \in Trees : result = Done(n) /\ Cut(t, n, p)
<1> DEFINE S == LiveUnder(t, p)
           e == Erased(t, p)
           b == BlobsErased(e, S)
           m == RowsDeleted(b, S)
           n == Charged(m, u, 0 - BytesOf(t, S))
           result == DeletedTree(t, u, p)
<1>0. S \in SUBSET LiveRows(t) /\ LiveRows(t) \in SUBSET Ids
  BY DEF LiveUnder, LiveRows
<1>1. S = {r \in LiveRows(t) : RunOf(t, r) = p}
  BY RowsOfRun
<1>2. result = IF p = Root \/ ~Exists(t, p) \/ ~IsDirectory(t, p) THEN Raised(t) ELSE Done(n)
  BY DEF DeletedTree
<1>3. p # Root
  BY DEF Root
<1>4. MarkersUnder(t, p) # {} => Exists(t, p) /\ IsDirectory(t, p)
  BY DEF Exists, IsDirectory
<1>5. result \in Results
  BY DeletedTreeTyped
<1>6. e \in Trees /\ e.row = t.row /\ e.dirs = t.dirs \ MarkersUnder(t, p)
      /\ DOMAIN e.obj = DOMAIN t.obj \ ({Hot(p)} \cup KeysUnder(t, p))
  BY ErasedMoves, ErasedDomain DEF BucketMoves
<1> HIDE DEF e, S
<1>7. /\ b \in Trees /\ b.row = e.row /\ b.dirs = e.dirs
      /\ DOMAIN b.obj = DOMAIN e.obj \
            {Zst(e.row[r].blob) : r \in {x \in S : e.row[x].status = "archived"}}
  BY <1>6, BlobsErasedMoves, BlobsErasedDomain DEF BucketMoves
<1> HIDE DEF b
<1>8. /\ m \in Trees /\ m.obj = b.obj /\ m.dirs = b.dirs
      /\ \A r \in Ids : /\ r \in S => m.row[r].status = "deleted"
                        /\ r \notin S => m.row[r] = b.row[r]
  <2>1. m.obj = b.obj /\ m.dirs = b.dirs
    BY <1>7, TreeFields DEF RowsDeleted
  <2> QED
    BY <1>7, <2>1, RowsDeletedFields
<1> HIDE DEF m
<1>9. n.obj = m.obj /\ n.dirs = m.dirs /\ n.row = m.row
  BY <1>8, TreeFields DEF Charged
<1>10. ASSUME NEW k \in DOMAIN t.obj
       PROVE  /\ k # Hot(p) /\ (k \in KeysUnder(t, p) <=> Front(k.at) = p)
              /\ \A r \in S : t.row[r].status = "archived" /\ k = Zst(t.row[r].blob)
                              => Front(k.at) = p
  <2>1. k.at \in Paths /\ Len(k.at) = 2
    BY KeysAreFiles
  <2>2. k # Hot(p)
    BY <2>1 DEF Hot
  <2>3. k \in KeysUnder(t, p) <=> Front(k.at) = p
    BY <2>1, UnderARun DEF KeysUnder
  <2>4. ASSUME NEW r \in S, t.row[r].status = "archived", k = Zst(t.row[r].blob)
        PROVE  Front(k.at) = p
    <3>1. r \in LiveRows(t) /\ RunOf(t, r) = p
      BY <1>1
    <3>2. t.row[r].blob = t.row[r].path
      BY <2>4, <3>1 DEF Matched
    <3>3. k.at = t.row[r].path
      BY <2>4, <3>2 DEF Zst
    <3> QED
      BY <3>1, <3>3 DEF RunOf
  <2> QED
    BY <2>2, <2>3, <2>4
<1>11. DOMAIN n.obj = {k \in DOMAIN t.obj : Front(k.at) # p}
  <2> DEFINE Z == {Zst(t.row[r].blob) : r \in {x \in S : t.row[x].status = "archived"}}
  <2>1. DOMAIN n.obj = (DOMAIN t.obj \ ({Hot(p)} \cup KeysUnder(t, p))) \ Z
    BY <1>6, <1>7, <1>8, <1>9
  <2>2. \A k \in DOMAIN t.obj :
           (k # Hot(p) /\ k \notin KeysUnder(t, p) /\ k \notin Z) <=> Front(k.at) # p
    BY <1>10
  <2> HIDE DEF n, Z
  <2> QED
    BY <2>1, <2>2
<1>12. n.dirs = t.dirs \ MarkersUnder(t, p)
  BY <1>6, <1>7, <1>8, <1>9
<1>13. \A r \in Ids : IF r \in S THEN n.row[r].status = "deleted" ELSE n.row[r] = t.row[r]
  BY <1>6, <1>7, <1>8, <1>9
<1> HIDE DEF n
<1>14. LiveRows(n) = LiveRows(t) \ S
  BY <1>13 DEF LiveRows, Live
<1>15. LiveRows(n) = {r \in LiveRows(t) : RunOf(t, r) # p}
  BY <1>1, <1>14
<1>16. \A r \in LiveRows(n) : n.row[r] = t.row[r]
  BY <1>0, <1>13, <1>14
<1>17. Cut(t, n, p)
  BY <1>11, <1>12, <1>15, <1>16 DEF Cut
<1>18. result = Done(n) => n \in Trees
  BY <1>5 DEF Results, Done
<1> HIDE DEF result
<1>19. \/ result = Raised(t) /\ MarkersUnder(t, p) = {}
       \/ \E x \in Trees : result = Done(x) /\ Cut(t, x, p)
  BY <1>2, <1>3, <1>4, <1>17, <1>18
<1> QED
  BY <1>19 DEF result

LEMMA CutMatched ==
    ASSUME NEW t \in Trees, Matched(t), Rooted(t), NEW p \in Paths, Len(p) = 1,
           NEW n, Cut(t, n, p)
    PROVE  Matched(n) /\ Rooted(n) /\ \A y : Vacant(t, y) => Vacant(n, y)
<1> DEFINE L == LiveRows(n)
<1>1. /\ L = {r \in LiveRows(t) : RunOf(t, r) # p}
      /\ \A r \in L : n.row[r] = t.row[r]
      /\ DOMAIN n.obj = {k \in DOMAIN t.obj : Front(k.at) # p}
      /\ n.dirs = t.dirs \ MarkersUnder(t, p)
  BY DEF Cut
<1>2. \A r \in L : RunOf(n, r) = RunOf(t, r) /\ RunOf(t, r) # p /\ r \in LiveRows(t)
  BY <1>1 DEF RunOf
<1> HIDE DEF L
<1>3. ASSUME NEW r \in L
      PROVE  /\ Len(n.row[r].path) = 2
             /\ n.row[r].status = "archived" => n.row[r].blob = n.row[r].path
             /\ KeyOf(n.row[r]) \in DOMAIN n.obj
  <2>1. n.row[r] = t.row[r] /\ r \in LiveRows(t)
    BY <1>1
  <2>2. /\ Len(t.row[r].path) = 2
        /\ t.row[r].status = "archived" => t.row[r].blob = t.row[r].path
        /\ KeyOf(t.row[r]) \in DOMAIN t.obj
    BY <2>1 DEF Matched
  <2>3. KeyOf(t.row[r]).at = t.row[r].path
    BY <2>1, KeyOfAt
  <2>4. Front(KeyOf(t.row[r]).at) # p
    BY <1>2, <2>3 DEF RunOf
  <2> QED
    BY <1>1, <2>1, <2>2, <2>4
<1>4. ASSUME NEW k \in DOMAIN n.obj PROVE \E r \in L : KeyOf(n.row[r]) = k
  <2>1. k \in DOMAIN t.obj /\ Front(k.at) # p
    BY <1>1
  <2>2. PICK r \in LiveRows(t) : KeyOf(t.row[r]) = k /\ t.row[r].path = k.at
    BY <2>1, KeysAreFiles
  <2>3. r \in L
    BY <1>1, <2>1, <2>2 DEF RunOf
  <2> QED
    BY <1>1, <2>2, <2>3
<1>5. ASSUME NEW r \in L, NEW s \in L, n.row[r].path = n.row[s].path PROVE r = s
  BY <1>1, <1>2, <1>5 DEF Matched
<1>6. Matched(n)
  BY <1>3, <1>4, <1>5 DEF Matched, L
<1>7. ASSUME NEW r \in L PROVE \E m \in L : n.row[m].path = RunMetaOf(RunOf(n, r))
  <2> DEFINE d == RunOf(t, r)
  <2>1. PICK m \in LiveRows(t) : t.row[m].path = RunMetaOf(d)
    BY <1>2 DEF Rooted
  <2>2. d \in Paths /\ Len(d) = 1 /\ Len(d) < MaxDepth
    <3>1. r \in Ids /\ Len(t.row[r].path) = 2
      BY <1>2, KeyOfAt DEF Matched
    <3>2. t.row[r].path \in Paths
      BY <3>1, RowType DEF Row
    <3> QED
      BY <3>1, <3>2, TwoNames DEF RunOf
  <2>3. d # p /\ RunOf(n, r) = d
    BY <1>2
  <2> HIDE DEF d
  <2>4. RunOf(t, m) = d
    <3>1. Meta \in Names
      BY LibraryAssumption
    <3> QED
      BY <2>1, <2>2, <3>1, RunFile DEF RunOf, RunMetaOf
  <2>5. m \in L
    BY <1>1, <2>3, <2>4
  <2> QED
    BY <1>1, <2>1, <2>3, <2>5
<1>8. ASSUME NEW d \in n.dirs PROVE Len(d) = 1 /\ \E r \in L : RunOf(n, r) = d
  <2>1. d \in t.dirs /\ ~IsPrefix(p, d)
    BY <1>1 DEF MarkersUnder
  <2>2. Len(d) = 1 /\ \E r \in LiveRows(t) : RunOf(t, r) = d
    BY <2>1 DEF Rooted
  <2>3. d \in Paths
    BY <2>1, TreeFields
  <2>4. d # p
    BY <2>1, <2>2, <2>3, UnderARun
  <2>5. PICK r \in LiveRows(t) : RunOf(t, r) = d
    BY <2>2
  <2>6. r \in L
    BY <1>1, <2>4, <2>5
  <2> QED
    BY <1>2, <2>2, <2>5, <2>6
<1>9. Rooted(n)
  BY <1>7, <1>8 DEF Rooted, L
<1>10. \A y : Vacant(t, y) => Vacant(n, y)
  BY <1>2 DEF Vacant, L
<1> QED
  BY <1>6, <1>9, <1>10

(* Both have the same objects and the same directories.                        *)
SameBucket(t, n) == DOMAIN n.obj = DOMAIN t.obj /\ n.dirs = t.dirs

(* A store that fails has removed what it added.                              *)
LEMMA GrownCut ==
    ASSUME NEW t \in Trees, Matched(t), Rooted(t), NEW p \in Paths, Len(p) = 1,
           Len(p) < MaxDepth, Vacant(t, p),
           NEW parts \in Seq(Names \X Bodies), NEW k \in 0..Len(parts),
           NEW m, Grown(t, m, p, parts, k), NEW n, Cut(m, n, p)
    PROVE  SameBucket(t, n)
<1>1. /\ m \in Trees /\ Matched(m) /\ m.dirs = t.dirs \cup {p}
      /\ \A r \in LiveRows(t) : r \in LiveRows(m) /\ m.row[r] = t.row[r]
      /\ \A r \in LiveRows(m) : RunOf(m, r) # p => r \in LiveRows(t)
  <2>1. \A r \in LiveRows(m) : RunOf(m, r) # p => r \in LiveRows(t)
    BY GrownVacant
  <2>2. /\ m \in Trees /\ Matched(m) /\ m.dirs = t.dirs \cup {p}
        /\ \A r \in LiveRows(t) : r \in LiveRows(m) /\ m.row[r] = t.row[r]
    BY DEF Grown
  <2> QED
    BY <2>1, <2>2
<1>2. DOMAIN n.obj = {x \in DOMAIN m.obj : Front(x.at) # p} /\ n.dirs = m.dirs \ MarkersUnder(m, p)
  BY DEF Cut
<1>3. ASSUME NEW x \in DOMAIN n.obj PROVE x \in DOMAIN t.obj
  <2>1. x \in DOMAIN m.obj /\ Front(x.at) # p
    BY <1>2
  <2>2. PICK r \in LiveRows(m) : KeyOf(m.row[r]) = x /\ m.row[r].path = x.at
    BY <1>1, <2>1, KeysAreFiles
  <2>3. r \in LiveRows(t) /\ m.row[r] = t.row[r]
    BY <1>1, <2>1, <2>2 DEF RunOf
  <2> QED
    BY <2>2, <2>3 DEF Matched
<1>4. ASSUME NEW x \in DOMAIN t.obj PROVE x \in DOMAIN n.obj
  <2>1. PICK r \in LiveRows(t) : KeyOf(t.row[r]) = x /\ t.row[r].path = x.at
    BY KeysAreFiles
  <2>2. r \in LiveRows(m) /\ KeyOf(m.row[r]) = x
    BY <1>1, <2>1
  <2>3. x \in DOMAIN m.obj
    BY <1>1, <2>2 DEF Matched
  <2>4. Front(x.at) # p
    BY <2>1 DEF Vacant, RunOf
  <2> QED
    BY <1>2, <2>3, <2>4
<1>5. DOMAIN n.obj = DOMAIN t.obj
  BY <1>3, <1>4
<1>6. ASSUME NEW d \in t.dirs PROVE ~IsPrefix(p, d)
  <2>1. Len(d) = 1 /\ (\E r \in LiveRows(t) : RunOf(t, r) = d) /\ d \in Paths
    BY TreeFields DEF Rooted
  <2>2. d # p
    BY <2>1 DEF Vacant
  <2> QED
    BY <2>1, <2>2, UnderARun
<1>7. IsPrefix(p, p)
  BY UnderARun
<1>8. n.dirs = t.dirs
  BY <1>1, <1>2, <1>6, <1>7 DEF MarkersUnder
<1> QED
  BY <1>5, <1>8 DEF SameBucket

(* A request ends. *)
LEMMA Ended ==
    ASSUME NEW t \in Trees, NEW n \in Trees
    PROVE  /\ Committed(t, Done(n)) = n
           /\ LET c == Committed(t, Raised(n))
              IN  c.obj = n.obj /\ c.dirs = n.dirs /\ c.row = t.row
<1>1. Committed(t, Done(n)) = n
  BY DEF Committed, Done
<1>2. Committed(t, Raised(n)) = [n EXCEPT !.row = t.row, !.used = t.used]
  BY DEF Committed, Raised
<1> DEFINE c == [n EXCEPT !.row = t.row, !.used = t.used]
<1>3. c.obj = n.obj /\ c.dirs = n.dirs /\ c.row = t.row
  BY TreeFields
<1> HIDE DEF c
<1> QED
  BY <1>1, <1>2, <1>3 DEF c

LEMMA RolledBack ==
    ASSUME NEW t \in Trees
    PROVE  Alike(t, t) /\ Alike(t, Committed(t, Raised(t)))
<1>1. Alike(t, t)
  BY DEF Alike
<1> DEFINE c == Committed(t, Raised(t))
<1>2. c.obj = t.obj /\ c.dirs = t.dirs /\ c.row = t.row
  BY Ended
<1> HIDE DEF c
<1>3. Alike(t, c)
  BY <1>2 DEF Alike, LiveRows
<1> QED
  BY <1>1, <1>3 DEF c

(* A store that fails leaves what was there.                                  *)
LEMMA FailedRun ==
    ASSUME NEW t \in Trees, Matched(t), Rooted(t), NEW u, NEW p \in Paths, Len(p) = 1,
           Len(p) < MaxDepth, Vacant(t, p),
           NEW parts \in Seq(Names \X Bodies), NEW k \in 0..Len(parts),
           NEW m, Grown(t, m, p, parts, k)
    PROVE  Alike(t, Committed(t, Raised(DeletedTree(m, u, p).tree)))
<1>1. m \in Trees /\ Matched(m) /\ p \in m.dirs
  BY DEF Grown
<1>2. p \in MarkersUnder(m, p)
  BY <1>1, UnderARun DEF MarkersUnder
<1>3. PICK n \in Trees : DeletedTree(m, u, p) = Done(n) /\ Cut(m, n, p)
  BY <1>1, <1>2, RunCut
<1>4. DeletedTree(m, u, p).tree = n
  BY <1>3 DEF Done
<1>5. SameBucket(t, n)
  BY <1>3, GrownCut
<1> DEFINE c == Committed(t, Raised(n))
<1>6. c.obj = n.obj /\ c.dirs = n.dirs /\ c.row = t.row
  BY Ended
<1> HIDE DEF c
<1>7. Alike(t, c)
  BY <1>5, <1>6 DEF Alike, LiveRows, SameBucket
<1> QED
  BY <1>4, <1>7 DEF c

-----------------------------------------------------------------------------
(* Reads of a run, the archive and the cleanup.                              *)

LEMMA NothingHealed ==
    ASSUME NEW t \in Trees, NEW q, At(t, q) # {}
    PROVE  Healed(t, q) = t
<1>1. ~Heals(t, q)
  BY DEF Heals
<1> DEFINE rows == [r \in Ids |-> IF Heals(t, q) /\ r \in Namesakes(t, q)
                                  THEN [t.row[r] EXCEPT !.path = q] ELSE t.row[r]]
<1>2. rows = t.row
  BY <1>1, TreeFields
<1>3. Healed(t, q) = [t EXCEPT !.row = rows]
  BY DEF Healed
<1> HIDE DEF rows
<1>4. [t EXCEPT !.row = t.row] = t
  BY TreeFields
<1> QED
  BY <1>2, <1>3, <1>4

LEMMA ReadIsThere ==
    ASSUME NEW t \in Trees, Matched(t), NEW q \in Paths, ReadPath(t, q) # None
    PROVE  At(t, q) # {}
<1>1. CASE \E r \in Found(t, q) : t.row[r].status = "archived"
  <2>1. PICK r \in Found(t, q) : t.row[r].status = "archived"
    BY <1>1
  <2>2. r \notin Namesakes(t, q)
    BY <2>1 DEF Namesakes
  <2>3. ~Heals(t, q)
    BY <2>1, <2>2 DEF Found
  <2> QED
    BY <2>1, <2>3 DEF Found
<1>2. CASE ~\E r \in Found(t, q) : t.row[r].status = "archived"
  <2>1. Hot(q) \in DOMAIN t.obj
    BY <1>2 DEF ReadPath, HasObject
  <2>2. PICK r \in LiveRows(t) : t.row[r].path = Hot(q).at
    BY <2>1, KeysAreFiles
  <2>3. r \in At(t, q)
    BY <2>2 DEF At, Hot
  <2> QED
    BY <2>3
<1> QED
  BY <1>1, <1>2

LEMMA RunsAreFound ==
    ASSUME NEW t \in Trees, Matched(t), Rooted(t), NEW p \in RunDirs(t)
    PROVE  At(t, RunMetaOf(p)) # {}
<1>1. PICK n \in ChildDirs(t, Root) : p = <<n>>
  BY DEF RunDirs
<1> DEFINE deeper == {k.at : k \in {x \in KeysUnder(t, Root) : Len(x.at) > Len(Root) + 1}}
<1>2. Len(Root) = 0
  BY DEF Root
<1>3. PICK s \in deeper \cup (MarkersUnder(t, Root) \ {Root}) : n = s[Len(Root) + 1]
  BY <1>1 DEF ChildDirs
<1>4. n = s[1]
  BY <1>2, <1>3
<1>5. \E r \in LiveRows(t) : RunOf(t, r) = p
  <2>1. CASE s \in deeper
    <3>1. PICK k \in DOMAIN t.obj : k.at = s
      BY <2>1 DEF KeysUnder
    <3>2. s \in Paths /\ Len(s) = 2 /\ \E r \in LiveRows(t) : t.row[r].path = s
      BY <3>1, KeysAreFiles
    <3>3. Front(s) \in Paths /\ Len(Front(s)) = 1 /\ Front(s)[1] = n
      BY <1>4, <3>2, TwoNames
    <3>4. Front(s) = <<n>>
      <4>1. Front(s) \in Seq(Names) /\ n \in Names
        BY <3>3, PathLength
      <4> DEFINE a == Front(s)
      <4>2. a \in Seq(Names) /\ Len(a) = 1 /\ a[1] = n
        BY <3>3, <4>1
      <4> HIDE DEF a
      <4>3. a = <<n>>
        BY <4>2
      <4> QED
        BY <4>3 DEF a
    <3> QED
      BY <1>1, <3>2, <3>4 DEF RunOf
  <2>2. CASE s \in MarkersUnder(t, Root)
    <3>1. s \in t.dirs /\ s \in Paths
      BY <2>2, TreeFields DEF MarkersUnder
    <3>2. Len(s) = 1 /\ \E r \in LiveRows(t) : RunOf(t, r) = s
      BY <3>1 DEF Rooted
    <3>3. s \in Seq(Names)
      BY <3>1, PathLength
    <3>4. s = <<n>>
      BY <1>4, <3>2, <3>3
    <3> QED
      BY <1>1, <3>2, <3>4
  <2> QED
    BY <1>3, <2>1, <2>2
<1>6. PICK m \in LiveRows(t) : t.row[m].path = RunMetaOf(p)
  BY <1>5 DEF Rooted
<1>7. m \in At(t, RunMetaOf(p))
  BY <1>6 DEF At
<1> QED
  BY <1>7

(* A read has changed nothing.                                              *)
Unread(t, result) == result = Done(t) \/ result = Raised(t)

LEMMA RunReadUnread ==
    ASSUME NEW t \in Trees, NEW p, At(t, RunMetaOf(p)) # {}
    PROVE  Unread(t, RunRead(t, p))
<1>1. Healed(t, RunMetaOf(p)) = t
  BY NothingHealed
<1> QED
  BY <1>1 DEF RunRead, Unread

LEMMA RunsListedUnread ==
    ASSUME NEW t \in Trees, Matched(t), Rooted(t)
    PROVE  Unread(t, RunsListed(t))
<1> DEFINE S == RunDirs(t)
<1>0. IsFiniteSet(S) /\ \A p \in S : Unread(t, RunRead(t, p))
  BY RunDirsAre, RunsAreFound, RunReadUnread
<1> HIDE DEF S
<1> DEFINE seq == SetToSeq(S)
           n == Cardinality(S)
           V == {Done(t), Raised(t)}
           read(acc, v) == IF acc.ok THEN RunRead(acc.tree, v) ELSE acc
           Def(g) == [s \in SUBSET DOMAIN seq |->
                        IF s = {} THEN Done(t) ELSE read(g[s \ {Max(s)}], seq[Max(s)])]
           iter == CHOOSE g : g = Def(g)
           step == [z \in (1..n) \X V |-> read(z[2], seq[z[1]])]
<1>1. RunsListed(t) = iter[DOMAIN seq]
  BY DEF RunsListed, FoldLeft, MapThenFoldSet, S
<1>2. n \in Nat /\ DOMAIN seq = 1..n /\ \A i \in 1..n : seq[i] \in S
  BY <1>0, Listing
<1> HIDE DEF seq, n
<1>3. Done(t) \in V
  OBVIOUS
<1>4. ASSUME NEW acc \in V, NEW v \in S PROVE read(acc, v) \in V
  <2>1. acc.tree = t
    BY DEF Done, Raised
  <2>2. RunRead(acc.tree, v) \in V
    BY <1>0, <2>1 DEF Unread
  <2> HIDE DEF V
  <2> QED
    BY <2>2
<1> HIDE DEF V, read
<1>5. step \in [(1..n) \X V -> V]
  BY <1>2, <1>4
<1> DEFINE base == Done(t)
<1>6. PICK g \in [SUBSET (1..n) -> V] : Follows(g, n, base, step)
  <2> HIDE DEF step, base
  <2> QED
    BY <1>2, <1>3, <1>5, SeqRecursion DEF base
<1>7. g = Def(g)
  <2>1. ASSUME NEW s \in SUBSET (1..n), s # {}
        PROVE  g[s] = read(g[s \ {Max(s)}], seq[Max(s)])
    <3>1. Max(s) \in 1..n /\ g[s \ {Max(s)}] \in V
      BY <1>2, <2>1, MaxIn
    <3> QED
      BY <1>6, <2>1, <3>1 DEF Follows
  <2>2. ASSUME NEW s \in SUBSET (1..n) PROVE g[s] = Def(g)[s]
    BY <1>2, <1>6, <2>1 DEF Follows
  <2>3. g = [s \in SUBSET (1..n) |-> g[s]]
    OBVIOUS
  <2> QED
    BY <1>2, <2>2, <2>3
<1>8. iter = Def(iter)
  <2> HIDE DEF Def
  <2> QED
    BY <1>7
<1>9. ASSUME NEW s \in SUBSET (1..n), s # {}, iter[s \ {Max(s)}] \in V
      PROVE  iter[s] \in V
  <2>1. Max(s) \in 1..n
    BY <1>2, <1>9, MaxIn
  <2> HIDE DEF iter
  <2>2. iter[s] = read(iter[s \ {Max(s)}], seq[Max(s)])
    BY <1>2, <1>8, <1>9
  <2> QED
    BY <1>2, <1>4, <1>9, <2>1, <2>2
<1>10. iter[{}] \in V
  <2> HIDE DEF iter
  <2> QED
    BY <1>2, <1>3, <1>8
<1> HIDE DEF iter
<1>11. iter[1..n] \in V
  BY <1>2, <1>9, <1>10, FoldsInto
<1> QED
  BY <1>1, <1>2, <1>11 DEF V, Unread

LEMMA ArchivedMatched ==
    ASSUME NEW t \in Trees, Matched(t), NEW r \in Ids, t.row[r].status = "committed",
           HasObject(t, t.row[r].path)
    PROVE  LET n == ArchivedFile(t, r)
           IN  /\ Matched(n) /\ n.dirs = t.dirs /\ LiveRows(n) = LiveRows(t)
               /\ \A x \in LiveRows(t) : n.row[x].path = t.row[x].path
<1> DEFINE p == t.row[r].path
           n == ArchivedFile(t, r)
           f == [t.row[r] EXCEPT !.status = "archived", !.blob = p]
           rows == [t.row EXCEPT ![r] = f]
<1>1. n.row = [t.row EXCEPT ![r].status = "archived", ![r].blob = p]
  BY TreeFields DEF ArchivedFile
<1>2. [t.row EXCEPT ![r].status = "archived", ![r].blob = p] = rows
  BY TreeFields
<1>3. n.dirs = t.dirs /\ DOMAIN n.obj = (DOMAIN t.obj \ {Hot(p)}) \cup {Zst(p)}
  BY TreeFields DEF ArchivedFile
<1>4. f.blob = p /\ f.path = p /\ f.status = "archived"
  BY RowType DEF Row
<1> HIDE DEF f
<1>5. rows[r] = f /\ \A x \in Ids \ {r} : rows[x] = t.row[x]
  BY TreeFields
<1> HIDE DEF rows, n
<1>6. n.row[r] = f /\ \A x \in Ids \ {r} : n.row[x] = t.row[x]
  BY <1>1, <1>2, <1>5
<1>7. LiveRows(n) = LiveRows(t) /\ r \in LiveRows(t)
  BY <1>4, <1>6 DEF LiveRows, Live
<1>8. \A x \in LiveRows(t) : n.row[x].path = t.row[x].path
  BY <1>4, <1>6 DEF LiveRows
<1>9. KeyOf(n.row[r]) = Zst(p) /\ KeyOf(t.row[r]) = Hot(p)
  BY <1>4, <1>6 DEF KeyOf
<1>10. \A x \in LiveRows(t) \ {r} : n.row[x] = t.row[x]
  BY <1>6 DEF LiveRows
<1>11. ASSUME NEW x \in LiveRows(t)
       PROVE  /\ Len(n.row[x].path) = 2
              /\ n.row[x].status = "archived" => n.row[x].blob = n.row[x].path
              /\ KeyOf(n.row[x]) \in DOMAIN n.obj
  <2>1. CASE x = r
    <3>1. Len(p) = 2
      BY <1>7 DEF Matched
    <3> QED
      BY <1>3, <1>4, <1>6, <1>9, <2>1, <3>1
  <2>2. CASE x # r
    <3>1. n.row[x] = t.row[x]
      BY <1>10, <2>2
    <3>2. /\ Len(t.row[x].path) = 2
          /\ t.row[x].status = "archived" => t.row[x].blob = t.row[x].path
          /\ KeyOf(t.row[x]) \in DOMAIN t.obj
          /\ t.row[x].path # p
      BY <1>7, <2>2 DEF Matched
    <3>3. KeyOf(t.row[x]).at # p
      BY <3>2, KeyOfAt
    <3>4. KeyOf(t.row[x]) # Hot(p)
      BY <3>3 DEF Hot
    <3> QED
      BY <1>3, <3>1, <3>2, <3>4
  <2> QED
    BY <2>1, <2>2
<1>12. ASSUME NEW k \in DOMAIN n.obj PROVE \E x \in LiveRows(t) : KeyOf(n.row[x]) = k
  <2>1. CASE k = Zst(p)
    BY <1>7, <1>9, <2>1
  <2>2. CASE k # Zst(p)
    <3>1. k \in DOMAIN t.obj /\ k # Hot(p)
      BY <1>3, <2>2
    <3>2. PICK x \in LiveRows(t) : KeyOf(t.row[x]) = k
      BY <3>1 DEF Matched
    <3>3. x # r
      BY <1>9, <3>1, <3>2
    <3> QED
      BY <1>10, <3>2, <3>3
  <2> QED
    BY <2>1, <2>2
<1>13. ASSUME NEW x \in LiveRows(t), NEW y \in LiveRows(t), n.row[x].path = n.row[y].path
       PROVE  x = y
  BY <1>8, <1>13 DEF Matched
<1>14. Matched(n)
  BY <1>7, <1>11, <1>12, <1>13 DEF Matched
<1>15. Matched(n) /\ n.dirs = t.dirs /\ LiveRows(n) = LiveRows(t)
       /\ \A x \in LiveRows(t) : n.row[x].path = t.row[x].path
  BY <1>3, <1>7, <1>8, <1>14
<1> QED
  BY <1>15 DEF n

LEMMA SamePathsRooted ==
    ASSUME NEW t, NEW n, n.dirs = t.dirs, LiveRows(n) = LiveRows(t),
           \A x \in LiveRows(t) : n.row[x].path = t.row[x].path, Rooted(t)
    PROVE  Rooted(n) /\ \A y : Vacant(t, y) => Vacant(n, y)
<1> DEFINE S == LiveRows(t)
<1>1. LiveRows(n) = S /\ \A x \in S : n.row[x].path = t.row[x].path /\ RunOf(n, x) = RunOf(t, x)
  BY DEF RunOf
<1>2. /\ \A r \in S : \E m \in S : t.row[m].path = RunMetaOf(RunOf(t, r))
      /\ \A d \in n.dirs : Len(d) = 1 /\ \E r \in S : RunOf(t, r) = d
  BY DEF Rooted
<1> HIDE DEF S
<1>3. ASSUME NEW r \in S PROVE \E m \in S : n.row[m].path = RunMetaOf(RunOf(n, r))
  BY <1>1, <1>2
<1>4. ASSUME NEW d \in n.dirs PROVE Len(d) = 1 /\ \E r \in S : RunOf(n, r) = d
  BY <1>1, <1>2
<1>5. Rooted(n)
  BY <1>1, <1>3, <1>4 DEF Rooted
<1>6. \A y : Vacant(t, y) => Vacant(n, y)
  BY <1>1 DEF Vacant, S
<1> QED
  BY <1>5, <1>6

LEMMA PendingAlike ==
    ASSUME NEW t \in Trees
    PROVE  Alike(t, PendingRemoved(t))
<1> DEFINE rows == [r \in Ids |-> IF t.row[r].status = "pending" THEN NoRow ELSE t.row[r]]
           n == PendingRemoved(t)
<1>1. n.row = rows /\ n.obj = t.obj /\ n.dirs = t.dirs
  BY TreeFields DEF PendingRemoved
<1>2. \A r \in Ids : rows[r] = IF t.row[r].status = "pending" THEN NoRow ELSE t.row[r]
  OBVIOUS
<1> HIDE DEF rows, n
<1>3. ~Live(NoRow)
  BY DEF NoRow, Live
<1>4. ASSUME NEW r \in Ids
      PROVE  /\ Live(n.row[r]) <=> Live(t.row[r])
             /\ Live(t.row[r]) => n.row[r] = t.row[r]
  <2>1. CASE t.row[r].status = "pending"
    <3>1. ~Live(t.row[r])
      BY <2>1 DEF Live
    <3>2. n.row[r] = NoRow
      BY <1>1, <1>2, <2>1
    <3> QED
      BY <1>3, <3>1, <3>2
  <2>2. CASE t.row[r].status # "pending"
    BY <1>1, <1>2, <2>2
  <2> QED
    BY <2>1, <2>2
<1>5. Alike(t, n)
  BY <1>1, <1>4 DEF Alike, LiveRows
<1> QED
  BY <1>5 DEF n

-----------------------------------------------------------------------------
(* The runs, step by step.                                                  *)

(* A tree is in order, and so are the requests F that are going to store a run.  *)
Ready(t, F) ==
    /\ Matched(t) /\ Rooted(t)
    /\ \A x \in F : x.op = "store" =>
          Vacant(t, x.at) /\ \A y \in F : y.op = "store" /\ y.at = x.at => y = x

RunsInv == section = "GENERATED" /\ Unaborted => Ready(tree, flight)

LEMMA ReadyAlike ==
    ASSUME NEW t, NEW F, Ready(t, F), NEW n, Alike(t, n), NEW G \in SUBSET F
    PROVE  Ready(n, G)
<1>1. Matched(n) /\ Rooted(n) /\ \A p : Vacant(t, p) => Vacant(n, p)
  BY AlikeMatched DEF Ready
<1> QED
  BY <1>1 DEF Ready

LEMMA ReadyOn ==
    ASSUME NEW t, NEW F, Ready(t, F), NEW n, Matched(n), Rooted(n), NEW G \in SUBSET F,
           \A x \in G : x.op = "store" /\ Vacant(t, x.at) => Vacant(n, x.at)
    PROVE  Ready(n, G)
BY DEF Ready

(* What is asked of a run.                                                   *)
Runs(x) ==
    /\ x.user \in Users /\ x.at \in Paths
    /\ x.op \in RunsRequests
    /\ x.op \in {"store", "getRun", "getFile", "deleteRun"} => Len(x.at) = 1
    /\ x.op \in {"store", "getRun", "getFile"} => Len(x.at) < MaxDepth
    /\ x.op = "getFile" => x.to \in Names
    /\ x.op = "store" => /\ x.parts \in Seq(Names \X Bodies) /\ Distinct(x.parts)
                         /\ Len(x.parts) > 0 /\ x.parts[1][1] = Meta

LEMMA RunsAsked ==
    ASSUME "GENERATED" \in Sections, NEW x \in Requests["GENERATED"]
    PROVE  Runs(x)
<1>1. /\ x.user \in Users /\ x.at \in Paths /\ x.parts \in Seq(Names \X Bodies)
      /\ x.op \in {"store", "getRun", "getFile"} => Len(x.at) < MaxDepth
      /\ x.op = "getFile" => x.to \in Names
  BY Asked
<1>2. x.op \in TakenBy("GENERATED")
  BY RequestsAssumption
<1>3. TakenBy("GENERATED") = RunsRequests
  BY Zenon DEF TakenBy
<1>4. x.op \in {"store", "getRun", "getFile", "deleteRun"} => Len(x.at) = 1
  BY RunsAssumption
<1>5. x.op = "store" => x.parts # <<>> /\ x.parts[1][1] = Meta /\ Distinct(x.parts)
  BY RunsAssumption DEF Distinct
<1>6. x.parts # <<>> => Len(x.parts) > 0
  BY <1>1
<1> QED
  BY <1>1, <1>2, <1>3, <1>4, <1>5, <1>6 DEF Runs

LEMMA FirstParts ==
    ASSUME NEW parts \in Seq(Names \X Bodies), Distinct(parts), NEW k \in 0..Len(parts)
    PROVE  LET some == SubSeq(parts, 1, k)
           IN  /\ some \in Seq(Names \X Bodies) /\ Distinct(some) /\ Len(some) = k
<1> DEFINE some == SubSeq(parts, 1, k)
<1>1. some \in Seq(Names \X Bodies) /\ Len(some) = k /\ \A i \in 1..k : some[i] = parts[i]
  OBVIOUS
<1> HIDE DEF some
<1>2. DOMAIN some = 1..k /\ DOMAIN parts = 1..Len(parts) /\ 1..k \in SUBSET (1..Len(parts))
  BY <1>1
<1>3. Distinct(some)
  BY <1>1, <1>2 DEF Distinct
<1>4. some \in Seq(Names \X Bodies) /\ Distinct(some) /\ Len(some) = k
  BY <1>1, <1>3
<1> QED
  BY <1>4 DEF some

LEMMA StoreReady ==
    ASSUME NEW t \in Trees, NEW F, Ready(t, F), NEW x \in F, x.op = "store", Runs(x),
           Cardinality(FreeIds(t)) >= Len(x.parts)
    PROVE  /\ Ready(Committed(t, Done(RunStored(t, x.user, x.at, x.parts))), F \ {x})
           /\ \A k \in 0..Len(x.parts) - 1 :
                 LET m == RunStored(t, x.user, x.at, SubSeq(x.parts, 1, k))
                 IN  Ready(Committed(t, Raised(DeletedTree(m, x.user, x.at).tree)), F \ {x})
<1> DEFINE p == x.at
           u == x.user
           parts == x.parts
<1>1. /\ p \in Paths /\ Len(p) = 1 /\ Len(p) < MaxDepth /\ u \in Users
      /\ parts \in Seq(Names \X Bodies) /\ Distinct(parts) /\ Len(parts) > 0
      /\ parts[1][1] = Meta
  BY DEF Runs
<1>2. /\ Matched(t) /\ Rooted(t) /\ Vacant(t, p)
      /\ \A y \in F \ {x} : y.op = "store" => y.at # p
  BY DEF Ready
<1>3. Cardinality(FreeIds(t)) >= Len(parts) /\ Len(parts) \in Nat
  BY <1>1
<1> HIDE DEF p, u, parts
<1>4. Ready(Committed(t, Done(RunStored(t, u, p, parts))), F \ {x})
  <2> DEFINE n == RunStored(t, u, p, parts)
             k == Len(parts)
  <2>1. Grown(t, n, p, parts, k)
    BY <1>1, <1>2, <1>3, RunGrown
  <2>2. k \in 1..Len(parts) /\ k \in 0..Len(parts)
    BY <1>1, <1>3
  <2> HIDE DEF n, k
  <2>3. n \in Trees /\ Matched(n)
    BY <2>1 DEF Grown
  <2>4. Rooted(n)
    BY <1>1, <1>2, <2>1, <2>2, GrownRooted
  <2>5. \A y : Vacant(t, y) /\ y # p => Vacant(n, y)
    BY <1>1, <2>1, <2>2, GrownVacant
  <2>6. Ready(n, F \ {x})
    BY <1>2, <2>3, <2>4, <2>5, ReadyOn
  <2>7. Committed(t, Done(n)) = n
    BY <2>3, Ended
  <2> QED
    BY <2>6, <2>7 DEF n
<1>5. ASSUME NEW k \in 0..Len(parts) - 1
      PROVE  LET m == RunStored(t, u, p, SubSeq(parts, 1, k))
             IN  Ready(Committed(t, Raised(DeletedTree(m, u, p).tree)), F \ {x})
  <2> DEFINE some == SubSeq(parts, 1, k)
             m == RunStored(t, u, p, some)
             n == Committed(t, Raised(DeletedTree(m, u, p).tree))
  <2>1. k \in 0..Len(parts) /\ k <= Len(parts) /\ k \in Nat
    BY <1>3
  <2>2. some \in Seq(Names \X Bodies) /\ Distinct(some) /\ Len(some) = k
    BY <1>1, <2>1, FirstParts
  <2> HIDE DEF some
  <2>3. Cardinality(FreeIds(t)) >= Len(some)
    BY <1>3, <2>1, <2>2, FreeIdsCounted
  <2>4. Grown(t, m, p, some, Len(some))
    BY <1>1, <1>2, <2>2, <2>3, RunGrown
  <2> HIDE DEF m
  <2>5. Len(some) \in 0..Len(some)
    BY <2>1, <2>2
  <2>6. Alike(t, n)
    BY <1>1, <1>2, <2>2, <2>4, <2>5, FailedRun
  <2> HIDE DEF n
  <2>7. Ready(n, F \ {x})
    BY <2>6, ReadyAlike
  <2> QED
    BY <2>7 DEF n, m, some
<1> QED
  BY <1>4, <1>5 DEF p, u, parts

LEMMA DeleteReady ==
    ASSUME NEW t \in Trees, NEW F, Ready(t, F), NEW G \in SUBSET F, NEW u,
           NEW p \in Paths, Len(p) = 1
    PROVE  Ready(Committed(t, DeletedTree(t, u, p)), G)
<1>1. Matched(t) /\ Rooted(t)
  BY DEF Ready
<1>2. CASE DeletedTree(t, u, p) = Raised(t)
  BY <1>2, RolledBack, ReadyAlike
<1>3. CASE \E n \in Trees : DeletedTree(t, u, p) = Done(n) /\ Cut(t, n, p)
  <2>1. PICK n \in Trees : DeletedTree(t, u, p) = Done(n) /\ Cut(t, n, p)
    BY <1>3
  <2>2. Matched(n) /\ Rooted(n) /\ \A y : Vacant(t, y) => Vacant(n, y)
    BY <1>1, <2>1, CutMatched
  <2>3. Ready(n, G)
    BY <2>2, ReadyOn
  <2>4. Committed(t, DeletedTree(t, u, p)) = n
    BY <2>1, Ended
  <2> QED
    BY <2>3, <2>4
<1>4. \/ DeletedTree(t, u, p) = Raised(t)
      \/ \E n \in Trees : DeletedTree(t, u, p) = Done(n) /\ Cut(t, n, p)
  BY <1>1, RunCut
<1> QED
  BY <1>2, <1>3, <1>4

LEMMA UnreadReady ==
    ASSUME NEW t \in Trees, NEW F, Ready(t, F), NEW G \in SUBSET F,
           NEW result, Unread(t, result)
    PROVE  Ready(Committed(t, result), G)
<1>1. Alike(t, Committed(t, Done(t))) /\ Alike(t, Committed(t, Raised(t)))
  BY RolledBack, Ended
<1> QED
  BY <1>1, ReadyAlike DEF Unread

LEMMA GetRunUnread ==
    ASSUME NEW t \in Trees, Matched(t), NEW p \in Paths, Len(p) < MaxDepth
    PROVE  ~RunBroken(t, p) => Unread(t, RunRead(t, p))
<1>1. SUFFICES ASSUME ~RunBroken(t, p) PROVE Unread(t, RunRead(t, p))
  OBVIOUS
<1>2. RunMetaOf(p) \in Paths
  BY PathAppended, LibraryAssumption DEF RunMetaOf
<1>3. ReadPath(t, RunMetaOf(p)) # None
  BY <1>1 DEF RunBroken
<1> QED
  BY <1>2, <1>3, ReadIsThere, RunReadUnread

LEMMA GetFileUnread ==
    ASSUME NEW t \in Trees, Matched(t), NEW p \in Paths, Len(p) < MaxDepth, NEW name \in Names
    PROVE  LET q == Append(p, name)
               meta == RunRead(t, p)
           IN  Unread(t, IF RunBroken(t, p) \/ ~meta.ok \/ Ambiguous(t, q)
                            \/ ReadPath(meta.tree, q) = None
                         THEN Raised(t) ELSE Done(Healed(meta.tree, q)))
<1> DEFINE q == Append(p, name)
           meta == RunRead(t, p)
           result == IF RunBroken(t, p) \/ ~meta.ok \/ Ambiguous(t, q)
                        \/ ReadPath(meta.tree, q) = None
                     THEN Raised(t) ELSE Done(Healed(meta.tree, q))
<1>1. q \in Paths
  BY PathAppended
<1>2. ASSUME ~RunBroken(t, p), ReadPath(meta.tree, q) # None
      PROVE  Healed(meta.tree, q) = t
  <2>1. Unread(t, meta)
    BY <1>2, GetRunUnread
  <2> HIDE DEF meta, q
  <2>2. meta.tree = t
    BY <2>1 DEF Unread, Done, Raised
  <2> QED
    BY <1>1, <1>2, <2>2, ReadIsThere, NothingHealed
<1> HIDE DEF q, meta
<1>3. Unread(t, result)
  BY <1>2 DEF Unread
<1> QED
  BY <1>3 DEF result, meta, q

LEMMA ArriveReady ==
    ASSUME Inv, Ready(tree, flight), NEW x, NEW admitted, Arrive(x, admitted),
           x.op = "store" => /\ Vacant(tree, x.at)
                             /\ \A y \in flight : y.op = "store" => y.at # x.at
    PROVE  Ready(tree', flight')
<1>1. tree' = tree /\ flight' = flight \cup {x}
  BY DEF Arrive
<1>2. ASSUME NEW y \in flight \cup {x}, y.op = "store"
      PROVE  Vacant(tree, y.at) /\ \A z \in flight \cup {x} : z.op = "store" /\ z.at = y.at => z = y
  <2>1. CASE y = x
    BY <1>2, <2>1
  <2>2. CASE y # x
    <3>1. y \in flight
      BY <2>2
    <3>2. Vacant(tree, y.at) /\ \A z \in flight : z.op = "store" /\ z.at = y.at => z = y
      BY <1>2, <3>1 DEF Ready
    <3>3. x.op = "store" => x.at # y.at
      BY <1>2, <3>1
    <3> QED
      BY <3>2, <3>3
  <2> QED
    BY <2>1, <2>2
<1>3. Ready(tree, flight \cup {x})
  BY <1>2 DEF Ready
<1> QED
  BY <1>1, <1>3

LEMMA RunsApiReady ==
    ASSUME Inv, Ready(tree, flight), NEW x, Runs(x), RunsApi(x), ~StoreDies(x)
    PROVE  Ready(tree', flight')
<1>1. tree \in Trees /\ Matched(tree) /\ Rooted(tree)
  BY DEF Inv, Ready
<1>2. x.user \in Users /\ x.at \in Paths
  BY DEF Runs
<1>3. flight \ {x} \in SUBSET flight
  OBVIOUS
<1>4. CASE ArriveStore(x)
  <2>1. Arrive(x, ValidRun(x) /\ QuotaAdmits(x) /\ ~Exists(tree, x.at)) /\ x.op = "store"
    BY <1>4 DEF ArriveStore
  <2>2. ~Exists(tree, x.at)
    BY <2>1 DEF Arrive
  <2>3. Len(x.at) = 1
    BY <2>1 DEF Runs
  <2>4. Vacant(tree, x.at)
    BY <1>1, <1>2, <2>2, <2>3, RunExists
  <2>5. \A y \in flight : y.op = "store" => y.at # x.at
    BY <1>4 DEF ArriveStore
  <2> DEFINE admitted == ValidRun(x) /\ QuotaAdmits(x) /\ ~Exists(tree, x.at)
  <2>6. Arrive(x, admitted)
    BY <2>1
  <2> HIDE DEF admitted
  <2> QED
    BY <2>4, <2>5, <2>6, ArriveReady
<1>5. CASE ArriveRun(x) \/ ArriveGetRun(x) \/ ArriveGetFile(x)
  <2>1. x.op # "store" /\ \E admitted \in {TRUE, Exists(tree, x.at)} : Arrive(x, admitted)
    BY <1>5 DEF ArriveRun, ArriveGetRun, ArriveGetFile
  <2> QED
    BY <2>1, ArriveReady
<1>6. CASE StoreRun(x)
  <2> DEFINE n == RunStored(tree, x.user, x.at, x.parts)
  <2>1. /\ Cardinality(FreeIds(tree)) >= Len(x.parts) /\ Finish(x, "store", Done(n))
    BY <1>6 DEF StoreRun, Enough
  <2>2. Ready(Committed(tree, Done(n)), flight \ {x})
    <3>1. x \in flight /\ x.op = "store"
      BY <2>1 DEF Finish
    <3> QED
      BY <1>1, <2>1, <3>1, StoreReady
  <2> QED
    BY <2>1, <2>2 DEF Finish
<1>7. CASE StoreFails(x)
  <2>1. Cardinality(FreeIds(tree)) >= Len(x.parts)
    BY <1>7 DEF StoreFails, Enough
  <2>2. PICK k \in 0..Len(x.parts) - 1 :
          FinishFaulty(x, "store", "store",
              Raised(DeletedTree(RunStored(tree, x.user, x.at, SubSeq(x.parts, 1, k)),
                                 x.user, x.at).tree))
    BY <1>7 DEF StoreFails, Partly
  <2> DEFINE m == RunStored(tree, x.user, x.at, SubSeq(x.parts, 1, k))
             n == DeletedTree(m, x.user, x.at).tree
  <2>3. x \in flight /\ x.op = "store" /\ tree' = Committed(tree, Raised(n))
        /\ flight' = flight \ {x}
    BY <2>2 DEF FinishFaulty
  <2>4. Ready(Committed(tree, Raised(n)), flight \ {x})
    BY <1>1, <2>1, <2>3, StoreReady
  <2> QED
    BY <2>3, <2>4
<1>8. CASE DeleteRun(x)
  <2>1. Finish(x, "deleteRun", DeletedTree(tree, x.user, x.at))
    BY <1>8 DEF DeleteRun
  <2>2. Len(x.at) = 1 /\ tree' = Committed(tree, DeletedTree(tree, x.user, x.at))
        /\ flight' = flight \ {x}
    BY <2>1 DEF Finish, Runs
  <2> QED
    BY <1>1, <1>2, <1>3, <2>2, DeleteReady
<1>9. CASE ListRuns(x)
  <2>1. Unread(tree, RunsListed(tree))
    BY <1>1, RunsListedUnread
  <2>2. tree' = Committed(tree, RunsListed(tree)) /\ flight' = flight \ {x}
    BY <1>9 DEF ListRuns, Finish
  <2> QED
    BY <1>1, <1>3, <2>1, <2>2, UnreadReady
<1>10. CASE GetRun(x)
  <2> DEFINE result == IF RunBroken(tree, x.at) THEN Raised(tree) ELSE RunRead(tree, x.at)
  <2>1. x.op = "getRun" /\ tree' = Committed(tree, result) /\ flight' = flight \ {x}
    BY <1>10 DEF GetRun, Finish
  <2>2. Len(x.at) < MaxDepth
    BY <2>1 DEF Runs
  <2>3. ~RunBroken(tree, x.at) => Unread(tree, RunRead(tree, x.at))
    BY <1>1, <1>2, <2>2, GetRunUnread
  <2>4. Unread(tree, result)
    BY <2>3 DEF Unread
  <2> HIDE DEF result
  <2> QED
    BY <1>1, <1>3, <2>1, <2>4, UnreadReady
<1>11. CASE GetFile(x)
  <2> DEFINE q == Append(x.at, x.to)
             meta == RunRead(tree, x.at)
             result == IF RunBroken(tree, x.at) \/ ~meta.ok \/ Ambiguous(tree, q)
                          \/ ReadPath(meta.tree, q) = None
                       THEN Raised(tree) ELSE Done(Healed(meta.tree, q))
  <2>1. Finish(x, "getFile", result)
    BY <1>11 DEF GetFile
  <2>2. x.op = "getFile" /\ tree' = Committed(tree, result) /\ flight' = flight \ {x}
    BY <2>1 DEF Finish
  <2>3. Len(x.at) < MaxDepth /\ x.to \in Names
    BY <2>2 DEF Runs
  <2>4. Unread(tree, result)
    BY <1>1, <1>2, <2>3, GetFileUnread
  <2> HIDE DEF result
  <2> QED
    BY <1>1, <1>3, <2>2, <2>4, UnreadReady
<1> QED
  BY <1>4, <1>5, <1>6, <1>7, <1>8, <1>9, <1>10, <1>11 DEF RunsApi

LEMMA FaultsStay ==
    ASSUME Inv, NEW x, NEW op, NEW kind, NEW result, FinishFaulty(x, op, kind, result)
    PROVE  /\ Unaborted' => Unaborted
           /\ kind = "abort" => ~Unaborted'
<1> DEFINE f == spent.faults
<1>1. f \in Seq(Faults[section]) /\ kind \in Faults[section] /\ spent'.faults = Append(f, kind)
  <2>1. spent \in [requests : 0..MaxRequests, faults : Seq(Faults[section])]
    BY DEF Inv
  <2> QED
    BY <2>1 DEF FinishFaulty
<1> HIDE DEF f
<1> DEFINE g == Append(f, kind)
<1>2. Len(g) = Len(f) + 1 /\ g[Len(f) + 1] = kind /\ Len(f) \in Nat
      /\ DOMAIN f = 1..Len(f) /\ DOMAIN g = 1..(Len(f) + 1)
      /\ \A i \in 1..Len(f) : g[i] = f[i]
  BY <1>1
<1> HIDE DEF g
<1>3. kind \in Range(g)
  <2>1. Len(f) + 1 \in DOMAIN g
    BY <1>2
  <2> QED
    BY <1>2, <2>1 DEF Range
<1>4. Range(f) \in SUBSET Range(g)
  <2>1. ASSUME NEW i \in DOMAIN f PROVE f[i] \in Range(g)
    <3>1. i \in DOMAIN g /\ g[i] = f[i]
      BY <1>2
    <3> QED
      BY <3>1 DEF Range
  <2> QED
    BY <2>1 DEF Range
<1>5. spent'.faults = g
  BY <1>1 DEF g
<1> QED
  BY <1>3, <1>4, <1>5 DEF Unaborted, f

LEMMA RunsApiUnaborted ==
    ASSUME Inv, NEW x, RunsApi(x), Unaborted'
    PROVE  Unaborted /\ ~StoreDies(x)
<1>1. CASE \E op, result : Finish(x, op, result)
  <2>1. spent' = spent
    BY <1>1 DEF Finish
  <2>2. Unaborted
    BY <2>1 DEF Unaborted
  <2>3. ~StoreDies(x)
    <3>1. SUFFICES ASSUME StoreDies(x) PROVE FALSE
      OBVIOUS
    <3>2. \E op, result : FinishFaulty(x, op, "abort", result)
      BY <3>1 DEF StoreDies
    <3> QED
      BY <3>2, FaultsStay
  <2> QED
    BY <2>2, <2>3
<1>2. CASE \E admitted : Arrive(x, admitted)
  <2>1. spent'.faults = spent.faults /\ flight' = flight \cup {x} /\ x \notin flight
    <3>1. spent \in [requests : 0..MaxRequests, faults : Seq(Faults[section])]
      BY DEF Inv
    <3> QED
      BY <1>2, <3>1 DEF Arrive
  <2>2. Unaborted
    BY <2>1 DEF Unaborted
  <2>3. ~StoreDies(x)
    BY <2>1 DEF StoreDies, FinishFaulty
  <2> QED
    BY <2>2, <2>3
<1>3. CASE \E op, kind, result : FinishFaulty(x, op, kind, result)
  <2>1. Unaborted
    BY <1>3, FaultsStay
  <2>2. ~StoreDies(x)
    <3>1. SUFFICES ASSUME StoreDies(x) PROVE FALSE
      OBVIOUS
    <3>2. \E op, result : FinishFaulty(x, op, "abort", result)
      BY <3>1 DEF StoreDies
    <3> QED
      BY <3>2, FaultsStay
  <2> QED
    BY <2>1, <2>2
<1>4. \/ \E op, result : Finish(x, op, result)
      \/ \E admitted : Arrive(x, admitted)
      \/ \E op, kind, result : FinishFaulty(x, op, kind, result)
  BY DEF RunsApi, ArriveStore, StoreRun, StoreFails, StoreDies, ArriveRun, ListRuns,
         DeleteRun, ArriveGetRun, GetRun, ArriveGetFile, GetFile
<1> QED
  BY <1>1, <1>2, <1>3, <1>4

LEMMA StepRuns ==
    ASSUME Inv, RunsInv, [Next]_vars
    PROVE  RunsInv'
<1>1. SUFFICES ASSUME section' = "GENERATED", Unaborted' PROVE Ready(tree', flight')
  BY DEF RunsInv
<1>2. CASE UNCHANGED vars
  BY <1>1, <1>2 DEF vars, RunsInv, Unaborted
<1>3. CASE Archive \/ CleanPending
  <2>1. section' = section /\ spent' = spent /\ flight' = flight /\ tree \in Trees
    BY <1>3 DEF Archive, CleanPending, Inv
  <2>2. Ready(tree, flight)
    BY <1>1, <2>1 DEF RunsInv, Unaborted
  <2>3. flight \in SUBSET flight
    OBVIOUS
  <2>4. CASE Archive
    <3>1. PICK r \in Ids : /\ tree.row[r].status = "committed"
                           /\ HasObject(tree, tree.row[r].path)
                           /\ tree' = ArchivedFile(tree, r)
      BY <2>4 DEF Archive
    <3> DEFINE n == ArchivedFile(tree, r)
    <3>2. Matched(tree) /\ Rooted(tree)
      BY <2>2 DEF Ready
    <3>3. /\ Matched(n) /\ n.dirs = tree.dirs /\ LiveRows(n) = LiveRows(tree)
          /\ \A x \in LiveRows(tree) : n.row[x].path = tree.row[x].path
      BY <2>1, <3>1, <3>2, ArchivedMatched
    <3> HIDE DEF n
    <3>4. Rooted(n) /\ \A y : Vacant(tree, y) => Vacant(n, y)
      BY <3>2, <3>3, SamePathsRooted
    <3>5. Ready(n, flight)
      BY <2>2, <2>3, <3>3, <3>4, ReadyOn
    <3> QED
      BY <2>1, <3>1, <3>5 DEF n
  <2>5. CASE CleanPending
    BY <2>1, <2>2, <2>3, <2>5, PendingAlike, ReadyAlike DEF CleanPending
  <2> QED
    BY <1>3, <2>4, <2>5
<1>4. CASE \E x \in Requests[section] :
              FilesApi(x) \/ ResumesApi(x) \/ RunsApi(x) \/ ArrivePurge(x) \/ PurgeUser(x)
  <2> PICK x \in Requests[section] :
         FilesApi(x) \/ ResumesApi(x) \/ RunsApi(x) \/ ArrivePurge(x) \/ PurgeUser(x)
    BY <1>4
  <2>1. section' = section
    BY FilesApiMoves, ResumesApiMoves, RunsApiMoves, PurgeMoves DEF Moves
  <2>2. section = "GENERATED" /\ section \in Sections
    BY <1>1, <2>1 DEF Inv
  <2>3. Runs(x)
    BY <2>2, RunsAsked
  <2>4. x.op \in RunsRequests
    BY <2>3 DEF Runs
  <2>5. RunsApi(x)
    <3>1. x.op \notin FilesRequests /\ x.op \notin ResumesRequests /\ x.op # "purge"
      BY <2>4 DEF FilesRequests, ResumesRequests, RunsRequests
    <3> QED
      BY <3>1, FilesApiMoves, ResumesApiMoves, PurgeMoves
  <2>6. Unaborted /\ ~StoreDies(x)
    BY <1>1, <2>5, RunsApiUnaborted
  <2>7. Ready(tree, flight)
    BY <2>2, <2>6 DEF RunsInv
  <2> QED
    BY <2>3, <2>5, <2>6, <2>7, RunsApiReady
<1> QED
  BY <1>2, <1>3, <1>4 DEF Next

LEMMA InitRuns ==
    ASSUME Init
    PROVE  RunsInv
<1>1. SUFFICES ASSUME section = "GENERATED" PROVE Ready(tree, flight)
  BY DEF RunsInv
<1>2. section \in Sections /\ tree = EmptyTree(Start[section]) /\ flight = {}
  BY DEF Init
<1>3. Start[section] = {}
  BY <1>1, <1>2, RunsAssumption
<1>4. LiveRows(tree) = {} /\ DOMAIN tree.obj = {} /\ tree.dirs = {}
  BY <1>2, <1>3 DEF EmptyTree, LiveRows, Live, NoRow
<1> QED
  BY <1>2, <1>4 DEF Ready, Matched, Rooted

LEMMA RunsInvHolds ==
    ASSUME RunsInv
    PROVE  RunsLeaveNothingBehind
<1>1. SUFFICES ASSUME section = "GENERATED", Unaborted
               PROVE /\ {KeyOf(tree.row[r]) : r \in LiveRows(tree)} = DOMAIN tree.obj
                     /\ \A r, s \in LiveRows(tree) :
                           KeyOf(tree.row[r]) = KeyOf(tree.row[s]) => r = s
  BY DEF RunsLeaveNothingBehind
<1>2. Matched(tree)
  BY <1>1 DEF RunsInv, Ready
<1>3. \A r \in LiveRows(tree) : KeyOf(tree.row[r]) \in DOMAIN tree.obj
  BY <1>2 DEF Matched
<1>4. \A k \in DOMAIN tree.obj : \E r \in LiveRows(tree) : KeyOf(tree.row[r]) = k
  BY <1>2 DEF Matched
<1>5. ASSUME NEW r \in LiveRows(tree), NEW s \in LiveRows(tree),
             KeyOf(tree.row[r]) = KeyOf(tree.row[s])
      PROVE  r = s
  <2>1. tree.row[r].path = tree.row[s].path
    BY <1>2, <1>5, KeyOfAt
  <2> QED
    BY <1>2, <2>1 DEF Matched
<1> QED
  BY <1>3, <1>4, <1>5

-----------------------------------------------------------------------------
(* What holds of every behaviour of the library.                            *)

(* Every tree is a tree: of whatever a request, half a request or a nightly job   *)
(* leaves behind, keys and records have paths of at most MaxDepth names, every    *)
(* object has contents, and no more requests are in flight than are let in.       *)
THEOREM LibraryTyped == Spec => []TypeOK
<1>1. Spec => []Inv
  <2>1. Init => Inv
    BY InitInv
  <2>2. Inv /\ [Next]_vars => Inv'
    BY StepInv
  <2> QED
    BY <2>1, <2>2, PTL DEF Spec
<1>2. Inv => TypeOK
  BY InvTypes
<1> QED
  BY <1>1, <1>2, PTL

(* user_quota_usage is the sum of the user's live records at every commit. It     *)
(* holds of every operation on a tree of one user, and in the shared section     *)
(* because delete_directory_recursive, which gives back to its caller what         *)
(* others own in the directory, is not what delete_by_path does there.           *)
THEOREM LibraryQuota == Spec => []QuotaIsTheLiveRows
<1>1. Spec => []Inv
  <2>1. Init => Inv
    BY InitInv
  <2>2. Inv /\ [Next]_vars => Inv'
    BY StepInv
  <2> QED
    BY <2>1, <2>2, PTL DEF Spec
<1>2. Inv => QuotaIsTheLiveRows
  BY InvBalances
<1> QED
  BY <1>1, <1>2, PTL

(* "Total usage <= limit_bytes" (docs/Data Models.md), as far as                 *)
(* _ensure_upload_quota keeps it. It reads the usage before the body of the       *)
(* request has been read, so the usage of a user and all that user has in flight   *)
(* stay below the limit and one heaviest request for every other place in flight.  *)
THEOREM LibraryLimit == Spec => []UsageWithinLimit
<1>1. Spec => [](Inv /\ LimitInv)
  <2>1. Init => Inv /\ LimitInv
    BY InitInv, InitWithin
  <2>2. (Inv /\ LimitInv) /\ [Next]_vars => (Inv /\ LimitInv)'
    <3>1. SUFFICES ASSUME Inv, LimitInv, [Next]_vars PROVE Inv' /\ LimitInv'
      OBVIOUS
    <3>2. Inv'
      BY <3>1, StepInv
    <3> QED
      BY <3>1, <3>2, StepWithin
  <2> QED
    BY <2>1, <2>2, PTL DEF Spec
<1>2. LimitInv => UsageWithinLimit
  BY LimitInvHolds
<1> QED
  BY <1>1, <1>2, PTL

(* In the shared section a user who is no ADMIN and deletes a file takes nothing   *)
(* from anyone else.                                                        *)
THEOREM SharedFilesSurvive == Spec => OthersFilesSurvive
<1>1. Spec => [](Inv /\ PlacedInv)
  <2>1. Init => Inv /\ PlacedInv
    BY InitInv, InitPlaced
  <2>2. (Inv /\ PlacedInv) /\ [Next]_vars => (Inv /\ PlacedInv)'
    <3>1. SUFFICES ASSUME Inv, PlacedInv, [Next]_vars PROVE Inv' /\ PlacedInv'
      OBVIOUS
    <3> QED
      BY <3>1, StepInv, StepPlaced
  <2> QED
    BY <2>1, <2>2, PTL DEF Spec
<1>2. (Inv /\ PlacedInv) /\ [Next]_vars => [OthersFilesSpared]_vars
  BY StepSpares
<1>3. Spec => [][OthersFilesSpared]_vars
  BY <1>1, <1>2, PTL DEF Spec
<1> QED
  BY <1>3 DEF OthersFilesSpared, OthersFilesSurvive

(* In the section of the generated images every object has one record and every    *)
(* record its object, unless a request has ended between the bucket and its        *)
(* commit. A store looks for its directory once, before it reads anything, and      *)
(* writes under a name that no other run gets; it takes back what it wrote when it   *)
(* fails; and a run is deleted with the archives of its files.                    *)
THEOREM RunsAreWhole == Spec => []RunsLeaveNothingBehind
<1>1. Spec => [](Inv /\ RunsInv)
  <2>1. Init => Inv /\ RunsInv
    BY InitInv, InitRuns
  <2>2. (Inv /\ RunsInv) /\ [Next]_vars => (Inv /\ RunsInv)'
    <3>1. SUFFICES ASSUME Inv, RunsInv, [Next]_vars PROVE Inv' /\ RunsInv'
      OBVIOUS
    <3> QED
      BY <3>1, StepInv, StepRuns
  <2> QED
    BY <2>1, <2>2, PTL DEF Spec
<1>2. RunsInv => RunsLeaveNothingBehind
  BY RunsInvHolds
<1> QED
  BY <1>1, <1>2, PTL
=============================================================================
