------------------------------- MODULE FileTree -------------------------------
(***************************************************************************)
(* One section of the library as its services see it: a tree of objects in  *)
(* the bucket, the file_records that describe them, and the bytes charged   *)
(* to their owners. The bucket has keys and no directories: a directory is  *)
(* a marker key, or any key below it.                                        *)
(*                                                                          *)
(* A tree t is a record                                                     *)
(*   obj    the bucket: a partial function from keys to bodies              *)
(*   dirs   the directory markers                                           *)
(*   row    file_records                                                    *)
(*   used   user_quota_usage.total_bytes of every user                      *)
(* and an operation is an operator from a tree to a tree, or, where it can  *)
(* raise, to a record [tree, ok]: what it did to the bucket before it raised *)
(* stays done, the rest is rolled back by the request.                       *)
(*                                                                          *)
(* Left out: .tmp/<record id>, through which every write passes, and the     *)
(* column original_name, which is always the last name of relative_path.     *)
(***************************************************************************)
EXTENDS Integers, FiniteSets, SequencesExt

CONSTANTS Names,    \* names of files and directories
          MaxDepth, \* bound: names in a path
          Ids,      \* file record ids: numbers, taken in order
          Users,
          Admins,   \* users with the role ADMIN
          Bodies,   \* contents: numbers, so that sizes can differ
          Limit,    \* limit_bytes of every user, 0 for no limit
          None

ASSUME TreeAssumption ==
    /\ IsFiniteSet(Names) /\ IsFiniteSet(Ids) /\ IsFiniteSet(Users)
    /\ MaxDepth \in Nat
    /\ Ids \subseteq Nat /\ Bodies \subseteq Nat \ {0}
    /\ Admins \subseteq Users
    /\ Limit \in Nat
    /\ None \notin Names \cup Users /\ None \notin Bodies

Root == <<>>
Paths == UNION {[1..n -> Names] : n \in 0..MaxDepth}
Size(b) == b

(* The archive job stores path.zst beside path. *)
Keys == [at : Paths, zst : BOOLEAN]
Hot(p) == [at |-> p, zst |-> FALSE]
Zst(p) == [at |-> p, zst |-> TRUE]

(* is_archived is TRUE of the rows whose status is ARCHIVED, and of deleted  *)
(* ones. blob is the path without the extension in archive_path.             *)
Row == [status : {"none", "pending", "committed", "archived", "deleted"},
        owner  : Users \cup {None},
        path   : Paths,
        body   : Bodies \cup {0},
        blob   : Paths]
NoRow == [status |-> "none", owner |-> None, path |-> Root, body |-> 0, blob |-> Root]

TreeType(t) ==
    /\ DOMAIN t = {"obj", "dirs", "row", "used"}
    /\ DOMAIN t.obj \subseteq Keys /\ Range(t.obj) \subseteq Bodies
    /\ t.dirs \subseteq Paths \ {Root}
    /\ t.row \in [Ids -> Row]
    /\ t.used \in [Users -> Int]

EmptyTree(dirs) ==
    [obj |-> [k \in {} |-> 0], dirs |-> dirs, row |-> [r \in Ids |-> NoRow],
     used |-> [u \in Users |-> 0]]

Done(t) == [tree |-> t, ok |-> TRUE]
Raised(t) == [tree |-> t, ok |-> FALSE]

(* commit, or rollback: the bucket keeps what was done to it. *)
Committed(before, result) ==
    IF result.ok THEN result.tree
    ELSE [result.tree EXCEPT !.row = before.row, !.used = before.used]

-----------------------------------------------------------------------------
(* S3StorageAdapter.                                                        *)

HasObject(t, p) == Hot(p) \in DOMAIN t.obj
KeysUnder(t, p) == {k \in DOMAIN t.obj : IsStrictPrefix(p, k.at)}
MarkersUnder(t, p) == {d \in t.dirs : IsPrefix(p, d)}

(* list raises where no marker and no key has the prefix. *)
IsDirectory(t, p) == p = Root \/ KeysUnder(t, p) # {} \/ MarkersUnder(t, p) # {}
Exists(t, p) == HasObject(t, p) \/ KeysUnder(t, p) # {} \/ MarkersUnder(t, p) # {}

ChildDirs(t, p) ==
    LET deeper == {k.at : k \in {x \in KeysUnder(t, p) : Len(x.at) > Len(p) + 1}}
    IN  {s[Len(p) + 1] : s \in deeper \cup (MarkersUnder(t, p) \ {p})}
ChildFiles(t, p) ==
    {Last(k.at) : k \in {x \in KeysUnder(t, p) : ~x.zst /\ Len(x.at) = Len(p) + 1}}

Stored(t, p, b) ==
    [t EXCEPT !.obj = [k \in DOMAIN @ \cup {Hot(p)} |-> IF k = Hot(p) THEN b ELSE t.obj[k]]]

(* delete takes the object at the path and every key below it. *)
Erased(t, p) ==
    [t EXCEPT !.obj = Restrict(@, DOMAIN @ \ ({Hot(p)} \cup KeysUnder(t, p))),
              !.dirs = @ \ MarkersUnder(t, p)]

(* mkdir puts a marker for every directory on the way. *)
MadeDirectory(t, p) == [t EXCEPT !.dirs = @ \cup (Prefixes(p) \ {Root})]

Regrafted(s, p, q) == q \o SubSeq(s, Len(p) + 1, Len(s))

(* Copies first, then one batch of deletes. A file is moved alone, without   *)
(* the archive beside it; a directory with all its keys, archives included.  *)
Moved(t, p, q) ==
    LET file == HasObject(t, p)
        from == IF file THEN {Hot(p)} ELSE KeysUnder(t, p)
        marks == IF file THEN {} ELSE MarkersUnder(t, p)
        to(k) == [k EXCEPT !.at = Regrafted(@, p, q)]
        came(k) == CHOOSE x \in from : to(x) = k
        dest == {to(k) : k \in from}
    IN  [t EXCEPT
          !.obj = [k \in (DOMAIN @ \ from) \cup dest |->
                      IF k \in dest THEN t.obj[came(k)] ELSE t.obj[k]],
          !.dirs = (@ \ marks) \cup {Regrafted(d, p, q) : d \in marks}]

-----------------------------------------------------------------------------
(* FileRepository and QuotaRepository.                                      *)

Live(f) == f.status \in {"committed", "archived"}
LiveRows(t) == {r \in Ids : Live(t.row[r])}

At(t, p) == {r \in LiveRows(t) : t.row[r].path = p}

LiveUnder(t, p) == {r \in LiveRows(t) : IsStrictPrefix(p, t.row[r].path)}

(* Committed rows only: an archived one keeps its path. *)
RowsMoved(t, p, q) ==
    [t EXCEPT !.row = [r \in Ids |->
        IF t.row[r].status = "committed" /\ r \in LiveUnder(t, p)
        THEN [t.row[r] EXCEPT !.path = Regrafted(@, p, q)] ELSE t.row[r]]]

RowsDeleted(t, S) ==
    [t EXCEPT !.row = [r \in Ids |->
        IF r \in S THEN [t.row[r] EXCEPT !.status = "deleted"] ELSE t.row[r]]]

FreeIds(t) == {r \in Ids : t.row[r].status = "none"}
FreshId(t) == Min(FreeIds(t))

Created(t, u, p, b, status) ==
    [t EXCEPT !.row[FreshId(t)] =
        [NoRow EXCEPT !.status = status, !.owner = u, !.path = p, !.body = b]]

Charged(t, u, bytes) == [t EXCEPT !.used[u] = @ + bytes]

WouldExceed(t, u, bytes) == Limit > 0 /\ t.used[u] + bytes > Limit

(* heal_stale_relative_path: where no row has the path, the one committed row *)
(* of that file name is moved to it.                                        *)
Namesakes(t, p) ==
    {r \in Ids : t.row[r].status = "committed" /\ Last(t.row[r].path) = Last(p)}
Heals(t, p) == p # Root /\ At(t, p) = {} /\ Cardinality(Namesakes(t, p)) = 1

Found(t, p) == IF Heals(t, p) THEN Namesakes(t, p) ELSE At(t, p)
Healed(t, p) ==
    [t EXCEPT !.row = [r \in Ids |->
        IF Heals(t, p) /\ r \in Namesakes(t, p) THEN [t.row[r] EXCEPT !.path = p]
        ELSE t.row[r]]]

(* scalar_one_or_none raises on a second row. *)
Ambiguous(t, p) == Cardinality(At(t, p)) > 1

-----------------------------------------------------------------------------
(* FileService.                                                             *)

(* list_directory: an archived file is shown under the name it had. *)
ArchivedChildren(t, p) ==
    {Last(t.row[r].path) : r \in {x \in Ids : t.row[x].status = "archived"
                                              /\ t.row[x].path # Root
                                              /\ Front(t.row[x].path) = p}}
Listed(t, p) == ChildDirs(t, p) \cup ChildFiles(t, p) \cup ArchivedChildren(t, p)

(* What a reader gets: the archive of an archived record, else the object.   *)
(* None stands for not found.                                               *)
ReadRow(t, r) ==
    LET k == IF t.row[r].status = "archived" THEN Zst(t.row[r].blob) ELSE Hot(t.row[r].path)
    IN  IF k \in DOMAIN t.obj THEN t.obj[k] ELSE None
ReadPath(t, p) ==
    IF \E r \in Found(t, p) : t.row[r].status = "archived"
    THEN ReadRow(t, CHOOSE r \in Found(t, p) : TRUE)
    ELSE IF HasObject(t, p) THEN t.obj[Hot(p)] ELSE None

Uploaded(t, u, p, b) == Charged(Created(Stored(t, p, b), u, p, b, "committed"), u, Size(b))

(* _ensure_overwrite_quota: only what the file grows by is checked. *)
GrowthRefused(t, u, more) == more > 0 /\ WouldExceed(t, u, more)

(* The row stays what it was, archived or not; the quota pays the difference. *)
Overwritten(t, u, p, b) ==
    LET h == Healed(t, p)
        r == CHOOSE x \in Found(t, p) : TRUE
        more == Size(b) - Size(t.row[r].body)
    IN  CASE Ambiguous(t, p) -> Raised(t)
          [] Found(t, p) = {} -> Done(Uploaded(t, u, p, b))
          [] OTHER ->
                IF GrowthRefused(t, u, more) THEN Raised(t)
                ELSE Done(Charged([Stored(h, p, b) EXCEPT !.row[r].body = b], u, more))

(* delete_archived_blob erases through archive_path, if it is there. *)
BlobErased(t, r) ==
    IF t.row[r].status = "archived"
    THEN [t EXCEPT !.obj = Restrict(@, DOMAIN @ \ {Zst(t.row[r].blob)})] ELSE t

(* Slip: the bytes are given back to the user who deletes. *)
DeletedFileForActor(t, u, r) ==
    LET f == t.row[r]
        bare == IF f.status = "archived" THEN BlobErased(t, r) ELSE Erased(t, f.path)
    IN  Charged(RowsDeleted(bare, {r}), u, 0 - Size(f.body))

DeletedFile(t, u, r) ==
    LET f == t.row[r]
        bare == IF f.status = "archived" THEN BlobErased(t, r) ELSE Erased(t, f.path)
    IN  Charged(RowsDeleted(bare, {r}), f.owner, 0 - Size(f.body))

(* Slip: whoever sees a file deletes it. *)
MayDeleteAny(sec, t, u, r) == TRUE

(* In the shared section, only the owner and an ADMIN delete a file. *)
MayDelete(sec, t, u, r) == sec = "SHARED" /\ u \notin Admins => t.row[r].owner = u

BytesOf(t, S) == SumFunctionOnSet([r \in Ids |-> Size(t.row[r].body)], S)

BlobsErased(t, S) ==
    [t EXCEPT !.obj = Restrict(@, DOMAIN @ \
        {Zst(t.row[r].blob) : r \in {x \in S : t.row[x].status = "archived"}})]

(* Slip: the records of archived files are left alone. *)
DeletedTreeKeepingArchived(t, u, p) ==
    LET S == {r \in LiveUnder(t, p) : t.row[r].status = "committed"}
    IN  IF p = Root \/ ~Exists(t, p) \/ ~IsDirectory(t, p) THEN Raised(t)
        ELSE Done(Charged(RowsDeleted(BlobsErased(Erased(t, p), S), S), u, 0 - BytesOf(t, S)))

(* delete_directory_recursive. *)
DeletedTree(t, u, p) ==
    LET S == LiveUnder(t, p)
    IN  IF p = Root \/ ~Exists(t, p) \/ ~IsDirectory(t, p) THEN Raised(t)
        ELSE Done(Charged(RowsDeleted(BlobsErased(Erased(t, p), S), S), u, 0 - BytesOf(t, S)))

(* delete_by_path. Outside the FILES section a directory loses its keys and  *)
(* keeps its records.                                                       *)
DeletedPath(sec, t, u, p) ==
    LET r == CHOOSE x \in Found(t, p) : TRUE
    IN  IF Ambiguous(t, p) THEN Raised(t)
        ELSE IF Found(t, p) # {} THEN
            IF MayDelete(sec, t, u, r) THEN Done(DeletedFile(Healed(t, p), u, r)) ELSE Raised(t)
        ELSE IF ~Exists(t, p) THEN Raised(t)
        ELSE IF IsDirectory(t, p) /\ sec = "FILES" /\ p # Root THEN DeletedTree(t, u, p)
        ELSE Done(Erased(t, p))

(* Slip: the records of a renamed directory keep their paths. *)
RenamedPathWithoutRows(t, p, n) ==
    IF ~Exists(t, p) \/ ~IsDirectory(t, p) THEN Raised(t)
    ELSE Done(Moved(t, p, Append(Front(p), n)))

(* Slip: the new name is put below the old path. *)
RenamedPathBelow(t, p, n) ==
    IF ~Exists(t, p) \/ ~IsDirectory(t, p) THEN Raised(t)
    ELSE Done(RowsMoved(Moved(t, p, Append(p, n)), p, Append(p, n)))

(* rename_by_path. *)
RenamedPath(t, p, n) ==
    LET q == Append(Front(p), n)
        r == CHOOSE x \in Found(t, p) : TRUE
    IN  IF ~Exists(t, p) THEN Raised(t)
        ELSE IF IsDirectory(t, p) THEN Done(RowsMoved(Moved(t, p, q), p, q))
        ELSE IF Ambiguous(t, p) \/ Found(t, p) = {} THEN Raised(t)
        ELSE IF t.row[r].status = "archived" THEN Raised(t)
        ELSE Done([Moved(Healed(t, p), p, q) EXCEPT !.row[r].path = q])

(* One entry of an archive: a failed one leaves its PENDING record, and the   *)
(* extraction goes on.                                                      *)
ExtractedEntry(t, u, root, entry, fails) ==
    LET p == Append(root, entry[1])
    IN  IF fails THEN Created(t, u, p, entry[2], "pending")
        ELSE Uploaded(t, u, p, entry[2])

(* upload_zip_folder: the entries go to a new directory named after the file. *)
Extracted(t, u, p, n, entries, failed) ==
    LET root == Append(p, n)
    IN  FoldLeftDomain(LAMBDA acc, i :
            ExtractedEntry(acc, u, root, entries[i], i \in failed),
            MadeDirectory(t, root), entries)

-----------------------------------------------------------------------------
(* The archive run, the cleanup and the deletion of a user, as they act on   *)
(* the tree; FileLifecycle has the archive run step by step.                  *)

ArchivedFile(t, r) ==
    LET p == t.row[r].path
    IN  [t EXCEPT
          !.obj = [k \in (DOMAIN @ \ {Hot(p)}) \cup {Zst(p)} |->
                      IF k = Zst(p) THEN t.obj[Hot(p)] ELSE t.obj[k]],
          !.row[r].status = "archived", !.row[r].blob = p]

(* cleanup_pending_records. *)
PendingRemoved(t) ==
    [t EXCEPT !.row = [r \in Ids |-> IF t.row[r].status = "pending" THEN NoRow ELSE t.row[r]]]

(* delete_user erases what the records of the user point at, deleted records *)
(* included, and the records go with the user.                               *)
UserDeleted(t, u) ==
    LET mine == {r \in Ids : t.row[r].owner = u}
        blobs == {t.row[r].blob : r \in {x \in mine : t.row[x].blob # Root}}
        paths == {t.row[r].path : r \in {x \in mine : t.row[x].blob = Root}}
    IN  [t EXCEPT
          !.obj = Restrict(@, {k \in DOMAIN @ :
              /\ \A p \in paths : k # Hot(p) /\ ~IsStrictPrefix(p, k.at)
              /\ \A p \in blobs : k # Zst(p)}),
          !.dirs = {d \in @ : \A p \in paths : ~IsPrefix(p, d)},
          !.row = [r \in Ids |-> IF r \in mine THEN NoRow ELSE t.row[r]],
          !.used[u] = 0]
=============================================================================
