----------------------------- MODULE GeneratedRuns -----------------------------
(***************************************************************************)
(* GeneratedService: one directory per run of the image generator, with a    *)
(* meta.yaml, the references and the result, in the section GENERATED. The   *)
(* files are immutable; a run is deleted as a whole.                         *)
(***************************************************************************)
EXTENDS Library

RunDirs(t) == {<<n>> : n \in ChildDirs(t, Root)}
RunMetaOf(p) == Append(p, Meta)

RunStored(t, u, p, parts) ==
    FoldLeft(LAMBDA acc, e : Uploaded(acc, u, Append(p, e[1]), e[2]), MadeDirectory(t, p), parts)

(* read_by_path looks the record up, and heals it, before it looks for the   *)
(* object. A run without a readable meta.yaml is skipped in the list and an   *)
(* error on its own page.                                                   *)
RunRead(t, p) ==
    IF Ambiguous(t, RunMetaOf(p)) THEN Raised(t) ELSE Done(Healed(t, RunMetaOf(p)))
RunBroken(t, p) == ReadPath(t, RunMetaOf(p)) \in Garbled \cup {None}

RunsListed(t) ==
    FoldLeft(LAMBDA acc, p : IF acc.ok THEN RunRead(acc.tree, p) ELSE acc,
             Done(t), SetToSeq(RunDirs(t)))

-----------------------------------------------------------------------------
(* /api/generated.                                                          *)

(* Numbers and prompt are checked before anything is stored, so a run begins   *)
(* with a meta.yaml that parses.                                            *)
ValidRun(x) == \A e \in Range(x.parts) : e[1] = Meta => e[2] \notin Garbled

(* The id of a run is made of the time and a random number until it is free,  *)
(* and no two requests draw the same.                                       *)
ArriveStore(x) ==
    /\ x.op = "store" /\ \A y \in flight : y.op = "store" => y.at # x.at
    /\ Arrive(x, ValidRun(x) /\ QuotaAdmits(x) /\ ~Exists(tree, x.at))
StoreRun(x) ==
    /\ Enough(Len(x.parts))
    /\ Finish(x, "store", Done(RunStored(tree, x.user, x.at, x.parts)))

(* A write fails: the directory is removed, then the request is rolled back. *)
Partly(x, n) == RunStored(tree, x.user, x.at, SubSeq(x.parts, 1, n))
StoreFails(x) ==
    /\ Enough(Len(x.parts))
    /\ \E n \in 0..Len(x.parts) - 1 :
          FinishFaulty(x, "store", "store",
                       Raised(DeletedTree(Partly(x, n), x.user, x.at).tree))

(* The process ends in the middle, or the removal fails too. *)
StoreDies(x) ==
    /\ Enough(Len(x.parts))
    /\ \E n \in 0..Len(x.parts) : FinishFaulty(x, "store", "abort", Raised(Partly(x, n)))

ArriveRun(x) == x.op \in {"listRuns", "deleteRun"} /\ Arrive(x, TRUE)
ListRuns(x) == Finish(x, "listRuns", RunsListed(tree))

ArriveGetRun(x) == x.op = "getRun" /\ Arrive(x, Exists(tree, x.at))
GetRun(x) ==
    Finish(x, "getRun", IF RunBroken(tree, x.at) THEN Raised(tree) ELSE RunRead(tree, x.at))

(* A file the meta.yaml lists; the heal is committed once it has been sent.   *)
ArriveGetFile(x) == x.op = "getFile" /\ Arrive(x, Exists(tree, x.at))
GetFile(x) ==
    LET p == Append(x.at, x.to)
        meta == RunRead(tree, x.at)
    IN  Finish(x, "getFile",
               IF RunBroken(tree, x.at) \/ ~meta.ok \/ Ambiguous(tree, p)
                  \/ ReadPath(meta.tree, p) = None
               THEN Raised(tree) ELSE Done(Healed(meta.tree, p)))

DeleteRun(x) == Finish(x, "deleteRun", DeletedTree(tree, x.user, x.at))

RunsApi(x) ==
    \/ ArriveStore(x) \/ StoreRun(x) \/ StoreFails(x) \/ StoreDies(x)
    \/ ArriveRun(x) \/ ListRuns(x) \/ DeleteRun(x)
    \/ ArriveGetRun(x) \/ GetRun(x) \/ ArriveGetFile(x) \/ GetFile(x)
=============================================================================
