-------------------------------- MODULE Resumes --------------------------------
(***************************************************************************)
(* ResumeService: vacancies, kept as directories country/company/vacancy in  *)
(* the section RESUMES. Every vacancy has a meta.yaml, the root a            *)
(* statuses.yaml; both are files like any other, with a record and a size,   *)
(* and both are written through overwrite_file.                              *)
(*                                                                          *)
(* Of a document only its identity matters: a body is either one of Garbled,  *)
(* which _parse_meta and _parse_statuses refuse, or a document they accept.   *)
(***************************************************************************)
EXTENDS Library

CONSTANTS StatusFile, \* the name statuses.yaml
          Blank       \* contents of a new meta.yaml and of seeded statuses

ASSUME ResumesAssumption == StatusFile \in Names /\ Blank \in Bodies \ Garbled

NodeDepth == 3
IsNode(p) == Len(p) \in 1..NodeDepth
IsVacancy(p) == Len(p) = NodeDepth
MetaOf(p) == Append(p, Meta)

NodeExists(p) == p = Root \/ Exists(tree, p)

(* Compared without regard to case: Names holds one name of each case. Names *)
(* of the two files are refused.                                            *)
ValidName(n) == n \in Names \ {Meta, StatusFile}

(* _validate_fields and _validate_statuses. *)
ValidBody(b) == b \notin Garbled
UniqueSibling(p, n) == n \notin Listed(tree, p)

(* _read_file: what is not in the bucket under its own name, archived or     *)
(* not, is missing. Where it is there the record is looked up, and healed.   *)
FileRead(t, p) ==
    IF ~Exists(t, p) THEN Done(t)
    ELSE IF Ambiguous(t, p) THEN Raised(t) ELSE Done(Healed(t, p))
FileBody(t, p) == IF Exists(t, p) THEN ReadPath(t, p) ELSE None

(* _try_read_meta forgives a document that does not parse, get_vacancy not.  *)
MetaRead(t, p) == FileRead(t, MetaOf(p))
MetaGarbled(t, p) == FileBody(t, MetaOf(p)) \in Garbled

Then(result, Op(_)) == IF result.ok THEN Op(result.tree) ELSE result

(* Slip: the statuses are seeded whenever they are asked for. *)
StatusesReseeded(t, u) == Overwritten(t, u, <<StatusFile>>, Blank)

(* list_statuses: a missing file is seeded, one that does not parse is left. *)
StatusesListed(t, u) ==
    CASE FileBody(t, <<StatusFile>>) = None    -> Overwritten(t, u, <<StatusFile>>, Blank)
      [] FileBody(t, <<StatusFile>>) \in Garbled -> Raised(t)
      [] OTHER                                  -> FileRead(t, <<StatusFile>>)

(* The id of a status can be known to a client that has listed them.         *)
StatusResolved(t, u, tag) ==
    LET listed == StatusesListed(t, u)
    IN  CASE tag = "none"    -> Done(t)
          [] tag = "known"   -> listed
          [] tag = "unknown" -> Raised(listed.tree)

VacancyMade(t, u, p) ==
    Then(Overwritten(MadeDirectory(t, p), u, MetaOf(p), Blank), LAMBDA s : MetaRead(s, p))

NodeCreated(t, u, p, tag) ==
    IF IsVacancy(p) THEN Then(StatusResolved(t, u, tag), LAMBDA s : VacancyMade(s, u, p))
    ELSE Done(MadeDirectory(t, p))

NodeRenamed(t, p, n) ==
    LET q == Append(Front(p), n)
        moved == IF q = p THEN Done(t) ELSE RenamedPath(t, p, n)
    IN  IF IsVacancy(p) THEN Then(moved, LAMBDA s : MetaRead(s, q)) ELSE moved

ChildPaths(t, p) == {Append(p, n) : n \in ChildDirs(t, p)}

(* Vacancies of the tree, for the list of all; or under one company.         *)
VacanciesUnder(t, p) ==
    IF p = Root
    THEN UNION {ChildPaths(t, c) : c \in UNION {ChildPaths(t, l) : l \in ChildPaths(t, Root)}}
    ELSE IF Len(p) = NodeDepth - 1 THEN ChildPaths(t, p) ELSE {}

MetasRead(t, S) ==
    FoldLeft(LAMBDA acc, v : Then(acc, LAMBDA s : MetaRead(s, v)), Done(t), SetToSeq(S))

-----------------------------------------------------------------------------
(* /api/resumes.                                                            *)

MayCreate(x) ==
    Len(x.at) < NodeDepth /\ ValidName(x.to) /\ NodeExists(x.at) /\ UniqueSibling(x.at, x.to)
ArriveCreate(x) == x.op = "create" /\ Arrive(x, MayCreate(x))
CreateNode(x) ==
    /\ Enough(2)
    /\ \E tag \in {"none", "known", "unknown"} :
          /\ tag = "known" => FileBody(tree, <<StatusFile>>) # None
          /\ Finish(x, "create", NodeCreated(tree, x.user, Append(x.at, x.to), tag))

MayRename(x) ==
    /\ IsNode(x.at) /\ ValidName(x.to) /\ Exists(tree, x.at)
    /\ x.to = Last(x.at) \/ UniqueSibling(Front(x.at), x.to)
ArriveRename(x) == x.op = "renameNode" /\ Arrive(x, MayRename(x))
RenameNode(x) == Finish(x, "renameNode", NodeRenamed(tree, x.at, x.to))

ArriveDelete(x) == x.op = "deleteNode" /\ Arrive(x, IsNode(x.at))
DeleteNode(x) == Finish(x, "deleteNode", DeletedTree(tree, x.user, x.at))

ArriveVacancy(x) == x.op \in {"save", "read"} /\ Arrive(x, IsVacancy(x.at) /\ Exists(tree, x.at) /\ ValidBody(x.body))
SaveVacancy(x) ==
    /\ Enough(1)
    /\ Finish(x, "save", Overwritten(tree, x.user, MetaOf(x.at), x.body))
GetVacancy(x) ==
    Finish(x, "read", IF MetaGarbled(tree, x.at) THEN Raised(tree) ELSE MetaRead(tree, x.at))

(* GET /tree of a node and GET /vacancies, which starts from the root.       *)
ArriveBrowse(x) == x.op = "browse" /\ Arrive(x, NodeExists(x.at))
Browse(x) == Finish(x, "browse", MetasRead(tree, VacanciesUnder(tree, x.at)))

ArriveStatuses(x) == x.op \in {"statuses", "saveStatuses"} /\ Arrive(x, ValidBody(x.body))
ListStatuses(x) == Enough(1) /\ Finish(x, "statuses", StatusesListed(tree, x.user))
SaveStatuses(x) ==
    Enough(1) /\ Finish(x, "saveStatuses", Overwritten(tree, x.user, <<StatusFile>>, x.body))

ResumesApi(x) ==
    \/ ArriveCreate(x) \/ CreateNode(x)
    \/ ArriveRename(x) \/ RenameNode(x)
    \/ ArriveDelete(x) \/ DeleteNode(x)
    \/ ArriveVacancy(x) \/ SaveVacancy(x) \/ GetVacancy(x)
    \/ ArriveBrowse(x) \/ Browse(x)
    \/ ArriveStatuses(x) \/ ListStatuses(x) \/ SaveStatuses(x)
=============================================================================
