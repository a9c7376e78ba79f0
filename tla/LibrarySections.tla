---------------------------- MODULE LibrarySections ----------------------------
(***************************************************************************)
(* The library: the files API of every section, the vacancies, the runs of   *)
(* the image generator, the deletion of users and the nightly jobs, over one  *)
(* tree. What users ask of a section is in Requests[section], so a behaviour  *)
(* mixes the requests the routers of that section take.                      *)
(***************************************************************************)
EXTENDS Resumes, GeneratedRuns

FilesRequests == {"upload", "zip", "mkdir", "rename", "delete"}
ResumesRequests ==
    {"create", "renameNode", "deleteNode", "save", "read", "browse", "statuses", "saveStatuses"}
RunsRequests == {"store", "listRuns", "getRun", "getFile", "deleteRun"}

TakenBy(s) ==
    CASE s = "FILES"     -> FilesRequests
      [] s = "SHARED"    -> FilesRequests \cup {"purge"}
      [] s = "RESUMES"   -> FilesRequests \cup ResumesRequests
      [] s = "GENERATED" -> RunsRequests

(* Requests are those the routers of the section take; every section but SHARED  *)
(* is that of one user. What is written has a name and contents and fits into     *)
(* MaxDepth names; renaming the root is left out.                              *)
ASSUME RequestsAssumption ==
    /\ NodeDepth < MaxDepth
    /\ Start \in [Sections -> SUBSET (Paths \ {Root})]
    /\ \A s \in Sections :
          /\ Requests[s] \subseteq Request /\ IsFiniteSet(Requests[s])
          /\ \A x \in Requests[s] :
                /\ x.op \in TakenBy(s)
                /\ s # "SHARED" => \A y \in Requests[s] : x.user = y.user
                /\ x.op \in {"upload", "save", "saveStatuses"} => x.body \in Bodies
                /\ x.op \in {"upload", "zip", "mkdir", "rename", "getFile"} => x.to \in Names
                /\ x.op = "rename" => x.at # Root
                /\ x.op \in {"upload", "mkdir", "store", "getRun", "getFile"} => Len(x.at) < MaxDepth
                /\ x.op = "zip" => Len(x.at) + 1 < MaxDepth

(* A run is a directory named by its id alone (_RUN_ID_PATTERN), made by store_run   *)
(* and by nothing else. Its first file is META_FILENAME, and the names of its files *)
(* (that, ref-1.png, ref-2.png, ..., RESULT_FILENAME) differ.                     *)
ASSUME RunsAssumption ==
    "GENERATED" \in Sections =>
        /\ Start["GENERATED"] = {}
        /\ \A x \in Requests["GENERATED"] :
              /\ x.op \in {"store", "getRun", "getFile", "deleteRun"} => Len(x.at) = 1
              /\ x.op = "store" =>
                    /\ x.parts # <<>> /\ x.parts[1][1] = Meta
                    /\ \A i, j \in DOMAIN x.parts : x.parts[i][1] = x.parts[j][1] => i = j

TypeOK ==
    /\ section \in Sections
    /\ TreeType(tree)
    /\ flight \subseteq Requests[section] /\ Cardinality(flight) <= InFlight[section]
    /\ spent.requests \in 0..MaxRequests
    /\ spent.faults \in Seq(Faults[section]) /\ Len(spent.faults) <= MaxFaults

Next ==
    \/ \E x \in Requests[section] :
          FilesApi(x) \/ ResumesApi(x) \/ RunsApi(x) \/ ArrivePurge(x) \/ PurgeUser(x)
    \/ Archive
    \/ CleanPending

Spec == Init /\ [][Next]_vars

-----------------------------------------------------------------------------
(* Quota.                                                                   *)

(* user_quota_usage is the sum of the sizes of the live records of the user,  *)
(* archived ones included, at every commit: whichever of the owner, the        *)
(* deleting admin, the folder or the reader of a healed record the service     *)
(* had in hand, and whatever was rolled back.                                *)
QuotaIsTheLiveRows ==
    \A u \in Users :
        tree.used[u] = BytesOf(tree, {r \in LiveRows(tree) : tree.row[r].owner = u})

Heaviest == Max({0} \cup {Weight(x) : x \in Requests[section]})

(* "Total usage <= limit_bytes" (docs/Data Models.md) as far as the code keeps *)
(* it: the check reads the usage before the body is read, so every further    *)
(* request in flight can carry the usage over the limit by its own size, and   *)
(* nothing else can. Vacancies are left out: their first meta.yaml is not      *)
(* checked at all.                                                           *)
UsageWithinLimit ==
    Limit > 0 /\ section # "RESUMES" =>
        \A u \in Users :
            tree.used[u] + MapThenSumSet(Weight, {x \in flight : x.user = u})
                <= Limit + (InFlight[section] - 1) * Heaviest

-----------------------------------------------------------------------------
(* Records and objects.                                                     *)

(* No request has ended between the bucket and its commit: what it did to the  *)
(* bucket nothing repairs.                                                  *)
Unaborted == "abort" \notin Range(spent.faults)

KeyOf(f) == IF f.status = "archived" THEN Zst(f.blob) ELSE Hot(f.path)

(* "A committed file has a matching MinIO object (or archive key if archived)" *)
(* (docs/Data Models.md), through renamed directories, hijacked records,        *)
(* half-written runs and failing ZIP entries. The shared section is left out:   *)
(* there a directory is deleted without its records.                          *)
CommittedHasItsObject ==
    section # "SHARED" /\ Unaborted =>
        \A r \in LiveRows(tree) : KeyOf(tree.row[r]) \in DOMAIN tree.obj

(* The same with what aborted requests and the archive do to a renamed         *)
(* directory: the code does not keep it.                                     *)
DocumentedObjects == \A r \in LiveRows(tree) : KeyOf(tree.row[r]) \in DOMAIN tree.obj

(* Generated runs: every object has one record and every record its object, in *)
(* spite of stores that fail half-way and of runs deleted after some of their   *)
(* files were archived. A leftover object would be nobody's bytes for good.    *)
RunsLeaveNothingBehind ==
    section = "GENERATED" /\ Unaborted =>
        /\ {KeyOf(tree.row[r]) : r \in LiveRows(tree)} = DOMAIN tree.obj
        /\ \A r, s \in LiveRows(tree) : KeyOf(tree.row[r]) = KeyOf(tree.row[s]) => r = s

-----------------------------------------------------------------------------
(* What a request may do to files it does not name.                          *)

Answered == flight \ flight'

Targets(x) ==
    CASE x.op \in {"upload", "zip", "mkdir"}           -> {Append(x.at, x.to)}
      [] x.op = "create" ->
            {Append(x.at, x.to)} \cup
            (IF FileBody(tree, <<StatusFile>>) = None THEN {<<StatusFile>>} ELSE {})
      [] x.op = "statuses" ->
            IF FileBody(tree, <<StatusFile>>) = None THEN {<<StatusFile>>} ELSE {}
      [] x.op = "saveStatuses"                         -> {<<StatusFile>>}
      [] x.op = "save"                                 -> {MetaOf(x.at)}
      [] x.op \in {"rename", "renameNode"}             -> {x.at, Append(Front(x.at), x.to)}
      [] x.op \in {"delete", "deleteNode", "store", "deleteRun"} -> {x.at}
      [] x.op = "purge"                                -> {Root}
      [] OTHER                                         -> {}

KnownPaths == {k.at : k \in DOMAIN tree.obj} \cup {tree.row[r].path : r \in Ids}

Contents(t, q) == IF Ambiguous(t, q) THEN None ELSE ReadPath(t, q)

(* Whatever a step does, a file that no answered request names, or holds in a  *)
(* directory it names, reads back what it did before: records that are healed  *)
(* away from it, the nightly archive and a rolled back request included. A      *)
(* second GET of the statuses is one of the steps that change nothing.         *)
Bystanders ==
    [][\A q \in KnownPaths :
          (\A x \in Answered : \A p \in Targets(x) : ~IsPrefix(p, q))
          => Contents(tree', q) = Contents(tree, q)]_vars

Readable(t, r) == KeyOf(t.row[r]) \in DOMAIN t.obj

(* What a user who is no ADMIN may delete of the shared section: a request      *)
(* that names a file leaves every readable file of another user readable.       *)
OthersFilesSurvive ==
    [][section = "SHARED" =>
        \A x \in Answered :
            x.op = "delete" /\ x.user \notin Admins /\ ~IsDirectory(tree, x.at) =>
                \A r \in LiveRows(tree) :
                    tree.row[r].owner # x.user /\ Readable(tree, r)
                    => Live(tree'.row[r]) /\ Readable(tree', r)]_vars
=============================================================================
