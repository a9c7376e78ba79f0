-------------------------------- MODULE Library --------------------------------
(***************************************************************************)
(* The requests on one section of the library, over the trees of FileTree:  *)
(*                                                                          *)
(*   FILES      a user's own files: upload, folder upload as a ZIP, mkdir,   *)
(*              rename, delete                                              *)
(*   SHARED     the same of the tree all users share, and the deletion of a  *)
(*              user by an admin                                            *)
(*   RESUMES    country/company/vacancy directories (module Resumes), with   *)
(*              the same requests on files                                  *)
(*   GENERATED  runs of the image generator (module GeneratedRuns)           *)
(*                                                                          *)
(* This module has the state, the files API and the nightly jobs; Sections   *)
(* composes it with the other two. In every section but SHARED the tree is   *)
(* one user's, so the requests of a behaviour have one user.                 *)
(*                                                                          *)
(* A request checks quota, existence and names, then reads its body from the *)
(* network, and then acts without checking again: Arrive and the actions     *)
(* that finish it are separate steps, and other requests come between. What   *)
(* it does to the tree then is one step; FileLifecycle takes that apart.      *)
(***************************************************************************)
EXTENDS FileTree

CONSTANTS Sections,     \* the sections a behaviour may be about
          Start,        \* directories that exist at first: [Sections -> SUBSET Paths]
          Requests,     \* what users may ask for: [Sections -> SUBSET Request]
          Archives,     \* sections in which files grow old enough to be archived
          Faults,       \* what may go wrong, by section: "entry", "store", "abort"
          InFlight,     \* bound: requests in flight together, by section
          Meta,         \* the name meta.yaml, of vacancies and of runs
          Garbled,      \* contents that are not such a document
          MaxRequests,  \* bound: requests in one behaviour
          MaxFaults     \* bound: faults in one behaviour

ASSUME LibraryAssumption ==
    /\ Sections \subseteq {"FILES", "SHARED", "RESUMES", "GENERATED"}
    /\ Archives \subseteq Sections
    /\ Faults \in [Sections -> SUBSET {"entry", "store", "abort"}]
    /\ InFlight \in [Sections -> Nat \ {0}]
    /\ Meta \in Names /\ Garbled \subseteq Bodies
    /\ MaxRequests \in Nat /\ MaxFaults \in Nat

VARIABLES
    section,    \* the section this behaviour is about
    tree,       \* its tree
    flight,     \* requests that have passed their checks and not acted yet
    spent       \* requests so far, and the faults that have occurred

vars == <<section, tree, flight, spent>>

(* parts are the files in an archive or in a run, in order.                  *)
Request ==
    [op   : {"upload", "zip", "mkdir", "rename", "delete", "purge", "create",
             "renameNode", "deleteNode", "save", "read", "browse", "statuses",
             "saveStatuses", "store", "listRuns", "getRun", "getFile",
             "deleteRun"},
     user : Users, at : Paths, to : Names \cup {None}, body : Bodies \cup {0},
     parts : Seq(Names \X Bodies)]

Init ==
    /\ section \in Sections
    /\ tree = EmptyTree(Start[section])
    /\ flight = {}
    /\ spent = [requests |-> 0, faults |-> <<>>]

-----------------------------------------------------------------------------
(* The life of a request.                                                   *)

PartsSize(parts) == FoldLeft(LAMBDA acc, e : acc + Size(e[2]), 0, parts)

(* What a request adds to the usage of its user once it has been admitted. *)
Weight(x) ==
    IF x.op = "upload" THEN Size(x.body)
    ELSE IF x.op \in {"zip", "store"} THEN PartsSize(x.parts) ELSE 0

(* Slip: no check. *)
AnySize(x) == TRUE

(* _ensure_upload_quota; a ZIP is checked with its uncompressed size. *)
QuotaAdmits(x) == ~WouldExceed(tree, x.user, Weight(x))

Arrive(x, admitted) ==
    /\ spent.requests < MaxRequests
    /\ Cardinality(flight) < InFlight[section]
    /\ x \notin flight
    /\ admitted
    /\ flight' = flight \cup {x}
    /\ spent' = [spent EXCEPT !.requests = @ + 1]
    /\ UNCHANGED <<section, tree>>

(* Ids run out where the model's bound is reached. *)
Enough(n) == Cardinality(FreeIds(tree)) >= n

Finish(x, op, result) ==
    /\ x \in flight /\ x.op = op
    /\ tree' = Committed(tree, result)
    /\ flight' = flight \ {x}
    /\ UNCHANGED <<section, spent>>

FinishFaulty(x, op, kind, result) ==
    /\ x \in flight /\ x.op = op
    /\ kind \in Faults[section] /\ Len(spent.faults) < MaxFaults
    /\ tree' = Committed(tree, result)
    /\ flight' = flight \ {x}
    /\ spent' = [spent EXCEPT !.faults = Append(@, kind)]
    /\ UNCHANGED section

-----------------------------------------------------------------------------
(* The routers of /api/files, /api/shared and /api/resumes/files.            *)

ArriveUpload(x) == x.op \in {"upload", "zip"} /\ Arrive(x, QuotaAdmits(x))
ArriveOther(x) == x.op \in {"mkdir", "rename", "delete"} /\ Arrive(x, TRUE)

Upload(x) ==
    /\ Enough(1)
    /\ Finish(x, "upload", Done(Uploaded(tree, x.user, Append(x.at, x.to), x.body)))

UploadZip(x) ==
    /\ Enough(Len(x.parts))
    /\ Finish(x, "zip", Done(Extracted(tree, x.user, x.at, x.to, x.parts, {})))

(* Some entries fail, the request does not. *)
UploadZipPartly(x) ==
    /\ Enough(Len(x.parts))
    /\ \E failed \in SUBSET (DOMAIN x.parts) \ {{}} :
          FinishFaulty(x, "zip", "entry",
                       Done(Extracted(tree, x.user, x.at, x.to, x.parts, failed)))

Mkdir(x) == Finish(x, "mkdir", Done(MadeDirectory(tree, Append(x.at, x.to))))

Rename(x) == Finish(x, "rename", RenamedPath(tree, x.at, x.to))

Delete(x) == Finish(x, "delete", DeletedPath(section, tree, x.user, x.at))

(* An error, or the end of the process, between the last change in the       *)
(* bucket and the commit.                                                   *)
AbortUpload(x) ==
    /\ Enough(1)
    /\ FinishFaulty(x, "upload", "abort",
                    Raised(Uploaded(tree, x.user, Append(x.at, x.to), x.body)))

AbortRename(x) ==
    FinishFaulty(x, "rename", "abort", Raised(RenamedPath(tree, x.at, x.to).tree))

AbortDelete(x) ==
    FinishFaulty(x, "delete", "abort", Raised(DeletedPath(section, tree, x.user, x.at).tree))

FilesApi(x) ==
    \/ ArriveUpload(x) \/ ArriveOther(x)
    \/ Upload(x) \/ UploadZip(x) \/ UploadZipPartly(x)
    \/ Mkdir(x) \/ Rename(x) \/ Delete(x)
    \/ AbortUpload(x) \/ AbortRename(x) \/ AbortDelete(x)

-----------------------------------------------------------------------------
(* DELETE /api/admin/users/{id}: of x only the admin counts.                 *)

ArrivePurge(x) == x.op = "purge" /\ Arrive(x, x.user \in Admins)

PurgeUser(x) ==
    \E u \in Users \ {x.user} : Finish(x, "purge", Done(UserDeleted(tree, u)))

-----------------------------------------------------------------------------
(* The nightly jobs.                                                        *)

Archive ==
    /\ section \in Archives
    /\ \E r \in Ids :
          /\ tree.row[r].status = "committed" /\ HasObject(tree, tree.row[r].path)
          /\ tree' = ArchivedFile(tree, r)
    /\ UNCHANGED <<section, flight, spent>>

CleanPending ==
    /\ tree' = PendingRemoved(tree)
    /\ tree' # tree
    /\ UNCHANGED <<section, flight, spent>>
=============================================================================
