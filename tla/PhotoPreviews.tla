------------------------------ MODULE PhotoPreviews ------------------------------
(***************************************************************************)
(* The photos of one user: an original and a preview in the bucket, a record, *)
(* and the bytes charged. An upload starts a background task that makes the    *)
(* preview and does not wait for it: the task runs before the upload has       *)
(* committed, beside a delete of the same photo, and is lost with the process. *)
(* No record says that a preview exists.                                     *)
(***************************************************************************)
EXTENDS Integers, FiniteSets, Functions

CONSTANTS Photos,      \* file record ids
          Size,        \* [Photos -> Nat]
          Broken,      \* photos no thumbnail can be made of
          Sessions,    \* requests that may be in flight together
          QuotaLimit,  \* of the user
          Faults,      \* what may go wrong: "store", "abort", "crash"
          MaxFaults,   \* bound: faults in one behaviour
          None

ASSUME PhotosAssumption ==
    /\ IsFiniteSet(Photos) /\ IsFiniteSet(Sessions)
    /\ Size \in [Photos -> Nat] /\ Broken \subseteq Photos
    /\ QuotaLimit \in Nat /\ MaxFaults \in Nat
    /\ Faults \subseteq {"store", "abort", "crash"}
    /\ None \notin Photos

VARIABLES
    row,        \* committed records
    original,   \* the bucket: photos whose original is there
    archive,    \*   whose archived original is
    preview,    \*   whose preview is
    task,       \* the background task of a photo
    request,    \* the requests in flight
    used,       \* photos_bytes
    faults,     \* faults so far
    again,      \* ghost: deletes of a photo committed after the first
    dropped,    \* ghost: photos a delete has set out to remove
    strays      \* ghost: photos a fault, or a delete beside their task, met

vars == <<row, original, archive, preview, task, request, used, faults, again, dropped, strays>>

Requests == [step : {"idle", "create", "put", "spawn", "store", "remove", "clear", "delete"},
             photo : Photos \cup {None}, archived : BOOLEAN]
NoRequest == [step |-> "idle", photo |-> None, archived |-> FALSE]

TypeOK ==
    /\ row \in [Photos -> {"none", "committed", "archived", "deleted"}]
    /\ original \subseteq Photos /\ archive \subseteq Photos /\ preview \subseteq Photos
    /\ \A p \in Photos : row[p] = "archived" => p \in archive \cup dropped
    /\ task \in [Photos -> {"none", "read", "write"}]
    /\ request \in [Sessions -> Requests]
    /\ used \in Int /\ faults \in 0..MaxFaults
    /\ again \in [Photos -> Nat]
    /\ dropped \subseteq Photos /\ strays \subseteq Photos

Init ==
    /\ row = [p \in Photos |-> "none"]
    /\ original = {} /\ archive = {} /\ preview = {}
    /\ task = [p \in Photos |-> "none"]
    /\ request = [s \in Sessions |-> NoRequest]
    /\ used = 0 /\ faults = 0
    /\ again = [p \in Photos |-> 0]
    /\ dropped = {} /\ strays = {}

Live(p) == row[p] \in {"committed", "archived"}
Doing(s, step) == request[s].step = step
Goto(s, step) == request' = [request EXCEPT ![s].step = step]
End(s) == request' = [request EXCEPT ![s] = NoRequest]
InRequest(p) == \E s \in Sessions : request[s].photo = p
Fault(kind) == kind \in Faults /\ faults < MaxFaults /\ faults' = faults + 1
Bytes(S) == SumFunctionOnSet(Size, S)

-----------------------------------------------------------------------------
(* POST /upload. The quota is looked at first; row and quota are written in     *)
(* one transaction, which the bucket and the task do not wait for.            *)

Begin(s, step, p) ==
    /\ Doing(s, "idle")
    /\ request' = [request EXCEPT ![s] =
          [step |-> step, photo |-> p, archived |-> row[p] = "archived"]]

UploadBegin(s, p) ==
    /\ row[p] = "none" /\ ~InRequest(p) /\ p \notin strays
    /\ used + Size[p] <= QuotaLimit
    /\ Begin(s, "create", p)
    /\ UNCHANGED <<row, original, archive, preview, task, used, faults, again, dropped, strays>>

(* Slip: the task is started as soon as the record has its id. *)
SpawnsOnCreate(step) == step = "create"
Spawns(step) == step = "spawn"

After(step) == CASE step = "create" -> "put" [] step = "put" -> "spawn" [] step = "spawn" -> "store"

UploadStep(s) ==
    LET x == request[s]
    IN  /\ x.step \in {"create", "put", "spawn"}
        /\ original' = IF x.step = "put" THEN original \cup {x.photo} ELSE original
        /\ task' = IF Spawns(x.step) THEN [task EXCEPT ![x.photo] = "read"] ELSE task
        /\ Goto(s, After(x.step))
        /\ UNCHANGED <<row, archive, preview, used, faults, again, dropped, strays>>

UploadCommit(s) ==
    LET p == request[s].photo
    IN  /\ Doing(s, "store")
        /\ row' = [row EXCEPT ![p] = "committed"]
        /\ used' = used + Size[p]
        /\ End(s)
        /\ UNCHANGED <<original, archive, preview, task, faults, again, dropped, strays>>

(* upload_photo raises: the original goes, the task, if there is one, stays.  *)
UploadFails(s) ==
    LET p == request[s].photo
    IN  /\ request[s].step \in {"create", "put", "spawn", "store"} /\ Fault("store")
        /\ original' = original \ {p}
        /\ strays' = strays \cup {p}
        /\ End(s)
        /\ UNCHANGED <<row, archive, preview, task, used, again, dropped>>

(* The commit itself fails: nothing in the bucket is undone. *)
UploadAborts(s) ==
    /\ Doing(s, "store") /\ Fault("abort")
    /\ strays' = strays \cup {request[s].photo}
    /\ End(s)
    /\ UNCHANGED <<row, original, archive, preview, task, used, again, dropped>>

-----------------------------------------------------------------------------
(* _generate_preview: the original is read, then the preview written. What      *)
(* goes wrong is logged.                                                     *)

TaskRead(p) ==
    /\ task[p] = "read"
    /\ task' = [task EXCEPT ![p] = IF p \in original \ Broken THEN "write" ELSE "none"]
    /\ UNCHANGED <<row, original, archive, preview, request, used, faults, again, dropped, strays>>

TaskWrite(p) ==
    /\ task[p] = "write"
    /\ preview' = preview \cup {p}
    /\ task' = [task EXCEPT ![p] = "none"]
    /\ UNCHANGED <<row, original, archive, request, used, faults, again, dropped, strays>>

TaskFails(p) ==
    /\ task[p] # "none" /\ Fault("store")
    /\ task' = [task EXCEPT ![p] = "none"]
    /\ strays' = strays \cup {p}
    /\ UNCHANGED <<row, original, archive, preview, request, used, again, dropped>>

-----------------------------------------------------------------------------
(* DELETE /{photo_id}, by the record as it was loaded.                       *)

DeleteBegin(s, p) ==
    /\ Live(p)
    /\ Begin(s, "remove", p)
    /\ dropped' = dropped \cup {p}
    /\ strays' = IF task[p] = "none" THEN strays ELSE strays \cup {p}
    /\ UNCHANGED <<row, original, archive, preview, task, used, faults, again>>

DeleteOriginal(s) ==
    LET x == request[s]
    IN  /\ x.step = "remove"
        /\ IF x.archived
           THEN archive' = archive \ {x.photo} /\ UNCHANGED original
           ELSE original' = original \ {x.photo} /\ UNCHANGED archive
        /\ Goto(s, "clear")
        /\ UNCHANGED <<row, preview, task, used, faults, again, dropped, strays>>

(* Slip: the preview of an archived photo is left. *)
WithoutPreviewIfHot(x) == IF x.archived THEN preview ELSE preview \ {x.photo}
WithoutPreview(x) == preview \ {x.photo}

DeletePreview(s) ==
    /\ Doing(s, "clear")
    /\ preview' = WithoutPreview(request[s])
    /\ Goto(s, "delete")
    /\ UNCHANGED <<row, original, archive, task, used, faults, again, dropped, strays>>

(* Slip: an archived photo gives no bytes back. *)
GivenBackIfHot(x) == IF x.archived THEN 0 ELSE Size[x.photo]
GivenBack(x) == Size[x.photo]

(* The bytes are given back whether or not the record is deleted already.    *)
DeleteCommit(s) ==
    LET p == request[s].photo
    IN  /\ Doing(s, "delete")
        /\ row' = [row EXCEPT ![p] = "deleted"]
        /\ used' = used - GivenBack(request[s])
        /\ again' = IF row[p] = "deleted" THEN [again EXCEPT ![p] = @ + 1] ELSE again
        /\ End(s)
        /\ UNCHANGED <<original, archive, preview, task, faults, dropped, strays>>

DeleteAborts(s) ==
    /\ request[s].step \in {"remove", "clear", "delete"} /\ Fault("abort")
    /\ End(s)
    /\ UNCHANGED <<row, original, archive, preview, task, used, again, dropped, strays>>

-----------------------------------------------------------------------------
(* Slip: the archived original is not kept. *)
ArchivedNowhere(p) == archive
Archived(p) == archive \cup {p}

(* The archive run on a photo nobody has asked for in days; its steps are in    *)
(* FileLifecycle. A preview is no candidate: it has no record.                *)
Archive(p) ==
    /\ row[p] = "committed" /\ p \in original
    /\ ~InRequest(p) /\ task[p] = "none"
    /\ row' = [row EXCEPT ![p] = "archived"]
    /\ archive' = Archived(p)
    /\ original' = original \ {p}
    /\ UNCHANGED <<preview, task, request, used, faults, again, dropped, strays>>

(* Requests are rolled back and tasks forgotten, the bucket stays. *)
Crash ==
    /\ Fault("crash")
    /\ request' = [s \in Sessions |-> NoRequest]
    /\ task' = [p \in Photos |-> "none"]
    /\ strays' = strays \cup
          {p \in Photos : task[p] # "none" \/ (row[p] = "none" /\ InRequest(p))}
    /\ UNCHANGED <<row, original, archive, preview, used, again, dropped>>

RequestStep(s) ==
    UploadStep(s) \/ UploadCommit(s) \/ DeleteOriginal(s) \/ DeletePreview(s) \/ DeleteCommit(s)
TaskStep(p) == TaskRead(p) \/ TaskWrite(p)

Next ==
    \/ \E s \in Sessions :
          \/ \E p \in Photos : UploadBegin(s, p) \/ DeleteBegin(s, p)
          \/ RequestStep(s) \/ UploadFails(s) \/ UploadAborts(s) \/ DeleteAborts(s)
    \/ \E p \in Photos : TaskStep(p) \/ TaskFails(p) \/ Archive(p)
    \/ Crash

(* The event loop runs the requests and tasks it has.                        *)
Fairness ==
    /\ \A s \in Sessions : WF_vars(RequestStep(s))
    /\ \A p \in Photos : WF_vars(TaskStep(p))

Spec == Init /\ [][Next]_vars /\ Fairness

-----------------------------------------------------------------------------
Shown(p) == IF row[p] = "archived" THEN p \in archive ELSE p \in original

(* The original of a photo that no delete has set out to remove is there, hot   *)
(* or archived, whatever failed uploads, other deletes and crashes did.       *)
OriginalStays ==
    \A p \in Photos : Live(p) /\ p \notin dropped => Shown(p)

(* What is in the bucket without a record is there because a fault met the       *)
(* photo, or because it was deleted while its preview was being made: the       *)
(* task writes a preview that nothing will ever delete.                       *)
NoStrays ==
    \A p \in Photos :
        p \in (original \cup archive \cup preview) \ strays =>
            Live(p) \/ InRequest(p)

(* photos_bytes is the sum of the live photos less what deletes of a photo      *)
(* already deleted gave back a second time: nothing else unbalances it.       *)
PhotoBytesAreTheLivePhotos ==
    used = Bytes({p \in Photos : Live(p)})
           - SumFunctionOnSet([p \in Photos |-> again[p] * Size[p]], Photos)

(* A photo that can be decoded gets its preview, unless it is deleted, or a        *)
(* fault or the process's end took its task: no later request makes it again.   *)
PreviewArrives ==
    \A p \in Photos \ Broken :
        row[p] = "committed" ~> p \in preview \cup dropped \cup strays
=============================================================================
