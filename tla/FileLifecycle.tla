----------------------------- MODULE FileLifecycle -----------------------------
(***************************************************************************)
(* A stored file: its row in file_records, its objects in the bucket, and   *)
(* its bytes in the quota of its owner.                                     *)
(*                                                                          *)
(*   sessions   the requests of users: upload, rename, overwrite, delete.   *)
(*              Each loads the row, makes its storage calls one by one, and *)
(*              then writes row and quota in one transaction                *)
(*   job        the daily archive run: lists idle files, compresses each to *)
(*              path.zst, deletes the hot object, and commits once, at the  *)
(*              end of the run                                              *)
(*   audit      the daily reconciliation of the quota with the rows          *)
(*                                                                          *)
(* The bucket knows no transactions: what a request or the run has done to  *)
(* it stays done when the request is rolled back or the process dies.       *)
(***************************************************************************)
EXTENDS Integers, FiniteSets, FiniteSetsExt

CONSTANTS Records,      \* file record ids
          Keys,         \* relative paths
          Bodies,       \* what a user stores: numbers, so that sizes can differ
          Sessions,     \* requests that may be in flight together
          Uploads,      \* <<record, key, body>>
          Renames,      \* <<record, key>>
          Overwrites,   \* <<record, body>>
          Deletes,      \* record
          Archiving,    \* the archive run is scheduled
          Reconciling,  \* the reconciliation of the quota is scheduled
          Threshold,    \* the drift it leaves alone
          Overlap,      \* two actors may work on one file or one counter
          Faults,       \* what may go wrong: "abort", "crash"
          MaxRequests,  \* bound: requests in one behaviour
          MaxFaults,    \* bound: faults in one behaviour
          None          \* NULL, or no object

ASSUME LifecycleAssumption ==
    /\ IsFiniteSet(Records) /\ IsFiniteSet(Sessions)
    /\ Keys # {} /\ Bodies # {}
    /\ Bodies \subseteq Nat
    /\ None \notin Keys \cup Bodies \cup Records
    /\ Uploads \subseteq Records \X Keys \X Bodies
    /\ Renames \subseteq Records \X Keys
    /\ Overwrites \subseteq Records \X Bodies
    /\ Deletes \subseteq Records
    /\ Archiving \in BOOLEAN /\ Reconciling \in BOOLEAN /\ Overlap \in BOOLEAN
    /\ Threshold \in Nat
    /\ Faults \subseteq {"abort", "crash"}
    /\ MaxRequests \in Nat /\ MaxFaults \in Nat

VARIABLES
    row,        \* committed file_records
    hot,        \* the bucket: the body under each path, or None
    tmp,        \* the bucket: .tmp/<record id>
    zst,        \* the bucket: path.zst, standing for the body it decompresses to
    total,      \* user_quota_usage.total_bytes of the one owner
    session,    \* the requests in flight
    job,        \* the archive run
    audit,      \* the reconciliation: the sum it has read
    discarded,  \* for the properties: files whose bytes a request began to drop
    spent       \* requests and faults so far

vars == <<row, hot, tmp, zst, total, session, job, audit, discarded, spent>>

-----------------------------------------------------------------------------
Status == {"none", "committed", "archived", "deleted"}
Row == [status   : Status,
        path     : Keys,
        body     : Bodies,
        archived : BOOLEAN,
        blob     : Keys \cup {None}]

AnyKey == CHOOSE k \in Keys : TRUE
AnyBody == CHOOSE b \in Bodies : TRUE
NoRow == [status |-> "none", path |-> AnyKey, body |-> AnyBody,
          archived |-> FALSE, blob |-> None]

(* rec is the row as the request loaded it, base as update_status, update_size *)
(* or delete load it again; to and body are what the request asks for.       *)
Session == [op   : {"none", "upload", "rename", "overwrite", "delete"},
            pc   : {"idle", "copy", "remove", "drop", "move", "select", "commit"},
            r    : Records \cup {None},
            rec  : Row, base : Row, to : Keys, body : Bodies]
NoSession == [op |-> "none", pc |-> "idle", r |-> None, rec |-> NoRow,
              base |-> NoRow, to |-> AnyKey, body |-> AnyBody]

Job == [pc     : {"off", "next", "put", "drop", "mark"},
        todo   : SUBSET Records,
        cur    : Records \cup {None},
        seen   : [Records -> Row],
        bytes  : Bodies \cup {None},
        marked : SUBSET Records]
NoJob == [pc |-> "off", todo |-> {}, cur |-> None,
          seen |-> [r \in Records |-> NoRow], bytes |-> None, marked |-> {}]

Audit == [pc : {"off", "write"}, real : Int]
NoAudit == [pc |-> "off", real |-> 0]

TypeOK ==
    /\ row \in [Records -> Row]
    /\ \A r \in Records : row[r].archived => row[r].blob # None
    /\ hot \in [Keys -> Bodies \cup {None}]
    /\ tmp \in [Records -> Bodies \cup {None}]
    /\ zst \in [Keys -> Bodies \cup {None}]
    /\ total \in Int
    /\ session \in [Sessions -> Session]
    /\ job \in Job
    /\ audit \in Audit
    /\ discarded \subseteq Records
    /\ spent \in [requests : Nat, faults : Nat]

Init ==
    /\ row = [r \in Records |-> NoRow]
    /\ hot = [k \in Keys |-> None]
    /\ tmp = [r \in Records |-> None]
    /\ zst = [k \in Keys |-> None]
    /\ total = 0
    /\ session = [s \in Sessions |-> NoSession]
    /\ job = NoJob
    /\ audit = NoAudit
    /\ discarded = {}
    /\ spent = [requests |-> 0, faults |-> 0]

-----------------------------------------------------------------------------
Size(b) == b
Live(f) == f.status \in {"committed", "archived"}

InSession(r) == \E s \in Sessions : session[s].r = r
InJob(r) == r = job.cur \/ r \in job.todo \cup job.marked

(* mark_archived has updated the row and the run has not committed yet. *)
Locked(r) == r \in job.marked

Spend(kind) ==
    /\ kind \in Faults
    /\ spent.faults < MaxFaults
    /\ spent' = [spent EXCEPT !.faults = @ + 1]

(* A request begins with the row it finds. *)
Begin(s, op, pc, r, k, b) ==
    /\ session[s] = NoSession
    /\ Overlap \/ (~InSession(r) /\ ~InJob(r) /\ audit = NoAudit)
    /\ spent.requests < MaxRequests
    /\ spent' = [spent EXCEPT !.requests = @ + 1]
    /\ session' = [session EXCEPT ![s] =
          [op |-> op, pc |-> pc, r |-> r, rec |-> row[r], base |-> NoRow,
           to |-> k, body |-> b]]
    /\ UNCHANGED <<row, hot, zst, total, job, audit, discarded>>

Goes(s, pc) == session' = [session EXCEPT ![s].pc = pc]
Ends(s) == session' = [session EXCEPT ![s] = NoSession]

(* The PENDING row is not visible before the commit. An id whose upload      *)
(* failed stands for a new one, hence tmp.                                   *)
UploadBegin(s, r, k, b) ==
    /\ row[r].status = "none" /\ ~InSession(r)
    /\ tmp[r] = None
    /\ Begin(s, "upload", "move", r, k, b)
    /\ tmp' = [tmp EXCEPT ![r] = b]

RenameBegin(s, r, k) ==
    /\ Live(row[r]) /\ ~row[r].archived
    /\ k # row[r].path
    /\ Begin(s, "rename", "copy", r, k, AnyBody)
    /\ UNCHANGED tmp

OverwriteBegin(s, r, b) ==
    /\ Live(row[r])
    /\ Begin(s, "overwrite", "drop", r, row[r].path, b)
    /\ tmp' = [tmp EXCEPT ![r] = b]

DeleteBegin(s, r) ==
    /\ Live(row[r])
    /\ Begin(s, "delete", "remove", r, AnyKey, AnyBody)
    /\ UNCHANGED tmp

-----------------------------------------------------------------------------
(* The storage calls. A rename of an object is a copy and a delete; a copy   *)
(* of an object that is gone fails the request, a delete of one does not.    *)

RenameCopy(s) ==
    LET x == session[s]
    IN  /\ x.pc = "copy"
        /\ IF hot[x.rec.path] = None
           THEN Ends(s) /\ UNCHANGED hot
           ELSE Goes(s, "remove") /\ hot' = [hot EXCEPT ![x.to] = hot[x.rec.path]]
        /\ UNCHANGED <<row, tmp, zst, total, job, audit, discarded, spent>>

RenameRemove(s) ==
    /\ session[s].op = "rename" /\ session[s].pc = "remove"
    /\ hot' = [hot EXCEPT ![session[s].rec.path] = None]
    /\ Goes(s, "select")
    /\ UNCHANGED <<row, tmp, zst, total, job, audit, discarded, spent>>

(* An archived file is deleted through its archive_path, any other through   *)
(* its path: what the row said when it was loaded.                           *)
DeleteRemove(s) ==
    LET x == session[s]
    IN  /\ x.op = "delete" /\ x.pc = "remove"
        /\ IF x.rec.archived
           THEN zst' = [zst EXCEPT ![x.rec.blob] = None] /\ UNCHANGED hot
           ELSE hot' = [hot EXCEPT ![x.rec.path] = None] /\ UNCHANGED zst
        /\ discarded' = discarded \cup {x.r}
        /\ Goes(s, "select")
        /\ UNCHANGED <<row, tmp, total, job, audit, spent>>

OverwriteDrop(s) ==
    LET x == session[s]
    IN  /\ x.pc = "drop"
        /\ hot' = [hot EXCEPT ![x.to] = None]
        /\ discarded' = discarded \cup {x.r}
        /\ Goes(s, "move")
        /\ UNCHANGED <<row, tmp, zst, total, job, audit, spent>>

(* .tmp/<id> takes its final path. *)
Move(s) ==
    LET x == session[s]
    IN  /\ x.pc = "move"
        /\ IF tmp[x.r] = None
           THEN Ends(s) /\ UNCHANGED <<hot, tmp>>
           ELSE /\ hot' = [hot EXCEPT ![x.to] = tmp[x.r]]
                /\ tmp' = [tmp EXCEPT ![x.r] = None]
                /\ Goes(s, IF x.op = "upload" THEN "commit" ELSE "select")
        /\ UNCHANGED <<row, zst, total, job, audit, discarded, spent>>

-----------------------------------------------------------------------------
(* The transaction.                                                         *)

Select(s) ==
    /\ session[s].pc = "select"
    /\ session' = [session EXCEPT ![s].pc = "commit", ![s].base = row[session[s].r]]
    /\ UNCHANGED <<row, hot, tmp, zst, total, job, audit, discarded, spent>>

(* The UPDATE holds the columns whose value differs from the loaded one. *)
Written(stored, loaded, new) == IF new = loaded THEN stored ELSE new

(* rename writes the status it loaded first together with the new path. *)
CommittedRow(f, x) ==
    CASE x.op = "upload"    -> [NoRow EXCEPT !.status = "committed", !.path = x.to,
                                             !.body = x.body]
      [] x.op = "rename"    -> [f EXCEPT !.status = Written(@, x.base.status, x.rec.status),
                                         !.path = Written(@, x.base.path, x.to)]
      [] x.op = "overwrite" -> [f EXCEPT !.body = Written(@, x.base.body, x.body)]
      [] x.op = "delete"    -> [f EXCEPT !.status = Written(@, x.base.status, "deleted")]

(* Slip: an overwrite is charged like an upload. *)
ChargeInFull(x) ==
    CASE x.op \in {"upload", "overwrite"} -> Size(x.body)
      [] x.op = "rename"                  -> 0
      [] x.op = "delete"                  -> 0 - Size(x.rec.body)

(* The quota is charged by the size in the row as it was loaded first. *)
Charge(x) ==
    CASE x.op = "upload"    -> Size(x.body)
      [] x.op = "rename"    -> 0
      [] x.op = "overwrite" -> Size(x.body) - Size(x.rec.body)
      [] x.op = "delete"    -> 0 - Size(x.rec.body)

(* UPDATE, quota and COMMIT, which wait for a run that has marked the row. *)
Commit(s) ==
    LET x == session[s]
    IN  /\ x.pc = "commit"
        /\ ~Locked(x.r)
        /\ row' = [row EXCEPT ![x.r] = CommittedRow(@, x)]
        /\ total' = total + Charge(x)
        /\ discarded' = IF x.op = "overwrite" THEN discarded \ {x.r} ELSE discarded
        /\ Ends(s)
        /\ UNCHANGED <<hot, tmp, zst, job, audit, spent>>

(* An error after which the request is rolled back: the temporary object is  *)
(* deleted, nothing else is undone in the bucket.                            *)
Abort(s) ==
    /\ session[s] # NoSession
    /\ Spend("abort")
    /\ Ends(s)
    /\ tmp' = IF session[s].op \in {"upload", "overwrite"}
              THEN [tmp EXCEPT ![session[s].r] = None] ELSE tmp
    /\ UNCHANGED <<row, hot, zst, total, job, audit, discarded>>

-----------------------------------------------------------------------------
(* The archive run.                                                         *)

Candidates == {r \in Records : row[r].status = "committed" /\ ~row[r].archived}

(* The idle files, as they are when the run lists them. *)
ArchiveList ==
    /\ Archiving
    /\ job = NoJob
    /\ \E S \in SUBSET Candidates :
          /\ S # {}
          /\ Overlap \/ \A r \in S : ~InSession(r)
          /\ job' = [NoJob EXCEPT !.pc = "next", !.todo = S, !.seen = row]
    /\ UNCHANGED <<row, hot, tmp, zst, total, session, audit, discarded, spent>>

Source == job.seen[job.cur].path

NextRecord == [job EXCEPT !.pc = "next", !.cur = None, !.bytes = None]

(* Slip: the hot object is deleted before the compressed one is uploaded. *)
ArchiveReadDropping(r) ==
    /\ job.pc = "next" /\ r \in job.todo
    /\ hot[job.seen[r].path] # None
    /\ job' = [job EXCEPT !.todo = @ \ {r}, !.pc = "put", !.cur = r,
                          !.bytes = hot[job.seen[r].path]]
    /\ hot' = [hot EXCEPT ![job.seen[r].path] = None]
    /\ UNCHANGED <<row, tmp, zst, total, session, audit, discarded, spent>>

(* Download; a file whose hot object is missing is skipped. *)
ArchiveRead(r) ==
    /\ job.pc = "next" /\ r \in job.todo
    /\ job' = IF hot[job.seen[r].path] = None
              THEN [job EXCEPT !.todo = @ \ {r}]
              ELSE [job EXCEPT !.todo = @ \ {r}, !.pc = "put", !.cur = r,
                               !.bytes = hot[job.seen[r].path]]
    /\ UNCHANGED <<row, hot, tmp, zst, total, session, audit, discarded, spent>>

ArchivePut ==
    /\ job.pc = "put"
    /\ zst' = [zst EXCEPT ![Source] = job.bytes]
    /\ job' = [job EXCEPT !.pc = "drop"]
    /\ UNCHANGED <<row, hot, tmp, total, session, audit, discarded, spent>>

(* delete raises when the object is gone; the run goes on with the next file. *)
ArchiveDrop ==
    /\ job.pc = "drop"
    /\ hot' = [hot EXCEPT ![Source] = None]
    /\ job' = IF hot[Source] = None THEN NextRecord ELSE [job EXCEPT !.pc = "mark"]
    /\ UNCHANGED <<row, tmp, zst, total, session, audit, discarded, spent>>

ArchiveMark ==
    /\ job.pc = "mark"
    /\ job' = [NextRecord EXCEPT !.marked = @ \cup {job.cur}]
    /\ UNCHANGED <<row, hot, tmp, zst, total, session, audit, discarded, spent>>

(* An error in one file is counted, and the run goes on. *)
ArchiveError ==
    /\ job.pc \in {"put", "drop"}
    /\ Spend("abort")
    /\ job' = NextRecord
    /\ UNCHANGED <<row, hot, tmp, zst, total, session, audit, discarded>>

(* Slip: the blob is looked for under the path the row has now. *)
MarkArchivedAtPath(f, key) ==
    [f EXCEPT !.status = "archived", !.archived = TRUE, !.blob = f.path]

(* Slip: archive_path is not written. *)
MarkArchivedWithoutPath(f, key) ==
    [f EXCEPT !.status = "archived", !.archived = TRUE]

MarkArchived(f, key) ==
    [f EXCEPT !.status = "archived", !.archived = TRUE, !.blob = key]

ArchiveCommit ==
    /\ job.pc = "next" /\ job.todo = {}
    /\ row' = [r \in Records |->
          IF r \in job.marked THEN MarkArchived(row[r], job.seen[r].path) ELSE row[r]]
    /\ job' = NoJob
    /\ UNCHANGED <<hot, tmp, zst, total, session, audit, discarded, spent>>

-----------------------------------------------------------------------------
(* cleanup_tmp: a temporary object older than a day belongs to no request. *)
CleanTmp(r) ==
    /\ tmp[r] # None /\ ~InSession(r)
    /\ tmp' = [tmp EXCEPT ![r] = None]
    /\ UNCHANGED <<row, hot, zst, total, session, job, audit, discarded, spent>>

-----------------------------------------------------------------------------
(* The reconciliation.                                                      *)

Bytes(S) == SumFunctionOnSet([r \in Records |-> Size(row[r].body)], S)
CommittedBytes == Bytes({r \in Records : row[r].status = "committed"})

ReconcileSum ==
    /\ Reconciling
    /\ audit = NoAudit
    /\ Overlap \/ \A s \in Sessions : session[s] = NoSession
    /\ audit' = [pc |-> "write", real |-> CommittedBytes]
    /\ UNCHANGED <<row, hot, tmp, zst, total, session, job, discarded, spent>>

(* Slip: only a counter that is too high is repaired. *)
RepairedDown(real) == IF total - real <= Threshold THEN total ELSE real

Repaired(real) ==
    IF total - real \in -Threshold..Threshold THEN total ELSE real

(* The counter is overwritten by a sum read before it. *)
ReconcileWrite ==
    /\ audit.pc = "write"
    /\ total' = Repaired(audit.real)
    /\ audit' = NoAudit
    /\ UNCHANGED <<row, hot, tmp, zst, session, job, discarded, spent>>

-----------------------------------------------------------------------------
(* The process dies: transactions are rolled back, the bucket stays. *)
Crash ==
    /\ Spend("crash")
    /\ session' = [s \in Sessions |-> NoSession]
    /\ job' = NoJob
    /\ audit' = NoAudit
    /\ UNCHANGED <<row, hot, tmp, zst, total, discarded>>

ArchiveStep ==
    \/ \E r \in Records : ArchiveRead(r)
    \/ ArchivePut
    \/ ArchiveDrop
    \/ ArchiveMark
    \/ ArchiveCommit

Arrives(s) ==
    \/ \E u \in Uploads : UploadBegin(s, u[1], u[2], u[3])
    \/ \E n \in Renames : RenameBegin(s, n[1], n[2])
    \/ \E w \in Overwrites : OverwriteBegin(s, w[1], w[2])
    \/ \E r \in Deletes : DeleteBegin(s, r)

RequestStep(s) ==
    \/ RenameCopy(s)
    \/ RenameRemove(s)
    \/ DeleteRemove(s)
    \/ OverwriteDrop(s)
    \/ Move(s)
    \/ Select(s)
    \/ Commit(s)

Next ==
    \/ \E s \in Sessions : Arrives(s) \/ RequestStep(s) \/ Abort(s)
    \/ ArchiveList
    \/ ArchiveStep
    \/ ArchiveError
    \/ ReconcileSum
    \/ ReconcileWrite
    \/ \E r \in Records : CleanTmp(r)
    \/ Crash

(* Requests and runs that have begun go on, and the reconciliation is        *)
(* scheduled every day. No request, archive run, cleanup or fault has to     *)
(* happen.                                                                  *)
Fairness ==
    /\ \A s \in Sessions : WF_vars(RequestStep(s))
    /\ WF_vars(ArchiveStep)
    /\ WF_vars(ReconcileSum)
    /\ WF_vars(ReconcileWrite)

Spec == Init /\ [][Next]_vars /\ Fairness

-----------------------------------------------------------------------------
(* What the file store keeps.                                               *)

AtRest(r) == ~InSession(r) /\ r # job.cur /\ ~Locked(r)

(* What read_by_path streams: the archive of an archived file, else the hot  *)
(* object.                                                                  *)
Reads(f) == IF f.archived THEN zst[f.blob] ELSE hot[f.path]

(* A file that nobody is working on reads back as the bytes that were stored *)
(* last, in whatever order requests and the archive run, each with a row it  *)
(* loaded long before, made their storage calls and commits.                *)
ReadsBack ==
    \A r \in Records : Live(row[r]) /\ AtRest(r) => Reads(row[r]) = row[r].body

(* Bytes that no request has set out to drop are somewhere in the bucket,   *)
(* wherever a rename, an archive run, a failed request or a crash left them. *)
NoBytesLost ==
    \A r \in Records : Live(row[r]) /\ r \notin discarded =>
        \E k \in Keys : row[r].body \in {hot[k], zst[k]}

(* The cached quota is the sum of the sizes of the live files, through       *)
(* concurrent requests on different files, rollbacks and crashes.            *)
QuotaIsExact ==
    total = Bytes({r \in Records : Live(row[r])})

(* The counter never goes below zero.                                       *)
QuotaNotNegative == total >= 0

(* Once the requests stop, the reconciliation has brought the counter within *)
(* its threshold of the bytes in COMMITTED rows, for good: whatever drift    *)
(* two deletes of one file left, and whatever a reconciliation that summed   *)
(* the rows before a request committed wrote over it.                        *)
DriftIsRepaired ==
    <>[](total - CommittedBytes \in -Threshold..Threshold)
=============================================================================
