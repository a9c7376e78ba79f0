-------------------------- MODULE FileLifecycleProofs --------------------------
(***************************************************************************)
(* What a stored file keeps, for every number of files, paths, contents and    *)
(* requests: types whoever overlaps with whom; bytes and quota when one actor  *)
(* at a time works on a file (Overlap = FALSE), in spite of errors and         *)
(* crashes after any storage call; and that it reads back when actors overlap  *)
(* and nothing fails.                                                        *)
(***************************************************************************)
EXTENDS FileLifecycle, FoldTheorems, TLAPS

-----------------------------------------------------------------------------
(* Types.                                                                    *)

(* A request that is under way has an operation and a record; what it has       *)
(* still to do is what its operation does.                                    *)
SessionInv(s) ==
    LET x == session[s]
    IN  /\ x.op = "none" <=> x.pc = "idle"
        /\ x.op = "none" => x = NoSession
        /\ x.op # "none" => x.r \in Records
        /\ x.op = "upload" => x.pc \in {"move", "commit"}
        /\ x.op = "rename" => x.pc \in {"copy", "remove", "select", "commit"}
        /\ x.op = "overwrite" => x.pc \in {"drop", "move", "select", "commit"}
        /\ x.op = "delete" => x.pc \in {"remove", "select", "commit"}

JobInv ==
    /\ job.pc \in {"put", "drop", "mark"} => job.cur \in Records /\ job.bytes # None
    /\ job.pc \in {"off", "next"} => job.cur = None
    /\ job.pc = "off" => job = NoJob

Typed ==
    /\ TypeOK
    /\ \A s \in Sessions : SessionInv(s)
    /\ JobInv

-----------------------------------------------------------------------------
(* One actor works on a file at a time.                                       *)

(* A request knows its record as it is: nobody else has touched it.            *)
AloneInSession(s) ==
    LET x == session[s]
    IN  x.op # "none" =>
            /\ ~InJob(x.r)
            /\ \A t \in Sessions \ {s} : session[t].r # x.r
            /\ x.op = "upload" => row[x.r].status = "none"
            /\ x.op # "upload" => Live(row[x.r]) /\ x.rec = row[x.r]
            /\ x.op # "upload" /\ x.pc = "commit" => x.base = row[x.r]

(* So does the archive run of the records it has listed.                       *)
AloneInJob ==
    \A r \in Records : InJob(r) => r \in Candidates /\ job.seen[r] = row[r]

Alone == (\A s \in Sessions : AloneInSession(s)) /\ AloneInJob

QuotaInv == (~Reconciling => audit = NoAudit) /\ (~Reconciling => QuotaIsExact)

-----------------------------------------------------------------------------
(* A path is used by one file.                                                *)
Takes == {<<u[1], u[2]>> : u \in Uploads} \cup Renames
PathsOfOneFile == \A p, q \in Takes : p[2] = q[2] => p[1] = q[1]

Paths(r) == {k \in Keys : <<r, k>> \in Takes}

(* The bytes of a file are under one of its paths, and nothing else is under     *)
(* its path in the hot bucket, but what an overwrite has begun to put there.     *)
KeptFile(r) ==
    Live(row[r]) =>
        /\ row[r].path \in Paths(r)
        /\ row[r].archived => row[r].blob \in Paths(r)
        /\ r \notin discarded =>
              /\ \E k \in Paths(r) : row[r].body \in {hot[k], zst[k]}
              /\ hot[row[r].path] \in {None, row[r].body}

(* What a request still holds: the temporary object, and a copy under the new     *)
(* path before the old one goes.                                              *)
KeptBySession(s) ==
    LET x == session[s]
    IN  /\ x.op \in {"upload", "rename"} => x.to \in Paths(x.r)
        /\ x.op = "overwrite" => x.to = x.rec.path
        /\ x.op \in {"upload", "overwrite"} /\ x.pc \in {"drop", "move"} => tmp[x.r] = x.body
        /\ x.op \in {"upload", "overwrite"} /\ x.pc \in {"select", "commit"} => hot[x.to] = x.body
        /\ x.op = "overwrite" /\ x.pc # "drop" => x.r \in discarded
        /\ x.op = "delete" /\ x.pc # "remove" => x.r \in discarded
        /\ x.op = "rename" /\ x.pc # "copy" /\ x.r \notin discarded => hot[x.to] = x.rec.body
        /\ x.op = "rename" => x.to # x.rec.path

KeptByJob ==
    LET b == row[job.cur].body
    IN  job.cur # None /\ job.cur \notin discarded =>
            /\ job.bytes = b
            /\ job.pc \in {"drop", "mark"} => zst[Source] = b

Kept ==
    /\ \A r \in Records : KeptFile(r)
    /\ \A s \in Sessions : KeptBySession(s)
    /\ KeptByJob

-----------------------------------------------------------------------------
LEMMA Sizes == \A b \in Bodies : b \in Nat /\ b \in Int
<1>1. Bodies \subseteq Nat
  BY LifecycleAssumption
<1> QED
  BY <1>1

LEMMA NoSessionFits == NoSession \in Session /\ NoRow \in Row /\ NoJob \in Job /\ NoAudit \in Audit
<1>1. AnyKey \in Keys /\ AnyBody \in Bodies
  BY LifecycleAssumption DEF AnyKey, AnyBody
<1>2. NoRow \in Row
  BY <1>1 DEF NoRow, Row, Status
<1> QED
  BY <1>1, <1>2 DEF NoSession, Session, NoJob, Job, NoAudit, Audit

LEMMA InitTyped == Init => Typed
<1> SUFFICES ASSUME Init PROVE Typed
  OBVIOUS
<1>1. TypeOK
  BY NoSessionFits DEF Init, TypeOK, NoRow
<1> QED
  BY <1>1 DEF Init, Typed, SessionInv, JobInv, NoSession, NoJob

(* A session moves on or ends.                                                *)
LEMMA SessionStep ==
  ASSUME Typed, NEW s \in Sessions, NEW x \in Session, session' = [session EXCEPT ![s] = x]
  PROVE  /\ session' \in [Sessions -> Session]
         /\ session'[s] = x
         /\ \A t \in Sessions \ {s} : session'[t] = session[t] /\ (SessionInv(t) => SessionInv(t)')
BY DEF Typed, TypeOK, SessionInv

LEMMA EndsTyped ==
  ASSUME Typed, NEW s \in Sessions, Ends(s)
  PROVE  session' \in [Sessions -> Session] /\ \A t \in Sessions : SessionInv(t)'
<1>1. /\ session' \in [Sessions -> Session] /\ session'[s] = NoSession
      /\ \A t \in Sessions \ {s} : session'[t] = session[t] /\ (SessionInv(t) => SessionInv(t)')
  BY NoSessionFits, SessionStep DEF Ends
<1>2. SessionInv(s)'
  BY <1>1 DEF SessionInv, NoSession
<1> QED
  BY <1>1, <1>2 DEF Typed

LEMMA GoesTyped ==
  ASSUME Typed, NEW s \in Sessions, NEW pc, Goes(s, pc),
         session[s].op # "none",
         session[s].op = "upload" => pc \in {"move", "commit"},
         session[s].op = "rename" => pc \in {"copy", "remove", "select", "commit"},
         session[s].op = "overwrite" => pc \in {"drop", "move", "select", "commit"},
         session[s].op = "delete" => pc \in {"remove", "select", "commit"}
  PROVE  session' \in [Sessions -> Session] /\ \A t \in Sessions : SessionInv(t)'
<1> DEFINE x == session[s]
           y == [x EXCEPT !.pc = pc]
<1>1. x \in Session /\ SessionInv(s)
  BY DEF Typed, TypeOK
<1>2. pc \in {"copy", "remove", "drop", "move", "select", "commit"}
  BY <1>1 DEF Session
<1>3. y \in Session /\ y.pc = pc /\ y.op = x.op /\ y.r = x.r
  BY <1>1, <1>2 DEF Session
<1>4. session' = [session EXCEPT ![s] = y]
  BY DEF Goes, Typed, TypeOK
<1> HIDE DEF y
<1>5. /\ session' \in [Sessions -> Session] /\ session'[s] = y
      /\ \A t \in Sessions \ {s} : SessionInv(t)'
  BY <1>3, <1>4, SessionStep DEF Typed
<1>6. SessionInv(s)'
  BY <1>1, <1>2, <1>3, <1>5 DEF SessionInv
<1> QED
  BY <1>5, <1>6

LEMMA BeginTyped ==
  ASSUME Typed, NEW s \in Sessions, NEW op, NEW pc, NEW r \in Records, NEW k \in Keys,
         NEW b \in Bodies, Begin(s, op, pc, r, k, b), tmp' \in [Records -> Bodies \cup {None}],
         \/ op = "upload" /\ pc = "move"
         \/ op = "rename" /\ pc = "copy"
         \/ op = "overwrite" /\ pc = "drop"
         \/ op = "delete" /\ pc = "remove"
  PROVE  Typed'
<1> DEFINE x == [op |-> op, pc |-> pc, r |-> r, rec |-> row[r], base |-> NoRow,
                 to |-> k, body |-> b]
<1>1. x \in Session
  BY NoSessionFits DEF Session, Typed, TypeOK
<1>2. /\ session' = [session EXCEPT ![s] = x]
      /\ UNCHANGED <<row, hot, zst, total, job, audit, discarded>>
      /\ spent' = [spent EXCEPT !.requests = @ + 1]
  BY DEF Begin
<1>3. x.op = op /\ x.pc = pc /\ x.r = r
  OBVIOUS
<1> HIDE DEF x
<1>4. /\ session' \in [Sessions -> Session] /\ session'[s] = x
      /\ \A t \in Sessions \ {s} : SessionInv(t)'
  BY <1>1, <1>2, SessionStep DEF Typed
<1>5. SessionInv(s)'
  BY <1>3, <1>4 DEF SessionInv
<1>6. TypeOK'
  BY <1>2, <1>4 DEF Typed, TypeOK
<1> QED
  BY <1>2, <1>4, <1>5, <1>6 DEF Typed, JobInv

LEMMA ArrivesTyped ==
  ASSUME Typed, NEW s \in Sessions, Arrives(s)
  PROVE  Typed'
<1>0. AnyKey \in Keys /\ AnyBody \in Bodies /\ row \in [Records -> Row]
  BY LifecycleAssumption DEF AnyKey, AnyBody, Typed, TypeOK
<1>1. ASSUME NEW u \in Uploads, UploadBegin(s, u[1], u[2], u[3]) PROVE Typed'
  <2>1. u[1] \in Records /\ u[2] \in Keys /\ u[3] \in Bodies
    BY LifecycleAssumption
  <2> QED
    BY <1>1, <2>1, BeginTyped DEF UploadBegin, Typed, TypeOK
<1>2. ASSUME NEW n \in Renames, RenameBegin(s, n[1], n[2]) PROVE Typed'
  <2>1. n[1] \in Records /\ n[2] \in Keys
    BY LifecycleAssumption
  <2> QED
    BY <1>0, <1>2, <2>1, BeginTyped DEF RenameBegin, Typed, TypeOK
<1>3. ASSUME NEW w \in Overwrites, OverwriteBegin(s, w[1], w[2]) PROVE Typed'
  <2>1. w[1] \in Records /\ w[2] \in Bodies /\ row[w[1]].path \in Keys
    BY <1>0, LifecycleAssumption DEF Row
  <2> QED
    BY <1>3, <2>1, BeginTyped DEF OverwriteBegin, Typed, TypeOK
<1>4. ASSUME NEW r \in Deletes, DeleteBegin(s, r) PROVE Typed'
  <2>1. r \in Records
    BY LifecycleAssumption
  <2> QED
    BY <1>0, <1>4, <2>1, BeginTyped DEF DeleteBegin, Typed, TypeOK
<1> QED
  BY <1>1, <1>2, <1>3, <1>4 DEF Arrives

(* What a commit makes of the row and of the quota, operation by operation.      *)
LEMMA CommittedRows ==
  ASSUME NEW f \in Row, NEW x \in Session
  PROVE  LET new == CommittedRow(f, x)
         IN  /\ x.op = "upload" =>
                    /\ new \in Row /\ new.status = "committed" /\ new.path = x.to
                    /\ new.body = x.body /\ ~new.archived /\ new.blob = None
                    /\ Charge(x) = x.body
             /\ x.op = "rename" =>
                    /\ new \in Row /\ new.body = f.body
                    /\ new.archived = f.archived /\ new.blob = f.blob
                    /\ new.status = Written(f.status, x.base.status, x.rec.status)
                    /\ new.path = Written(f.path, x.base.path, x.to)
                    /\ Charge(x) = 0
             /\ x.op = "overwrite" =>
                    /\ new \in Row /\ new.status = f.status /\ new.path = f.path
                    /\ new.archived = f.archived /\ new.blob = f.blob
                    /\ new.body = Written(f.body, x.base.body, x.body)
                    /\ Charge(x) = x.body - x.rec.body
             /\ x.op = "delete" =>
                    /\ new \in Row /\ new.path = f.path /\ new.body = f.body
                    /\ new.archived = f.archived /\ new.blob = f.blob
                    /\ new.status = Written(f.status, x.base.status, "deleted")
                    /\ Charge(x) = 0 - x.rec.body
<1> DEFINE new == CommittedRow(f, x)
<1>1. /\ x.to \in Keys /\ x.body \in Bodies /\ x.rec \in Row /\ x.base \in Row
  BY DEF Session
<1>2. CASE x.op = "upload"
  <2>1. new = [NoRow EXCEPT !.status = "committed", !.path = x.to, !.body = x.body]
        /\ Charge(x) = Size(x.body)
    BY <1>2 DEF CommittedRow, Charge
  <2> QED
    BY <1>1, <1>2, <2>1, NoSessionFits DEF NoRow, Row, Status, Size
<1>3. CASE x.op = "rename"
  <2>1. /\ new = [f EXCEPT !.status = Written(@, x.base.status, x.rec.status),
                           !.path = Written(@, x.base.path, x.to)]
        /\ Charge(x) = 0
    BY <1>3 DEF CommittedRow, Charge
  <2> QED
    BY <1>1, <1>3, <2>1 DEF Row, Written
<1>4. CASE x.op = "overwrite"
  <2>1. /\ new = [f EXCEPT !.body = Written(@, x.base.body, x.body)]
        /\ Charge(x) = Size(x.body) - Size(x.rec.body)
    BY <1>4 DEF CommittedRow, Charge
  <2> QED
    BY <1>1, <1>4, <2>1 DEF Row, Written, Size
<1>5. CASE x.op = "delete"
  <2>1. /\ new = [f EXCEPT !.status = Written(@, x.base.status, "deleted")]
        /\ Charge(x) = 0 - Size(x.rec.body)
    BY <1>5 DEF CommittedRow, Charge
  <2> QED
    BY <1>1, <1>5, <2>1 DEF Row, Written, Size, Status
<1> QED
  BY <1>2, <1>3, <1>4, <1>5

LEMMA CommitTyped ==
  ASSUME Typed, NEW s \in Sessions, Commit(s)
  PROVE  Typed'
<1> DEFINE x == session[s]
<1>1. /\ x \in Session /\ SessionInv(s) /\ x.pc = "commit"
      /\ row' = [row EXCEPT ![x.r] = CommittedRow(@, x)]
      /\ total' = total + Charge(x) /\ Ends(s)
      /\ discarded' \in {discarded, discarded \ {x.r}}
      /\ UNCHANGED <<hot, tmp, zst, job, audit, spent>>
  BY DEF Typed, TypeOK, Commit
<1>2. x.op \in {"upload", "rename", "overwrite", "delete"} /\ x.r \in Records
  BY <1>1 DEF SessionInv, Session
<1>3. row[x.r] \in Row /\ (row[x.r].archived => row[x.r].blob # None)
  BY <1>2 DEF Typed, TypeOK
<1>4. /\ CommittedRow(row[x.r], x) \in Row /\ Charge(x) \in Int
      /\ CommittedRow(row[x.r], x).archived => CommittedRow(row[x.r], x).blob # None
  <2>0. x.body \in Bodies /\ x.rec.body \in Bodies
    BY <1>1 DEF Session, Row
  <2>1. x.body \in Int /\ x.rec.body \in Int
    BY <2>0, Sizes
  <2> QED
    BY <1>1, <1>2, <1>3, <2>1, CommittedRows
<1>5. session' \in [Sessions -> Session] /\ \A t \in Sessions : SessionInv(t)'
  BY <1>1, EndsTyped
<1> HIDE DEF x
<1>6. TypeOK'
  BY <1>1, <1>2, <1>4, <1>5 DEF Typed, TypeOK
<1> QED
  BY <1>1, <1>5, <1>6 DEF Typed, JobInv

LEMMA RequestStepTyped ==
  ASSUME Typed, NEW s \in Sessions, RequestStep(s)
  PROVE  Typed'
<1> DEFINE x == session[s]
<1>0. /\ x \in Session /\ SessionInv(s) /\ TypeOK /\ JobInv
      /\ x.rec \in Row /\ x.to \in Keys /\ x.rec.path \in Keys /\ x.body \in Bodies
  BY DEF Typed, TypeOK, Session, Row
<1>1. CASE RenameCopy(s)
  <2>1. x.op = "rename" /\ UNCHANGED <<row, tmp, zst, total, job, audit, discarded, spent>>
    BY <1>0, <1>1 DEF RenameCopy, SessionInv, Session
  <2>2. session' \in [Sessions -> Session] /\ \A t \in Sessions : SessionInv(t)'
    BY <1>1, <2>1, EndsTyped, GoesTyped DEF RenameCopy
  <2>3. hot' \in [Keys -> Bodies \cup {None}]
    BY <1>0, <1>1 DEF RenameCopy, TypeOK
  <2> QED
    BY <1>0, <2>1, <2>2, <2>3 DEF Typed, TypeOK, JobInv
<1>2. CASE RenameRemove(s)
  <2>1. /\ x.op = "rename" /\ UNCHANGED <<row, tmp, zst, total, job, audit, discarded, spent>>
        /\ hot' \in [Keys -> Bodies \cup {None}]
    BY <1>0, <1>2 DEF RenameRemove, TypeOK
  <2>2. session' \in [Sessions -> Session] /\ \A t \in Sessions : SessionInv(t)'
    BY <1>2, <2>1, GoesTyped DEF RenameRemove
  <2> QED
    BY <1>0, <2>1, <2>2 DEF Typed, TypeOK, JobInv
<1>3. CASE DeleteRemove(s)
  <2>1. /\ x.op = "delete" /\ UNCHANGED <<row, tmp, total, job, audit, spent>>
        /\ hot' \in [Keys -> Bodies \cup {None}] /\ zst' \in [Keys -> Bodies \cup {None}]
        /\ discarded' = discarded \cup {x.r}
    BY <1>0, <1>3 DEF DeleteRemove, TypeOK
  <2>2. session' \in [Sessions -> Session] /\ \A t \in Sessions : SessionInv(t)'
    BY <1>3, <2>1, GoesTyped DEF DeleteRemove
  <2>3. x.r \in Records
    BY <1>0, <2>1 DEF SessionInv
  <2> QED
    BY <1>0, <2>1, <2>2, <2>3 DEF Typed, TypeOK, JobInv
<1>4. CASE OverwriteDrop(s)
  <2>1. /\ x.op = "overwrite" /\ UNCHANGED <<row, tmp, zst, total, job, audit, spent>>
        /\ hot' \in [Keys -> Bodies \cup {None}]
        /\ discarded' = discarded \cup {x.r}
    BY <1>0, <1>4 DEF OverwriteDrop, TypeOK, SessionInv, Session
  <2>2. session' \in [Sessions -> Session] /\ \A t \in Sessions : SessionInv(t)'
    BY <1>4, <2>1, GoesTyped DEF OverwriteDrop
  <2>3. x.r \in Records
    BY <1>0, <2>1 DEF SessionInv
  <2> QED
    BY <1>0, <2>1, <2>2, <2>3 DEF Typed, TypeOK, JobInv
<1>5. CASE Move(s)
  <2>1. x.op \in {"upload", "overwrite"} /\ x.r \in Records
        /\ UNCHANGED <<row, zst, total, job, audit, discarded, spent>>
    BY <1>0, <1>5 DEF Move, SessionInv, Session
  <2>2. session' \in [Sessions -> Session] /\ \A t \in Sessions : SessionInv(t)'
    BY <1>5, <2>1, EndsTyped, GoesTyped DEF Move
  <2>3. hot' \in [Keys -> Bodies \cup {None}] /\ tmp' \in [Records -> Bodies \cup {None}]
    BY <1>0, <1>5, <2>1 DEF Move, TypeOK
  <2> QED
    BY <1>0, <2>1, <2>2, <2>3 DEF Typed, TypeOK, JobInv
<1>6. CASE Select(s)
  <2> DEFINE y == [x EXCEPT !.pc = "commit", !.base = row[x.r]]
  <2>1. /\ x.op \in {"rename", "overwrite", "delete"} /\ x.r \in Records
        /\ UNCHANGED <<row, hot, tmp, zst, total, job, audit, discarded, spent>>
        /\ session' = [session EXCEPT ![s] = y]
    BY <1>0, <1>6 DEF Select, SessionInv, Session, TypeOK
  <2>2. row[x.r] \in Row
    BY <1>0, <2>1 DEF TypeOK
  <2>3. y \in Session /\ y.op = x.op /\ y.pc = "commit" /\ y.r = x.r
    BY <1>0, <2>2 DEF Session
  <2> HIDE DEF y
  <2>4. /\ session' \in [Sessions -> Session] /\ session'[s] = y
        /\ \A t \in Sessions \ {s} : SessionInv(t)'
    BY <2>1, <2>3, SessionStep DEF Typed
  <2>5. SessionInv(s)'
    BY <2>1, <2>3, <2>4 DEF SessionInv
  <2> QED
    BY <1>0, <2>1, <2>4, <2>5 DEF Typed, TypeOK, JobInv
<1> QED
  BY <1>1, <1>2, <1>3, <1>4, <1>5, <1>6, CommitTyped DEF RequestStep

LEMMA ArchiveTyped ==
  ASSUME Typed, ArchiveList \/ ArchiveStep \/ ArchiveError
  PROVE  Typed'
<1>0. /\ TypeOK /\ JobInv /\ job \in Job /\ row \in [Records -> Row]
      /\ hot \in [Keys -> Bodies \cup {None}] /\ zst \in [Keys -> Bodies \cup {None}]
  BY DEF Typed, TypeOK
<1>1. UNCHANGED <<tmp, total, session, audit, discarded>>
  BY DEF ArchiveList, ArchiveStep, ArchiveRead, ArchivePut, ArchiveDrop, ArchiveMark, ArchiveCommit,
         ArchiveError
<1>2. /\ job' \in Job /\ JobInv'
      /\ hot' \in [Keys -> Bodies \cup {None}] /\ zst' \in [Keys -> Bodies \cup {None}]
      /\ row' \in [Records -> Row]
      /\ \A r \in Records : row'[r].archived => row'[r].blob # None
      /\ spent' \in [requests : Nat, faults : Nat]
  <2>0. NextRecord \in Job /\ NextRecord.pc = "next" /\ NextRecord.cur = None
        /\ NextRecord.marked = job.marked
    BY <1>0 DEF NextRecord, Job
  <2>1. CASE ArchiveList
    <3>1. PICK S \in SUBSET Candidates :
            job' = [NoJob EXCEPT !.pc = "next", !.todo = S, !.seen = row]
      BY <2>1 DEF ArchiveList
    <3>2. S \subseteq Records
      BY DEF Candidates
    <3>3. job' \in Job /\ job'.pc = "next" /\ job'.cur = None
      BY <1>0, <3>1, <3>2 DEF NoJob, Job
    <3> QED
      BY <1>0, <2>1, <3>3 DEF ArchiveList, TypeOK, JobInv
  <2>2. ASSUME NEW r \in Records, ArchiveRead(r)
        PROVE  job' \in Job /\ JobInv'
    <3>1. /\ job.pc = "next"
          /\ job' = IF hot[job.seen[r].path] = None
                    THEN [job EXCEPT !.todo = @ \ {r}]
                    ELSE [job EXCEPT !.todo = @ \ {r}, !.pc = "put", !.cur = r,
                                     !.bytes = hot[job.seen[r].path]]
      BY <2>2 DEF ArchiveRead
    <3>2. job.seen[r].path \in Keys
      BY <1>0 DEF Job, Row
    <3>3. CASE hot[job.seen[r].path] = None
      BY <1>0, <3>1, <3>3 DEF Job, JobInv
    <3>4. CASE hot[job.seen[r].path] # None
      <4>1. hot[job.seen[r].path] \in Bodies
        BY <1>0, <3>2, <3>4
      <4>2. job' \in Job /\ job'.pc = "put" /\ job'.cur = r /\ job'.bytes = hot[job.seen[r].path]
        BY <1>0, <3>1, <3>4, <4>1 DEF Job
      <4> QED
        BY <3>4, <4>2 DEF JobInv
    <3> QED
      BY <3>3, <3>4
  <2>3. CASE ArchivePut
    <3>1. job.cur \in Records /\ job.bytes # None /\ job.bytes \in Bodies
      BY <1>0, <2>3 DEF ArchivePut, JobInv, Job
    <3>2. Source \in Keys
      BY <1>0, <3>1 DEF Source, Job, Row
    <3>3. job' \in Job /\ job'.pc = "drop" /\ job'.cur = job.cur /\ job'.bytes = job.bytes
      BY <1>0, <2>3 DEF ArchivePut, Job
    <3>4. zst' \in [Keys -> Bodies \cup {None}]
      BY <1>0, <2>3, <3>1, <3>2 DEF ArchivePut
    <3> QED
      BY <1>0, <2>3, <3>1, <3>3, <3>4 DEF ArchivePut, TypeOK, JobInv
  <2>4. CASE ArchiveDrop
    <3>1. job.cur \in Records /\ job.bytes # None
      BY <1>0, <2>4 DEF ArchiveDrop, JobInv
    <3>2. /\ [job EXCEPT !.pc = "mark"] \in Job /\ [job EXCEPT !.pc = "mark"].pc = "mark"
          /\ [job EXCEPT !.pc = "mark"].cur = job.cur /\ [job EXCEPT !.pc = "mark"].bytes = job.bytes
      BY <1>0 DEF Job
    <3>3. job' \in Job /\ JobInv'
      BY <2>0, <2>4, <3>1, <3>2 DEF ArchiveDrop, JobInv
    <3>4. hot' \in [Keys -> Bodies \cup {None}]
      BY <1>0, <2>4 DEF ArchiveDrop
    <3> QED
      BY <1>0, <2>4, <3>3, <3>4 DEF ArchiveDrop, TypeOK
  <2>5. CASE ArchiveMark
    <3>1. job.cur \in Records
      BY <1>0, <2>5 DEF ArchiveMark, JobInv
    <3>2. job' \in Job /\ job'.pc = "next" /\ job'.cur = None
      BY <1>0, <2>0, <2>5, <3>1 DEF ArchiveMark, Job
    <3> QED
      BY <1>0, <2>5, <3>2 DEF ArchiveMark, TypeOK, JobInv
  <2>6. CASE ArchiveCommit
    <3>1. ASSUME NEW r \in Records
          PROVE  /\ MarkArchived(row[r], job.seen[r].path) \in Row
                 /\ MarkArchived(row[r], job.seen[r].path).blob # None
      <4>1. row[r] \in Row /\ job.seen[r].path \in Keys
        BY <1>0 DEF Job, Row
      <4> QED
        BY <4>1, LifecycleAssumption DEF MarkArchived, Row, Status
    <3>2. row' = [r \in Records |->
            IF r \in job.marked THEN MarkArchived(row[r], job.seen[r].path) ELSE row[r]]
      BY <2>6 DEF ArchiveCommit
    <3>3. /\ row' \in [Records -> Row]
          /\ \A r \in Records : row'[r].archived => row'[r].blob # None
      BY <1>0, <3>1, <3>2 DEF TypeOK
    <3> QED
      BY <1>0, <2>6, <3>3, NoSessionFits DEF ArchiveCommit, TypeOK, JobInv, NoJob
  <2>7. CASE ArchiveError
    <3>1. job' = NextRecord /\ UNCHANGED <<row, hot, zst>>
          /\ spent' \in [requests : Nat, faults : Nat]
      BY <1>0, <2>7 DEF ArchiveError, Spend, TypeOK
    <3> QED
      BY <1>0, <2>0, <3>1 DEF TypeOK, JobInv
  <2>8. ASSUME NEW r \in Records, ArchiveRead(r)
        PROVE  UNCHANGED <<row, hot, zst, spent>>
    BY <2>8 DEF ArchiveRead
  <2> QED
    BY <1>0, <2>1, <2>2, <2>3, <2>4, <2>5, <2>6, <2>7, <2>8 DEF ArchiveStep, TypeOK
<1>3. \A s \in Sessions : SessionInv(s)'
  BY <1>1 DEF SessionInv, Typed
<1> QED
  BY <1>0, <1>1, <1>2, <1>3 DEF Typed, TypeOK

LEMMA SumsTyped ==
  ASSUME Typed, NEW S \in SUBSET Records
  PROVE  Bytes(S) \in Int
<1> DEFINE g == [r \in Records |-> Size(row[r].body)]
<1>1. \A r \in S : g[r] \in Int
  <2>1. \A r \in S : row[r].body \in Bodies
    BY DEF Typed, TypeOK, Row
  <2> QED
    BY <2>1, Sizes DEF Size
<1>2. IsFiniteSet(S)
  BY LifecycleAssumption, FS_Subset
<1> HIDE DEF g
<1>3. SumFunctionOnSet(g, S) \in Int
  BY <1>1, <1>2, SumType DEF IntOn
<1> QED
  BY <1>3 DEF Bytes, g

LEMMA StepTyped == Typed /\ [Next]_vars => Typed'
<1> SUFFICES ASSUME Typed, [Next]_vars PROVE Typed'
  OBVIOUS
<1>0. TypeOK /\ JobInv /\ \A s \in Sessions : SessionInv(s)
  BY DEF Typed
<1>1. ASSUME NEW s \in Sessions, Abort(s) PROVE Typed'
  <2>1. session' \in [Sessions -> Session] /\ \A t \in Sessions : SessionInv(t)'
    BY <1>1, EndsTyped DEF Abort
  <2>2. spent' \in [requests : Nat, faults : Nat]
    BY <1>0, <1>1 DEF Abort, Spend, TypeOK
  <2>3. tmp' \in [Records -> Bodies \cup {None}]
    BY <1>0, <1>1 DEF Abort, TypeOK
  <2> QED
    BY <1>0, <1>1, <2>1, <2>2, <2>3 DEF Abort, Typed, TypeOK, JobInv
<1>2. CASE ReconcileSum
  <2>1. CommittedBytes \in Int
    BY SumsTyped DEF CommittedBytes
  <2>2. audit' \in Audit
    BY <1>2, <2>1 DEF ReconcileSum, Audit
  <2>3. UNCHANGED <<row, hot, tmp, zst, total, session, job, discarded, spent>>
    BY <1>2 DEF ReconcileSum
  <2> QED
    BY <1>0, <2>2, <2>3 DEF Typed, TypeOK, JobInv, SessionInv
<1>3. CASE ReconcileWrite
  <2>1. total' \in Int /\ audit' \in Audit
    BY <1>0, <1>3, NoSessionFits DEF ReconcileWrite, Repaired, TypeOK, Audit
  <2>2. UNCHANGED <<row, hot, tmp, zst, session, job, discarded, spent>>
    BY <1>3 DEF ReconcileWrite
  <2> QED
    BY <1>0, <2>1, <2>2 DEF Typed, TypeOK, JobInv, SessionInv
<1>4. ASSUME NEW r \in Records, CleanTmp(r) PROVE Typed'
  BY <1>0, <1>4 DEF CleanTmp, Typed, TypeOK, JobInv, SessionInv
<1>5. CASE Crash
  <2>1. /\ session' = [s \in Sessions |-> NoSession] /\ job' = NoJob /\ audit' = NoAudit
        /\ UNCHANGED <<row, hot, tmp, zst, total, discarded>>
        /\ spent' \in [requests : Nat, faults : Nat]
    BY <1>0, <1>5 DEF Crash, Spend, TypeOK
  <2>2. TypeOK'
    BY <1>0, <2>1, NoSessionFits DEF TypeOK
  <2>3. JobInv' /\ \A s \in Sessions : SessionInv(s)'
    BY <2>1 DEF JobInv, NoJob, SessionInv, NoSession
  <2> QED
    BY <2>2, <2>3 DEF Typed
<1>6. CASE UNCHANGED vars
  BY <1>0, <1>6 DEF vars, Typed, TypeOK, JobInv, SessionInv
<1> QED
  BY <1>1, <1>2, <1>3, <1>4, <1>5, <1>6, ArrivesTyped, RequestStepTyped, ArchiveTyped DEF Next

(* Every reachable state is typed, whoever overlaps with whom: an archived row     *)
(* names its archive, and the blob a run writes comes from the row it listed.      *)
THEOREM TypeCorrect == Spec => []TypeOK
<1>1. Init => Typed
  BY InitTyped
<1>2. Typed /\ [Next]_vars => Typed'
  BY StepTyped
<1>3. Typed => TypeOK
  BY DEF Typed
<1> QED
  BY <1>1, <1>2, <1>3, PTL DEF Spec

-----------------------------------------------------------------------------
(* One actor at a time.                                                       *)

LEMMA InitAlone == Init => Alone
<1> SUFFICES ASSUME Init PROVE Alone
  OBVIOUS
<1>1. \A s \in Sessions : session[s] = NoSession
  BY DEF Init
<1>2. \A r \in Records : ~InJob(r)
  BY LifecycleAssumption DEF Init, InJob, NoJob
<1> QED
  BY <1>1, <1>2 DEF Alone, AloneInSession, AloneInJob, NoSession

(* A request that begins finds its file without an actor.                      *)
LEMMA BeginAlone ==
  ASSUME ~Overlap, Typed, Alone, NEW s \in Sessions, NEW op, NEW pc, NEW r \in Records, NEW k, NEW b,
         Begin(s, op, pc, r, k, b),
         op = "upload" => row[r].status = "none",
         op # "upload" => Live(row[r]), pc # "commit"
  PROVE  Alone'
<1> DEFINE x == [op |-> op, pc |-> pc, r |-> r, rec |-> row[r], base |-> NoRow,
                 to |-> k, body |-> b]
<1>1. UNCHANGED <<row, job>> /\ ~InSession(r) /\ ~InJob(r) /\ session' = [session EXCEPT ![s] = x]
  BY DEF Begin
<1>2. session'[s] = x /\ \A t \in Sessions \ {s} : session'[t] = session[t]
  BY <1>1 DEF Typed, TypeOK
<1>3. x.op = op /\ x.pc = pc /\ x.r = r /\ x.rec = row[r]
  OBVIOUS
<1> HIDE DEF x
<1>4. \A t \in Sessions : session[t].r # r
  BY <1>1 DEF InSession
<1>5. AloneInSession(s)'
  BY <1>1, <1>2, <1>3, <1>4 DEF AloneInSession, InJob
<1>6. \A t \in Sessions \ {s} : AloneInSession(t)'
  BY <1>1, <1>2, <1>3, <1>4 DEF Alone, AloneInSession, InJob
<1>7. AloneInJob'
  BY <1>1 DEF Alone, AloneInJob, InJob, Candidates
<1> QED
  BY <1>5, <1>6, <1>7 DEF Alone

(* A request that goes on, or ends without a commit.                           *)
LEMMA SessionAlone ==
  ASSUME Typed, Alone, NEW s \in Sessions, NEW y, session' = [session EXCEPT ![s] = y],
         UNCHANGED <<row, job>>,
         \/ y = NoSession
         \/ /\ y.op = session[s].op /\ y.r = session[s].r /\ y.rec = session[s].rec
            /\ y.pc = "commit" => y.op = "upload" \/ y.base = row[y.r]
  PROVE  Alone'
<1>1. session'[s] = y /\ \A t \in Sessions \ {s} : session'[t] = session[t]
  BY DEF Typed, TypeOK
<1>2. NoSession.op = "none" /\ NoSession.r = None
  BY DEF NoSession
<1>3. \A t \in Sessions : session[t].op # "none" => session[t].r \in Records
  BY DEF Typed, SessionInv
<1>4. y.r \in {session[s].r, None}
  BY <1>2
<1>5. AloneInSession(s)'
  BY <1>1, <1>2 DEF Alone, AloneInSession, InJob
<1>6. \A t \in Sessions \ {s} : AloneInSession(t)'
  BY <1>1, <1>3, <1>4, LifecycleAssumption DEF Alone, AloneInSession, InJob
<1>7. AloneInJob'
  BY DEF Alone, AloneInJob, InJob, Candidates
<1> QED
  BY <1>5, <1>6, <1>7 DEF Alone

LEMMA CommitAlone ==
  ASSUME Typed, Alone, NEW s \in Sessions, Commit(s)
  PROVE  Alone'
<1> DEFINE x == session[s]
<1>1. /\ x.pc = "commit" /\ Ends(s) /\ UNCHANGED job
      /\ row' = [row EXCEPT ![x.r] = CommittedRow(@, x)]
  BY DEF Commit
<1>2. x.op # "none" /\ x.r \in Records /\ ~InJob(x.r)
  BY <1>1 DEF Typed, SessionInv, Alone, AloneInSession
<1>3. session'[s] = NoSession /\ \A t \in Sessions \ {s} : session'[t] = session[t]
  BY <1>1 DEF Ends, Typed, TypeOK
<1>4. \A r \in Records \ {x.r} : row'[r] = row[r]
  BY <1>1 DEF Typed, TypeOK
<1>5. \A t \in Sessions \ {s} : session[t].op # "none" => session[t].r \in Records \ {x.r}
  BY <1>2 DEF Typed, SessionInv, Alone, AloneInSession
<1> HIDE DEF x
<1>6. NoSession.op = "none" /\ NoSession.r = None
  BY DEF NoSession
<1>7. AloneInSession(s)'
  BY <1>3, <1>6 DEF AloneInSession
<1>8. \A t \in Sessions \ {s} : AloneInSession(t)'
  BY <1>1, <1>3, <1>4, <1>5, <1>6, LifecycleAssumption DEF Alone, AloneInSession, InJob
<1>9. AloneInJob'
  BY <1>1, <1>2, <1>4 DEF Alone, AloneInJob, InJob, Candidates
<1> QED
  BY <1>7, <1>8, <1>9 DEF Alone

(* Between its listing and its commit the run only lets go of files.                *)
LEMMA RunGoesOn ==
  ASSUME Typed, \/ \E r \in Records : ArchiveRead(r)
                \/ ArchivePut \/ ArchiveDrop \/ ArchiveMark \/ ArchiveError
  PROVE  /\ UNCHANGED <<row, session, tmp, total, audit, discarded>>
         /\ job'.seen = job.seen
         /\ \A r \in Records : InJob(r)' => InJob(r)
<1>0. job \in Job
  BY DEF Typed, TypeOK
<1>1. /\ NextRecord.cur = None /\ NextRecord.todo = job.todo /\ NextRecord.marked = job.marked
      /\ NextRecord.seen = job.seen
  BY <1>0 DEF NextRecord, Job
<1>2. ASSUME NEW q \in Records, ArchiveRead(q)
      PROVE  /\ UNCHANGED <<row, session, tmp, total, audit, discarded>>
             /\ job'.seen = job.seen /\ job'.cur \in {job.cur, q} /\ q \in job.todo
             /\ job'.todo = job.todo \ {q} /\ job'.marked = job.marked
  BY <1>0, <1>2 DEF ArchiveRead, Job
<1>3. ASSUME ArchivePut
      PROVE  /\ UNCHANGED <<row, session, tmp, total, audit, discarded>>
             /\ job'.seen = job.seen /\ job'.cur = job.cur
             /\ job'.todo = job.todo /\ job'.marked = job.marked
  BY <1>0, <1>3 DEF ArchivePut, Job
<1>4. ASSUME ArchiveDrop
      PROVE  /\ UNCHANGED <<row, session, tmp, total, audit, discarded>>
             /\ job'.seen = job.seen /\ job'.cur \in {job.cur, None}
             /\ job'.todo = job.todo /\ job'.marked = job.marked
  BY <1>0, <1>1, <1>4 DEF ArchiveDrop, Job
<1>5. ASSUME ArchiveMark
      PROVE  /\ UNCHANGED <<row, session, tmp, total, audit, discarded>>
             /\ job'.seen = job.seen /\ job'.cur = None
             /\ job'.todo = job.todo /\ job'.marked = job.marked \cup {job.cur}
  <2>1. job' = [NextRecord EXCEPT !.marked = @ \cup {job.cur}] /\ NextRecord \in Job
    BY <1>0, <1>5 DEF ArchiveMark, NextRecord, Job
  <2> QED
    BY <1>1, <1>5, <2>1 DEF ArchiveMark, Job
<1>6. ASSUME ArchiveError
      PROVE  /\ UNCHANGED <<row, session, tmp, total, audit, discarded>>
             /\ job'.seen = job.seen /\ job'.cur = None
             /\ job'.todo = job.todo /\ job'.marked = job.marked
  BY <1>1, <1>6 DEF ArchiveError
<1>7. None \notin Records
  BY LifecycleAssumption
<1> QED
  BY <1>2, <1>3, <1>4, <1>5, <1>6, <1>7 DEF InJob

LEMMA RunCommits ==
  ASSUME Typed, ArchiveCommit
  PROVE  /\ UNCHANGED <<hot, tmp, zst, session, total, audit, discarded>>
         /\ job' = NoJob /\ \A r \in Records : ~InJob(r)'
         /\ \A r \in Records :
               row'[r] = IF r \in job.marked THEN MarkArchived(row[r], job.seen[r].path) ELSE row[r]
         /\ \A r \in Records : row'[r] # row[r] => InJob(r)
BY LifecycleAssumption DEF ArchiveCommit, NoJob, InJob

(* The run takes up only files without an actor, and leaves the others alone.      *)
LEMMA ArchiveAlone ==
  ASSUME ~Overlap, Typed, Alone, ArchiveList \/ ArchiveStep \/ ArchiveError
  PROVE  Alone'
<1>0. \A s \in Sessions : session[s].op # "none" => session[s].r \in Records
  BY DEF Typed, SessionInv
<1>1. CASE ArchiveList
  <2>1. PICK S \in SUBSET Candidates :
          /\ \A r \in S : ~InSession(r)
          /\ job' = [NoJob EXCEPT !.pc = "next", !.todo = S, !.seen = row]
    BY <1>1 DEF ArchiveList
  <2>2. job'.cur = None /\ job'.todo = S /\ job'.marked = {} /\ job'.seen = row
    BY <2>1 DEF NoJob
  <2>3. UNCHANGED <<row, session>>
    BY <1>1 DEF ArchiveList
  <2>4. \A r \in Records : InJob(r)' => r \in Candidates /\ ~InSession(r)
    BY <2>1, <2>2, LifecycleAssumption DEF InJob
  <2>5. AloneInJob'
    BY <2>2, <2>3, <2>4 DEF AloneInJob, Candidates
  <2>6. \A s \in Sessions : AloneInSession(s)'
    BY <1>0, <2>3, <2>4 DEF Alone, AloneInSession, InSession
  <2> QED
    BY <2>5, <2>6 DEF Alone
<1>2. CASE \/ \E r \in Records : ArchiveRead(r)
           \/ ArchivePut \/ ArchiveDrop \/ ArchiveMark \/ ArchiveError
  <2>1. /\ UNCHANGED <<row, session>>
        /\ job'.seen = job.seen
        /\ \A r \in Records : InJob(r)' => InJob(r)
    BY <1>2, RunGoesOn
  <2>2. AloneInJob'
    BY <2>1 DEF Alone, AloneInJob, Candidates
  <2>3. \A s \in Sessions : AloneInSession(s)'
    BY <1>0, <2>1 DEF Alone, AloneInSession
  <2> QED
    BY <2>2, <2>3 DEF Alone
<1>3. CASE ArchiveCommit
  <2>1. /\ UNCHANGED session
        /\ \A r \in Records : ~InJob(r)'
        /\ \A r \in Records : row'[r] # row[r] => InJob(r)
    BY <1>3, RunCommits
  <2>2. AloneInJob'
    BY <2>1 DEF AloneInJob
  <2>3. \A s \in Sessions : AloneInSession(s)'
    BY <1>0, <2>1 DEF Alone, AloneInSession
  <2> QED
    BY <2>2, <2>3 DEF Alone
<1> QED
  BY <1>1, <1>2, <1>3 DEF ArchiveStep

LEMMA StepAlone == ~Overlap /\ Typed /\ Alone /\ [Next]_vars => Alone'
<1> SUFFICES ASSUME ~Overlap, Typed, Alone, [Next]_vars PROVE Alone'
  OBVIOUS
<1>1. ASSUME NEW s \in Sessions, Arrives(s) PROVE Alone'
  <2>0. \A u \in Uploads : u[1] \in Records
    BY LifecycleAssumption
  <2>1. ASSUME NEW u \in Uploads, UploadBegin(s, u[1], u[2], u[3]) PROVE Alone'
    BY <2>0, <2>1, BeginAlone DEF UploadBegin
  <2>2. ASSUME NEW n \in Renames, RenameBegin(s, n[1], n[2]) PROVE Alone'
    <3>1. n[1] \in Records
      BY LifecycleAssumption
    <3> QED
      BY <2>2, <3>1, BeginAlone DEF RenameBegin
  <2>3. ASSUME NEW w \in Overwrites, OverwriteBegin(s, w[1], w[2]) PROVE Alone'
    <3>1. w[1] \in Records
      BY LifecycleAssumption
    <3> QED
      BY <2>3, <3>1, BeginAlone DEF OverwriteBegin
  <2>4. ASSUME NEW r \in Deletes, DeleteBegin(s, r) PROVE Alone'
    <3>1. r \in Records
      BY LifecycleAssumption
    <3> QED
      BY <2>4, <3>1, BeginAlone DEF DeleteBegin
  <2> QED
    BY <1>1, <2>1, <2>2, <2>3, <2>4 DEF Arrives
<1>2. ASSUME NEW s \in Sessions, RequestStep(s) \/ Abort(s) PROVE Alone'
  <2> DEFINE x == session[s]
  <2>0. x \in Session /\ SessionInv(s)
    BY DEF Typed, TypeOK
  <2>1. ASSUME NEW pc, Goes(s, pc), pc = "commit" => x.op = "upload", UNCHANGED <<row, job>>
        PROVE  Alone'
    <3>1. session' = [session EXCEPT ![s] = [x EXCEPT !.pc = pc]]
      BY <2>1 DEF Goes, Typed, TypeOK
    <3>2. LET y == [x EXCEPT !.pc = pc]
          IN  y.op = x.op /\ y.r = x.r /\ y.rec = x.rec /\ y.pc = pc
      BY <2>0 DEF Session
    <3> QED
      BY <2>1, <3>1, <3>2, SessionAlone
  <2>2. ASSUME Ends(s), UNCHANGED <<row, job>> PROVE Alone'
    BY <2>2, SessionAlone DEF Ends
  <2>3. CASE RenameCopy(s)
    BY <2>1, <2>2, <2>3 DEF RenameCopy
  <2>4. CASE RenameRemove(s)
    BY <2>1, <2>4 DEF RenameRemove
  <2>5. CASE DeleteRemove(s)
    BY <2>1, <2>5 DEF DeleteRemove
  <2>6. CASE OverwriteDrop(s)
    BY <2>1, <2>6 DEF OverwriteDrop
  <2>7. CASE Move(s)
    BY <2>1, <2>2, <2>7 DEF Move
  <2>8. CASE Select(s)
    <3> DEFINE y == [x EXCEPT !.pc = "commit", !.base = row[x.r]]
    <3>1. session' = [session EXCEPT ![s] = y] /\ UNCHANGED <<row, job>>
      BY <2>8 DEF Select, Typed, TypeOK
    <3>2. y.op = x.op /\ y.r = x.r /\ y.rec = x.rec /\ y.base = row[x.r]
      BY <2>0 DEF Session
    <3> QED
      BY <3>1, <3>2, SessionAlone
  <2>9. CASE Commit(s)
    BY <2>9, CommitAlone
  <2>10. CASE Abort(s)
    BY <2>2, <2>10 DEF Abort
  <2> QED
    BY <1>2, <2>3, <2>4, <2>5, <2>6, <2>7, <2>8, <2>9, <2>10 DEF RequestStep
<1>3. CASE ArchiveList \/ ArchiveStep \/ ArchiveError
  BY <1>3, ArchiveAlone
<1>4. ASSUME UNCHANGED <<row, session, job>> PROVE Alone'
  BY <1>4 DEF Alone, AloneInSession, AloneInJob, InJob, Candidates
<1>5. CASE ReconcileSum \/ ReconcileWrite \/ (\E r \in Records : CleanTmp(r)) \/ UNCHANGED vars
  BY <1>4, <1>5 DEF ReconcileSum, ReconcileWrite, CleanTmp, vars
<1>6. CASE Crash
  <2>1. \A s \in Sessions : session'[s] = NoSession
    BY <1>6 DEF Crash
  <2>2. \A r \in Records : ~InJob(r)'
    BY <1>6, LifecycleAssumption DEF Crash, InJob, NoJob
  <2> QED
    BY <2>1, <2>2 DEF Alone, AloneInSession, AloneInJob, NoSession
<1> QED
  BY <1>1, <1>2, <1>3, <1>5, <1>6 DEF Next

-----------------------------------------------------------------------------
(* The quota.                                                                *)

LiveFiles == {r \in Records : Live(row[r])}
Sizeof == [r \in Records |-> Size(row[r].body)]

LEMMA SizesSum ==
  ASSUME Typed
  PROVE  IsFiniteSet(LiveFiles) /\ IntOn(Sizeof, Records) /\ IntOn(Sizeof, LiveFiles)
<1>1. LiveFiles \subseteq Records
  BY DEF LiveFiles
<1>2. \A r \in Records : row[r].body \in Bodies
  BY DEF Typed, TypeOK, Row
<1>3. \A r \in Records : Sizeof[r] \in Int
  BY <1>2, Sizes DEF Sizeof, Size
<1> QED
  BY <1>1, <1>3, FS_Subset, LifecycleAssumption DEF IntOn

LEMMA SumsStay ==
  ASSUME Typed, \A r \in Records : row'[r].body = row[r].body /\ (Live(row'[r]) <=> Live(row[r]))
  PROVE  Bytes(LiveFiles)' = Bytes(LiveFiles)
<1>1. LiveFiles' = LiveFiles
  BY DEF LiveFiles
<1>2. Sizeof' = Sizeof
  BY DEF Sizeof, Size
<1> QED
  BY <1>1, <1>2 DEF Bytes, Sizeof

(* What a commit adds to the counter is what it adds to the sum over the live files. *)
LEMMA CommitCharges ==
  ASSUME Typed, Typed', Alone, NEW s \in Sessions, Commit(s)
  PROVE  Bytes(LiveFiles)' = Bytes(LiveFiles) + Charge(session[s])
<1> DEFINE x == session[s]
           f == row[x.r]
           new == CommittedRow(f, x)
           L == LiveFiles
           g == Sizeof
<1>1. /\ x \in Session /\ SessionInv(s) /\ x.pc = "commit" /\ AloneInSession(s)
      /\ row' = [row EXCEPT ![x.r] = new]
  BY DEF Typed, TypeOK, Commit, Alone
<1>2. x.op \in {"upload", "rename", "overwrite", "delete"} /\ x.r \in Records /\ f \in Row
  BY <1>1 DEF SessionInv, Session, Typed, TypeOK
<1>3. row'[x.r] = new /\ \A r \in Records \ {x.r} : row'[r] = row[r]
  BY <1>1, <1>2 DEF Typed, TypeOK
<1>4. /\ \A r \in Records \ {x.r} : Sizeof'[r] = Sizeof[r] /\ (r \in LiveFiles' <=> r \in LiveFiles)
      /\ Sizeof'[x.r] = new.body /\ Sizeof[x.r] = f.body
      /\ x.r \in LiveFiles <=> Live(f)
      /\ x.r \in LiveFiles' <=> Live(new)
  BY <1>2, <1>3 DEF Sizeof, LiveFiles, Size
<1>5. LiveFiles \subseteq Records /\ LiveFiles' \subseteq Records
  BY DEF LiveFiles
<1>6. /\ IsFiniteSet(LiveFiles) /\ IntOn(Sizeof, Records) /\ IntOn(Sizeof, LiveFiles)
      /\ IntOn(Sizeof', Records)
  BY SizesSum, LifecycleAssumption, Sizes DEF Typed, TypeOK, Row, Sizeof, IntOn, Size
<1>7. Bytes(LiveFiles) = SumFunctionOnSet(Sizeof, LiveFiles)
      /\ Bytes(LiveFiles)' = SumFunctionOnSet(Sizeof', LiveFiles')
  BY DEF Bytes, Sizeof
<1>8. x.body \in Int /\ x.rec.body \in Int /\ f.body \in Int
  <2>1. x.body \in Bodies /\ x.rec.body \in Bodies /\ f.body \in Bodies
    BY <1>1, <1>2 DEF Session, Row
  <2> QED
    BY <2>1, Sizes
<1>9. x.op # "upload" => Live(f) /\ x.rec = f /\ x.base = f
  BY <1>1, <1>2 DEF AloneInSession
<1> HIDE DEF x, f, new
<1>a. CASE x.op = "upload"
  <2>1. new.status = "committed" /\ new.body = x.body /\ Charge(x) = x.body /\ f.status = "none"
    BY <1>1, <1>2, <1>a, CommittedRows DEF AloneInSession, x, f, new
  <2>2. x.r \notin LiveFiles /\ LiveFiles' = LiveFiles \cup {x.r}
    BY <1>2, <1>4, <1>5, <2>1 DEF Live
  <2>3. IntOn(Sizeof', LiveFiles) /\ Sizeof'[x.r] \in Int
    BY <1>2, <1>5, <1>6 DEF IntOn
  <2>4. \A r \in LiveFiles : Sizeof'[r] = Sizeof[r]
    BY <1>4, <1>5, <2>2
  <2>5. SumFunctionOnSet(Sizeof', LiveFiles) = SumFunctionOnSet(Sizeof, LiveFiles)
    BY <1>6, <2>4, SumSame
  <2>6. SumFunctionOnSet(Sizeof', LiveFiles') = Sizeof'[x.r] + SumFunctionOnSet(Sizeof', LiveFiles)
    BY <1>6, <2>2, <2>3, SumAdd
  <2>7. SumFunctionOnSet(Sizeof, LiveFiles) \in Int
    BY <1>6, SumType
  <2> QED
    BY <1>4, <1>7, <1>8, <2>1, <2>5, <2>6, <2>7 DEF x
<1>b. CASE x.op = "rename"
  <2>1. new.body = f.body /\ new.status = f.status /\ Charge(x) = 0
    BY <1>1, <1>2, <1>9, <1>b, CommittedRows DEF Written, x, f, new
  <2>2. \A r \in Records : row'[r].body = row[r].body /\ (Live(row'[r]) <=> Live(row[r]))
    BY <1>3, <2>1 DEF Live, f
  <2>3. SumFunctionOnSet(Sizeof, LiveFiles) \in Int
    BY <1>6, SumType
  <2> QED
    BY <1>7, <2>1, <2>2, <2>3, SumsStay DEF x
<1>c. CASE x.op = "overwrite"
  <2>1. new.body = x.body /\ new.status = f.status /\ Charge(x) = x.body - f.body
    BY <1>1, <1>2, <1>9, <1>c, CommittedRows DEF Written, x, f, new
  <2>2. x.r \in LiveFiles /\ LiveFiles' = LiveFiles
    BY <1>4, <1>5, <1>9, <1>c, <2>1 DEF Live
  <2>3. IntOn(Sizeof', LiveFiles)
    BY <1>5, <1>6 DEF IntOn
  <2>4. \A r \in LiveFiles \ {x.r} : Sizeof'[r] = Sizeof[r]
    BY <1>4, <1>5
  <2>5. SumFunctionOnSet(Sizeof', LiveFiles)
          = SumFunctionOnSet(Sizeof, LiveFiles) - Sizeof[x.r] + Sizeof'[x.r]
    BY <1>6, <2>2, <2>3, <2>4, SumChange
  <2>6. SumFunctionOnSet(Sizeof, LiveFiles) \in Int
    BY <1>6, SumType
  <2> QED
    BY <1>4, <1>7, <1>8, <2>1, <2>2, <2>5, <2>6 DEF x
<1>d. CASE x.op = "delete"
  <2>1. new.body = f.body /\ new.status = "deleted" /\ Charge(x) = 0 - f.body
    BY <1>1, <1>2, <1>9, <1>d, CommittedRows DEF Written, Live, x, f, new
  <2>2. x.r \in LiveFiles /\ LiveFiles' = LiveFiles \ {x.r}
    BY <1>4, <1>5, <1>9, <1>d, <2>1 DEF Live
  <2>3. \A r \in LiveFiles \ {x.r} : Sizeof'[r] = Sizeof[r]
    BY <1>4, <1>5
  <2>4. IsFiniteSet(LiveFiles \ {x.r}) /\ IntOn(Sizeof, LiveFiles \ {x.r})
    BY <1>6, FS_Subset DEF IntOn
  <2>5. SumFunctionOnSet(Sizeof', LiveFiles') = SumFunctionOnSet(Sizeof, LiveFiles \ {x.r})
    BY <2>2, <2>3, <2>4, SumSame
  <2>6. SumFunctionOnSet(Sizeof, LiveFiles)
          = Sizeof[x.r] + SumFunctionOnSet(Sizeof, LiveFiles \ {x.r})
    BY <1>6, <2>2, SumRemove
  <2>7. SumFunctionOnSet(Sizeof, LiveFiles \ {x.r}) \in Int
    BY <2>4, SumType
  <2> QED
    BY <1>4, <1>7, <1>8, <2>1, <2>5, <2>6, <2>7 DEF x
<1> QED
  BY <1>2, <1>a, <1>b, <1>c, <1>d

LEMMA InitQuota == Init => QuotaInv
<1> SUFFICES ASSUME Init PROVE QuotaInv
  OBVIOUS
<1>1. {r \in Records : Live(row[r])} = {}
  BY DEF Init, Live, NoRow
<1>2. Bytes({r \in Records : Live(row[r])}) = 0
  BY <1>1, SumEmpty DEF Bytes
<1> QED
  BY <1>2 DEF Init, QuotaInv, QuotaIsExact

LEMMA StepQuota ==
  ~Overlap /\ Typed /\ Typed' /\ Alone /\ QuotaInv /\ [Next]_vars => QuotaInv'
<1> SUFFICES ASSUME ~Overlap, Typed, Typed', Alone, QuotaInv, [Next]_vars, ~Reconciling
             PROVE  QuotaInv'
  BY DEF QuotaInv
<1>0. audit = NoAudit /\ total = Bytes(LiveFiles) /\ audit.pc = "off" /\ row \in [Records -> Row]
  BY DEF QuotaInv, QuotaIsExact, LiveFiles, NoAudit, Typed, TypeOK
<1>1. SUFFICES audit' = NoAudit /\ total' = Bytes(LiveFiles)'
  BY DEF QuotaInv, QuotaIsExact, LiveFiles
<1>2. ASSUME UNCHANGED <<row, total>>, audit' \in {audit, NoAudit}
      PROVE  audit' = NoAudit /\ total' = Bytes(LiveFiles)'
  <2>1. \A r \in Records : row'[r].body = row[r].body /\ (Live(row'[r]) <=> Live(row[r]))
    BY <1>2
  <2> QED
    BY <1>0, <1>2, <2>1, SumsStay
<1>3. ASSUME NEW s \in Sessions, Arrives(s) PROVE UNCHANGED <<row, total, audit>>
  BY <1>3 DEF Arrives, UploadBegin, RenameBegin, OverwriteBegin, DeleteBegin, Begin
<1>4. ASSUME NEW s \in Sessions, Abort(s) \/ (RequestStep(s) /\ ~Commit(s))
      PROVE  UNCHANGED <<row, total, audit>>
  BY <1>4 DEF Abort, RequestStep, RenameCopy, RenameRemove, DeleteRemove, OverwriteDrop, Move, Select
<1>5. ASSUME NEW s \in Sessions, Commit(s)
      PROVE  audit' = NoAudit /\ total' = Bytes(LiveFiles)'
  <2>1. total' = total + Charge(session[s]) /\ audit' = audit
    BY <1>5 DEF Commit
  <2> QED
    BY <1>0, <1>5, <2>1, CommitCharges
<1>6. CASE \/ \E r \in Records : ArchiveRead(r)
           \/ ArchivePut \/ ArchiveDrop \/ ArchiveMark \/ ArchiveError
  BY <1>2, <1>6, RunGoesOn
<1>7. CASE ArchiveCommit
  <2>1. /\ UNCHANGED <<total, audit>>
        /\ \A r \in Records :
              row'[r] = IF r \in job.marked THEN MarkArchived(row[r], job.seen[r].path) ELSE row[r]
        /\ \A r \in Records : row'[r] # row[r] => r \in Candidates
    BY <1>7, RunCommits DEF Alone, AloneInJob
  <2>2. \A r \in Records : row'[r].body = row[r].body
    BY <1>0, <2>1 DEF MarkArchived, Row
  <2>3. \A r \in Records : Live(row'[r]) <=> Live(row[r])
    BY <1>0, <2>1 DEF MarkArchived, Row, Live, Candidates
  <2> QED
    BY <1>0, <2>1, <2>2, <2>3, SumsStay
<1>8. CASE ArchiveList \/ ReconcileSum \/ (\E r \in Records : CleanTmp(r)) \/ Crash \/ UNCHANGED vars
  BY <1>2, <1>8 DEF ArchiveList, ReconcileSum, CleanTmp, Crash, vars
<1>9. ~ReconcileWrite
  BY <1>0 DEF ReconcileWrite
<1> QED
  BY <1>2, <1>3, <1>4, <1>5, <1>6, <1>7, <1>8, <1>9 DEF Next, ArchiveStep

(* The cached quota of an owner is the sum of the sizes of the live files, as    *)
(* long as no two actors work on one file and the reconciliation, which counts  *)
(* only COMMITTED rows, does not run: upload, rename, overwrite and delete charge *)
(* what they change, and neither an error before the commit nor a crash nor the *)
(* archive run changes the sum.                                               *)
THEOREM QuotaStaysExact == ~Overlap /\ ~Reconciling => (Spec => []QuotaIsExact)
<1> SUFFICES ASSUME ~Overlap, ~Reconciling PROVE Spec => []QuotaIsExact
  OBVIOUS
<1>1. Init => Typed /\ Alone /\ QuotaInv
  BY InitTyped, InitAlone, InitQuota
<1>2. (Typed /\ Alone /\ QuotaInv) /\ [Next]_vars => (Typed /\ Alone /\ QuotaInv)'
  BY StepTyped, StepAlone, StepQuota
<1>3. QuotaInv => QuotaIsExact
  BY DEF QuotaInv
<1> QED
  BY <1>1, <1>2, <1>3, PTL DEF Spec

-----------------------------------------------------------------------------
(* The bytes.                                                                *)

LEMMA PathsApart ==
  ASSUME PathsOfOneFile, NEW q \in Records, NEW r \in Records, q # r
  PROVE  \A k \in Paths(q) : k \in Keys /\ k \notin Paths(r)
<1>1. ASSUME NEW k \in Paths(q), k \in Paths(r) PROVE FALSE
  <2>1. <<q, k>> \in Takes /\ <<r, k>> \in Takes
    BY <1>1 DEF Paths
  <2> QED
    BY <2>1 DEF PathsOfOneFile
<1> QED
  BY <1>1 DEF Paths

LEMMA InitKept == Init => Kept
<1> SUFFICES ASSUME Init PROVE Kept
  OBVIOUS
<1>1. \A r \in Records : KeptFile(r)
  BY DEF Init, KeptFile, Live, NoRow
<1>2. \A s \in Sessions : KeptBySession(s)
  BY DEF Init, KeptBySession, NoSession
<1>3. KeptByJob
  BY DEF Init, KeptByJob, NoJob
<1> QED
  BY <1>1, <1>2, <1>3 DEF Kept

LEMMA NothingHeld ==
  /\ \A s \in Sessions : session[s] = NoSession => KeptBySession(s)
  /\ job.cur = None => KeptByJob
BY DEF KeptBySession, NoSession, KeptByJob

(* Where a request and the run have their paths.                               *)
LEMMA HeldPaths ==
  ASSUME Typed, Alone, Kept
  PROVE  /\ \A s \in Sessions : session[s].op \in {"upload", "rename", "overwrite"}
                                    => session[s].to \in Paths(session[s].r)
         /\ \A s \in Sessions : session[s].op \in {"rename", "overwrite", "delete"}
                                    => session[s].rec.path \in Paths(session[s].r)
         /\ job.cur # None => Source \in Paths(job.cur) /\ Source = row[job.cur].path
<1>1. ASSUME NEW s \in Sessions, session[s].op \in {"rename", "overwrite", "delete"}
      PROVE  session[s].rec.path \in Paths(session[s].r)
  <2>1. session[s].r \in Records /\ Live(row[session[s].r]) /\ session[s].rec = row[session[s].r]
    BY <1>1 DEF Typed, SessionInv, Alone, AloneInSession
  <2> QED
    BY <2>1 DEF Kept, KeptFile
<1>2. ASSUME NEW s \in Sessions, session[s].op \in {"upload", "rename", "overwrite"}
      PROVE  session[s].to \in Paths(session[s].r)
  BY <1>1, <1>2 DEF Kept, KeptBySession
<1>3. ASSUME job.cur # None PROVE Source \in Paths(job.cur) /\ Source = row[job.cur].path
  <2>1. job.cur \in Records /\ InJob(job.cur)
    BY <1>3 DEF Typed, TypeOK, Job, InJob
  <2>2. Live(row[job.cur]) /\ job.seen[job.cur] = row[job.cur]
    BY <2>1 DEF Alone, AloneInJob, Candidates, Live
  <2> QED
    BY <2>1, <2>2 DEF Kept, KeptFile, Source
<1> QED
  BY <1>1, <1>2, <1>3

(* A step that works on one file leaves what belongs to the others.              *)
LEMMA OthersKept ==
  ASSUME PathsOfOneFile, Typed, Alone, Kept, NEW r \in Records,
         \A q \in Records \ {r} : row'[q] = row[q] /\ tmp'[q] = tmp[q],
         \A q \in Records \ {r} : q \in discarded' <=> q \in discarded,
         \A k \in Keys \ Paths(r) : hot'[k] = hot[k] /\ zst'[k] = zst[k]
  PROVE  /\ \A q \in Records \ {r} : KeptFile(q)'
         /\ \A s \in Sessions : session'[s] = session[s] /\ session[s].r # r => KeptBySession(s)'
         /\ job' = job /\ job.cur # r => KeptByJob'
<1>0. \A q \in Records \ {r} : \A k \in Paths(q) : hot'[k] = hot[k] /\ zst'[k] = zst[k]
  BY PathsApart
<1>1. ASSUME NEW q \in Records \ {r} PROVE KeptFile(q)'
  <2>1. row'[q] = row[q] /\ KeptFile(q) /\ (q \in discarded' <=> q \in discarded)
        /\ \A k \in Paths(q) : hot'[k] = hot[k] /\ zst'[k] = zst[k]
    BY <1>0 DEF Kept
  <2>2. ASSUME Live(row[q]), q \notin discarded
        PROVE  \E k \in Paths(q) : row'[q].body \in {hot'[k], zst'[k]}
    BY <2>1, <2>2 DEF KeptFile
  <2> QED
    BY <2>1, <2>2 DEF KeptFile, Paths
<1>2. ASSUME NEW s \in Sessions, session'[s] = session[s], session[s].r # r
      PROVE  KeptBySession(s)'
  <2> DEFINE x == session[s]
  <2>1. KeptBySession(s) /\ session'[s] = x /\ (x.op # "none" => x.r \in Records \ {r})
    BY <1>2 DEF Kept, Typed, SessionInv
  <2>2. x.op \in {"upload", "rename", "overwrite"} => x.to \in Paths(x.r)
    BY HeldPaths
  <2>3. x.op \in {"upload", "rename", "overwrite", "delete"} =>
           /\ x.r \in Records \ {r}
           /\ tmp'[x.r] = tmp[x.r] /\ (x.r \in discarded' <=> x.r \in discarded)
    BY <2>1
  <2>4. x.op \in {"upload", "rename", "overwrite"} => hot'[x.to] = hot[x.to]
    BY <1>0, <2>2, <2>3
  <2> HIDE DEF x
  <2> QED
    BY <2>1, <2>2, <2>3, <2>4 DEF KeptBySession, x, Paths
<1>3. ASSUME job' = job, job.cur # r PROVE KeptByJob'
  <2>1. CASE job.cur = None
    BY <1>3, <2>1 DEF KeptByJob
  <2>2. CASE job.cur # None
    <3>1. job.cur \in Records \ {r} /\ Source \in Paths(job.cur) /\ KeptByJob
      BY <1>3, <2>2, HeldPaths DEF Typed, TypeOK, Job, Kept
    <3>2. Source' = Source /\ zst'[Source] = zst[Source] /\ row'[job.cur] = row[job.cur]
          /\ (job.cur \in discarded' <=> job.cur \in discarded)
      BY <1>0, <1>3, <3>1 DEF Source
    <3> QED
      BY <1>3, <3>1, <3>2 DEF KeptByJob
  <2> QED
    BY <2>1, <2>2
<1> QED
  BY <1>1, <1>2, <1>3

(* A request step: what is left to show is the file and the request themselves.  *)
LEMMA RequestKept ==
  ASSUME PathsOfOneFile, Typed, Alone, Kept, NEW s \in Sessions, NEW r \in Records,
         NEW y, session' = [session EXCEPT ![s] = y], job' = job,
         ~InJob(r), \A t \in Sessions \ {s} : session[t].r # r,
         \A q \in Records \ {r} : row'[q] = row[q] /\ tmp'[q] = tmp[q],
         \A q \in Records \ {r} : q \in discarded' <=> q \in discarded,
         \A k \in Keys \ Paths(r) : hot'[k] = hot[k] /\ zst'[k] = zst[k],
         KeptFile(r)',
         session'[s] = y => KeptBySession(s)'
  PROVE  Kept'
<1>1. session'[s] = y /\ \A t \in Sessions \ {s} : session'[t] = session[t]
  BY DEF Typed, TypeOK
<1>2. job.cur # r
  BY DEF InJob
<1> QED
  BY <1>1, <1>2, OthersKept DEF Kept

LEMMA ArrivesKept ==
  ASSUME PathsOfOneFile, ~Overlap, Typed, Alone, Kept, NEW s \in Sessions, Arrives(s)
  PROVE  Kept'
<1>1. ASSUME NEW op, NEW pc, NEW r \in Records, NEW k, NEW b, Begin(s, op, pc, r, k, b),
             \A q \in Records \ {r} : tmp'[q] = tmp[q],
             \/ op = "upload" /\ pc = "move" /\ tmp'[r] = b /\ k \in Paths(r)
             \/ op = "rename" /\ pc = "copy" /\ k \in Paths(r) /\ k # row[r].path
             \/ op = "overwrite" /\ pc = "drop" /\ tmp'[r] = b /\ k = row[r].path
             \/ op = "delete" /\ pc = "remove"
      PROVE  Kept'
  <2> DEFINE y == [op |-> op, pc |-> pc, r |-> r, rec |-> row[r], base |-> NoRow,
                   to |-> k, body |-> b]
  <2>1. /\ session' = [session EXCEPT ![s] = y] /\ UNCHANGED <<row, hot, zst, job, discarded>>
        /\ ~InSession(r) /\ ~InJob(r)
    BY <1>1 DEF Begin
  <2>2. /\ y.op = op /\ y.pc = pc /\ y.r = r /\ y.to = k /\ y.body = b /\ y.rec = row[r]
    OBVIOUS
  <2> HIDE DEF y
  <2>3. KeptFile(r)'
    BY <2>1 DEF Kept, KeptFile, Paths
  <2>4. session'[s] = y => KeptBySession(s)'
    BY <1>1, <2>1, <2>2 DEF KeptBySession, Paths
  <2>5. \A t \in Sessions \ {s} : session[t].r # r
    BY <2>1 DEF InSession
  <2>6. row' = row /\ hot' = hot /\ zst' = zst /\ job' = job /\ discarded' = discarded
    BY <2>1
  <2>7. session' = [session EXCEPT ![s] = y] /\ ~InJob(r)
    BY <2>1
  <2> QED
    BY <1>1, <2>3, <2>4, <2>5, <2>6, <2>7, RequestKept
<1>3. ASSUME NEW u \in Uploads, UploadBegin(s, u[1], u[2], u[3]) PROVE Kept'
  <2>1. u[1] \in Records /\ u[2] \in Paths(u[1])
    BY LifecycleAssumption DEF Paths, Takes
  <2>2. /\ Begin(s, "upload", "move", u[1], u[2], u[3])
        /\ tmp' = [tmp EXCEPT ![u[1]] = u[3]]
    BY <1>3 DEF UploadBegin
  <2>3. tmp'[u[1]] = u[3] /\ \A q \in Records \ {u[1]} : tmp'[q] = tmp[q]
    BY <2>1, <2>2 DEF Typed, TypeOK
  <2> QED
    BY <1>1, <2>1, <2>2, <2>3
<1>4. ASSUME NEW n \in Renames, RenameBegin(s, n[1], n[2]) PROVE Kept'
  <2>0. n[1] \in Records /\ n[2] \in Keys /\ n = <<n[1], n[2]>>
    BY LifecycleAssumption
  <2>1. n[1] \in Records /\ n[2] \in Paths(n[1])
    BY <2>0 DEF Paths, Takes
  <2> QED
    BY <1>1, <1>4, <2>1 DEF RenameBegin
<1>5. ASSUME NEW w \in Overwrites, OverwriteBegin(s, w[1], w[2]) PROVE Kept'
  <2>1. w[1] \in Records
    BY LifecycleAssumption
  <2>2. /\ Begin(s, "overwrite", "drop", w[1], row[w[1]].path, w[2])
        /\ tmp' = [tmp EXCEPT ![w[1]] = w[2]]
    BY <1>5 DEF OverwriteBegin
  <2>3. tmp'[w[1]] = w[2] /\ \A q \in Records \ {w[1]} : tmp'[q] = tmp[q]
    BY <2>1, <2>2 DEF Typed, TypeOK
  <2> QED
    BY <1>1, <2>1, <2>2, <2>3
<1>6. ASSUME NEW r \in Deletes, DeleteBegin(s, r) PROVE Kept'
  <2>1. r \in Records
    BY LifecycleAssumption
  <2> QED
    BY <1>1, <1>6, <2>1 DEF DeleteBegin
<1> QED
  BY <1>3, <1>4, <1>5, <1>6 DEF Arrives

(* What a request knows of its file when it is alone with it.                     *)
LEMMA RequestKnows ==
  ASSUME Typed, Alone, Kept, NEW s \in Sessions, session[s].op # "none"
  PROVE  LET x == session[s]
         IN  /\ x \in Session /\ x.r \in Records /\ ~InJob(x.r)
             /\ x.op \in {"upload", "rename", "overwrite", "delete"} /\ SessionInv(s)
             /\ \A t \in Sessions \ {s} : session[t].r # x.r
             /\ x.op = "upload" => ~Live(row[x.r])
             /\ x.op # "upload" => Live(row[x.r]) /\ x.rec = row[x.r]
             /\ KeptFile(x.r) /\ KeptBySession(s)
             /\ x.op \in {"upload", "rename", "overwrite"} => x.to \in Paths(x.r)
             /\ x.op # "upload" => x.rec.path \in Paths(x.r)
<1>1. session[s] \in Session /\ SessionInv(s) /\ AloneInSession(s) /\ KeptBySession(s)
  BY DEF Typed, TypeOK, Alone, Kept
<1>2. session[s].r \in Records /\ session[s].op \in {"upload", "rename", "overwrite", "delete"}
  BY <1>1 DEF SessionInv, Session
<1>3. KeptFile(session[s].r)
  BY <1>2 DEF Kept
<1>4. session[s].op = "upload" => ~Live(row[session[s].r])
  BY <1>1 DEF AloneInSession, Live
<1> QED
  BY <1>1, <1>2, <1>3, <1>4, HeldPaths DEF AloneInSession

(* A request that has ended holds nothing.                                      *)
LEMMA EndsKept ==
  ASSUME PathsOfOneFile, Typed, Alone, Kept, NEW s \in Sessions, session[s].op # "none",
         Ends(s), UNCHANGED <<row, hot, zst, job, discarded>>,
         \A q \in Records \ {session[s].r} : tmp'[q] = tmp[q]
  PROVE  Kept'
<1>1. session' = [session EXCEPT ![s] = NoSession]
  BY DEF Ends
<1>2. session'[s] = NoSession => KeptBySession(s)'
  BY DEF KeptBySession, NoSession
<1>3. PICK r \in Records : r = session[s].r
  BY RequestKnows
<1>4. KeptFile(r)'
  BY <1>3, RequestKnows DEF KeptFile, Paths
<1>5. row' = row /\ hot' = hot /\ zst' = zst /\ job' = job /\ discarded' = discarded
  OBVIOUS
<1>6. ~InJob(r) /\ \A t \in Sessions \ {s} : session[t].r # r
  BY <1>3, RequestKnows
<1>7. \A q \in Records \ {r} : tmp'[q] = tmp[q]
  BY <1>3
<1> QED
  BY <1>1, <1>2, <1>4, <1>5, <1>6, <1>7, RequestKept

LEMMA RenameKept ==
  ASSUME PathsOfOneFile, Typed, Alone, Kept, NEW s \in Sessions, RenameCopy(s) \/ RenameRemove(s)
  PROVE  Kept'
<1> DEFINE x == session[s]
<1>0. x.op = "rename" /\ x.pc # "commit" /\ x.r \in Records
  BY DEF RenameCopy, RenameRemove, Typed, TypeOK, Session, SessionInv
<1>r. PICK r \in Records : r = x.r
  BY <1>0
<1>1. /\ x \in Session /\ r \in Records /\ ~InJob(r)
      /\ \A t \in Sessions \ {s} : session[t].r # r
      /\ Live(row[r]) /\ x.rec = row[r] /\ KeptFile(r) /\ KeptBySession(s)
      /\ x.to \in Paths(r) /\ x.rec.path \in Paths(r) /\ x.to # x.rec.path
  BY <1>0, <1>r, RequestKnows DEF KeptBySession
<1>2. x.to \in Keys /\ x.rec.path \in Keys /\ hot \in [Keys -> Bodies \cup {None}]
  BY <1>1 DEF Paths, Typed, TypeOK
<1>3. ASSUME NEW pc, Goes(s, pc), UNCHANGED <<row, tmp, zst, job, discarded>>,
             \A k \in Keys \ Paths(r) : hot'[k] = hot[k],
             r \notin discarded =>
                /\ hot'[x.to] = row[r].body
                /\ hot'[x.rec.path] \in {None, row[r].body}
      PROVE  Kept'
  <2> DEFINE y == [x EXCEPT !.pc = pc]
  <2>1. session' = [session EXCEPT ![s] = y]
    BY <1>3 DEF Goes, Typed, TypeOK
  <2>2. y.op = "rename" /\ y.pc = pc /\ y.r = r /\ y.to = x.to /\ y.rec = x.rec
    BY <1>0, <1>1, <1>r DEF Session
  <2> HIDE DEF x, y
  <2>3. KeptFile(r)'
    BY <1>1, <1>3 DEF KeptFile, Paths
  <2>4. session'[s] = y => KeptBySession(s)'
    BY <1>1, <1>3, <2>2 DEF KeptBySession, Paths
  <2> QED
    BY <1>1, <1>3, <2>1, <2>3, <2>4, RequestKept DEF x
<1>4. CASE RenameCopy(s) /\ hot[x.rec.path] = None
  BY <1>0, <1>4, EndsKept DEF RenameCopy
<1>5. CASE RenameCopy(s) /\ hot[x.rec.path] # None
  <2>1. /\ Goes(s, "remove") /\ hot' = [hot EXCEPT ![x.to] = hot[x.rec.path]]
        /\ UNCHANGED <<row, tmp, zst, job, discarded>>
    BY <1>5 DEF RenameCopy
  <2>2. /\ \A k \in Keys \ Paths(r) : hot'[k] = hot[k]
        /\ hot'[x.to] = hot[x.rec.path] /\ hot'[x.rec.path] = hot[x.rec.path]
    BY <1>1, <1>2, <2>1
  <2>3. r \notin discarded => hot[x.rec.path] = row[r].body
    BY <1>1, <1>5 DEF KeptFile
  <2> QED
    BY <1>3, <2>1, <2>2, <2>3
<1>6. CASE RenameRemove(s)
  <2>1. /\ Goes(s, "select") /\ hot' = [hot EXCEPT ![x.rec.path] = None] /\ x.pc = "remove"
        /\ UNCHANGED <<row, tmp, zst, job, discarded>>
    BY <1>6 DEF RenameRemove
  <2>2. /\ \A k \in Keys \ Paths(r) : hot'[k] = hot[k]
        /\ hot'[x.to] = hot[x.to] /\ hot'[x.rec.path] = None
    BY <1>1, <1>2, <2>1
  <2>3. r \notin discarded => hot[x.to] = row[r].body
    BY <1>0, <1>1, <1>r, <2>1 DEF KeptBySession
  <2> QED
    BY <1>3, <2>1, <2>2, <2>3
<1> QED
  BY <1>4, <1>5, <1>6

LEMMA DropKept ==
  ASSUME PathsOfOneFile, Typed, Alone, Kept, NEW s \in Sessions, DeleteRemove(s) \/ OverwriteDrop(s)
  PROVE  Kept'
<1> DEFINE x == session[s]
<1>0. \/ x.op = "delete" /\ x.pc = "remove" /\ DeleteRemove(s)
      \/ x.op = "overwrite" /\ x.pc = "drop" /\ OverwriteDrop(s)
  BY DEF DeleteRemove, OverwriteDrop, Typed, TypeOK, Session, SessionInv
<1>r. PICK r \in Records : r = x.r
  BY <1>0, RequestKnows
<1>1. /\ x \in Session /\ ~InJob(r)
      /\ \A t \in Sessions \ {s} : session[t].r # r
      /\ Live(row[r]) /\ x.rec = row[r] /\ KeptFile(r) /\ KeptBySession(s)
      /\ x.op = "overwrite" => x.to \in Paths(r)
      /\ x.rec.path \in Paths(r)
  BY <1>0, <1>r, RequestKnows
<1>2. x.rec.archived => x.rec.blob \in Paths(r)
  BY <1>1 DEF KeptFile
<1>3. hot \in [Keys -> Bodies \cup {None}] /\ zst \in [Keys -> Bodies \cup {None}]
  BY DEF Typed, TypeOK
<1>4. PICK pc : pc = IF x.op = "delete" THEN "select" ELSE "move"
  OBVIOUS
<1>5. /\ Goes(s, pc) /\ row' = row /\ tmp' = tmp /\ job' = job
      /\ discarded' = discarded \cup {r}
      /\ \A k \in Keys \ Paths(r) : hot'[k] = hot[k] /\ zst'[k] = zst[k]
  <2>1. CASE DeleteRemove(s)
    <3>1. \A k \in Keys \ Paths(r) : hot'[k] = hot[k] /\ zst'[k] = zst[k]
      BY <1>1, <1>2, <1>3, <2>1 DEF DeleteRemove, Paths
    <3> QED
      BY <1>r, <1>4, <2>1, <3>1 DEF DeleteRemove
  <2>2. CASE OverwriteDrop(s)
    <3>0. x.op = "overwrite"
      BY <2>2 DEF OverwriteDrop, Typed, TypeOK, Session, SessionInv
    <3>1. \A k \in Keys \ Paths(r) : hot'[k] = hot[k] /\ zst'[k] = zst[k]
      BY <1>1, <1>3, <2>2, <3>0 DEF OverwriteDrop, Paths
    <3> QED
      BY <1>r, <1>4, <2>2, <3>0, <3>1 DEF OverwriteDrop
  <2> QED
    BY <2>1, <2>2
<1> DEFINE y == [x EXCEPT !.pc = pc]
<1>6. session' = [session EXCEPT ![s] = y]
  BY <1>5 DEF Goes, Typed, TypeOK
<1>7. /\ y.op = x.op /\ y.pc = pc /\ y.r = r /\ y.to = x.to /\ y.rec = x.rec /\ y.body = x.body
  BY <1>1, <1>r DEF Session
<1> HIDE DEF y, x
<1>8. KeptFile(r)'
  BY <1>1, <1>5 DEF KeptFile, Paths
<1>9. session'[s] = y => KeptBySession(s)'
  <2>1. x.op = "overwrite" => x.to = x.rec.path /\ tmp[r] = x.body
    BY <1>0, <1>1, <1>r DEF KeptBySession, x
  <2> QED
    BY <1>0, <1>1, <1>4, <1>5, <1>7, <2>1 DEF KeptBySession
<1>10. \A q \in Records \ {r} : q \in discarded' <=> q \in discarded
  BY <1>5
<1> QED
  BY <1>1, <1>5, <1>6, <1>8, <1>9, <1>10, RequestKept DEF x

LEMMA MoveKept ==
  ASSUME PathsOfOneFile, Typed, Alone, Kept, NEW s \in Sessions, Move(s)
  PROVE  Kept'
<1> DEFINE x == session[s]
<1>0. x.op \in {"upload", "overwrite"} /\ x.pc = "move"
  BY DEF Move, Typed, TypeOK, Session, SessionInv
<1>r. PICK r \in Records : r = x.r
  BY <1>0, RequestKnows
<1>1. /\ x \in Session /\ ~InJob(r)
      /\ \A t \in Sessions \ {s} : session[t].r # r
      /\ x.op = "upload" => ~Live(row[r])
      /\ x.op = "overwrite" => x.rec = row[r] /\ x.to = x.rec.path /\ r \in discarded
      /\ KeptFile(r) /\ x.to \in Paths(r) /\ tmp[r] = x.body
  BY <1>0, <1>r, RequestKnows DEF KeptBySession
<1>2. x.body \in Bodies /\ None \notin Bodies
  BY <1>1, LifecycleAssumption DEF Session
<1>4. PICK pc : pc = IF x.op = "upload" THEN "commit" ELSE "select"
  OBVIOUS
<1>5. /\ Goes(s, pc) /\ row' = row /\ zst' = zst /\ job' = job /\ discarded' = discarded
      /\ hot' = [hot EXCEPT ![x.to] = x.body] /\ tmp' = [tmp EXCEPT ![r] = None]
  BY <1>r, <1>1, <1>2, <1>4 DEF Move
<1>6. /\ hot'[x.to] = x.body
      /\ \A k \in Keys \ Paths(r) : hot'[k] = hot[k]
      /\ \A q \in Records \ {r} : tmp'[q] = tmp[q]
  BY <1>1, <1>5 DEF Typed, TypeOK, Paths
<1> DEFINE y == [x EXCEPT !.pc = pc]
<1>7. session' = [session EXCEPT ![s] = y]
  BY <1>5 DEF Goes, Typed, TypeOK
<1>8. /\ y.op = x.op /\ y.pc = pc /\ y.r = r /\ y.to = x.to /\ y.rec = x.rec /\ y.body = x.body
  BY <1>1, <1>r DEF Session
<1> HIDE DEF y, x
<1>9. KeptFile(r)'
  BY <1>0, <1>1, <1>5 DEF KeptFile, Paths
<1>10. session'[s] = y => KeptBySession(s)'
  BY <1>0, <1>1, <1>4, <1>5, <1>6, <1>8 DEF KeptBySession, Paths
<1> QED
  BY <1>1, <1>5, <1>6, <1>7, <1>9, <1>10, RequestKept DEF x

LEMMA SelectKept ==
  ASSUME PathsOfOneFile, Typed, Alone, Kept, NEW s \in Sessions, Select(s)
  PROVE  Kept'
<1> DEFINE x == session[s]
<1>0. x.op \in {"rename", "overwrite", "delete"} /\ x.pc = "select"
  BY DEF Select, Typed, TypeOK, Session, SessionInv
<1>r. PICK r \in Records : r = x.r
  BY <1>0, RequestKnows
<1>1. /\ x \in Session /\ ~InJob(r) /\ KeptFile(r) /\ KeptBySession(s)
      /\ \A t \in Sessions \ {s} : session[t].r # r
  BY <1>0, <1>r, RequestKnows
<1> DEFINE y == [x EXCEPT !.pc = "commit", !.base = row[x.r]]
<1>2. /\ session' = [session EXCEPT ![s] = y] /\ row' = row /\ hot' = hot /\ tmp' = tmp
      /\ zst' = zst /\ job' = job /\ discarded' = discarded
  BY DEF Select, Typed, TypeOK
<1>3. /\ y.op = x.op /\ y.pc = "commit" /\ y.r = x.r /\ y.to = x.to /\ y.rec = x.rec
      /\ y.body = x.body
  BY <1>1 DEF Session
<1> HIDE DEF y
<1>4. KeptFile(r)'
  BY <1>1, <1>2 DEF KeptFile, Paths
<1>5. session'[s] = y => KeptBySession(s)'
  BY <1>0, <1>1, <1>2, <1>3 DEF KeptBySession, Paths
<1> QED
  BY <1>1, <1>2, <1>4, <1>5, RequestKept

LEMMA CommitKept ==
  ASSUME PathsOfOneFile, Typed, Alone, Kept, NEW s \in Sessions, Commit(s)
  PROVE  Kept'
<1> DEFINE x == session[s]
<1>0. x.op # "none" /\ x.pc = "commit"
  BY DEF Commit, Typed, TypeOK, Session, SessionInv
<1>r. PICK r \in Records : r = x.r
  BY <1>0, RequestKnows
<1>1. /\ x \in Session /\ ~InJob(r) /\ KeptFile(r) /\ KeptBySession(s) /\ AloneInSession(s)
      /\ x.op \in {"upload", "rename", "overwrite", "delete"}
      /\ \A t \in Sessions \ {s} : session[t].r # r
      /\ x.op \in {"upload", "rename", "overwrite"} => x.to \in Paths(r)
  BY <1>0, <1>r, RequestKnows DEF Alone
<1>2. row[r] \in Row
  BY DEF Typed, TypeOK
<1>3. PICK new : new = CommittedRow(row[r], x)
  OBVIOUS
<1>4. /\ session' = [session EXCEPT ![s] = NoSession] /\ hot' = hot /\ tmp' = tmp
      /\ zst' = zst /\ job' = job
      /\ row'[r] = new /\ \A q \in Records \ {r} : row'[q] = row[q]
      /\ discarded' = IF x.op = "overwrite" THEN discarded \ {r} ELSE discarded
  BY <1>r, <1>3 DEF Commit, Ends, Typed, TypeOK
<1>5. x.op # "upload" => Live(row[r]) /\ x.rec = row[r] /\ x.base = row[r]
  BY <1>0, <1>1, <1>r DEF AloneInSession
<1>6. KeptFile(r)'
  <2>1. CASE x.op = "upload"
    <3>1. new.path = x.to /\ new.body = x.body /\ ~new.archived
      BY <1>1, <1>2, <1>3, <2>1, CommittedRows
    <3>2. hot[x.to] = x.body
      BY <1>0, <1>1, <2>1 DEF KeptBySession
    <3> QED
      BY <1>1, <1>4, <2>1, <3>1, <3>2 DEF KeptFile, Paths
  <2>2. CASE x.op = "rename"
    <3>1. /\ new.path = x.to /\ new.body = row[r].body /\ new.archived = row[r].archived
          /\ new.blob = row[r].blob
      BY <1>1, <1>2, <1>3, <1>5, <2>2, CommittedRows DEF Written
    <3>2. r \notin discarded => hot[x.to] = row[r].body
      BY <1>0, <1>1, <1>5, <1>r, <2>2 DEF KeptBySession
    <3>3. row[r].archived => row[r].blob \in Paths(r)
      BY <1>1, <1>5, <2>2 DEF KeptFile
    <3> QED
      BY <1>1, <1>4, <2>2, <3>1, <3>2, <3>3 DEF KeptFile, Paths
  <2>3. CASE x.op = "overwrite"
    <3>1. /\ new.path = row[r].path /\ new.body = x.body /\ new.archived = row[r].archived
          /\ new.blob = row[r].blob
      BY <1>1, <1>2, <1>3, <1>5, <2>3, CommittedRows DEF Written
    <3>2. hot[x.to] = x.body /\ x.to = row[r].path
      BY <1>0, <1>1, <1>5, <2>3 DEF KeptBySession
    <3>3. row[r].archived => row[r].blob \in Paths(r)
      BY <1>1, <1>5, <2>3 DEF KeptFile
    <3> QED
      BY <1>1, <1>4, <2>3, <3>1, <3>2, <3>3 DEF KeptFile, Paths
  <2>4. CASE x.op = "delete"
    <3>1. new.status = "deleted"
      BY <1>1, <1>2, <1>3, <1>5, <2>4, CommittedRows DEF Written, Live
    <3> QED
      BY <1>4, <3>1 DEF KeptFile, Live
  <2> QED
    BY <1>1, <2>1, <2>2, <2>3, <2>4
<1>7. session'[s] = NoSession => KeptBySession(s)'
  BY DEF KeptBySession, NoSession
<1>8. \A q \in Records \ {r} : q \in discarded' <=> q \in discarded
  BY <1>4
<1> QED
  BY <1>1, <1>4, <1>6, <1>7, <1>8, RequestKept

(* The run works on one file at a time, and on no file of a request.             *)
LEMMA RunKept ==
  ASSUME PathsOfOneFile, Typed, Alone, Kept,
         \/ \E r \in Records : ArchiveRead(r)
         \/ ArchivePut \/ ArchiveDrop \/ ArchiveMark \/ ArchiveError
  PROVE  Kept'
<1>0. /\ row' = row /\ session' = session /\ tmp' = tmp /\ discarded' = discarded
      /\ job'.seen = job.seen /\ job \in Job
  BY RunGoesOn DEF Typed, TypeOK
<1>1. ASSUME NEW r \in Records, InJob(r),
             \A k \in Keys \ Paths(r) : hot'[k] = hot[k] /\ zst'[k] = zst[k],
             KeptFile(r)', KeptByJob'
      PROVE  Kept'
  <2>1. \A s \in Sessions : session[s].r # r
    <3>1. ASSUME NEW s \in Sessions, session[s].r = r PROVE FALSE
      <4>1. session[s].op # "none"
        BY <3>1, LifecycleAssumption DEF Typed, SessionInv, NoSession
      <4> QED
        BY <1>1, <3>1, <4>1 DEF Alone, AloneInSession
    <3> QED
      BY <3>1
  <2> QED
    BY <1>0, <1>1, <2>1, OthersKept DEF Kept
<1>2. ASSUME UNCHANGED <<hot, zst>>, KeptByJob' PROVE Kept'
  BY <1>0, <1>2 DEF Kept, KeptFile, KeptBySession, Paths
<1>3. ASSUME job'.cur = None PROVE KeptByJob'
  BY <1>3 DEF KeptByJob
<1>4. NextRecord.cur = None
  BY <1>0 DEF NextRecord, Job
<1>5. job.pc \in {"put", "drop", "mark"} =>
         /\ job.cur \in Records /\ InJob(job.cur) /\ KeptFile(job.cur) /\ Live(row[job.cur])
         /\ Source \in Paths(job.cur) /\ Source = row[job.cur].path
         /\ job.cur # None
  BY HeldPaths, LifecycleAssumption
  DEF Typed, JobInv, InJob, Alone, AloneInJob, Candidates, Live, Kept
<1>6. hot \in [Keys -> Bodies \cup {None}] /\ zst \in [Keys -> Bodies \cup {None}]
  BY DEF Typed, TypeOK
<1>7. ASSUME NEW r \in Records, ArchiveRead(r) PROVE Kept'
  <2>1. UNCHANGED <<hot, zst>>
    BY <1>7 DEF ArchiveRead
  <2>2. InJob(r) /\ job.pc = "next"
    BY <1>7 DEF ArchiveRead, InJob
  <2>3. Live(row[r]) /\ job.seen[r] = row[r] /\ KeptFile(r)
    BY <2>2 DEF Alone, AloneInJob, Candidates, Live, Kept
  <2>4. CASE hot[row[r].path] = None
    <3>1. job'.cur = job.cur /\ job.cur = None
      BY <1>0, <1>7, <2>2, <2>3, <2>4 DEF ArchiveRead, Job, Typed, JobInv
    <3> QED
      BY <1>2, <1>3, <2>1, <3>1
  <2>5. CASE hot[row[r].path] # None
    <3>1. job'.cur = r /\ job'.bytes = hot[row[r].path] /\ job'.pc = "put"
      BY <1>0, <1>7, <2>3, <2>5 DEF ArchiveRead, Job
    <3>2. r \notin discarded => hot[row[r].path] = row[r].body
      BY <2>3, <2>5 DEF KeptFile
    <3>3. KeptByJob'
      BY <1>0, <3>1, <3>2 DEF KeptByJob
    <3> QED
      BY <1>2, <2>1, <3>3
  <2> QED
    BY <2>4, <2>5
<1>8. CASE ArchivePut
  <2>0. job.pc = "put"
    BY <1>8 DEF ArchivePut
  <2>1. PICK r \in Records : r = job.cur
    BY <1>5, <2>0
  <2>2. /\ InJob(r) /\ KeptFile(r) /\ Live(row[r]) /\ row[r].path \in Paths(r) /\ Source = row[r].path
        /\ r \notin discarded => job.bytes = row[r].body
    BY <1>5, <2>0, <2>1 DEF Kept, KeptByJob
  <2>3. /\ hot' = hot /\ zst' = [zst EXCEPT ![row[r].path] = job.bytes]
        /\ job'.cur = r /\ job'.bytes = job.bytes /\ job'.pc = "drop"
    BY <1>0, <1>8, <2>1, <2>2 DEF ArchivePut, Job
  <2>4. /\ zst'[row[r].path] = job.bytes
        /\ \A k \in Keys \ {row[r].path} : zst'[k] = zst[k]
    BY <1>6, <2>2, <2>3 DEF Paths
  <2>5. KeptFile(r)'
    <3>1. ASSUME r \notin discarded PROVE \E k \in Paths(r) : row[r].body \in {hot'[k], zst'[k]}
      BY <2>2, <2>4, <3>1
    <3> QED
      BY <1>0, <2>2, <2>3, <3>1 DEF KeptFile, Paths
  <2>6. Source' = row[r].path
    BY <1>0, <2>1, <2>2, <2>3 DEF Source
  <2>7. KeptByJob'
    BY <1>0, <2>2, <2>3, <2>4, <2>6 DEF KeptByJob
  <2> QED
    BY <1>1, <2>2, <2>3, <2>4, <2>5, <2>7
<1>9. CASE ArchiveDrop
  <2>0. job.pc = "drop"
    BY <1>9 DEF ArchiveDrop
  <2>1. PICK r \in Records : r = job.cur
    BY <1>5, <2>0
  <2>2. /\ InJob(r) /\ KeptFile(r) /\ Live(row[r]) /\ row[r].path \in Paths(r) /\ Source = row[r].path
        /\ r \notin discarded => job.bytes = row[r].body /\ zst[row[r].path] = row[r].body
    BY <1>5, <2>0, <2>1 DEF Kept, KeptByJob
  <2>3. /\ zst' = zst /\ hot' = [hot EXCEPT ![row[r].path] = None]
        /\ job'.cur = None \/ (job'.cur = r /\ job'.bytes = job.bytes)
    BY <1>0, <1>4, <1>9, <2>1, <2>2 DEF ArchiveDrop, Job
  <2>4. /\ hot'[row[r].path] = None
        /\ \A k \in Keys \ {row[r].path} : hot'[k] = hot[k]
    BY <1>6, <2>2, <2>3 DEF Paths
  <2>5. KeptFile(r)'
    <3>1. ASSUME r \notin discarded PROVE \E k \in Paths(r) : row[r].body \in {hot'[k], zst'[k]}
      BY <2>2, <2>3, <3>1
    <3> QED
      BY <1>0, <2>2, <2>4, <3>1 DEF KeptFile, Paths
  <2>6. CASE job'.cur = r
    <3>1. Source' = row[r].path
      BY <1>0, <2>1, <2>2, <2>6 DEF Source
    <3>2. r # None
      BY LifecycleAssumption
    <3>3. KeptByJob'
      BY <1>0, <2>2, <2>3, <2>6, <3>1, <3>2 DEF KeptByJob
    <3> QED
      BY <1>1, <2>2, <2>3, <2>4, <2>5, <3>3
  <2>7. CASE job'.cur = None
    BY <1>1, <1>3, <2>2, <2>3, <2>4, <2>5, <2>7
  <2> QED
    BY <2>3, <2>6, <2>7
<1>10. CASE ArchiveMark
  <2>1. NextRecord \in Job
    BY <1>0 DEF NextRecord, Job
  <2>2. job'.cur = None /\ UNCHANGED <<hot, zst>>
    BY <1>4, <1>10, <2>1 DEF ArchiveMark, Job
  <2> QED
    BY <1>2, <1>3, <2>2
<1>11. CASE ArchiveError
  <2>1. job'.cur = None /\ UNCHANGED <<hot, zst>>
    BY <1>4, <1>11 DEF ArchiveError
  <2> QED
    BY <1>2, <1>3, <2>1
<1> QED
  BY <1>7, <1>8, <1>9, <1>10, <1>11

LEMMA StepKept ==
  PathsOfOneFile /\ ~Overlap /\ Typed /\ Alone /\ Kept /\ [Next]_vars => Kept'
<1> SUFFICES ASSUME PathsOfOneFile, ~Overlap, Typed, Alone, Kept, [Next]_vars PROVE Kept'
  OBVIOUS
<1>1. ASSUME NEW s \in Sessions, Arrives(s) \/ RequestStep(s) PROVE Kept'
  BY <1>1, ArrivesKept, RenameKept, DropKept, MoveKept, SelectKept, CommitKept DEF RequestStep
<1>2. ASSUME NEW s \in Sessions, Abort(s) PROVE Kept'
  <2>1. session[s].op # "none"
    BY <1>2 DEF Abort, Typed, SessionInv
  <2>2. \A q \in Records \ {session[s].r} : tmp'[q] = tmp[q]
    BY <1>2 DEF Abort, Typed, TypeOK
  <2> QED
    BY <1>2, <2>1, <2>2, EndsKept DEF Abort
<1>3. ASSUME UNCHANGED <<row, hot, zst, tmp, discarded, session>>, job' = job \/ job'.cur = None
      PROVE  Kept'
  BY <1>3 DEF Kept, KeptFile, KeptBySession, KeptByJob, Source, Paths
<1>4. CASE ArchiveList
  <2>1. job'.cur = None
    BY <1>4 DEF ArchiveList, NoJob
  <2> QED
    BY <1>3, <1>4, <2>1 DEF ArchiveList
<1>5. CASE \/ \E r \in Records : ArchiveRead(r)
           \/ ArchivePut \/ ArchiveDrop \/ ArchiveMark \/ ArchiveError
  BY <1>5, RunKept
<1>6. CASE ArchiveCommit
  <2>1. /\ UNCHANGED <<hot, tmp, zst, session, discarded>> /\ job' = NoJob
        /\ \A r \in Records :
              row'[r] = IF r \in job.marked THEN MarkArchived(row[r], job.seen[r].path) ELSE row[r]
    BY <1>6, RunCommits
  <2>2. ASSUME NEW r \in Records PROVE KeptFile(r)'
    <3>0. KeptFile(r) /\ row[r] \in Row
      BY DEF Kept, Typed, TypeOK
    <3>1. CASE r \notin job.marked
      BY <2>1, <3>0, <3>1 DEF KeptFile, Paths
    <3>2. CASE r \in job.marked
      <4>1. Live(row[r]) /\ job.seen[r] = row[r]
        BY <3>2 DEF Alone, AloneInJob, InJob, Candidates, Live
      <4>2. /\ row'[r].path = row[r].path /\ row'[r].body = row[r].body
            /\ row'[r].blob = row[r].path
        <5>1. row'[r] = [row[r] EXCEPT !.status = "archived", !.archived = TRUE,
                                       !.blob = row[r].path]
          BY <2>1, <3>2, <4>1 DEF MarkArchived
        <5> QED
          BY <3>0, <5>1 DEF Row
      <4> QED
        BY <2>1, <3>0, <4>1, <4>2 DEF KeptFile, Paths
    <3> QED
      BY <3>1, <3>2
  <2>3. \A s \in Sessions : KeptBySession(s)'
    BY <2>1 DEF Kept, KeptBySession, Paths
  <2>4. KeptByJob'
    BY <2>1 DEF KeptByJob, NoJob
  <2> QED
    BY <2>2, <2>3, <2>4 DEF Kept
<1>7. CASE ReconcileSum \/ ReconcileWrite \/ UNCHANGED vars
  BY <1>3, <1>7 DEF ReconcileSum, ReconcileWrite, vars
<1>8. ASSUME NEW r \in Records, CleanTmp(r) PROVE Kept'
  <2>1. /\ row' = row /\ hot' = hot /\ zst' = zst /\ session' = session /\ job' = job
        /\ discarded' = discarded /\ \A s \in Sessions : session[s].r # r
        /\ tmp' = [tmp EXCEPT ![r] = None]
    BY <1>8 DEF CleanTmp, InSession
  <2>2. \A q \in Records \ {r} : tmp'[q] = tmp[q]
    BY <2>1 DEF Typed, TypeOK
  <2>3. KeptFile(r)' /\ KeptByJob'
    BY <2>1 DEF Kept, KeptFile, KeptByJob, Source, Paths
  <2> QED
    BY <2>1, <2>2, <2>3, OthersKept DEF Kept
<1>9. CASE Crash
  <2>1. /\ UNCHANGED <<row, hot, zst, discarded>> /\ job' = NoJob
        /\ \A s \in Sessions : session'[s] = NoSession
    BY <1>9 DEF Crash
  <2>2. \A r \in Records : KeptFile(r)'
    BY <2>1 DEF Kept, KeptFile, Paths
  <2>3. \A s \in Sessions : KeptBySession(s)'
    BY <2>1 DEF KeptBySession, NoSession
  <2>4. KeptByJob'
    BY <2>1 DEF KeptByJob, NoJob
  <2> QED
    BY <2>2, <2>3, <2>4 DEF Kept
<1> QED
  BY <1>1, <1>2, <1>4, <1>5, <1>6, <1>7, <1>8, <1>9 DEF Next, ArchiveStep

(* The bytes of a live file that no overwrite or delete has begun to drop are     *)
(* in the bucket, under one of its paths or in its archive: a rename copies before  *)
(* it deletes, the archive run uploads before it deletes, an overwrite commits only *)
(* when its object has its final path, and errors and crashes between any two of   *)
(* these calls leave them there. It needs that no two actors work on    *)
(* one file at a time and that no two files use one path.                        *)
THEOREM BytesAreKept == ~Overlap /\ PathsOfOneFile => (Spec => []NoBytesLost)
<1> SUFFICES ASSUME ~Overlap, PathsOfOneFile PROVE Spec => []NoBytesLost
  OBVIOUS
<1>1. Init => Typed /\ Alone /\ Kept
  BY InitTyped, InitAlone, InitKept
<1>2. (Typed /\ Alone /\ Kept) /\ [Next]_vars => (Typed /\ Alone /\ Kept)'
  BY StepTyped, StepAlone, StepKept
<1>3. Kept => NoBytesLost
  BY DEF Kept, KeptFile, NoBytesLost, Paths
<1> QED
  BY <1>1, <1>2, <1>3, PTL DEF Spec

-----------------------------------------------------------------------------
(* Reading back, when requests and the archive run overlap on a file.            *)

(* Nothing fails, a file keeps its content, has one name it may be given, and is   *)
(* not both renamed and deleted.                                              *)
Undisturbed ==
    /\ Faults = {} /\ Overwrites = {}
    /\ PathsOfOneFile
    /\ \A n, m \in Renames : n[1] = m[1] => n = m
    /\ \A n \in Renames : n[1] \notin Deletes

(* The run has deleted the hot object and is going to archive the row.           *)
Taken(r) == (r = job.cur /\ job.pc = "mark") \/ r \in job.marked

(* A request has deleted the object under the path, or in the archive, and is     *)
(* going to write the row.                                                    *)
Past(s, r) == session[s].r = r /\ session[s].pc \in {"select", "commit"}
Leaves(s, r) == Past(s, r) /\ session[s].op \in {"rename", "delete"}
Purges(s, r) == Past(s, r) /\ session[s].op = "delete" /\ session[s].rec.archived

FileInv(r) ==
    LET f == row[r]
    IN  /\ f.status = "none" =>
              /\ ~f.archived /\ \A k \in Paths(r) : zst[k] = None
              /\ ~InSession(r) => \A k \in Paths(r) : hot[k] = None
        /\ f.status # "none" =>
              /\ f.path \in Paths(r)
              /\ \A k \in Paths(r) : hot[k] \in {None, f.body} /\ zst[k] \in {None, f.body}
        /\ f.status = "deleted" => r \in Deletes
        /\ f.archived => f.blob \in Paths(r)
        /\ Live(f) /\ f.archived => zst[f.blob] # None \/ \E s \in Sessions : Purges(s, r)
        /\ Live(f) /\ ~f.archived =>
              hot[f.path] # None \/ Taken(r) \/ \E s \in Sessions : Leaves(s, r)

UploadInv(s) ==
    LET x == session[s]
    IN  x.op = "upload" =>
            /\ row[x.r].status = "none" /\ x.to \in Paths(x.r)
            /\ \A t \in Sessions \ {s} : session[t].r # x.r
            /\ x.pc = "move" => tmp[x.r] = x.body
            /\ \A k \in Paths(x.r) : hot[k] = IF x.pc = "commit" /\ k = x.to THEN x.body ELSE None

RenameInv(s) ==
    LET x == session[s]
    IN  x.op = "rename" =>
            /\ <<x.r, x.to>> \in Renames /\ row[x.r].status # "none"
            /\ Live(x.rec) /\ x.rec.path \in Paths(x.r) \ {x.to}
            /\ row[x.r].path \in {x.rec.path, x.to}
            /\ x.pc # "copy" => hot[x.to] # None \/ Taken(x.r) \/ row[x.r].archived
            /\ x.pc = "commit" /\ x.base.path = x.to => row[x.r].path = x.to

DeleteInv(s) ==
    LET x == session[s]
    IN  x.op = "delete" =>
            /\ x.r \in Deletes /\ row[x.r].status # "none"
            /\ x.rec.path \in Paths(x.r)
            /\ x.rec.archived => x.rec.blob \in Paths(x.r) /\ row[x.r].archived
            /\ x.pc = "commit" /\ x.base.status = "deleted" =>
                  row[x.r].status = "deleted" \/ (row[x.r].archived /\ ~x.rec.archived)

RequestInv(s) == session[s].op # "overwrite" /\ UploadInv(s) /\ RenameInv(s) /\ DeleteInv(s)

RunInv(r) ==
    LET key == job.seen[r].path
    IN  /\ InJob(r) => row[r].status # "none" /\ ~row[r].archived /\ key \in Paths(r)
        /\ r = job.cur => job.bytes = row[r].body
        /\ r = job.cur /\ job.pc \in {"drop", "mark"} => zst[key] # None
        /\ r \in job.marked => zst[key] # None

Readable ==
    /\ \A r \in Records : FileInv(r) /\ RunInv(r)
    /\ \A s \in Sessions : RequestInv(s)

-----------------------------------------------------------------------------
LEMMA InitReadable == Init => Readable
<1> SUFFICES ASSUME Init PROVE Readable
  OBVIOUS
<1>1. \A s \in Sessions : session[s].op = "none" /\ session[s].r = None
  BY DEF Init, NoSession
<1>2. \A r \in Records : row[r].status = "none" /\ ~row[r].archived
  BY DEF Init, NoRow
<1>3. \A k \in Keys : hot[k] = None /\ zst[k] = None
  BY DEF Init
<1>4. \A r \in Records : FileInv(r)
  BY <1>2, <1>3 DEF FileInv, Live, Paths
<1>5. \A r \in Records : ~InJob(r) /\ r # job.cur /\ r \notin job.marked
  BY LifecycleAssumption DEF Init, InJob, NoJob
<1>6. \A r \in Records : RunInv(r)
  BY <1>5 DEF RunInv
<1>7. \A s \in Sessions : RequestInv(s)
  BY <1>1 DEF RequestInv, UploadInv, RenameInv, DeleteInv
<1> QED
  BY <1>4, <1>6, <1>7 DEF Readable

LEMMA IdleReads ==
  ASSUME NEW s \in Sessions, session[s].op = "none"
  PROVE  RequestInv(s)
BY DEF RequestInv, UploadInv, RenameInv, DeleteInv

(* A step that works on one file keeps what is said about the others.             *)
LEMMA OthersReadable ==
  ASSUME PathsOfOneFile, Typed, Typed', Readable, NEW r \in Records,
         \A q \in Records \ {r} : row'[q] = row[q] /\ tmp'[q] = tmp[q],
         \A k \in Keys \ Paths(r) : hot'[k] = hot[k] /\ zst'[k] = zst[k],
         \A t \in Sessions : \/ session'[t] = session[t]
                             \/ session[t].r \in {r, None} /\ session'[t].r \in {r, None},
         job'.seen = job.seen,
         \A q \in Records \ {r} : /\ InJob(q)' => InJob(q)
                                  /\ Taken(q) => Taken(q)'
                                  /\ q \in job'.marked => q \in job.marked
                                  /\ q = job'.cur => job' = job,
         FileInv(r)', RunInv(r)',
         \A t \in Sessions : session'[t].r = r => RequestInv(t)'
  PROVE  Readable'
<1>0. \A q \in Records \ {r} : \A k \in Paths(q) : k \in Keys /\ hot'[k] = hot[k] /\ zst'[k] = zst[k]
  BY PathsApart
<1>1. ASSUME NEW q \in Records \ {r} PROVE FileInv(q)'
  <2>0. q # None
    BY LifecycleAssumption
  <2>1. /\ FileInv(q) /\ row'[q] = row[q] /\ (Taken(q) => Taken(q)')
        /\ \A k \in Paths(q) : hot'[k] = hot[k] /\ zst'[k] = zst[k]
    BY <1>0 DEF Readable
  <2>2. \A t \in Sessions : session[t].r = q => session'[t] = session[t]
    BY <2>0
  <2>3. ~InSession(q)' => ~InSession(q)
    BY <2>2 DEF InSession
  <2>4. \A t \in Sessions : (Purges(t, q) => Purges(t, q)') /\ (Leaves(t, q) => Leaves(t, q)')
    BY <2>2 DEF Purges, Leaves, Past
  <2>5. (\E t \in Sessions : Purges(t, q)) => (\E t \in Sessions : Purges(t, q)')
    BY <2>4
  <2>6. (\E t \in Sessions : Leaves(t, q)) => (\E t \in Sessions : Leaves(t, q)')
    BY <2>4
  <2>7. Live(row[q]) => row[q].status # "none"
    BY DEF Live
  <2>8. /\ Live(row[q]) /\ row[q].archived =>
              zst'[row[q].blob] # None \/ \E t \in Sessions : Purges(t, q)'
        /\ Live(row[q]) /\ ~row[q].archived =>
              hot'[row[q].path] # None \/ Taken(q)' \/ \E t \in Sessions : Leaves(t, q)'
    BY <2>1, <2>5, <2>6, <2>7 DEF FileInv
  <2>9. Paths(q)' = Paths(q)
    BY DEF Paths
  <2> QED
    BY <2>1, <2>3, <2>8, <2>9 DEF FileInv
<1>2. ASSUME NEW q \in Records \ {r} PROVE RunInv(q)'
  <2>1. RunInv(q) /\ row'[q] = row[q] /\ job'.seen = job.seen
    BY DEF Readable
  <2>2. q \in job.marked \/ q = job.cur => InJob(q)
    BY DEF InJob
  <2>3. InJob(q) => zst'[job.seen[q].path] = zst[job.seen[q].path]
    BY <1>0, <2>1 DEF RunInv
  <2> QED
    BY <2>1, <2>2, <2>3 DEF RunInv, Paths
<1>3. ASSUME NEW t \in Sessions PROVE RequestInv(t)'
  <2>1. CASE session'[t].op = "none"
    BY <2>1 DEF RequestInv, UploadInv, RenameInv, DeleteInv
  <2>2. CASE session'[t].r = r
    BY <2>2
  <2>3. CASE session'[t].op # "none" /\ session'[t].r # r
    <3> DEFINE x == session[t]
    <3>1. session'[t].r \in Records \ {r} /\ None \notin Records
      BY <2>3, LifecycleAssumption DEF Typed, SessionInv
    <3>2. session'[t] = x
      BY <3>1
    <3>3. PICK q \in Records \ {r} : q = x.r
      BY <3>1, <3>2
    <3>4. /\ RequestInv(t) /\ row'[q] = row[q] /\ tmp'[q] = tmp[q] /\ (Taken(q) => Taken(q)')
          /\ \A k \in Paths(q) : hot'[k] = hot[k] /\ zst'[k] = zst[k]
      BY <1>0 DEF Readable
    <3>5. \A u \in Sessions : session[u].r # q => session'[u].r # q
      BY <3>1
    <3>6. UploadInv(t)'
      BY <3>2, <3>3, <3>4, <3>5 DEF RequestInv, UploadInv, Paths
    <3>7. RenameInv(t)'
      <4>1. <<q, x.to>> \in Renames => x.to \in Paths(q)
        BY LifecycleAssumption DEF Paths, Takes
      <4>2. Paths(q)' = Paths(q)
        BY DEF Paths
      <4>3. x.op = "rename" => hot'[x.to] = hot[x.to]
        BY <3>3, <3>4, <4>1 DEF RequestInv, RenameInv
      <4>4. session'[t].r = q
        BY <3>2, <3>3
      <4> QED
        BY <3>2, <3>3, <3>4, <4>2, <4>3, <4>4 DEF RequestInv, RenameInv
    <3>8. DeleteInv(t)'
      BY <3>2, <3>3, <3>4 DEF RequestInv, DeleteInv, Paths
    <3> QED
      BY <3>2, <3>4, <3>6, <3>7, <3>8 DEF RequestInv
  <2> QED
    BY <2>1, <2>2, <2>3
<1> QED
  BY <1>1, <1>2, <1>3 DEF Readable

(* A request step: the file, the request, and the other requests for the file.     *)
LEMMA RequestReads ==
  ASSUME PathsOfOneFile, Typed, Typed', Readable, NEW s \in Sessions, NEW r \in Records, NEW y,
         session' = [session EXCEPT ![s] = y], session[s].r \in {r, None}, y.r \in {r, None},
         job' = job,
         \A q \in Records \ {r} : row'[q] = row[q] /\ tmp'[q] = tmp[q],
         \A k \in Keys \ Paths(r) : hot'[k] = hot[k] /\ zst'[k] = zst[k],
         FileInv(r)', RunInv(r)', session'[s] = y => RequestInv(s)',
         \A t \in Sessions \ {s} : session'[t] = session[t] /\ session[t].r = r => RequestInv(t)'
  PROVE  Readable'
<1>1. session'[s] = y /\ \A t \in Sessions \ {s} : session'[t] = session[t]
  BY DEF Typed, TypeOK
<1>2. \A q \in Records : (InJob(q)' <=> InJob(q)) /\ (Taken(q)' <=> Taken(q))
  BY DEF InJob, Taken
<1>3. \A t \in Sessions : session'[t].r = r => RequestInv(t)'
  BY <1>1
<1>4. \A t \in Sessions : \/ session'[t] = session[t]
                          \/ session[t].r \in {r, None} /\ session'[t].r \in {r, None}
  BY <1>1
<1> QED
  BY <1>2, <1>3, <1>4, OthersReadable

(* Paths(r) depends on no variable.                                             *)
LEMMA FixedPaths == \A r : Paths(r)' = Paths(r)
BY DEF Paths

(* Where the request and the file stand, operation by operation.                 *)
LEMMA RequestReadsFrom ==
  ASSUME Undisturbed, Typed, Readable, NEW s \in Sessions, session[s].op # "none"
  PROVE  LET x == session[s]
         IN  /\ x \in Session /\ x.r \in Records /\ SessionInv(s)
             /\ x.op \in {"upload", "rename", "delete"}
             /\ FileInv(x.r) /\ RunInv(x.r) /\ RequestInv(s) /\ row[x.r] \in Row
             /\ x.op \in {"upload", "rename"} => x.to \in Paths(x.r)
             /\ x.op = "rename" => x.r \notin Deletes /\ Live(row[x.r])
<1>1. /\ session[s] \in Session /\ SessionInv(s) /\ RequestInv(s)
      /\ row \in [Records -> Row]
  BY DEF Typed, TypeOK, Readable
<1>2. session[s].r \in Records /\ session[s].op \in {"upload", "rename", "delete"}
  BY <1>1 DEF SessionInv, Session, RequestInv
<1>3. FileInv(session[s].r) /\ RunInv(session[s].r) /\ row[session[s].r] \in Row
  BY <1>1, <1>2 DEF Readable
<1>4. ASSUME session[s].op = "rename"
      PROVE  /\ session[s].to \in Paths(session[s].r)
             /\ session[s].r \notin Deletes /\ Live(row[session[s].r])
  <2>1. /\ <<session[s].r, session[s].to>> \in Renames
        /\ row[session[s].r].status # "none"
    BY <1>1, <1>4 DEF RequestInv, RenameInv
  <2>2. session[s].r \notin Deletes
    <3>1. \A n \in Renames : n[1] \notin Deletes
      BY DEF Undisturbed
    <3> QED
      BY <2>1, <3>1
  <2>3. Live(row[session[s].r])
    BY <1>3, <2>1, <2>2 DEF FileInv, Live, Row, Status
  <2>4. session[s].to \in Keys
    BY <1>1 DEF Session
  <2> QED
    BY <2>1, <2>2, <2>3, <2>4 DEF Paths, Takes
<1>5. session[s].op = "upload" => session[s].to \in Paths(session[s].r)
  BY <1>1 DEF RequestInv, UploadInv
<1> QED
  BY <1>1, <1>2, <1>3, <1>4, <1>5

(* Two renames of a file give it the same name; a file that is renamed is not      *)
(* deleted, and one that is being uploaded has no other request.                 *)
LEMMA Mates ==
  ASSUME Undisturbed, Typed, Readable, NEW s \in Sessions, NEW t \in Sessions, s # t,
         session[s].op # "none", session[t].r = session[s].r
  PROVE  /\ session[s].op \in {"rename", "delete"}
         /\ session[t].op = session[s].op
         /\ session[s].op = "rename" => session[t].to = session[s].to
<1>1. session[s].r \in Records /\ None \notin Records
  BY RequestReadsFrom, LifecycleAssumption
<1>2. session[t].op # "none"
  BY <1>1 DEF Typed, SessionInv, NoSession
<1>3. session[s].op # "upload" /\ session[t].op # "upload"
  BY <1>2 DEF Readable, RequestInv, UploadInv
<1>4. session[s].op \in {"rename", "delete"} /\ session[t].op \in {"rename", "delete"}
  BY <1>2, <1>3, RequestReadsFrom
<1>5. \A u \in Sessions : /\ session[u].op = "rename" => session[u].r \notin Deletes
                          /\ session[u].op = "delete" => session[u].r \in Deletes
  BY RequestReadsFrom DEF Readable, RequestInv, DeleteInv
<1>6. session[t].op = session[s].op
  BY <1>4, <1>5
<1>7. ASSUME session[s].op = "rename" PROVE session[t].to = session[s].to
  <2>1. <<session[s].r, session[s].to>> \in Renames /\ <<session[s].r, session[t].to>> \in Renames
    BY <1>6, <1>7 DEF Readable, RequestInv, RenameInv
  <2>2. \A n, m \in Renames : n[1] = m[1] => n = m
    BY DEF Undisturbed
  <2> QED
    BY <2>1, <2>2
<1> QED
  BY <1>4, <1>6, <1>7

(* A file about which nothing changes but that a request goes on or ends: a witness *)
(* that held the file stays one.                                               *)
LEMMA FileStays ==
  ASSUME NEW r \in Records, FileInv(r), row[r].status # "none", row'[r] = row[r], job' = job,
         \A k \in Paths(r) : hot'[k] = hot[k] /\ zst'[k] = zst[k],
         \A t \in Sessions : (Leaves(t, r) => Leaves(t, r)') /\ (Purges(t, r) => Purges(t, r)')
  PROVE  FileInv(r)'
<1>1. /\ (\E t \in Sessions : Leaves(t, r)) => (\E t \in Sessions : Leaves(t, r)')
      /\ (\E t \in Sessions : Purges(t, r)) => (\E t \in Sessions : Purges(t, r)')
  OBVIOUS
<1>2. Taken(r)' <=> Taken(r)
  BY DEF Taken
<1>3. /\ row[r].path \in Paths(r)
      /\ row[r].archived => row[r].blob \in Paths(r)
  BY DEF FileInv
<1>4. Paths(r)' = Paths(r)
  BY DEF Paths
<1> QED
  BY <1>1, <1>2, <1>3, <1>4 DEF FileInv

LEMMA RunStays ==
  ASSUME NEW r \in Records, RunInv(r), job' = job,
         row'[r].status # "none" \/ ~InJob(r),
         InJob(r) => row'[r].archived = row[r].archived /\ row'[r].body = row[r].body,
         InJob(r) => \A k \in Paths(r) : zst'[k] = zst[k]
  PROVE  RunInv(r)'
<1>1. r \in job.marked \/ r = job.cur => InJob(r)
  BY DEF InJob
<1>2. InJob(r)' <=> InJob(r)
  BY DEF InJob
<1>3. Paths(r)' = Paths(r)
  BY DEF Paths
<1> QED
  BY <1>1, <1>2, <1>3 DEF RunInv

LEMMA ArrivesReads ==
  ASSUME Undisturbed, Typed, Typed', Readable, NEW s \in Sessions, Arrives(s)
  PROVE  Readable'
<1>0. PathsOfOneFile
  BY DEF Undisturbed
<1>1. ASSUME NEW op, NEW pc, NEW r \in Records, NEW k, NEW b, Begin(s, op, pc, r, k, b),
             \A q \in Records \ {r} : tmp'[q] = tmp[q],
             \/ /\ op = "upload" /\ pc = "move" /\ tmp'[r] = b /\ k \in Paths(r)
                /\ row[r].status = "none" /\ ~InSession(r)
             \/ /\ op = "rename" /\ pc = "copy" /\ <<r, k>> \in Renames /\ k # row[r].path
                /\ Live(row[r])
             \/ op = "delete" /\ pc = "remove" /\ r \in Deletes /\ Live(row[r])
      PROVE  Readable'
  <2> DEFINE y == [op |-> op, pc |-> pc, r |-> r, rec |-> row[r], base |-> NoRow,
                   to |-> k, body |-> b]
  <2>1. /\ session' = [session EXCEPT ![s] = y] /\ session[s] = NoSession
        /\ row' = row /\ hot' = hot /\ zst' = zst /\ job' = job
    BY <1>1 DEF Begin
  <2>2. /\ y.op = op /\ y.pc = pc /\ y.r = r /\ y.to = k /\ y.body = b /\ y.rec = row[r]
    OBVIOUS
  <2> HIDE DEF y
  <2>3. session'[s] = y /\ \A t \in Sessions \ {s} : session'[t] = session[t]
    BY <2>1 DEF Typed, TypeOK
  <2>4. session[s].r = None /\ r # None
    BY <2>1, LifecycleAssumption DEF NoSession
  <2>5. FileInv(r) /\ RunInv(r)
    BY DEF Readable
  <2>6. \A t \in Sessions : (Leaves(t, r) => Leaves(t, r)') /\ (Purges(t, r) => Purges(t, r)')
    BY <2>3, <2>4 DEF Leaves, Purges, Past
  <2>7. FileInv(r)'
    <3>1. CASE row[r].status # "none"
      BY <2>1, <2>5, <2>6, <3>1, FileStays
    <3>2. CASE row[r].status = "none"
      <4>1. InSession(r)'
        BY <2>2, <2>3 DEF InSession
      <4> QED
        BY <2>1, <2>5, <3>2, <4>1, FixedPaths DEF FileInv, Live
    <3> QED
      BY <3>1, <3>2
  <2>8. RunInv(r)'
    BY <2>1, <2>5 DEF RunInv, InJob, Paths
  <2>9. RequestInv(s)'
    <3>1. CASE op = "upload"
      <4>1. \A t \in Sessions \ {s} : session'[t].r # r
        BY <1>1, <2>3, <3>1 DEF InSession
      <4>2. \A q \in Paths(r) : hot[q] = None
        BY <1>1, <2>5, <3>1 DEF FileInv
      <4> QED
        BY <1>1, <2>1, <2>2, <2>3, <3>1, <4>1, <4>2, FixedPaths
        DEF RequestInv, UploadInv, RenameInv, DeleteInv
    <3>2. CASE op = "rename"
      <4>1. Live(row[r]) /\ row[r].status # "none" /\ row[r].path \in Paths(r)
        BY <1>1, <2>5, <3>2 DEF FileInv, Live
      <4> QED
        BY <1>1, <2>1, <2>2, <2>3, <3>2, <4>1, FixedPaths
        DEF RequestInv, UploadInv, RenameInv, DeleteInv
    <3>3. CASE op = "delete"
      <4>1. /\ row[r].status # "none" /\ row[r].path \in Paths(r)
            /\ row[r].archived => row[r].blob \in Paths(r)
        BY <1>1, <2>5, <3>3 DEF FileInv, Live
      <4> QED
        BY <1>1, <2>1, <2>2, <2>3, <3>3, <4>1, FixedPaths
        DEF RequestInv, UploadInv, RenameInv, DeleteInv
    <3> QED
      BY <1>1, <3>1, <3>2, <3>3
  <2>10. ASSUME NEW t \in Sessions \ {s}, session'[t] = session[t], session[t].r = r
         PROVE  RequestInv(t)'
    <3>1. RequestInv(t) /\ session[t].op # "none"
      BY <2>4, <2>10 DEF Readable, Typed, SessionInv, NoSession
    <3>2. row[r].status # "none"
      BY <1>1, <2>10 DEF InSession, Live
    <3>3. session[t].op # "upload"
      BY <2>10, <3>1, <3>2 DEF RequestInv, UploadInv
    <3> QED
      BY <2>1, <2>10, <3>1, <3>3, FixedPaths
      DEF RequestInv, UploadInv, RenameInv, DeleteInv, Taken
  <2> QED
    BY <1>0, <1>1, <2>1, <2>2, <2>4, <2>7, <2>8, <2>9, <2>10, RequestReads
<1>3. ASSUME NEW u \in Uploads, UploadBegin(s, u[1], u[2], u[3]) PROVE Readable'
  <2>1. u[1] \in Records /\ u[2] \in Paths(u[1])
    BY LifecycleAssumption DEF Paths, Takes
  <2>2. /\ Begin(s, "upload", "move", u[1], u[2], u[3])
        /\ tmp' = [tmp EXCEPT ![u[1]] = u[3]]
        /\ row[u[1]].status = "none" /\ ~InSession(u[1])
    BY <1>3 DEF UploadBegin
  <2>3. tmp'[u[1]] = u[3] /\ \A q \in Records \ {u[1]} : tmp'[q] = tmp[q]
    BY <2>1, <2>2 DEF Typed, TypeOK
  <2> QED
    BY <1>1, <2>1, <2>2, <2>3
<1>4. ASSUME NEW n \in Renames, RenameBegin(s, n[1], n[2]) PROVE Readable'
  <2>1. n[1] \in Records /\ n[2] \in Keys /\ n = <<n[1], n[2]>>
    BY LifecycleAssumption
  <2>2. <<n[1], n[2]>> \in Renames
    BY <2>1
  <2> QED
    BY <1>1, <1>4, <2>1, <2>2 DEF RenameBegin
<1>5. ASSUME NEW w \in Overwrites PROVE FALSE
  BY DEF Undisturbed
<1>6. ASSUME NEW r \in Deletes, DeleteBegin(s, r) PROVE Readable'
  <2>1. r \in Records
    BY LifecycleAssumption
  <2> QED
    BY <1>1, <1>6, <2>1 DEF DeleteBegin
<1> QED
  BY <1>3, <1>4, <1>5, <1>6 DEF Arrives

LEMMA RenameReads ==
  ASSUME Undisturbed, Typed, Typed', Readable, NEW s \in Sessions, RenameCopy(s) \/ RenameRemove(s)
  PROVE  Readable'
<1> DEFINE x == session[s]
<1>0. x.op = "rename" /\ x.pc \in {"copy", "remove"}
  BY DEF RenameCopy, RenameRemove, Typed, TypeOK, Session, SessionInv
<1>r. PICK r \in Records : r = x.r
  BY <1>0, RequestReadsFrom
<1>1. /\ x \in Session /\ FileInv(r) /\ RunInv(r) /\ RequestInv(s) /\ PathsOfOneFile
      /\ x.to \in Paths(r) /\ Live(row[r]) /\ row[r].status # "none"
  BY <1>0, <1>r, RequestReadsFrom DEF Undisturbed, Live
<1>2. x.rec.path \in Paths(r) /\ x.to # x.rec.path
  BY <1>0, <1>1, <1>r DEF RequestInv, RenameInv
<1>3. /\ x.to \in Keys /\ x.rec.path \in Keys
      /\ hot \in [Keys -> Bodies \cup {None}]
  BY <1>1, <1>2 DEF Paths, Typed, TypeOK
<1>4. /\ row' = row /\ tmp' = tmp /\ zst' = zst /\ job' = job
  BY DEF RenameCopy, RenameRemove
<1>5. RunInv(r)'
  BY <1>1, <1>4, RunStays
<1>6. ASSUME NEW t \in Sessions \ {s}, session'[t] = session[t], session[t].r = r,
             hot'[x.to] = hot[x.to] \/ hot'[x.to] # None
      PROVE  RequestInv(t)'
  <2>1. session[t].op = "rename" /\ session[t].to = x.to /\ RequestInv(t)
    BY <1>0, <1>r, <1>6, Mates DEF Readable
  <2> QED
    BY <1>4, <1>6, <2>1, FixedPaths DEF RequestInv, UploadInv, RenameInv, DeleteInv, Taken
<1>7. CASE RenameCopy(s) /\ hot[x.rec.path] = None
  <2>1. session' = [session EXCEPT ![s] = NoSession] /\ hot' = hot /\ x.pc = "copy"
    BY <1>7 DEF RenameCopy, Ends
  <2>2. session'[s] = NoSession /\ \A t \in Sessions \ {s} : session'[t] = session[t]
    BY <2>1 DEF Typed, TypeOK
  <2>3. \A t \in Sessions : (Leaves(t, r) => Leaves(t, r)') /\ (Purges(t, r) => Purges(t, r)')
    BY <2>1, <2>2 DEF Leaves, Purges, Past
  <2>4. FileInv(r)'
    BY <1>1, <1>4, <2>1, <2>3, FileStays
  <2>5. NoSession.r = None /\ NoSession.op = "none"
    BY DEF NoSession
  <2>6. RequestInv(s)'
    BY <2>2, <2>5 DEF RequestInv, UploadInv, RenameInv, DeleteInv
  <2> QED
    BY <1>1, <1>4, <1>5, <1>6, <1>r, <2>1, <2>4, <2>5, <2>6, RequestReads
<1>8. ASSUME NEW pc \in {"remove", "select"}, Goes(s, pc), hot'[x.to] # None \/ hot'[x.to] = hot[x.to],
             \A k \in Keys \ Paths(r) : hot'[k] = hot[k],
             x.pc # "copy" \/ hot'[x.to] # None,
             FileInv(r)'
      PROVE  Readable'
  <2> DEFINE y == [x EXCEPT !.pc = pc]
  <2>1. session' = [session EXCEPT ![s] = y]
    BY <1>8 DEF Goes, Typed, TypeOK
  <2>2. y.op = "rename" /\ y.pc = pc /\ y.r = r /\ y.to = x.to /\ y.rec = x.rec
    BY <1>0, <1>1, <1>r DEF Session
  <2> HIDE DEF y
  <2>3. ASSUME session'[s] = y PROVE RequestInv(s)'
    <3>1. hot'[x.to] # None \/ Taken(r) \/ row[r].archived
      BY <1>0, <1>1, <1>8, <1>r DEF RequestInv, RenameInv
    <3>2. /\ <<r, x.to>> \in Renames /\ Live(x.rec) /\ x.rec.path \in Paths(r) \ {x.to}
          /\ row[r].path \in {x.rec.path, x.to}
      BY <1>0, <1>1, <1>r DEF RequestInv, RenameInv
    <3> HIDE DEF x
    <3> QED
      BY <1>1, <1>4, <1>8, <2>2, <2>3, <3>1, <3>2, FixedPaths
      DEF RequestInv, UploadInv, RenameInv, DeleteInv, Taken
  <2> QED
    BY <1>1, <1>4, <1>5, <1>6, <1>8, <1>r, <2>1, <2>2, <2>3, RequestReads
<1>9. CASE RenameCopy(s) /\ hot[x.rec.path] # None
  <2>1. /\ Goes(s, "remove") /\ hot' = [hot EXCEPT ![x.to] = hot[x.rec.path]]
    BY <1>9 DEF RenameCopy
  <2>2. /\ hot'[x.to] = hot[x.rec.path] /\ \A k \in Keys \ {x.to} : hot'[k] = hot[k]
    BY <1>3, <2>1
  <2>3. \A t \in Sessions \ {s} : session'[t] = session[t]
    BY <2>1 DEF Goes, Typed, TypeOK
  <2>4. ~Past(s, r)
    BY <1>0 DEF Past
  <2>5. \A t \in Sessions : (Leaves(t, r) => Leaves(t, r)') /\ (Purges(t, r) => Purges(t, r)')
    BY <2>3, <2>4 DEF Leaves, Purges, Past
  <2>6. hot[x.rec.path] = row[r].body
    BY <1>1, <1>2, <1>9 DEF FileInv
  <2>7. FileInv(r)'
    <3>1. \A k \in Paths(r) : k \in Keys
      BY DEF Paths
    <3>2. (\E t \in Sessions : Leaves(t, r)) => (\E t \in Sessions : Leaves(t, r)')
      BY <2>5
    <3>3. (\E t \in Sessions : Purges(t, r)) => (\E t \in Sessions : Purges(t, r)')
      BY <2>5
    <3>4. Taken(r)' <=> Taken(r)
      BY <1>4 DEF Taken
    <3>5. \A k \in Paths(r) : hot'[k] \in {None, row[r].body} /\ (hot'[k] = hot[k] \/ hot'[k] # None)
      BY <1>1, <1>9, <2>2, <2>6, <3>1 DEF FileInv
    <3> QED
      BY <1>1, <1>4, <3>2, <3>3, <3>4, <3>5, FixedPaths DEF FileInv
  <2>8. \A k \in Keys \ Paths(r) : hot'[k] = hot[k]
    BY <1>1, <2>2
  <2> QED
    BY <1>8, <1>9, <2>1, <2>2, <2>7, <2>8
<1>10. CASE RenameRemove(s)
  <2>1. /\ Goes(s, "select") /\ hot' = [hot EXCEPT ![x.rec.path] = None] /\ x.pc = "remove"
    BY <1>10 DEF RenameRemove
  <2>2. /\ hot'[x.to] = hot[x.to] /\ \A k \in Keys \ {x.rec.path} : hot'[k] = hot[k]
        /\ hot'[x.rec.path] = None
    BY <1>2, <1>3, <2>1
  <2>3. session'[s] = [x EXCEPT !.pc = "select"] /\ \A t \in Sessions \ {s} : session'[t] = session[t]
    BY <2>1 DEF Goes, Typed, TypeOK
  <2>4. Leaves(s, r)'
    BY <1>0, <1>1, <1>r, <2>3 DEF Leaves, Past, Session
  <2>5. \A t \in Sessions : Purges(t, r) => Purges(t, r)'
    BY <1>0, <2>3 DEF Purges, Past
  <2>6. FileInv(r)'
    <3>1. \A k \in Paths(r) : hot'[k] \in {None, row[r].body}
      BY <1>1, <2>2 DEF FileInv, Paths
    <3>2. (\E t \in Sessions : Purges(t, r)) => (\E t \in Sessions : Purges(t, r)')
      BY <2>5
    <3>3. \E t \in Sessions : Leaves(t, r)'
      BY <2>4
    <3> QED
      BY <1>1, <1>4, <3>1, <3>2, <3>3, FixedPaths DEF FileInv
  <2>7. \A k \in Keys \ Paths(r) : hot'[k] = hot[k]
    BY <1>2, <2>2
  <2> QED
    BY <1>8, <2>1, <2>2, <2>6, <2>7
<1> QED
  BY <1>7, <1>9, <1>10

LEMMA DeleteReads ==
  ASSUME Undisturbed, Typed, Typed', Readable, NEW s \in Sessions, DeleteRemove(s)
  PROVE  Readable'
<1> DEFINE x == session[s]
           y == [x EXCEPT !.pc = "select"]
<1>0. x.op = "delete" /\ x.pc = "remove"
  BY DEF DeleteRemove
<1>r. PICK r \in Records : r = x.r
  BY <1>0, RequestReadsFrom
<1>1. /\ x \in Session /\ FileInv(r) /\ RunInv(r) /\ RequestInv(s) /\ PathsOfOneFile
  BY <1>0, <1>r, RequestReadsFrom DEF Undisturbed
<1>2. /\ r \in Deletes /\ row[r].status # "none" /\ x.rec.path \in Paths(r)
      /\ x.rec.archived => x.rec.blob \in Paths(r) /\ row[r].archived
  BY <1>0, <1>1, <1>r DEF RequestInv, DeleteInv
<1>3. /\ row' = row /\ tmp' = tmp /\ job' = job /\ session' = [session EXCEPT ![s] = y]
  BY DEF DeleteRemove, Goes, Typed, TypeOK
<1>4. /\ session'[s] = y /\ \A t \in Sessions \ {s} : session'[t] = session[t]
      /\ y.op = "delete" /\ y.pc = "select" /\ y.r = r /\ y.to = x.to /\ y.rec = x.rec
  BY <1>0, <1>1, <1>3, <1>r DEF Typed, TypeOK, Session
<1> HIDE DEF y
<1>5. \A t \in Sessions : (Leaves(t, r) => Leaves(t, r)') /\ (Purges(t, r) => Purges(t, r)')
  BY <1>0, <1>4 DEF Leaves, Purges, Past
<1>6. /\ (\E t \in Sessions : Leaves(t, r)')
      /\ (\E t \in Sessions : Purges(t, r)) => (\E t \in Sessions : Purges(t, r)')
      /\ x.rec.archived => \E t \in Sessions : Purges(t, r)'
  BY <1>4, <1>5 DEF Leaves, Purges, Past
<1>7. /\ \A k \in Keys \ Paths(r) : hot'[k] = hot[k] /\ zst'[k] = zst[k]
      /\ \A k \in Paths(r) : hot'[k] \in {None, hot[k]} /\ zst'[k] \in {None, zst[k]}
      /\ ~x.rec.archived => zst' = zst
  <2>1. CASE x.rec.archived
    <3>1. hot' = hot /\ zst' = [zst EXCEPT ![x.rec.blob] = None]
      BY <2>1 DEF DeleteRemove
    <3> QED
      BY <1>2, <2>1, <3>1 DEF Paths, Typed, TypeOK
  <2>2. CASE ~x.rec.archived
    <3>1. zst' = zst /\ hot' = [hot EXCEPT ![x.rec.path] = None]
      BY <2>2 DEF DeleteRemove
    <3> QED
      BY <1>2, <2>2, <3>1 DEF Paths, Typed, TypeOK
  <2> QED
    BY <2>1, <2>2
<1>8. FileInv(r)'
  BY <1>1, <1>2, <1>3, <1>6, <1>7, FixedPaths DEF FileInv
<1>9. RunInv(r)'
  <2>1. InJob(r) => zst' = zst
    BY <1>1, <1>2, <1>7 DEF RunInv
  <2> QED
    BY <1>1, <1>2, <1>3, <2>1, RunStays
<1>10. RequestInv(s)'
  BY <1>1, <1>2, <1>3, <1>4, FixedPaths DEF RequestInv, UploadInv, RenameInv, DeleteInv
<1>11. ASSUME NEW t \in Sessions \ {s}, session'[t] = session[t], session[t].r = r
       PROVE  RequestInv(t)'
  <2>1. session[t].op = "delete" /\ RequestInv(t)
    BY <1>0, <1>r, <1>11, Mates DEF Readable
  <2> QED
    BY <1>3, <1>11, <2>1, FixedPaths DEF RequestInv, UploadInv, RenameInv, DeleteInv
<1> QED
  BY <1>1, <1>3, <1>4, <1>7, <1>8, <1>9, <1>10, <1>11, <1>r, RequestReads

LEMMA MoveReads ==
  ASSUME Undisturbed, Typed, Typed', Readable, NEW s \in Sessions, Move(s)
  PROVE  Readable'
<1> DEFINE x == session[s]
           y == [x EXCEPT !.pc = "commit"]
<1>0. x.op = "upload" /\ x.pc = "move"
  BY DEF Move, Typed, TypeOK, Session, SessionInv, Readable, RequestInv
<1>r. PICK r \in Records : r = x.r
  BY <1>0, RequestReadsFrom
<1>1. /\ x \in Session /\ FileInv(r) /\ RunInv(r) /\ RequestInv(s) /\ PathsOfOneFile
  BY <1>0, <1>r, RequestReadsFrom DEF Undisturbed
<1>2. /\ row[r].status = "none" /\ x.to \in Paths(r) /\ tmp[r] = x.body
      /\ \A k \in Paths(r) : hot[k] = None
      /\ \A t \in Sessions \ {s} : session[t].r # r
  BY <1>0, <1>1, <1>r DEF RequestInv, UploadInv
<1>3. x.body \in Bodies /\ None \notin Bodies
  BY <1>1, LifecycleAssumption DEF Session
<1>4. /\ row' = row /\ zst' = zst /\ job' = job /\ session' = [session EXCEPT ![s] = y]
      /\ hot' = [hot EXCEPT ![x.to] = x.body] /\ tmp' = [tmp EXCEPT ![r] = None]
  BY <1>0, <1>2, <1>3, <1>r DEF Move, Goes, Typed, TypeOK
<1>5. /\ hot'[x.to] = x.body /\ \A k \in Keys \ {x.to} : hot'[k] = hot[k]
      /\ \A q \in Records \ {r} : tmp'[q] = tmp[q]
  BY <1>2, <1>4 DEF Typed, TypeOK, Paths
<1>6. /\ session'[s] = y /\ \A t \in Sessions \ {s} : session'[t] = session[t]
      /\ y.op = "upload" /\ y.pc = "commit" /\ y.r = r /\ y.to = x.to /\ y.body = x.body
  BY <1>0, <1>1, <1>4, <1>r DEF Typed, TypeOK, Session
<1> HIDE DEF y
<1>7. FileInv(r)'
  <2>1. InSession(r)'
    BY <1>6 DEF InSession
  <2> QED
    BY <1>1, <1>2, <1>4, <2>1, FixedPaths DEF FileInv, Live
<1>8. RunInv(r)'
  BY <1>1, <1>2, <1>4 DEF RunInv, InJob, Paths
<1>9. RequestInv(s)'
  <2>1. \A k \in Paths(r) : hot'[k] = IF k = x.to THEN x.body ELSE None
    BY <1>2, <1>5 DEF Paths
  <2> QED
    BY <1>2, <1>4, <1>6, <2>1, FixedPaths DEF RequestInv, UploadInv, RenameInv, DeleteInv
<1>10. \A k \in Keys \ Paths(r) : hot'[k] = hot[k] /\ zst'[k] = zst[k]
  BY <1>2, <1>4, <1>5
<1> QED
  BY <1>1, <1>2, <1>4, <1>5, <1>6, <1>7, <1>8, <1>9, <1>10, <1>r, RequestReads

LEMMA SelectReads ==
  ASSUME Undisturbed, Typed, Typed', Readable, NEW s \in Sessions, Select(s)
  PROVE  Readable'
<1> DEFINE x == session[s]
           y == [x EXCEPT !.pc = "commit", !.base = row[x.r]]
<1>0. x.op \in {"rename", "delete"} /\ x.pc = "select"
  BY DEF Select, Typed, TypeOK, Session, SessionInv, Readable, RequestInv
<1>r. PICK r \in Records : r = x.r
  BY <1>0, RequestReadsFrom
<1>1. /\ x \in Session /\ FileInv(r) /\ RunInv(r) /\ RequestInv(s) /\ PathsOfOneFile
      /\ row[r].status # "none"
  BY <1>0, <1>r, RequestReadsFrom DEF Undisturbed, RequestInv, RenameInv, DeleteInv
<1>2. /\ row' = row /\ zst' = zst /\ hot' = hot /\ tmp' = tmp /\ job' = job
      /\ session' = [session EXCEPT ![s] = y]
  BY DEF Select, Typed, TypeOK
<1>3. /\ session'[s] = y /\ \A t \in Sessions \ {s} : session'[t] = session[t]
      /\ y.op = x.op /\ y.pc = "commit" /\ y.r = r /\ y.to = x.to /\ y.rec = x.rec
      /\ y.base = row[r]
  BY <1>0, <1>1, <1>2, <1>r DEF Typed, TypeOK, Session
<1> HIDE DEF y
<1>4. \A t \in Sessions : (Leaves(t, r) => Leaves(t, r)') /\ (Purges(t, r) => Purges(t, r)')
  BY <1>3 DEF Leaves, Purges, Past
<1>5. FileInv(r)'
  BY <1>1, <1>2, <1>4, FileStays
<1>6. RunInv(r)'
  BY <1>1, <1>2, RunStays
<1>7. RequestInv(s)'
  <2>1. CASE x.op = "rename"
    <3>1. /\ <<r, x.to>> \in Renames /\ Live(x.rec) /\ x.rec.path \in Paths(r) \ {x.to}
          /\ row[r].path \in {x.rec.path, x.to}
          /\ hot[x.to] # None \/ Taken(r) \/ row[r].archived
      BY <1>0, <1>1, <1>r, <2>1 DEF RequestInv, RenameInv
    <3> HIDE DEF x
    <3> QED
      BY <1>1, <1>2, <1>3, <2>1, <3>1, FixedPaths
      DEF RequestInv, UploadInv, RenameInv, DeleteInv, Taken
  <2>2. CASE x.op = "delete"
    <3>1. /\ r \in Deletes /\ x.rec.path \in Paths(r)
          /\ x.rec.archived => x.rec.blob \in Paths(r) /\ row[r].archived
      BY <1>1, <1>r, <2>2 DEF RequestInv, DeleteInv
    <3> HIDE DEF x
    <3> QED
      BY <1>1, <1>2, <1>3, <2>2, <3>1, FixedPaths
      DEF RequestInv, UploadInv, RenameInv, DeleteInv
  <2> QED
    BY <1>0, <2>1, <2>2
<1>8. ASSUME NEW t \in Sessions \ {s}, session'[t] = session[t], session[t].r = r
      PROVE  RequestInv(t)'
  <2>1. session[t].op = x.op /\ RequestInv(t)
    BY <1>0, <1>r, <1>8, Mates DEF Readable
  <2> QED
    BY <1>0, <1>2, <1>8, <2>1, FixedPaths DEF RequestInv, UploadInv, RenameInv, DeleteInv, Taken
<1> QED
  BY <1>1, <1>2, <1>3, <1>5, <1>6, <1>7, <1>8, <1>r, RequestReads

(* The three commits; an overwrite there is none.                               *)
LEMMA CommitReads ==
  ASSUME Undisturbed, Typed, Typed', Readable, NEW s \in Sessions, Commit(s)
  PROVE  Readable'
<1> DEFINE x == session[s]
<1>0. x.op # "none" /\ x.pc = "commit"
  BY DEF Commit, Typed, TypeOK, Session, SessionInv
<1>r. PICK r \in Records : r = x.r
  BY <1>0, RequestReadsFrom
<1>1. /\ x \in Session /\ FileInv(r) /\ RunInv(r) /\ RequestInv(s) /\ PathsOfOneFile
      /\ row[r] \in Row /\ x.op \in {"upload", "rename", "delete"}
      /\ x.op \in {"upload", "rename"} => x.to \in Paths(r)
      /\ x.op = "rename" => r \notin Deletes /\ Live(row[r])
  BY <1>0, <1>r, RequestReadsFrom DEF Undisturbed
<1>2. PICK new : new = CommittedRow(row[r], x)
  OBVIOUS
<1>3. /\ session' = [session EXCEPT ![s] = NoSession] /\ hot' = hot /\ tmp' = tmp
      /\ zst' = zst /\ job' = job
      /\ row'[r] = new /\ \A q \in Records \ {r} : row'[q] = row[q]
  BY <1>r, <1>2 DEF Commit, Ends, Typed, TypeOK
<1>4. /\ session'[s] = NoSession /\ \A t \in Sessions \ {s} : session'[t] = session[t]
      /\ NoSession.op = "none" /\ NoSession.r = None
  BY <1>3 DEF Typed, TypeOK, NoSession
<1>5. RequestInv(s)'
  BY <1>4 DEF RequestInv, UploadInv, RenameInv, DeleteInv
<1>6. /\ \A t \in Sessions \ {s} : (Leaves(t, r) => Leaves(t, r)') /\ (Purges(t, r) => Purges(t, r)')
      /\ Taken(r)' <=> Taken(r)
  BY <1>3, <1>4 DEF Leaves, Purges, Past, Taken
<1>7. SUFFICES /\ FileInv(r)' /\ RunInv(r)'
               /\ \A t \in Sessions \ {s} :
                     session'[t] = session[t] /\ session[t].r = r => RequestInv(t)'
  <2>1. /\ session[s].r \in {r, None} /\ NoSession.r \in {r, None} /\ PathsOfOneFile
        /\ \A k \in Keys \ Paths(r) : hot'[k] = hot[k] /\ zst'[k] = zst[k]
        /\ \A q \in Records \ {r} : row'[q] = row[q] /\ tmp'[q] = tmp[q]
        /\ session' = [session EXCEPT ![s] = NoSession] /\ job' = job
    BY <1>1, <1>3, <1>4, <1>r
  <2> HIDE DEF x
  <2> QED
    BY <1>5, <2>1, RequestReads
<1>8. CASE x.op = "upload"
  <2>1. /\ new.status = "committed" /\ new.path = x.to /\ new.body = x.body /\ ~new.archived
        /\ new.blob = None
    BY <1>1, <1>2, <1>8, CommittedRows
  <2>2. /\ row[r].status = "none" /\ \A t \in Sessions \ {s} : session[t].r # r
        /\ \A k \in Paths(r) : hot[k] = IF k = x.to THEN x.body ELSE None
        /\ \A k \in Paths(r) : zst[k] = None
    BY <1>0, <1>1, <1>8, <1>r DEF RequestInv, UploadInv, FileInv
  <2>3. x.body # None
    BY <1>1, LifecycleAssumption DEF Session
  <2>4. FileInv(r)'
    BY <1>1, <1>3, <1>8, <2>1, <2>2, <2>3, FixedPaths DEF FileInv, Live
  <2>5. ~InJob(r)
    BY <1>1, <2>2 DEF RunInv
  <2>6. RunInv(r)'
    BY <1>1, <1>3, <2>5, RunStays
  <2> QED
    BY <2>2, <2>4, <2>6
<1>9. CASE x.op = "rename"
  <2>1. /\ x.to \in Paths(r) /\ x.rec.path # x.to
        /\ row[r].path \in {x.rec.path, x.to} /\ Live(x.rec)
        /\ hot[x.to] # None \/ Taken(r) \/ row[r].archived
        /\ x.base.path = x.to => row[r].path = x.to
    BY <1>0, <1>1, <1>9, <1>r DEF RequestInv, RenameInv
  <2>2. /\ new.body = row[r].body /\ new.archived = row[r].archived /\ new.blob = row[r].blob
        /\ new.path = x.to /\ Live(new) /\ new.status # "none"
    BY <1>1, <1>2, <1>9, <2>1, CommittedRows DEF Written, Live
  <2>3. FileInv(r)'
    <3>1. \A t \in Sessions : Purges(t, r) => t # s
      BY <1>9 DEF Purges
    <3>2. (\E t \in Sessions : Purges(t, r)) => (\E t \in Sessions : Purges(t, r)')
      BY <1>6, <3>1
    <3> QED
      BY <1>1, <1>3, <1>6, <1>9, <2>1, <2>2, <3>2, FixedPaths DEF FileInv, Live
  <2>4. RunInv(r)'
    BY <1>1, <1>3, <2>2, RunStays
  <2>5. ASSUME NEW t \in Sessions \ {s}, session'[t] = session[t], session[t].r = r
        PROVE  RequestInv(t)'
    <3>1. session[t].op = "rename" /\ session[t].to = x.to /\ RequestInv(t)
      BY <1>0, <1>9, <1>r, <2>5, Mates DEF Readable
    <3> QED
      BY <1>3, <1>6, <2>2, <2>5, <3>1, FixedPaths DEF RequestInv, UploadInv, RenameInv, DeleteInv
  <2> QED
    BY <2>3, <2>4, <2>5
<1>10. CASE x.op = "delete"
  <2>1. /\ r \in Deletes /\ row[r].status # "none"
        /\ x.rec.archived => row[r].archived
        /\ x.base.status = "deleted" =>
              row[r].status = "deleted" \/ (row[r].archived /\ ~x.rec.archived)
    BY <1>0, <1>1, <1>10, <1>r DEF RequestInv, DeleteInv
  <2>2. /\ new.body = row[r].body /\ new.archived = row[r].archived /\ new.blob = row[r].blob
        /\ new.path = row[r].path /\ new.status # "none"
        /\ new.status = IF x.base.status = "deleted" THEN row[r].status ELSE "deleted"
    BY <1>1, <1>2, <1>10, <2>1, CommittedRows DEF Written
  <2>3. FileInv(r)'
    <3>1. /\ row[r].path \in Paths(r)
          /\ \A k \in Paths(r) : hot[k] \in {None, row[r].body} /\ zst[k] \in {None, row[r].body}
          /\ row[r].archived => row[r].blob \in Paths(r)
      BY <1>1, <2>1 DEF FileInv
    <3>2. ASSUME Live(new)
          PROVE  row[r].archived /\ (zst[row[r].blob] # None \/ \E t \in Sessions : Purges(t, r)')
      <4>1. row[r].archived /\ ~x.rec.archived /\ Live(row[r])
        BY <2>1, <2>2, <3>2 DEF Live
      <4>2. \A t \in Sessions : Purges(t, r) => t # s
        BY <4>1 DEF Purges
      <4> QED
        BY <1>1, <1>6, <4>1, <4>2 DEF FileInv
    <3> QED
      BY <1>3, <2>1, <2>2, <3>1, <3>2, FixedPaths DEF FileInv
  <2>4. RunInv(r)'
    BY <1>1, <1>3, <2>2, RunStays
  <2>5. ASSUME NEW t \in Sessions \ {s}, session'[t] = session[t], session[t].r = r
        PROVE  RequestInv(t)'
    <3>1. session[t].op = "delete" /\ RequestInv(t)
      BY <1>0, <1>10, <1>r, <2>5, Mates DEF Readable
    <3>2. row[r].status = "deleted" => new.status = "deleted"
      BY <2>2
    <3> QED
      BY <1>3, <2>2, <2>5, <3>1, <3>2, FixedPaths
      DEF RequestInv, UploadInv, RenameInv, DeleteInv
  <2> QED
    BY <2>3, <2>4, <2>5
<1> QED
  BY <1>1, <1>8, <1>9, <1>10

LEMMA RunReads ==
  ASSUME Undisturbed, Typed, Typed', Readable,
         (\E r \in Records : ArchiveRead(r)) \/ ArchivePut \/ ArchiveDrop \/ ArchiveMark
  PROVE  Readable'
<1>0. /\ row' = row /\ session' = session /\ tmp' = tmp
      /\ job'.seen = job.seen /\ job \in Job /\ PathsOfOneFile
      /\ \A r \in Records : InJob(r)' => InJob(r)
  BY RunGoesOn DEF Typed, TypeOK, Undisturbed
<1>1. /\ NextRecord.cur = None /\ NextRecord.todo = job.todo /\ NextRecord.marked = job.marked
      /\ NextRecord.seen = job.seen /\ NextRecord \in Job /\ NextRecord.pc = "next"
  BY <1>0 DEF NextRecord, Job
<1>2. hot \in [Keys -> Bodies \cup {None}] /\ zst \in [Keys -> Bodies \cup {None}]
  BY DEF Typed, TypeOK
<1>3. None \notin Records /\ None \notin Bodies
  BY LifecycleAssumption
<1>4. \A r \in Records : InJob(r) => /\ FileInv(r) /\ RunInv(r) /\ row[r].status # "none"
                                     /\ ~row[r].archived /\ job.seen[r].path \in Paths(r)
                                     /\ \A k \in Paths(r) : k \in Keys /\ hot[k] \in {None, row[r].body}
                                                               /\ zst[k] \in {None, row[r].body}
  BY DEF Readable, RunInv, FileInv, Paths
<1>5. job.pc \in {"put", "drop", "mark"} => job.cur \in Records /\ InJob(job.cur) /\ job.bytes # None
  BY DEF Typed, JobInv, InJob
<1>6. ASSUME NEW r \in Records, InJob(r), Taken(r) => Taken(r)',
             \A k \in Keys \ Paths(r) : hot'[k] = hot[k] /\ zst'[k] = zst[k],
             \A k \in Paths(r) : hot'[k] = hot[k] \/ (hot'[k] = None /\ Taken(r)'),
             \A k \in Paths(r) : zst'[k] \in {zst[k], row[r].body} /\ (zst[k] # None => zst'[k] # None),
             \A q \in Records \ {r} : /\ Taken(q) => Taken(q)'
                                      /\ q \in job'.marked => q \in job.marked
                                      /\ q = job'.cur => job' = job,
             RunInv(r)'
      PROVE  Readable'
  <2>1. /\ FileInv(r) /\ row[r].status # "none" /\ ~row[r].archived
        /\ row[r].path \in Paths(r)
        /\ \A k \in Paths(r) : hot[k] \in {None, row[r].body} /\ zst[k] \in {None, row[r].body}
    BY <1>4, <1>6 DEF FileInv
  <2>2. \A t \in Sessions : Leaves(t, r)' <=> Leaves(t, r)
    BY <1>0 DEF Leaves, Past
  <2>3. FileInv(r)'
    BY <1>0, <1>6, <2>1, <2>2, FixedPaths DEF FileInv
  <2>4. ASSUME NEW t \in Sessions, session'[t].r = r PROVE RequestInv(t)'
    <3>1. RequestInv(t) /\ session[t].r = r /\ session'[t] = session[t]
      BY <1>0, <2>4 DEF Readable
    <3>2. session[t].op # "upload"
      BY <2>1, <3>1 DEF RequestInv, UploadInv
    <3>3. session[t].op = "rename" => session[t].to \in Paths(r)
      BY <3>1, RequestReadsFrom
    <3> QED
      BY <1>0, <1>6, <3>1, <3>2, <3>3, FixedPaths DEF RequestInv, UploadInv, RenameInv, DeleteInv
  <2> QED
    BY <1>0, <1>6, <2>3, <2>4, OthersReadable
<1>7. ASSUME NEW r \in Records, ArchiveRead(r) PROVE Readable'
  <2>1. /\ hot' = hot /\ zst' = zst /\ InJob(r) /\ job.pc = "next" /\ job.cur = None
        /\ job'.marked = job.marked /\ job'.cur \in {None, r} /\ job'.pc \in {"next", "put"}
        /\ job'.cur = r => job'.bytes = hot[job.seen[r].path] /\ job'.bytes # None
    <3>1. /\ hot' = hot /\ zst' = zst /\ InJob(r) /\ job.pc = "next" /\ job.cur = None
      BY <1>7 DEF ArchiveRead, InJob, Typed, JobInv
    <3>2. CASE hot[job.seen[r].path] = None
      <4>1. job' = [job EXCEPT !.todo = @ \ {r}]
        BY <1>7, <3>2 DEF ArchiveRead
      <4> QED
        BY <1>0, <1>3, <3>1, <4>1 DEF Job
    <3>3. CASE hot[job.seen[r].path] # None
      <4>1. job' = [job EXCEPT !.todo = @ \ {r}, !.pc = "put", !.cur = r,
                               !.bytes = hot[job.seen[r].path]]
        BY <1>7, <3>3 DEF ArchiveRead
      <4> QED
        BY <1>0, <3>1, <3>3, <4>1 DEF Job
    <3> QED
      BY <3>2, <3>3
  <2>2. \A q \in Records : Taken(q)' <=> Taken(q)
    BY <2>1 DEF Taken
  <2>3. RunInv(r)'
    BY <1>0, <1>4, <2>1, FixedPaths DEF RunInv
  <2> QED
    BY <1>3, <1>6, <2>1, <2>2, <2>3
<1>8. CASE ArchivePut
  <2>1. PICK r \in Records : r = job.cur /\ InJob(r) /\ job.bytes # None
    BY <1>5, <1>8 DEF ArchivePut
  <2>2. /\ hot' = hot /\ zst' = [zst EXCEPT ![job.seen[r].path] = job.bytes] /\ job.pc = "put"
        /\ job'.cur = r /\ job'.marked = job.marked /\ job'.bytes = job.bytes /\ job'.pc = "drop"
    BY <1>0, <1>8, <2>1 DEF ArchivePut, Source, Job
  <2>3. job.bytes = row[r].body /\ job.seen[r].path \in Paths(r) /\ job.seen[r].path \in Keys
    BY <1>4, <2>1 DEF RunInv
  <2>4. /\ zst'[job.seen[r].path] = row[r].body
        /\ \A k \in Keys \ {job.seen[r].path} : zst'[k] = zst[k]
    BY <1>2, <2>2, <2>3
  <2>5. \A q \in Records : Taken(q)' <=> Taken(q)
    BY <2>1, <2>2 DEF Taken
  <2>6. RunInv(r)'
    BY <1>0, <1>4, <2>1, <2>2, <2>3, <2>4, FixedPaths DEF RunInv
  <2>7. /\ \A k \in Paths(r) : zst'[k] \in {zst[k], row[r].body} /\ (zst[k] # None => zst'[k] # None)
        /\ \A k \in Keys \ Paths(r) : zst'[k] = zst[k]
    BY <1>4, <2>1, <2>3, <2>4
  <2> QED
    BY <1>6, <2>1, <2>2, <2>5, <2>6, <2>7
<1>9. CASE ArchiveDrop
  <2>1. PICK r \in Records : r = job.cur /\ InJob(r)
    BY <1>5, <1>9 DEF ArchiveDrop
  <2>2. /\ zst' = zst /\ hot' = [hot EXCEPT ![job.seen[r].path] = None] /\ job.pc = "drop"
        /\ job'.marked = job.marked
        /\ \/ hot[job.seen[r].path] = None /\ job'.cur = None
           \/ job'.cur = r /\ job'.bytes = job.bytes /\ job'.pc = "mark"
    BY <1>0, <1>1, <1>9, <2>1 DEF ArchiveDrop, Source, Job
  <2>3. job.seen[r].path \in Paths(r) /\ job.seen[r].path \in Keys
    BY <1>4, <2>1
  <2>4. /\ hot'[job.seen[r].path] = None
        /\ \A k \in Keys \ {job.seen[r].path} : hot'[k] = hot[k]
    BY <1>2, <2>2, <2>3
  <2>5. /\ \A q \in Records : Taken(q) => Taken(q)'
        /\ job'.cur = r => Taken(r)'
    BY <1>3, <2>1, <2>2 DEF Taken
  <2>6. RunInv(r)'
    BY <1>0, <1>3, <1>4, <2>1, <2>2, FixedPaths DEF RunInv
  <2>7. /\ \A k \in Paths(r) : hot'[k] = hot[k] \/ (hot'[k] = None /\ Taken(r)')
        /\ \A k \in Keys \ Paths(r) : hot'[k] = hot[k]
    BY <1>4, <2>1, <2>2, <2>3, <2>4, <2>5
  <2> QED
    BY <1>3, <1>6, <2>1, <2>2, <2>5, <2>6, <2>7
<1>10. CASE ArchiveMark
  <2>1. PICK r \in Records : r = job.cur /\ InJob(r)
    BY <1>5, <1>10 DEF ArchiveMark
  <2>2. /\ hot' = hot /\ zst' = zst /\ job.pc = "mark"
        /\ job'.cur = None /\ job'.marked = job.marked \cup {r}
    <3>1. job' = [NextRecord EXCEPT !.marked = @ \cup {job.cur}]
      BY <1>10 DEF ArchiveMark
    <3> QED
      BY <1>1, <1>10, <2>1, <3>1 DEF ArchiveMark, Job
  <2>3. \A q \in Records : Taken(q) => Taken(q)'
    BY <2>1, <2>2 DEF Taken
  <2>4. RunInv(r)'
    BY <1>0, <1>3, <1>4, <2>1, <2>2, FixedPaths DEF RunInv
  <2> QED
    BY <1>3, <1>6, <2>1, <2>2, <2>3, <2>4
<1> QED
  BY <1>7, <1>8, <1>9, <1>10

(* The run lists files, or commits: every file may be touched.                   *)
LEMMA RunEndsReads ==
  ASSUME Undisturbed, Typed, Readable, ArchiveList \/ ArchiveCommit
  PROVE  Readable'
<1>0. \A r \in Records : r # None /\ FileInv(r) /\ RunInv(r) /\ row[r] \in Row
  BY LifecycleAssumption DEF Readable, Typed, TypeOK
<1>1. CASE ArchiveList
  <2>1. PICK S \in SUBSET Candidates : job' = [NoJob EXCEPT !.pc = "next", !.todo = S, !.seen = row]
    BY <1>1 DEF ArchiveList
  <2>2. /\ job'.cur = None /\ job'.todo = S /\ job'.marked = {} /\ job'.seen = row
        /\ job.marked = {} /\ job.cur = None
    BY <1>1, <2>1 DEF ArchiveList, NoJob
  <2>3. /\ row' = row /\ hot' = hot /\ zst' = zst /\ tmp' = tmp /\ session' = session
    BY <1>1 DEF ArchiveList
  <2>4. \A r \in Records : ~Taken(r)
    BY <1>0, <2>2 DEF Taken
  <2>5. \A r \in Records, t \in Sessions :
           (Leaves(t, r)' <=> Leaves(t, r)) /\ (Purges(t, r)' <=> Purges(t, r))
    BY <2>3 DEF Leaves, Purges, Past
  <2>6. \A r \in Records : InSession(r)' <=> InSession(r)
    BY <2>3 DEF InSession
  <2>7. \A r \in Records : FileInv(r)'
    BY <1>0, <2>3, <2>4, <2>5, <2>6, FixedPaths DEF FileInv
  <2>8. \A r \in S : row[r].status # "none" /\ ~row[r].archived /\ row[r].path \in Paths(r)
    BY <1>0, <2>1 DEF Candidates, FileInv
  <2>9. \A r \in Records : RunInv(r)'
    BY <1>0, <2>2, <2>3, <2>8, FixedPaths DEF RunInv, InJob
  <2>10. ASSUME NEW t \in Sessions PROVE RequestInv(t)'
    <3>1. RequestInv(t) /\ (session[t].op # "none" => session[t].r \in Records)
      BY DEF Readable, Typed, SessionInv
    <3> QED
      BY <2>3, <2>4, <3>1, FixedPaths DEF RequestInv, UploadInv, RenameInv, DeleteInv
  <2> QED
    BY <2>7, <2>9, <2>10 DEF Readable
<1>2. CASE ArchiveCommit
  <2>1. /\ hot' = hot /\ zst' = zst /\ tmp' = tmp /\ session' = session
        /\ job' = NoJob /\ \A r \in Records : ~InJob(r)'
        /\ \A r \in Records :
              row'[r] = IF r \in job.marked THEN MarkArchived(row[r], job.seen[r].path) ELSE row[r]
        /\ job.pc = "next"
    BY <1>2, RunCommits DEF ArchiveCommit
  <2>2. \A r \in Records, t \in Sessions :
           (Leaves(t, r)' <=> Leaves(t, r)) /\ (Purges(t, r)' <=> Purges(t, r))
    BY <2>1 DEF Leaves, Purges, Past
  <2>3. \A r \in Records : InSession(r)' <=> InSession(r)
    BY <2>1 DEF InSession
  <2>4. ASSUME NEW r \in Records, r \notin job.marked
        PROVE  row'[r] = row[r] /\ ~Taken(r)
    BY <1>0, <2>1, <2>4 DEF Taken
  <2>5. ASSUME NEW r \in Records, r \in job.marked
        PROVE  /\ row'[r].status = "archived" /\ row'[r].archived /\ row'[r].blob = job.seen[r].path
               /\ row'[r].path = row[r].path /\ row'[r].body = row[r].body
               /\ InJob(r) /\ row[r].status # "none" /\ ~row[r].archived
               /\ job.seen[r].path \in Paths(r) /\ zst[job.seen[r].path] # None
    <3>1. row'[r] = [row[r] EXCEPT !.status = "archived", !.archived = TRUE,
                                   !.blob = job.seen[r].path]
      BY <2>1, <2>5 DEF MarkArchived
    <3>2. InJob(r)
      BY <2>5 DEF InJob
    <3>3. row'[r].status = "archived" /\ row'[r].archived /\ row'[r].blob = job.seen[r].path
      BY <1>0, <3>1 DEF Row
    <3>4. row'[r].path = row[r].path /\ row'[r].body = row[r].body
      BY <1>0, <3>1 DEF Row
    <3> QED
      BY <1>0, <2>5, <3>2, <3>3, <3>4 DEF RunInv
  <2>6. ASSUME NEW r \in Records PROVE FileInv(r)'
    <3>1. CASE r \in job.marked
      BY <1>0, <2>1, <2>5, <3>1, FixedPaths DEF FileInv
    <3>2. CASE r \notin job.marked
      BY <1>0, <2>1, <2>2, <2>3, <2>4, <3>2, FixedPaths DEF FileInv
    <3> QED
      BY <3>1, <3>2
  <2>7. ASSUME NEW r \in Records PROVE RunInv(r)'
    BY <1>0, <2>1 DEF RunInv, NoJob
  <2>8. ASSUME NEW t \in Sessions PROVE RequestInv(t)'
    <3> DEFINE x == session[t]
    <3>0. RequestInv(t) /\ session'[t] = x
      BY <2>1 DEF Readable
    <3>1. CASE x.op = "none"
      BY <3>0, <3>1 DEF RequestInv, UploadInv, RenameInv, DeleteInv
    <3>2. CASE x.op # "none"
      <4>1. PICK r \in Records : r = x.r
        BY <3>2 DEF Typed, SessionInv
      <4>2. CASE r \notin job.marked
        BY <2>1, <2>4, <3>0, <4>1, <4>2, FixedPaths
        DEF RequestInv, UploadInv, RenameInv, DeleteInv
      <4>3. CASE r \in job.marked
        BY <2>1, <2>5, <3>0, <4>1, <4>3, FixedPaths
        DEF RequestInv, UploadInv, RenameInv, DeleteInv
      <4> QED
        BY <4>2, <4>3
    <3> QED
      BY <3>1, <3>2
  <2> QED
    BY <2>6, <2>7, <2>8 DEF Readable
<1> QED
  BY <1>1, <1>2

LEMMA StepReads == Undisturbed /\ Typed /\ Typed' /\ Readable /\ [Next]_vars => Readable'
<1> SUFFICES ASSUME Undisturbed, Typed, Typed', Readable, [Next]_vars PROVE Readable'
  OBVIOUS
<1>0. \A kind : ~Spend(kind)
  BY DEF Undisturbed, Spend
<1>1. ASSUME NEW s \in Sessions, Arrives(s) PROVE Readable'
  BY <1>1, ArrivesReads
<1>2. ASSUME NEW s \in Sessions, OverwriteDrop(s) PROVE FALSE
  BY <1>2 DEF OverwriteDrop, Typed, TypeOK, Session, SessionInv, Readable, RequestInv
<1>3. ASSUME NEW s \in Sessions, RequestStep(s) PROVE Readable'
  BY <1>2, <1>3, RenameReads, DeleteReads, MoveReads, SelectReads, CommitReads DEF RequestStep
<1>4. ASSUME NEW s \in Sessions, Abort(s) PROVE FALSE
  BY <1>0, <1>4 DEF Abort
<1>5. CASE ArchiveList \/ ArchiveStep
  BY <1>5, RunReads, RunEndsReads DEF ArchiveStep
<1>6. ~ArchiveError /\ ~Crash
  BY <1>0 DEF ArchiveError, Crash
<1>7. ASSUME UNCHANGED <<row, hot, zst, tmp, session, job>> PROVE Readable'
  <2>1. \A r \in Records : FileInv(r)' /\ RunInv(r)'
    BY <1>7, FixedPaths
    DEF Readable, FileInv, RunInv, Leaves, Purges, Past, Taken, InJob, InSession, Source
  <2>2. \A s \in Sessions : RequestInv(s)'
    BY <1>7, FixedPaths DEF Readable, RequestInv, UploadInv, RenameInv, DeleteInv, Taken
  <2> QED
    BY <2>1, <2>2 DEF Readable
<1>8. CASE ReconcileSum \/ ReconcileWrite \/ UNCHANGED vars
  BY <1>7, <1>8 DEF ReconcileSum, ReconcileWrite, vars
<1>9. ASSUME NEW r \in Records, CleanTmp(r) PROVE Readable'
  <2>1. /\ row' = row /\ hot' = hot /\ zst' = zst /\ session' = session /\ job' = job
        /\ tmp' = [tmp EXCEPT ![r] = None] /\ \A s \in Sessions : session[s].r # r
    BY <1>9 DEF CleanTmp, InSession
  <2>2. \A q \in Records \ {r} : tmp'[q] = tmp[q]
    BY <2>1 DEF Typed, TypeOK
  <2>3. \A q \in Records : FileInv(q)' /\ RunInv(q)'
    BY <2>1, FixedPaths
    DEF Readable, FileInv, RunInv, Leaves, Purges, Past, Taken, InJob, InSession, Source
  <2>4. ASSUME NEW s \in Sessions PROVE RequestInv(s)'
    <3>1. RequestInv(s) /\ (session[s].op # "none" => session[s].r \in Records \ {r})
      BY <2>1 DEF Readable, Typed, SessionInv
    <3>2. session[s].op = "upload" => tmp'[session[s].r] = tmp[session[s].r]
      BY <2>2, <3>1
    <3> QED
      BY <2>1, <3>1, <3>2, FixedPaths DEF RequestInv, UploadInv, RenameInv, DeleteInv, Taken
  <2> QED
    BY <2>3, <2>4 DEF Readable
<1> QED
  BY <1>1, <1>3, <1>4, <1>5, <1>6, <1>8, <1>9 DEF Next

(* A live file that no request and no archive run is working on reads back as the  *)
(* bytes that were uploaded, from its path or from its archive, for any number of  *)
(* requests that overlap on it and with the run: renames of one file to one name,   *)
(* or deletes of one file, each writing the row from what it loaded before. It    *)
(* needs every part of Undisturbed: a request that fails or dies after a deletion, *)
(* two overwrites at once or one of an archived file, two names for one file, a   *)
(* rename that writes its status over a delete, each leave a row whose bytes are  *)
(* gone.                                                                    *)
THEOREM FilesReadBack == Undisturbed => (Spec => []ReadsBack)
<1> SUFFICES ASSUME Undisturbed PROVE Spec => []ReadsBack
  OBVIOUS
<1>1. Init => Typed /\ Readable
  BY InitTyped, InitReadable
<1>2. (Typed /\ Readable) /\ [Next]_vars => (Typed /\ Readable)'
  BY StepTyped, StepReads
<1>3. Typed /\ Readable => ReadsBack
  <2> SUFFICES ASSUME Typed, Readable, NEW r \in Records, Live(row[r]), AtRest(r)
               PROVE  Reads(row[r]) = row[r].body
    BY DEF ReadsBack
  <2>1. FileInv(r) /\ row[r].status # "none" /\ ~Taken(r)
    BY DEF Readable, Live, Taken, AtRest, Locked
  <2>2. \A s \in Sessions : ~Leaves(s, r) /\ ~Purges(s, r)
    BY DEF AtRest, InSession, Leaves, Purges, Past
  <2> QED
    BY <2>1, <2>2 DEF FileInv, Reads
<1> QED
  BY <1>1, <1>2, <1>3, PTL DEF Spec
=============================================================================
