------------------------------ MODULE IndexQueue ------------------------------
(***************************************************************************)
(* The queue that keeps the RAG search index in step with the library.      *)
(*                                                                          *)
(*   requests   upload, rename, overwrite, delete, archive, admin retry and *)
(*              backfill: each is a transaction that loads the link row     *)
(*              and writes it at its commit                                 *)
(*   tick       index_sync: claims due rows FOR UPDATE, talks to RAG about  *)
(*              each, and commits the whole batch or none of it             *)
(*   notify     the immediate attempt made after an upload or a delete has  *)
(*              committed: a session of its own, without a claim            *)
(*   RAG        an external service; the model holds its file cards         *)
(*                                                                          *)
(* Steps are cut where another actor can get in between: at each commit, at *)
(* each RAG call, and between the SELECT and the UPDATE of one transaction, *)
(* because that UPDATE waits for as long as a tick holds the row.           *)
(*                                                                          *)
(* Two requests of users on one file are not interleaved here: each updates *)
(* the file_records row before it loads the link, and the second waits for  *)
(* the first there. Admin requests do not touch file_records and interleave *)
(* with them.                                                               *)
(***************************************************************************)
EXTENDS IndexLinks, FiniteSets

CONSTANTS BatchSize,    \* RAG_INDEX_BATCH_SIZE
          Uploads,      \* <<file, key, content>>: what the user may upload
          Legacy,       \* <<file, key, content>>: stored before indexing was on
          Names,        \* keys a file may be renamed to
          Previews,     \* photos indexed through the JPEG preview
          Unsupported,  \* files whose type is not indexed
          Operations,   \* the requests that may be made after the upload
          Notifies,     \* the immediate notifies that are delivered
          Faults,       \* what may go wrong
          MaxRequests,  \* bound: requests made in one behaviour
          MaxFaults     \* bound: faults in one behaviour

UserOperations == {"rename", "overwrite", "delete", "archive"}
AdminOperations == {"retry", "backfill"}
Roles == {"user", "admin"}
NotifyKinds == {"create", "delete"}
AllFaults == {"down", "lost", "rejected", "garbled", "abort", "crash"}

ASSUME QueueAssumption ==
    /\ IsFiniteSet(Files)
    /\ BatchSize \in Nat \ {0}
    /\ Uploads \subseteq Files \X Keys \X Contents
    /\ Legacy \subseteq Files \X Keys \X Contents
    /\ Names \subseteq Keys
    /\ Previews \subseteq Files
    /\ Unsupported \subseteq Files
    /\ Operations \subseteq UserOperations \cup AdminOperations
    /\ Notifies \subseteq NotifyKinds
    /\ Faults \subseteq AllFaults
    /\ MaxRequests \in Nat
    /\ MaxFaults \in Nat

VARIABLES
    record,     \* committed file_records: status, relative_path and content
    object,     \* the bucket: the body stored under each key, or None
    link,       \* committed file_index_links
    cards,      \* RAG: one card per file id
    claimed,    \* the rows locked by the running tick
    todo,       \* the claimed rows it has not finished
    work,       \* the rows as the tick's session sees them
    broken,     \* the tick's transaction was aborted by the database
    notify,     \* the notify sessions, one per file and reason
    request,    \* the requests in flight on each file
    spent       \* requests and faults so far

queue == <<claimed, todo, work, broken>>
vars == <<record, object, link, cards, queue, notify, request, spent>>

-----------------------------------------------------------------------------
RecordStatus == {"none", "committed", "archived", "deleted"}
CardStatus == {"unused", "processing", "ready", "error", "gone"}

(* A card remembers what was sent (key, sha) and, for the properties only,  *)
(* the file it was registered for.                                          *)
Card == [status : CardStatus,
         owner  : Files \cup {None},
         key    : Keys \cup {None},
         sha    : Contents \cup {None}]
UnusedCard == [status |-> "unused", owner |-> None, key |-> None, sha |-> None]

Session == [pc : {"off", "read", "call", "select", "write"},
            snap : Row, base : Row, patch : Patch]
NoSession == [pc |-> "off", snap |-> Absent, base |-> Absent, patch |-> Keep]

Record == [status : RecordStatus, key : Keys, sha : Contents]
NoRecord == [status |-> "none", key |-> AnyKey, sha |-> AnyContent]

(* rec is the record a user's request will commit, or the one backfill read; *)
(* base is the link row as the request's session loaded it.                  *)
Request == [op : UserOperations \cup AdminOperations \cup {"none"},
            pc : {"idle", "stored", "loaded"}, rec : Record, base : Row]
NoRequest == [op |-> "none", pc |-> "idle", rec |-> NoRecord, base |-> Absent]

TypeOK ==
    /\ record \in [Files -> Record]
    /\ object \in [Keys -> Contents \cup {None}]
    /\ link \in [Files -> Row]
    /\ cards \in [RagIds -> Card]
    /\ claimed \subseteq Files
    /\ todo \subseteq Files
    /\ ~broken => todo \subseteq claimed
    /\ work \in [Files -> Row]
    /\ broken \in BOOLEAN
    /\ notify \in [Files -> [NotifyKinds -> Session]]
    /\ request \in [Files -> [Roles -> Request]]
    /\ spent \in [requests : Nat, faults : Nat]

LegacyOf(f) == {u \in Legacy : u[1] = f}

Init ==
    /\ record = [f \in Files |->
          IF LegacyOf(f) = {}
          THEN NoRecord
          ELSE LET u == CHOOSE u \in LegacyOf(f) : TRUE
               IN [status |-> "committed", key |-> u[2], sha |-> u[3]]]
    /\ object = [k \in Keys |->
          IF \E u \in Legacy : u[2] = k
          THEN (CHOOSE u \in Legacy : u[2] = k)[3] ELSE None]
    /\ link = [f \in Files |-> Absent]
    /\ cards = [id \in RagIds |-> UnusedCard]
    /\ claimed = {}
    /\ todo = {}
    /\ work = [f \in Files |-> Absent]
    /\ broken = FALSE
    /\ notify = [f \in Files |-> [k \in NotifyKinds |-> NoSession]]
    /\ request = [f \in Files |-> [role \in Roles |-> NoRequest]]
    /\ spent = [requests |-> 0, faults |-> 0]

-----------------------------------------------------------------------------
(* The RAG service, as its client's port and the sync job describe it.      *)

Serves(c, id) == id \in RagIds /\ c[id].status \in {"processing", "ready", "error"}
Live(id) == Serves(cards, id)

(* duplicate_file: the same object, under the same key, is registered.      *)
DuplicatesOf(k, h) == {id \in RagIds : Live(id) /\ cards[id].key = k
                                                 /\ cards[id].sha = h}

FreshIds == {id \in RagIds : /\ cards[id].status = "unused"
                             /\ \A j \in RagIds : j < id => cards[j].status # "unused"}

Registered(f, id, k, h) ==
    [cards EXCEPT ![id] = [status |-> "processing", owner |-> f, key |-> k,
                           sha |-> h]]

Deleted(id) ==
    IF Live(id) THEN [cards EXCEPT ![id].status = "gone"] ELSE cards

(* The pipeline ends with ready or error, in its own time. *)
RagFinishes(id) ==
    /\ cards[id].status = "processing"
    /\ \E s \in {"ready", "error"} : cards' = [cards EXCEPT ![id].status = s]
    /\ UNCHANGED <<record, object, link, queue, notify, request, spent>>

-----------------------------------------------------------------------------
(* IndexSyncJob._process: what one call may answer and what is then written. *)
(* An outcome is the patch written, the cards afterwards, whether the row is *)
(* finished for this tick, and the fault it took, if any.                    *)

Answered(p, c) == [patch |-> p, cards |-> c, done |-> TRUE, fault |-> "none"]
Continues(p, c) == [patch |-> p, cards |-> c, done |-> FALSE, fault |-> "none"]
Faulted(p, c, kind) == [patch |-> p, cards |-> c, done |-> TRUE, fault |-> kind]

(* The ways a call that would leave RAG with "after" can go wrong: RAG is   *)
(* not reached; it is, and its answer is lost; it answers with an error the *)
(* handler does not expect; its answer cannot be read, which is only logged.*)
CallFaults(row, onRejected, after) ==
    {Faulted(RetryPatch(row), cards, "down"),
     Faulted(RetryPatch(row), after, "lost"),
     Faulted(onRejected, cards, "rejected"),
     Faulted(Keep, after, "garbled")}

HashUpdate(row, h) == IF row.sha = h THEN Unset ELSE h

(* Slip: a duplicate is an error. *)
AdoptRefusing(row, id, h) == FailPatch

(* 409 duplicate_file: adopt the id RAG names unless the row holds another. *)
Adopt(row, id, h) ==
    IF row.rag \in {None, id}
    THEN SucceedPatch("SUBMITTED", id, HashUpdate(row, h))
    ELSE FailPatch

(* The manifest is accepted under the next id. *)
SendManifest(f, row, h, id) ==
    LET after == Registered(f, id, row.key, h)
    IN  {Answered(SucceedPatch("SUBMITTED", id, HashUpdate(row, h)), after)}
        \cup CallFaults(row, FailPatch, after)

Register(f, row) ==
    LET h == IF row.sha = None THEN object[row.key] ELSE row.sha
    IN  IF f \in Unsupported
        THEN {Answered(SkipPatch, cards)}
        ELSE IF object[row.key] = None
        THEN {Answered(IF f \in Previews /\ row.sha = None
                       THEN MissPreviewPatch(row) ELSE FailPatch, cards)}
        ELSE IF DuplicatesOf(row.key, h) # {}
        THEN {Answered(Adopt(row, id, h), cards) : id \in DuplicatesOf(row.key, h)}
             \cup CallFaults(row, FailPatch, cards)
        ELSE IF FreshIds = {}
        THEN {Answered(FailPatch, cards)}
        ELSE UNION {SendManifest(f, row, h, id) : id \in FreshIds}

(* Slip: a poll never gives up. *)
PollForever(row) ==
    LET c == cards[row.rag]
    IN  {CASE ~Live(row.rag)          -> Answered(SettlePatch("REMOVED"), cards)
           [] c.status = "ready"      -> Answered(SucceedPatch("INDEXED", row.rag, Unset), cards)
           [] c.status = "error"      -> Answered(FailPatch, cards)
           [] c.status = "processing" -> Answered(PollAgainPatch, cards)}
        \cup CallFaults(row, FailPatch, cards)

Poll(row) ==
    LET c == cards[row.rag]
    IN  {CASE ~Live(row.rag)        -> Answered(SettlePatch("REMOVED"), cards)
           [] c.status = "ready"    -> Answered(SucceedPatch("INDEXED", row.rag, Unset), cards)
           [] c.status = "error"    -> Answered(FailPatch, cards)
           [] c.status = "processing" /\ row.aged  -> Answered(FailPatch, cards)
           [] c.status = "processing" /\ ~row.aged -> Answered(PollAgainPatch, cards)}
        \cup CallFaults(row, FailPatch, cards)

(* Slip: the id is taken from an answer that does not repeat it. *)
RekeyedBare(row, h) == SucceedPatch("INDEXED", None, HashUpdate(row, h))

Rekeyed(row, h) == SucceedPatch("INDEXED", row.rag, HashUpdate(row, h))

Rekey(f, row) ==
    LET h     == IF row.sha = None THEN object[row.key] ELSE row.sha
        after == [cards EXCEPT ![row.rag].key = row.key]
    IN  IF object[row.key] = None
        THEN {Answered(IF f \in Previews /\ row.sha = None
                       THEN MissPreviewPatch(row) ELSE FailPatch, cards)}
        ELSE (IF ~Live(row.rag)
              THEN {Answered(FailPatch, cards)}
              ELSE IF cards[row.rag].sha # h
              THEN {Continues(ContentChangedPatch, cards)}
              ELSE {Answered(Rekeyed(row, h), after)})
             \cup CallFaults(row, FailPatch,
                    IF Live(row.rag) /\ cards[row.rag].sha = h THEN after ELSE cards)

(* Slip: an outage during the removal counts as confirmed. *)
RemoveUnconfirmed(row) ==
    {Answered(SettlePatch(row.state), Deleted(row.rag)),
     Faulted(SettlePatch(row.state), cards, "down")}

Remove(row) ==
    IF row.rag = None
    THEN {Answered(SettlePatch(row.state), cards)}
    ELSE {Answered(SettlePatch(row.state), Deleted(row.rag))}
         \cup CallFaults(row, RetryPatch(row), Deleted(row.rag))

(* Slip: the id is cleared and the old vectors are left to RAG. *)
DeleteForReindexSkipped(row) == {Continues(ClearRagPatch, cards)}

(* Old vectors first; the row then goes on to a fresh registration. *)
DeleteForReindex(row) ==
    {Continues(ClearRagPatch, Deleted(row.rag))}
    \cup CallFaults(row, FailPatch, Deleted(row.rag))

Process(f, row) ==
    CASE row.state = "SUBMITTED" /\ row.rag # None       -> Poll(row)
      [] row.state = "SUBMITTED" /\ row.rag = None       -> Register(f, row)
      [] row.state \in {"REMOVED", "ARCHIVED"}           -> Remove(row)
      [] row.state = "REINDEX_PENDING" /\ row.rag # None -> DeleteForReindex(row)
      [] row.state = "REINDEX_PENDING" /\ row.rag = None -> Register(f, row)
      [] row.state = "PENDING" /\ row.rag # None         -> Rekey(f, row)
      [] row.state = "PENDING" /\ row.rag = None         -> Register(f, row)
      [] OTHER                                           -> {}

Spend(kind) ==
    IF kind = "none"
    THEN UNCHANGED spent
    ELSE /\ kind \in Faults
         /\ spent.faults < MaxFaults
         /\ spent' = [spent EXCEPT !.faults = @ + 1]

-----------------------------------------------------------------------------
(* index_sync. *)

(* Slip: the rows are claimed without FOR UPDATE. *)
LockedNever(f) == FALSE

(* The tick holds the row from claim_due to its commit or rollback. *)
Locked(f) == f \in claimed

DueRows == {f \in Files : Due(link[f])}

(* The oldest due rows, locked and loaded. The tick is single-flight. *)
TickClaim ==
    /\ claimed = {} /\ ~broken
    /\ DueRows # {}
    /\ claimed' = {f \in DueRows : Cardinality({g \in DueRows : g < f}) < BatchSize}
    /\ todo' = claimed'
    /\ work' = [f \in Files |-> IF f \in claimed' THEN link[f] ELSE Absent]
    /\ UNCHANGED <<record, object, link, cards, broken, notify, request, spent>>

(* The row of f as the tick's transaction sees it. *)
Seen(f) == IF f \in claimed THEN work[f] ELSE link[f]

(* rag_file_id is unique. *)
IdTaken(f, id) == id \in RagIds /\ \E g \in Files \ {f} : Seen(g).rag = id

(* A registration looks the display name up in the database first, so it is *)
(* not sent once the session is unusable; deletes and re-keys are.          *)
WithoutSession(c) ==
    IF \E id \in RagIds : cards[id].status = "unused" /\ c[id].status # "unused"
    THEN cards ELSE c

(* One call to RAG for the oldest unfinished row. A unique violation aborts *)
(* the transaction and gives its locks up: the exception is logged, and the *)
(* batch goes on with the claimed rows and a session that cannot be used.   *)
TickCall(f) ==
    /\ f \in todo
    /\ \A g \in todo : f <= g
    /\ \E o \in Process(f, work[f]) :
          /\ Spend(o.fault)
          /\ cards' = IF broken THEN WithoutSession(o.cards) ELSE o.cards
          /\ broken' = (broken \/ IdTaken(f, o.patch.rag))
          /\ todo' = IF o.done \/ broken' THEN todo \ {f} ELSE todo
          /\ claimed' = IF broken' THEN {} ELSE claimed
          /\ work' = IF broken' THEN work
                     ELSE [work EXCEPT ![f] = Flush(@, @, o.patch)]
    /\ UNCHANGED <<record, object, link, notify, request>>

(* The commit of the batch; an aborted transaction has nothing to commit. *)
TickCommit ==
    /\ claimed # {} \/ broken
    /\ todo = {}
    /\ link' = [f \in Files |-> Seen(f)]
    /\ claimed' = {}
    /\ work' = [f \in Files |-> Absent]
    /\ broken' = FALSE
    /\ UNCHANGED <<record, object, cards, todo, notify, request, spent>>

-----------------------------------------------------------------------------
(* The immediate notify of one file. *)

ShouldNotify(row) ==
    row.state = "REMOVED" \/ (row.state = "PENDING" /\ row.rag = None)

SetSession(f, k, s) == notify' = [notify EXCEPT ![f][k] = s]

(* get_by_file_record_id: the decision below is taken on this snapshot. *)
NotifyRead(f, k) ==
    /\ notify[f][k].pc = "read"
    /\ SetSession(f, k, IF ShouldNotify(link[f])
                        THEN [NoSession EXCEPT !.pc = "call", !.snap = link[f]]
                        ELSE NoSession)
    /\ UNCHANGED <<record, object, link, cards, queue, request, spent>>

NotifyCall(f, k) ==
    /\ notify[f][k].pc = "call"
    /\ \E o \in Process(f, notify[f][k].snap) :
          /\ Spend(o.fault)
          /\ cards' = o.cards
          /\ SetSession(f, k, IF o.patch = Keep THEN NoSession
                              ELSE [NoSession EXCEPT !.pc = "select", !.patch = o.patch])
    /\ UNCHANGED <<record, object, link, queue, request>>

(* session.get in apply_transition: the snapshot's instance is gone by now, *)
(* so the row is loaded again, but nothing is decided again.                *)
NotifySelect(f, k) ==
    /\ notify[f][k].pc = "select"
    /\ SetSession(f, k, [notify[f][k] EXCEPT !.pc = "write", !.base = link[f]])
    /\ UNCHANGED <<record, object, link, cards, queue, request, spent>>

(* UPDATE and commit, which wait for a tick that holds the row or has used  *)
(* the same rag_file_id. A unique violation is swallowed with the session.  *)
NotifyWrite(f, k) ==
    /\ notify[f][k].pc = "write"
    /\ ~Locked(f)
    /\ LET p == notify[f][k].patch
           HasId(row) == p.rag \in RagIds /\ row.rag = p.rag
       IN  /\ \A g \in claimed : HasId(work[g]) => HasId(link[g])
           /\ link' = IF \E g \in Files \ {f} : HasId(link[g])
                      THEN link
                      ELSE [link EXCEPT ![f] = Flush(@, notify[f][k].base, p)]
    /\ SetSession(f, k, NoSession)
    /\ UNCHANGED <<record, object, cards, queue, request, spent>>

-----------------------------------------------------------------------------
(* Requests. *)

Spare == spent.requests < MaxRequests
SpendRequest == spent' = [spent EXCEPT !.requests = @ + 1]

(* Upload: the object is written before, and record and link are inserted by *)
(* one commit. A preview is written later, by a task of its own.             *)
Upload(u) ==
    LET f == u[1] k == u[2] h == u[3]
    IN  /\ record[f].status = "none"
        /\ \A g \in Files : g < f => record[g].status # "none"
        /\ record' = [record EXCEPT ![f] = [status |-> "committed", key |-> k, sha |-> h]]
        /\ object' = IF f \in Previews THEN object ELSE [object EXCEPT ![k] = h]
        /\ link' = [link EXCEPT ![f] =
              NewRow(IF f \in Unsupported THEN "SKIPPED" ELSE "PENDING",
                     k, IF f \in Previews THEN None ELSE h)]
        /\ notify' = IF "create" \in Notifies
                     THEN [notify EXCEPT ![f]["create"] = [NoSession EXCEPT !.pc = "read"]]
                     ELSE notify
        /\ UNCHANGED <<cards, queue, request, spent>>

WritePreview(f) ==
    /\ f \in Previews
    /\ record[f].status = "committed"
    /\ object[record[f].key] = None
    /\ object' = [object EXCEPT ![record[f].key] = record[f].sha]
    /\ UNCHANGED <<record, link, cards, queue, notify, request, spent>>

(* The part of a request before its link row is loaded: the storage calls. *)
Begin(f, role, r) ==
    /\ r.op \in Operations
    /\ Spare /\ SpendRequest
    /\ request[f][role] = NoRequest
    /\ request' = [request EXCEPT ![f][role] = r]
    /\ UNCHANGED <<record, link, cards, queue, notify>>

UserRequest(op, rec) == [op |-> op, pc |-> "stored", rec |-> rec, base |-> Absent]

(* A copy and a delete in the bucket; an object under the new key is replaced. *)
RenameBegin(f, k) ==
    /\ record[f].status = "committed"
    /\ f \notin Previews
    /\ k # record[f].key
    /\ object[record[f].key] # None
    /\ object' = [object EXCEPT ![k] = object[record[f].key], ![record[f].key] = None]
    /\ Begin(f, "user", UserRequest("rename", [record[f] EXCEPT !.key = k]))

OverwriteBegin(f, h) ==
    /\ record[f].status = "committed"
    /\ f \notin Previews
    /\ h # record[f].sha
    /\ object' = [object EXCEPT ![record[f].key] = h]
    /\ Begin(f, "user", UserRequest("overwrite", [record[f] EXCEPT !.sha = h]))

DeleteBegin(f) ==
    /\ record[f].status \in {"committed", "archived"}
    /\ object' = IF record[f].status = "committed"
                 THEN [object EXCEPT ![record[f].key] = None] ELSE object
    /\ Begin(f, "user", UserRequest("delete", [record[f] EXCEPT !.status = "deleted"]))

ArchiveBegin(f) ==
    /\ record[f].status = "committed"
    /\ object[record[f].key] # None
    /\ object' = [object EXCEPT ![record[f].key] = None]
    /\ Begin(f, "user", UserRequest("archive", [record[f] EXCEPT !.status = "archived"]))

(* retry_failed selects the rows it then updates. *)
RetryBegin(f) ==
    /\ link[f].state = "FAILED"
    /\ UNCHANGED object
    /\ Begin(f, "admin", [op |-> "retry", pc |-> "loaded", rec |-> NoRecord, base |-> link[f]])

(* A backfill page holds records without a link, as they were when read. *)
BackfillBegin(f) ==
    /\ record[f].status \in {"committed", "archived"}
    /\ ~Exists(link[f])
    /\ UNCHANGED object
    /\ Begin(f, "admin", [op |-> "backfill", pc |-> "loaded", rec |-> record[f], base |-> Absent])

(* The SELECT of the link row. *)
RequestLoad(f) ==
    /\ request[f]["user"].pc = "stored"
    /\ request' = [request EXCEPT ![f]["user"] = [@ EXCEPT !.pc = "loaded", !.base = link[f]]]
    /\ UNCHANGED <<record, object, link, cards, queue, notify, spent>>

RequestPatch(r) ==
    CASE r.op = "rename"    -> MarkRekey(r.base, r.rec.key)
      [] r.op = "overwrite" -> MarkContentChanged(r.base, r.rec.key, r.rec.sha)
      [] r.op = "delete"    -> MarkRemoved
      [] r.op = "archive"   -> MarkArchived
      [] r.op = "retry"     -> MarkRetried(r.base)
      [] OTHER              -> Keep

(* A backfilled record: an archived one is skipped and never sent. *)
BackfilledRow(f, rec) ==
    NewRow(IF f \in Unsupported \/ rec.status = "archived" THEN "SKIPPED" ELSE "PENDING",
           rec.key, IF f \in Previews THEN None ELSE rec.sha)

(* UPDATE of the link and commit of the request; the UPDATE waits for a tick *)
(* that holds the row. A file without a link row is left without one, except *)
(* by backfill, whose INSERT yields to a row that appeared meanwhile.        *)
RequestCommit(f, role) ==
    LET r == request[f][role]
    IN  /\ r.pc = "loaded"
        /\ ~Locked(f)
        /\ record' = IF role = "user" THEN [record EXCEPT ![f] = r.rec] ELSE record
        /\ link' = CASE r.op = "backfill" /\ ~Exists(link[f]) ->
                          [link EXCEPT ![f] = BackfilledRow(f, r.rec)]
                     [] r.op # "backfill" /\ Exists(r.base) ->
                          [link EXCEPT ![f] = Flush(@, r.base, RequestPatch(r))]
                     [] OTHER -> link
        /\ notify' = IF r.op = "delete" /\ Exists(r.base) /\ "delete" \in Notifies
                     THEN [notify EXCEPT ![f]["delete"] = [NoSession EXCEPT !.pc = "read"]]
                     ELSE notify
        /\ request' = [request EXCEPT ![f][role] = NoRequest]
        /\ UNCHANGED <<object, cards, queue, spent>>

(* A request that fails is rolled back; its storage calls are not undone. *)
RequestAbort(f, role) ==
    /\ request[f][role] # NoRequest
    /\ Spend("abort")
    /\ request' = [request EXCEPT ![f][role] = NoRequest]
    /\ UNCHANGED <<record, object, link, cards, queue, notify>>

-----------------------------------------------------------------------------
(* The process dies: sessions and requests are gone, open transactions are  *)
(* rolled back, the bucket and RAG keep what they were told.                *)
Crash ==
    /\ Spend("crash")
    /\ claimed' = {}
    /\ todo' = {}
    /\ work' = [f \in Files |-> Absent]
    /\ broken' = FALSE
    /\ notify' = [f \in Files |-> [k \in NotifyKinds |-> NoSession]]
    /\ request' = [f \in Files |-> [role \in Roles |-> NoRequest]]
    /\ UNCHANGED <<record, object, link, cards>>

(* A backoff ends. *)
BackoffEnds(f) ==
    /\ link[f].next = "later"
    /\ link' = [link EXCEPT ![f].next = "past"]
    /\ UNCHANGED <<record, object, cards, queue, notify, request, spent>>

(* RAG_INDEX_MAX_WAIT_SECONDS pass since updated_at. *)
MaxWaitPasses(f) ==
    /\ link[f].state = "SUBMITTED"
    /\ ~link[f].aged
    /\ ~Locked(f)
    /\ link' = [link EXCEPT ![f].aged = TRUE]
    /\ UNCHANGED <<record, object, cards, queue, notify, request, spent>>

-----------------------------------------------------------------------------
Tick == TickClaim \/ (\E f \in Files : TickCall(f)) \/ TickCommit

Notify(f, k) ==
    NotifyRead(f, k) \/ NotifyCall(f, k) \/ NotifySelect(f, k) \/ NotifyWrite(f, k)

RequestBegins(f) ==
    \/ \E k \in Names : RenameBegin(f, k)
    \/ \E h \in Contents : OverwriteBegin(f, h)
    \/ DeleteBegin(f)
    \/ ArchiveBegin(f)
    \/ RetryBegin(f)
    \/ BackfillBegin(f)

RequestStep(f) ==
    \/ RequestLoad(f)
    \/ \E role \in Roles : RequestCommit(f, role) \/ RequestAbort(f, role)

Next ==
    \/ Tick
    \/ \E u \in Uploads : Upload(u)
    \/ \E f \in Files :
          \/ \E k \in NotifyKinds : Notify(f, k)
          \/ RequestBegins(f)
          \/ RequestStep(f)
          \/ WritePreview(f)
          \/ BackoffEnds(f)
          \/ MaxWaitPasses(f)
    \/ \E id \in RagIds : RagFinishes(id)
    \/ Crash

(* The scheduler fires forever and a tick finishes what it claimed: every   *)
(* RAG call has a timeout. Clocks advance; the maximum wait is taken to pass *)
(* between two ticks, hence SF. Nothing is assumed of RAG, of notifies, of   *)
(* users, or of faults.                                                     *)
Fairness ==
    /\ WF_vars(Tick)
    /\ \A f \in Files : WF_vars(BackoffEnds(f)) /\ SF_vars(MaxWaitPasses(f))

Spec == Init /\ [][Next]_vars /\ Fairness

-----------------------------------------------------------------------------
(* What the queue keeps.                                                    *)

(* A row taken out of the queue for good (next_attempt_at in the year 9999, *)
(* _settle) leaves no searchable card behind: whoever settled it, the tick, *)
(* the notify of a delete or a poll that found the card gone, RAG had        *)
(* confirmed first, whatever was lost or renamed meanwhile.                 *)
SettledIsGone ==
    \A f \in Files : link[f].next = "never" => ~Live(link[f].rag)

(* No order of ticks, notifies and requests brings a file that was deleted  *)
(* or archived back into the live part of the lifecycle: the session that   *)
(* writes last writes over a row it may have read before.                   *)
OutOfLibraryOutOfIndex ==
    \A f \in Files : record[f].status \in {"deleted", "archived"} =>
        link[f].state \in {"ABSENT", "REMOVED", "ARCHIVED", "FAILED"}

(* The ids in the table were issued by RAG, and a row is INDEXED only with   *)
(* one, although ids reach the table through patches computed from an older  *)
(* row, are cleared on reindex, and are rolled back with the batch.          *)
IndexedIsRegistered ==
    \A f \in Files :
        /\ link[f].rag # None => cards[link[f].rag].status # "unused"
        /\ link[f].state = "INDEXED" => link[f].rag # None

(* The only reference to a card is the rag_file_id of its row. A write that *)
(* drops or replaces the id of a card RAG still serves would leave it in    *)
(* the search results with nobody to delete it.                             *)
CardsAreNotForgotten ==
    [][\A f \in Files : link[f].rag # None /\ link'[f].rag # link[f].rag
                            => ~Serves(cards', link[f].rag)]_vars

(* A file has one card at a time: a new registration comes only after the    *)
(* deletion of the card it replaces, through renames, overwrites, retries    *)
(* and calls that fail before they reach RAG.                               *)
OneCardPerFile ==
    \A i, j \in RagIds : Live(i) /\ Live(j) /\ cards[i].owner = cards[j].owner => i = j

(* A registration whose answer or commit was lost is found again: the row    *)
(* is still PENDING, registers the same object, and adopts the card.        *)
LostAnswersAreAdopted ==
    <>[](\A id \in RagIds : Live(id) => link[cards[id].owner].rag = id)

(* When users and faults leave it alone, the queue empties: every row ends   *)
(* INDEXED, FAILED, SKIPPED or settled, whatever RAG answers.               *)
QueueDrains == <>[](\A f \in Files : ~InQueue(link[f]))

-----------------------------------------------------------------------------
(* What the documents say and the code does not keep.                       *)

(* "A row deleted while still PENDING and without rag_file_id never receives *)
(* a manifest": nor may a deleted file's row go back to a live state.        *)
DeletedStaysRemoved ==
    \A f \in Files : record[f].status = "deleted" =>
        link[f].state \in {"ABSENT", "REMOVED", "FAILED"}

=============================================================================
