-------------------------- MODULE IndexQueueProofs --------------------------
(***************************************************************************)
(* Type correctness of IndexQueue and the invariant IndexedIsRegistered,    *)
(* for every set of files, keys, contents and ids, every batch size, every  *)
(* choice of operations, notifies and faults, and every bound.              *)
(***************************************************************************)
EXTENDS IndexQueue, TLAPS

-----------------------------------------------------------------------------
(* Rows and patches.                                                        *)

LEMMA AbsentType == Absent \in Row
<1>1. AnyKey \in Keys
  BY LinkAssumption DEF AnyKey
<1> QED
  BY <1>1 DEF Absent, Row, NextAttempts, ErrorCodes

LEMMA KeepType == Keep \in Patch
BY DEF Keep, Patch

LEMMA NewRowType ==
  ASSUME NEW state \in {"PENDING", "SKIPPED"}, NEW k \in Keys, NEW h \in Contents \cup {None}
  PROVE  NewRow(state, k, h) \in Row
BY DEF NewRow, Absent, Row, IndexLinkState, NextAttempts, ErrorCodes

(* The UPDATE of any session leaves a row, whatever row it had loaded. *)
LEMMA FlushType ==
  ASSUME NEW stored \in Row, NEW loaded \in Row, NEW p \in Patch
  PROVE  Flush(stored, loaded, p) \in Row
<1>1. Written(stored.state, loaded.state, p.state) \in IndexLinkState \cup {"ABSENT"}
  BY DEF Written, Row, Patch
<1>2. Written(stored.rag, loaded.rag, p.rag) \in RagIds \cup {None}
  BY DEF Written, Row, Patch
<1>3. Written(stored.key, loaded.key, p.key) \in Keys
  BY DEF Written, Row, Patch
<1>4. Written(stored.sha, loaded.sha, p.sha) \in Contents \cup {None}
  BY DEF Written, Row, Patch
<1>5. Written(stored.attempts, loaded.attempts, p.attempts) \in Nat
  BY DEF Written, Row, Patch
<1>6. WrittenStamp(stored.next, loaded.next, p.next) \in NextAttempts
  BY DEF WrittenStamp, Written, Row, Patch, NextAttempts
<1>7. Written(stored.err, loaded.err, p.err) \in ErrorCodes
  BY DEF Written, Row, Patch
<1>8. (stored.aged /\ ~Bumps(loaded, p)) \in BOOLEAN
  OBVIOUS
<1> QED
  BY <1>1, <1>2, <1>3, <1>4, <1>5, <1>6, <1>7, <1>8 DEF Flush, Row

LEMMA PatchTypes ==
  ASSUME NEW row \in Row
  PROVE  /\ FailPatch \in Patch
         /\ SkipPatch \in Patch
         /\ RetryPatch(row) \in Patch
         /\ MissPreviewPatch(row) \in Patch
         /\ PollAgainPatch \in Patch
         /\ ClearRagPatch \in Patch
         /\ ContentChangedPatch \in Patch
<1>1. row.attempts + 1 \in Nat
  BY DEF Row
<1> QED
  BY <1>1 DEF FailPatch, SkipPatch, RetryPatch, MissPreviewPatch, PollAgainPatch,
              ClearRagPatch, ContentChangedPatch, Keep, Patch, IndexLinkState,
              NextAttempts, ErrorCodes

LEMMA SettledType ==
  ASSUME NEW s \in {"REMOVED", "ARCHIVED"}
  PROVE  SettlePatch(s) \in Patch
BY DEF SettlePatch, Keep, Patch, IndexLinkState, NextAttempts, ErrorCodes

LEMMA SucceedType ==
  ASSUME NEW s \in {"SUBMITTED", "INDEXED"}, NEW id \in RagIds,
         NEW h \in Contents \cup {None, Unset}
  PROVE  SucceedPatch(s, id, h) \in Patch
BY DEF SucceedPatch, Patch, IndexLinkState, NextAttempts, ErrorCodes

LEMMA MarkTypes ==
  ASSUME NEW loaded \in Row, NEW k \in Keys, NEW h \in Contents
  PROVE  /\ MarkContentChanged(loaded, k, h) \in Patch
         /\ MarkRekey(loaded, k) \in Patch
         /\ MarkRemoved \in Patch
         /\ MarkArchived \in Patch
         /\ MarkRetried(loaded) \in Patch
BY DEF MarkContentChanged, MarkRekey, MarkRemoved, MarkArchived, MarkRetried,
       Keep, Patch, IndexLinkState, NextAttempts, ErrorCodes
-----------------------------------------------------------------------------
(* Outcomes of one row's processing.                                        *)

Outcome == [patch : Patch, cards : [RagIds -> Card], done : BOOLEAN,
            fault : Faults \cup AllFaults \cup {"none"}]

LEMMA CallFaultsType ==
  ASSUME TypeOK, NEW row \in Row, NEW p \in Patch, NEW after \in [RagIds -> Card]
  PROVE  CallFaults(row, p, after) \subseteq Outcome
<1>1. cards \in [RagIds -> Card]
  BY DEF TypeOK
<1>2. RetryPatch(row) \in Patch /\ Keep \in Patch
  BY PatchTypes, KeepType
<1> QED
  BY <1>1, <1>2 DEF CallFaults, Faulted, Outcome, AllFaults

LEMMA RegisteredType ==
  ASSUME TypeOK, NEW f \in Files, NEW id \in RagIds, NEW k \in Keys,
         NEW h \in Contents \cup {None}
  PROVE  Registered(f, id, k, h) \in [RagIds -> Card]
BY DEF TypeOK, Registered, Card, CardStatus

LEMMA DeletedType ==
  ASSUME TypeOK, NEW id
  PROVE  Deleted(id) \in [RagIds -> Card]
<1>1. CASE ~Live(id)
  BY <1>1 DEF TypeOK, Deleted
<1>2. CASE Live(id)
  <2>1. id \in RagIds /\ cards[id] \in Card
    BY <1>2 DEF TypeOK, Live, Serves
  <2>2. [cards[id] EXCEPT !.status = "gone"] \in Card
    BY <2>1 DEF Card, CardStatus
  <2> QED
    BY <1>2, <2>1, <2>2 DEF TypeOK, Deleted
<1> QED
  BY <1>1, <1>2

LEMMA SendManifestType ==
  ASSUME TypeOK, NEW f \in Files, NEW row \in Row, NEW id \in RagIds,
         NEW h \in Contents \cup {None}
  PROVE  SendManifest(f, row, h, id) \subseteq Outcome
<1> DEFINE after == Registered(f, id, row.key, h)
<1>1. row.key \in Keys
  BY DEF Row
<1>2. after \in [RagIds -> Card]
  BY <1>1, RegisteredType
<1>3. HashUpdate(row, h) \in Contents \cup {None, Unset}
  BY DEF HashUpdate
<1>4. SucceedPatch("SUBMITTED", id, HashUpdate(row, h)) \in Patch
  BY <1>3, SucceedType
<1>5. CallFaults(row, FailPatch, after) \subseteq Outcome
  BY <1>2, PatchTypes, CallFaultsType
<1>6. Answered(SucceedPatch("SUBMITTED", id, HashUpdate(row, h)), after) \in Outcome
  BY <1>2, <1>4 DEF Answered, Outcome
<1> QED
  BY <1>5, <1>6 DEF SendManifest

LEMMA RegisterType ==
  ASSUME TypeOK, NEW f \in Files, NEW row \in Row
  PROVE  Register(f, row) \subseteq Outcome
<1> DEFINE h == IF row.sha = None THEN object[row.key] ELSE row.sha
<1>1. cards \in [RagIds -> Card] /\ row.key \in Keys
  BY DEF TypeOK, Row
<1>2. h \in Contents \cup {None}
  BY <1>1 DEF TypeOK, Row
<1>3. HashUpdate(row, h) \in Contents \cup {None, Unset}
  BY <1>2 DEF HashUpdate
<1>4. \A id \in RagIds : Adopt(row, id, h) \in Patch
  BY <1>3, SucceedType, PatchTypes DEF Adopt
<1>5. SkipPatch \in Patch /\ FailPatch \in Patch /\ MissPreviewPatch(row) \in Patch
  BY PatchTypes
<1>6. CallFaults(row, FailPatch, cards) \subseteq Outcome
  BY <1>1, <1>5, CallFaultsType
<1>7. \A p \in Patch : Answered(p, cards) \in Outcome
  BY <1>1 DEF Answered, Outcome
<1>8. \A id \in RagIds : SendManifest(f, row, h, id) \subseteq Outcome
  BY <1>2, SendManifestType
<1>9. FreshIds \subseteq RagIds /\ DuplicatesOf(row.key, h) \subseteq RagIds
  BY DEF FreshIds, DuplicatesOf
<1> HIDE DEF h
<1>10. \/ Register(f, row) = {Answered(SkipPatch, cards)}
       \/ Register(f, row) = {Answered(MissPreviewPatch(row), cards)}
       \/ Register(f, row) = {Answered(FailPatch, cards)}
       \/ Register(f, row) =
            {Answered(Adopt(row, id, h), cards) : id \in DuplicatesOf(row.key, h)}
              \cup CallFaults(row, FailPatch, cards)
       \/ Register(f, row) = UNION {SendManifest(f, row, h, id) : id \in FreshIds}
  BY Zenon DEF Register, h
<1> QED
  BY <1>4, <1>5, <1>6, <1>7, <1>8, <1>9, <1>10

LEMMA PollType ==
  ASSUME TypeOK, NEW row \in Row, row.rag # None
  PROVE  Poll(row) \subseteq Outcome
<1>1. cards \in [RagIds -> Card] /\ row.rag \in RagIds
  BY DEF TypeOK, Row
<1>2. CallFaults(row, FailPatch, cards) \subseteq Outcome
  BY <1>1, PatchTypes, CallFaultsType
<1>3. \A p \in Patch : Answered(p, cards) \in Outcome
  BY <1>1 DEF Answered, Outcome
<1>4. /\ SettlePatch("REMOVED") \in Patch /\ FailPatch \in Patch /\ PollAgainPatch \in Patch
      /\ SucceedPatch("INDEXED", row.rag, Unset) \in Patch
  BY <1>1, PatchTypes, SettledType, SucceedType
<1>5. Live(row.rag) => cards[row.rag].status \in {"ready", "error", "processing"}
  BY DEF Live, Serves
<1>6. row.aged \in BOOLEAN
  BY DEF Row
<1> QED
  BY <1>2, <1>3, <1>4, <1>5, <1>6 DEF Poll

LEMMA RekeyType ==
  ASSUME TypeOK, NEW f \in Files, NEW row \in Row, row.rag # None
  PROVE  Rekey(f, row) \subseteq Outcome
<1> DEFINE h == IF row.sha = None THEN object[row.key] ELSE row.sha
<1> DEFINE after == [cards EXCEPT ![row.rag].key = row.key]
<1>1. cards \in [RagIds -> Card] /\ row.rag \in RagIds /\ row.key \in Keys
  BY DEF TypeOK, Row
<1>2. after \in [RagIds -> Card]
  BY <1>1 DEF Card
<1>3. h \in Contents \cup {None}
  BY <1>1 DEF TypeOK, Row
<1>4. Rekeyed(row, h) \in Patch
  BY <1>1, <1>3, SucceedType DEF Rekeyed, HashUpdate
<1>5. /\ FailPatch \in Patch /\ MissPreviewPatch(row) \in Patch
      /\ ContentChangedPatch \in Patch
  BY PatchTypes
<1>6. \A p \in Patch, c \in [RagIds -> Card] :
          Answered(p, c) \in Outcome /\ Continues(p, c) \in Outcome
  BY DEF Answered, Continues, Outcome
<1>7. CallFaults(row, FailPatch, after) \subseteq Outcome
      /\ CallFaults(row, FailPatch, cards) \subseteq Outcome
  BY <1>1, <1>2, <1>5, CallFaultsType
<1> HIDE DEF h, after
<1>8. Rekey(f, row) =
        IF object[row.key] = None
        THEN {Answered(IF f \in Previews /\ row.sha = None
                       THEN MissPreviewPatch(row) ELSE FailPatch, cards)}
        ELSE (IF ~Live(row.rag)
              THEN {Answered(FailPatch, cards)}
              ELSE IF cards[row.rag].sha # h
              THEN {Continues(ContentChangedPatch, cards)}
              ELSE {Answered(Rekeyed(row, h), after)})
             \cup CallFaults(row, FailPatch,
                    IF Live(row.rag) /\ cards[row.rag].sha = h THEN after ELSE cards)
  BY DEF Rekey, h, after
<1> QED
  BY <1>1, <1>2, <1>4, <1>5, <1>6, <1>7, <1>8

LEMMA RemoveType ==
  ASSUME TypeOK, NEW row \in Row, row.state \in {"REMOVED", "ARCHIVED"}
  PROVE  Remove(row) \subseteq Outcome
<1>1. cards \in [RagIds -> Card] /\ Deleted(row.rag) \in [RagIds -> Card]
  BY DeletedType DEF TypeOK
<1>2. SettlePatch(row.state) \in Patch /\ RetryPatch(row) \in Patch
  BY PatchTypes, SettledType
<1>3. CallFaults(row, RetryPatch(row), Deleted(row.rag)) \subseteq Outcome
  BY <1>1, <1>2, CallFaultsType
<1>4. \A c \in [RagIds -> Card] : Answered(SettlePatch(row.state), c) \in Outcome
  BY <1>2 DEF Answered, Outcome
<1> QED
  BY <1>1, <1>3, <1>4 DEF Remove

LEMMA DeleteForReindexType ==
  ASSUME TypeOK, NEW row \in Row
  PROVE  DeleteForReindex(row) \subseteq Outcome
<1>1. Deleted(row.rag) \in [RagIds -> Card]
  BY DeletedType
<1>2. ClearRagPatch \in Patch /\ FailPatch \in Patch
  BY PatchTypes
<1>3. CallFaults(row, FailPatch, Deleted(row.rag)) \subseteq Outcome
  BY <1>1, <1>2, CallFaultsType
<1>4. Continues(ClearRagPatch, Deleted(row.rag)) \in Outcome
  BY <1>1, <1>2 DEF Continues, Outcome
<1> QED
  BY <1>3, <1>4 DEF DeleteForReindex

(* Which handler a row is given to, as disjoint cases of its state and id. *)
LEMMA ProcessCases ==
  ASSUME NEW f, NEW row \in Row
  PROVE  \/ Process(f, row) = {}
         \/ row.state = "SUBMITTED" /\ row.rag # None /\ Process(f, row) = Poll(row)
         \/ /\ row.state \in {"SUBMITTED", "REINDEX_PENDING", "PENDING"} /\ row.rag = None
            /\ Process(f, row) = Register(f, row)
         \/ row.state \in {"REMOVED", "ARCHIVED"} /\ Process(f, row) = Remove(row)
         \/ /\ row.state = "REINDEX_PENDING" /\ row.rag # None
            /\ Process(f, row) = DeleteForReindex(row)
         \/ row.state = "PENDING" /\ row.rag # None /\ Process(f, row) = Rekey(f, row)
BY DEF Process

LEMMA ProcessType ==
  ASSUME TypeOK, NEW f \in Files, NEW row \in Row
  PROVE  Process(f, row) \subseteq Outcome
BY ProcessCases, PollType, RegisterType, RemoveType, DeleteForReindexType, RekeyType

-----------------------------------------------------------------------------
(* Type correctness.                                                        *)

LEMMA NoSessionType == NoSession \in Session
BY AbsentType, KeepType DEF NoSession, Session

LEMMA NoRequestType == NoRecord \in Record /\ NoRequest \in Request
<1>1. AnyKey \in Keys /\ AnyContent \in Contents
  BY LinkAssumption DEF AnyKey, AnyContent
<1> QED
  BY <1>1, AbsentType DEF NoRecord, NoRequest, Record, RecordStatus, Request

LEMMA InitType == Init => TypeOK
<1> SUFFICES ASSUME Init PROVE TypeOK
  OBVIOUS
<1>1. record \in [Files -> Record]
  <2> SUFFICES ASSUME NEW f \in Files PROVE record[f] \in Record
    BY DEF Init
  <2>1. CASE LegacyOf(f) = {}
    BY <2>1, NoRequestType DEF Init
  <2>2. CASE LegacyOf(f) # {}
    <3> DEFINE u == CHOOSE u \in LegacyOf(f) : TRUE
    <3>1. u \in LegacyOf(f)
      BY <2>2
    <3>2. u \in Files \X Keys \X Contents
      BY <3>1, QueueAssumption DEF LegacyOf
    <3>3. record[f] = [status |-> "committed", key |-> u[2], sha |-> u[3]]
      BY <2>2 DEF Init
    <3> HIDE DEF u
    <3> QED
      BY <3>2, <3>3 DEF Record, RecordStatus
  <2> QED
    BY <2>1, <2>2
<1>2. object \in [Keys -> Contents \cup {None}]
  <2> SUFFICES ASSUME NEW k \in Keys PROVE object[k] \in Contents \cup {None}
    BY DEF Init
  <2>1. CASE \E u \in Legacy : u[2] = k
    <3> DEFINE u == CHOOSE u \in Legacy : u[2] = k
    <3>1. u \in Legacy
      BY <2>1
    <3>2. u \in Files \X Keys \X Contents
      BY <3>1, QueueAssumption
    <3>3. object[k] = u[3]
      BY <2>1 DEF Init
    <3> HIDE DEF u
    <3> QED
      BY <3>2, <3>3
  <2>2. CASE ~\E u \in Legacy : u[2] = k
    BY <2>2 DEF Init
  <2> QED
    BY <2>1, <2>2
<1>3. UnusedCard \in Card
  BY DEF UnusedCard, Card, CardStatus
<1> QED
  BY <1>1, <1>2, <1>3, AbsentType, NoSessionType, NoRequestType DEF Init, TypeOK

LEMMA SpendType ==
  ASSUME TypeOK, NEW kind, Spend(kind)
  PROVE  spent' \in [requests : Nat, faults : Nat]
BY DEF TypeOK, Spend

LEMMA TickType ==
  ASSUME TypeOK, Tick
  PROVE  TypeOK'
<1>1. CASE TickClaim
  BY <1>1, AbsentType DEF TickClaim, TypeOK, DueRows
<1>2. ASSUME NEW f \in Files, TickCall(f)
      PROVE  TypeOK'
  <2>1. PICK o \in Process(f, work[f]) :
          /\ Spend(o.fault)
          /\ cards' = IF broken THEN WithoutSession(o.cards) ELSE o.cards
          /\ broken' = (broken \/ IdTaken(f, o.patch.rag))
          /\ todo' = IF o.done \/ broken' THEN todo \ {f} ELSE todo
          /\ claimed' = IF broken' THEN {} ELSE claimed
          /\ work' = IF broken' THEN work
                     ELSE [work EXCEPT ![f] = Flush(@, @, o.patch)]
    BY <1>2 DEF TickCall
  <2>2. work[f] \in Row
    BY DEF TypeOK
  <2>3. o.patch \in Patch /\ o.cards \in [RagIds -> Card]
    <3>1. o \in Outcome
      BY <2>1, <2>2, ProcessType
    <3> QED
      BY <3>1 DEF Outcome
  <2>4. cards' \in [RagIds -> Card]
    BY <2>1, <2>3 DEF TypeOK, WithoutSession
  <2>5. Flush(work[f], work[f], o.patch) \in Row
    BY <2>2, <2>3, FlushType
  <2>6. work' \in [Files -> Row]
    BY <2>1, <2>5 DEF TypeOK
  <2>7. broken' \in BOOLEAN
    BY <2>1 DEF TypeOK, IdTaken
  <2>8. claimed' \subseteq Files /\ todo' \subseteq Files
    BY <2>1 DEF TypeOK
  <2>9. ~broken' => todo' \subseteq claimed'
    BY <2>1 DEF TypeOK
  <2>10. UNCHANGED <<record, object, link, notify, request>>
    BY <1>2 DEF TickCall
  <2> QED
    BY <2>1, <2>4, <2>6, <2>7, <2>8, <2>9, <2>10, SpendType DEF TypeOK
<1>3. CASE TickCommit
  BY <1>3, AbsentType DEF TickCommit, TypeOK, Seen
<1> QED
  BY <1>1, <1>2, <1>3 DEF Tick

LEMMA NotifyType ==
  ASSUME TypeOK, NEW f \in Files, NEW k \in NotifyKinds, Notify(f, k)
  PROVE  TypeOK'
<1> DEFINE s == notify[f][k]
<1>1. s \in Session /\ link[f] \in Row
  BY DEF TypeOK
<1>2. ASSUME NEW t \in Session, SetSession(f, k, t)
      PROVE  notify' \in [Files -> [NotifyKinds -> Session]]
  BY <1>2 DEF SetSession, TypeOK
<1>3. CASE NotifyRead(f, k)
  <2>1. [NoSession EXCEPT !.pc = "call", !.snap = link[f]] \in Session
    BY <1>1, NoSessionType DEF Session
  <2>2. notify' \in [Files -> [NotifyKinds -> Session]]
    BY <1>2, <1>3, <2>1, NoSessionType DEF NotifyRead
  <2> QED
    BY <1>3, <2>2 DEF NotifyRead, TypeOK, queue
<1>4. CASE NotifyCall(f, k)
  <2>1. PICK o \in Process(f, s.snap) :
          /\ Spend(o.fault)
          /\ cards' = o.cards
          /\ SetSession(f, k, IF o.patch = Keep THEN NoSession
                              ELSE [NoSession EXCEPT !.pc = "select", !.patch = o.patch])
    BY <1>4 DEF NotifyCall
  <2>2. s.snap \in Row
    BY <1>1 DEF Session
  <2>3. o.patch \in Patch /\ o.cards \in [RagIds -> Card]
    <3>1. o \in Outcome
      BY <2>1, <2>2, ProcessType
    <3> QED
      BY <3>1 DEF Outcome
  <2>4. [NoSession EXCEPT !.pc = "select", !.patch = o.patch] \in Session
    BY <2>3, NoSessionType DEF Session
  <2>5. notify' \in [Files -> [NotifyKinds -> Session]]
    BY <1>2, <2>1, <2>4, NoSessionType
  <2>6. UNCHANGED <<record, object, link, queue, request>>
    BY <1>4 DEF NotifyCall
  <2> QED
    BY <2>1, <2>3, <2>5, <2>6, SpendType DEF TypeOK, queue
<1>5. CASE NotifySelect(f, k)
  <2>1. [s EXCEPT !.pc = "write", !.base = link[f]] \in Session
    BY <1>1 DEF Session
  <2>2. notify' \in [Files -> [NotifyKinds -> Session]]
    BY <1>2, <1>5, <2>1 DEF NotifySelect
  <2> QED
    BY <1>5, <2>2 DEF NotifySelect, TypeOK, queue
<1>6. CASE NotifyWrite(f, k)
  <2>1. Flush(link[f], s.base, s.patch) \in Row
    BY <1>1, FlushType DEF Session
  <2>2. link' \in [Files -> Row]
    BY <1>6, <2>1 DEF NotifyWrite, TypeOK
  <2>3. notify' \in [Files -> [NotifyKinds -> Session]]
    BY <1>2, <1>6, NoSessionType DEF NotifyWrite
  <2> QED
    BY <1>6, <2>2, <2>3 DEF NotifyWrite, TypeOK, queue
<1> QED
  BY <1>3, <1>4, <1>5, <1>6 DEF Notify

LEMMA BeginType ==
  ASSUME TypeOK, NEW f \in Files, NEW role \in Roles, NEW r \in Request,
         Begin(f, role, r), object' \in [Keys -> Contents \cup {None}]
  PROVE  TypeOK'
<1>1. request' \in [Files -> [Roles -> Request]]
  BY DEF Begin, TypeOK
<1>2. spent' \in [requests : Nat, faults : Nat]
  <2>1. spent.requests + 1 \in Nat
    BY DEF TypeOK
  <2> QED
    BY <2>1 DEF Begin, SpendRequest, TypeOK
<1> QED
  BY <1>1, <1>2 DEF Begin, TypeOK, queue

LEMMA RequestBeginsType ==
  ASSUME TypeOK, NEW f \in Files, RequestBegins(f)
  PROVE  TypeOK'
<1>1. record[f] \in Record /\ record[f].key \in Keys /\ link[f] \in Row
  BY DEF TypeOK, Record
<1>2. object \in [Keys -> Contents \cup {None}]
  BY DEF TypeOK
<1>3. "user" \in Roles /\ "admin" \in Roles
  BY DEF Roles
<1>4. \A op \in UserOperations, rec \in Record : UserRequest(op, rec) \in Request
  BY AbsentType DEF UserRequest, Request
<1>5. ASSUME NEW k \in Names, RenameBegin(f, k)
      PROVE  TypeOK'
  <2>1. k \in Keys
    BY QueueAssumption
  <2>2. [record[f] EXCEPT !.key = k] \in Record
    BY <1>1, <2>1 DEF Record
  <2>3. UserRequest("rename", [record[f] EXCEPT !.key = k]) \in Request
    BY <1>4, <2>2 DEF UserOperations
  <2>4. object' \in [Keys -> Contents \cup {None}]
    BY <1>1, <1>2, <1>5, <2>1 DEF RenameBegin
  <2> QED
    BY <1>3, <1>5, <2>3, <2>4, BeginType DEF RenameBegin
<1>6. ASSUME NEW h \in Contents, OverwriteBegin(f, h)
      PROVE  TypeOK'
  <2>1. [record[f] EXCEPT !.sha = h] \in Record
    BY <1>1 DEF Record
  <2>2. UserRequest("overwrite", [record[f] EXCEPT !.sha = h]) \in Request
    BY <1>4, <2>1 DEF UserOperations
  <2>3. object' \in [Keys -> Contents \cup {None}]
    BY <1>1, <1>2, <1>6 DEF OverwriteBegin
  <2> QED
    BY <1>3, <1>6, <2>2, <2>3, BeginType DEF OverwriteBegin
<1>7. CASE DeleteBegin(f)
  <2>1. [record[f] EXCEPT !.status = "deleted"] \in Record
    BY <1>1 DEF Record, RecordStatus
  <2>2. UserRequest("delete", [record[f] EXCEPT !.status = "deleted"]) \in Request
    BY <1>4, <2>1 DEF UserOperations
  <2>3. object' \in [Keys -> Contents \cup {None}]
    BY <1>1, <1>2, <1>7 DEF DeleteBegin
  <2> QED
    BY <1>3, <1>7, <2>2, <2>3, BeginType DEF DeleteBegin
<1>8. CASE ArchiveBegin(f)
  <2>1. [record[f] EXCEPT !.status = "archived"] \in Record
    BY <1>1 DEF Record, RecordStatus
  <2>2. UserRequest("archive", [record[f] EXCEPT !.status = "archived"]) \in Request
    BY <1>4, <2>1 DEF UserOperations
  <2>3. object' \in [Keys -> Contents \cup {None}]
    BY <1>1, <1>2, <1>8 DEF ArchiveBegin
  <2> QED
    BY <1>3, <1>8, <2>2, <2>3, BeginType DEF ArchiveBegin
<1>9. CASE RetryBegin(f)
  <2>1. [op |-> "retry", pc |-> "loaded", rec |-> NoRecord, base |-> link[f]] \in Request
    BY <1>1, NoRequestType DEF Request, AdminOperations
  <2> QED
    BY <1>2, <1>3, <1>9, <2>1, BeginType DEF RetryBegin
<1>10. CASE BackfillBegin(f)
  <2>1. [op |-> "backfill", pc |-> "loaded", rec |-> record[f], base |-> Absent] \in Request
    BY <1>1, AbsentType DEF Request, AdminOperations
  <2> QED
    BY <1>2, <1>3, <1>10, <2>1, BeginType DEF BackfillBegin
<1> QED
  BY <1>5, <1>6, <1>7, <1>8, <1>9, <1>10 DEF RequestBegins

LEMMA RequestPatchType ==
  ASSUME NEW r \in Request
  PROVE  RequestPatch(r) \in Patch
BY MarkTypes, KeepType DEF RequestPatch, Request, Record

LEMMA BackfilledType ==
  ASSUME NEW f, NEW rec \in Record
  PROVE  BackfilledRow(f, rec) \in Row
<1>1. rec.key \in Keys /\ (IF f \in Previews THEN None ELSE rec.sha) \in Contents \cup {None}
  BY DEF Record
<1> QED
  BY <1>1, NewRowType DEF BackfilledRow

LEMMA RequestStepType ==
  ASSUME TypeOK, NEW f \in Files, RequestStep(f)
  PROVE  TypeOK'
<1>1. CASE RequestLoad(f)
  <2> DEFINE r == [request[f]["user"] EXCEPT !.pc = "loaded", !.base = link[f]]
  <2>1. request[f]["user"] \in Request /\ link[f] \in Row
    BY DEF TypeOK, Roles
  <2>2. r \in Request
    BY <2>1 DEF Request
  <2>3. request' \in [Files -> [Roles -> Request]]
    BY <1>1, <2>2 DEF RequestLoad, TypeOK, Roles
  <2> QED
    BY <1>1, <2>3 DEF RequestLoad, TypeOK, queue
<1>2. ASSUME NEW role \in Roles, RequestCommit(f, role)
      PROVE  TypeOK'
  <2> DEFINE r == request[f][role]
  <2>1. r \in Request /\ r.rec \in Record /\ r.base \in Row /\ link[f] \in Row
    BY DEF TypeOK, Request
  <2>2. record' \in [Files -> Record]
    BY <1>2, <2>1 DEF RequestCommit, TypeOK
  <2>3. Flush(link[f], r.base, RequestPatch(r)) \in Row /\ BackfilledRow(f, r.rec) \in Row
    BY <2>1, FlushType, RequestPatchType, BackfilledType
  <2>4. \/ link' = [link EXCEPT ![f] = BackfilledRow(f, r.rec)]
        \/ link' = [link EXCEPT ![f] = Flush(@, r.base, RequestPatch(r))]
        \/ link' = link
    BY <1>2, Zenon DEF RequestCommit
  <2>5. link' \in [Files -> Row]
    BY <2>3, <2>4 DEF TypeOK
  <2>6. [NoSession EXCEPT !.pc = "read"] \in Session
    BY NoSessionType DEF Session
  <2>7. notify' \in [Files -> [NotifyKinds -> Session]]
    BY <1>2, <2>6 DEF RequestCommit, TypeOK, NotifyKinds
  <2>8. request' \in [Files -> [Roles -> Request]]
    BY <1>2, NoRequestType DEF RequestCommit, TypeOK
  <2> QED
    BY <1>2, <2>2, <2>5, <2>7, <2>8 DEF RequestCommit, TypeOK, queue
<1>3. ASSUME NEW role \in Roles, RequestAbort(f, role)
      PROVE  TypeOK'
  <2>1. request' \in [Files -> [Roles -> Request]]
    BY <1>3, NoRequestType DEF RequestAbort, TypeOK
  <2> QED
    BY <1>3, <2>1, SpendType DEF RequestAbort, TypeOK, queue
<1> QED
  BY <1>1, <1>2, <1>3 DEF RequestStep

LEMMA OtherType ==
  ASSUME TypeOK,
         \/ \E u \in Uploads : Upload(u)
         \/ \E f \in Files : WritePreview(f) \/ BackoffEnds(f) \/ MaxWaitPasses(f)
         \/ \E id \in RagIds : RagFinishes(id)
         \/ Crash
  PROVE  TypeOK'
<1>1. ASSUME NEW u \in Uploads, Upload(u)
      PROVE  TypeOK'
  <2>1. u[1] \in Files /\ u[2] \in Keys /\ u[3] \in Contents
    BY QueueAssumption
  <2>2. [status |-> "committed", key |-> u[2], sha |-> u[3]] \in Record
    BY <2>1 DEF Record, RecordStatus
  <2>3. \A s \in {"SKIPPED", "PENDING"} :
          NewRow(s, u[2], IF u[1] \in Previews THEN None ELSE u[3]) \in Row
    BY <2>1, NewRowType
  <2>4. [NoSession EXCEPT !.pc = "read"] \in Session
    BY NoSessionType DEF Session
  <2>5. record' \in [Files -> Record]
    BY <1>1, <2>1, <2>2 DEF Upload, TypeOK
  <2>6. object' \in [Keys -> Contents \cup {None}]
    BY <1>1, <2>1 DEF Upload, TypeOK
  <2>7. link' \in [Files -> Row]
    BY <1>1, <2>1, <2>3 DEF Upload, TypeOK
  <2>8. notify' \in [Files -> [NotifyKinds -> Session]]
    BY <1>1, <2>1, <2>4 DEF Upload, TypeOK, NotifyKinds
  <2> QED
    BY <1>1, <2>5, <2>6, <2>7, <2>8 DEF Upload, TypeOK, queue
<1>2. ASSUME NEW f \in Files, WritePreview(f)
      PROVE  TypeOK'
  <2>1. record[f].sha \in Contents
    BY DEF TypeOK, Record
  <2> QED
    BY <1>2, <2>1 DEF WritePreview, TypeOK, queue
<1>3. ASSUME NEW f \in Files, BackoffEnds(f)
      PROVE  TypeOK'
  <2>0. link[f] \in Row
    BY DEF TypeOK
  <2>1. [link[f] EXCEPT !.next = "past"] \in Row
    BY <2>0 DEF Row, NextAttempts
  <2> QED
    BY <1>3, <2>1 DEF BackoffEnds, TypeOK, queue
<1>4. ASSUME NEW f \in Files, MaxWaitPasses(f)
      PROVE  TypeOK'
  <2>0. link[f] \in Row
    BY DEF TypeOK
  <2>1. [link[f] EXCEPT !.aged = TRUE] \in Row
    BY <2>0 DEF Row
  <2> QED
    BY <1>4, <2>1 DEF MaxWaitPasses, TypeOK, queue
<1>5. ASSUME NEW id \in RagIds, RagFinishes(id)
      PROVE  TypeOK'
  <2>1. \A s \in {"ready", "error"} : [cards[id] EXCEPT !.status = s] \in Card
    BY DEF TypeOK, Card, CardStatus
  <2> QED
    BY <1>5, <2>1 DEF RagFinishes, TypeOK, queue
<1>6. CASE Crash
  BY <1>6, AbsentType, NoSessionType, NoRequestType, SpendType DEF Crash, TypeOK
<1> QED
  BY <1>1, <1>2, <1>3, <1>4, <1>5, <1>6

LEMMA StepType == TypeOK /\ [Next]_vars => TypeOK'
<1> SUFFICES ASSUME TypeOK, [Next]_vars PROVE TypeOK'
  OBVIOUS
<1>1. CASE UNCHANGED vars
  BY <1>1 DEF vars, queue, TypeOK
<1>2. CASE Next
  BY <1>2, TickType, NotifyType, RequestBeginsType, RequestStepType, OtherType DEF Next
<1> QED
  BY <1>1, <1>2

(* Every step of every actor leaves the tables, the bucket, RAG's cards and  *)
(* the open sessions well formed, and the tick only works on rows it holds   *)
(* (IndexSyncJob.run, notify_index_links and the request hooks).            *)
THEOREM TypeCorrect == Spec => []TypeOK
<1>1. Init => TypeOK
  BY InitType
<1>2. TypeOK /\ [Next]_vars => TypeOK'
  BY StepType
<1> QED
  BY <1>1, <1>2, PTL DEF Spec

-----------------------------------------------------------------------------
(* Ids in the table were issued by RAG. The invariant holds for the tick's   *)
(* copies of the rows as well, and bounds what an open notify may still      *)
(* write: its decision was taken on a row that is not INDEXED, and its patch *)
(* never clears an id. Patches of requests are computed at their commit and  *)
(* never touch the id, so nothing need be kept about them.                  *)

Issued(c, id) == c[id].status # "unused"

RowIssued(c, row) ==
    /\ row.rag \in RagIds => Issued(c, row.rag)
    /\ row.state = "INDEXED" => row.rag \in RagIds

(* What a session that does not hold the row may write over any row. *)
BlindPatch(c, p) ==
    /\ p.rag \in RagIds => Issued(c, p.rag)
    /\ p.rag # None
    /\ p.state # "INDEXED"

(* What the tick may write over the row it has processed. *)
TickPatch(c, row, p) ==
    /\ p.rag \in RagIds => Issued(c, p.rag)
    /\ p.rag = None => row.state = "REINDEX_PENDING" /\ p.state = Unset
    /\ p.state = "INDEXED" => p.rag \in RagIds

IndexedInv ==
    /\ \A f \in Files : RowIssued(cards, link[f]) /\ RowIssued(cards, work[f])
    /\ \A f \in Files, k \in NotifyKinds :
          /\ notify[f][k].pc = "call" => ShouldNotify(notify[f][k].snap)
          /\ BlindPatch(cards, notify[f][k].patch)

(* An id once issued stays issued. *)
StillIssued(c) == \A id \in RagIds : Issued(cards, id) => Issued(c, id)

LEMMA UnsetDiffers == Unset \notin RagIds /\ Unset # None /\ Unset # "INDEXED"
BY LinkAssumption DEF IndexLinkState

LEMMA KeepBlind == \A c : BlindPatch(c, Keep)
BY UnsetDiffers DEF BlindPatch, Keep

LEMMA FailuresBlind ==
  ASSUME NEW c, NEW row
  PROVE  /\ BlindPatch(c, FailPatch)
         /\ BlindPatch(c, SkipPatch)
         /\ BlindPatch(c, RetryPatch(row))
         /\ BlindPatch(c, MissPreviewPatch(row))
         /\ BlindPatch(c, PollAgainPatch)
         /\ BlindPatch(c, ContentChangedPatch)
         /\ \A s \in {"REMOVED", "ARCHIVED"} : BlindPatch(c, SettlePatch(s))
BY UnsetDiffers DEF BlindPatch, FailPatch, SkipPatch, RetryPatch, MissPreviewPatch,
                    PollAgainPatch, ContentChangedPatch, SettlePatch, Keep

LEMMA BlindIsTick ==
  ASSUME NEW c, NEW row, NEW p, BlindPatch(c, p)
  PROVE  TickPatch(c, row, p)
BY DEF BlindPatch, TickPatch

LEMMA CardsIssued ==
  ASSUME TypeOK
  PROVE  /\ StillIssued(cards)
         /\ \A id : StillIssued(Deleted(id))
         /\ \A f, id, k, h : StillIssued(Registered(f, id, k, h))
         /\ \A id \in RagIds : \A k : StillIssued([cards EXCEPT ![id].key = k])
<1>1. cards \in [RagIds -> Card]
  BY DEF TypeOK
<1>2. \A id : StillIssued(Deleted(id))
  BY <1>1 DEF StillIssued, Issued, Deleted, Live, Serves, Card
<1>3. \A f, id, k, h : StillIssued(Registered(f, id, k, h))
  BY <1>1 DEF StillIssued, Issued, Registered
<1>4. \A id \in RagIds : \A k : StillIssued([cards EXCEPT ![id].key = k])
  BY <1>1 DEF StillIssued, Issued, Card
<1> QED
  BY <1>2, <1>3, <1>4 DEF StillIssued

LEMMA CallFaultsBlind ==
  ASSUME TypeOK, NEW row, NEW p, NEW after,
         \A c : BlindPatch(c, p), StillIssued(after),
         NEW o \in CallFaults(row, p, after)
  PROVE  BlindPatch(o.cards, o.patch) /\ StillIssued(o.cards)
BY FailuresBlind, KeepBlind, CardsIssued DEF CallFaults, Faulted

LEMMA RegisterBlind ==
  ASSUME TypeOK, NEW f \in Files, NEW row \in Row, NEW o \in Register(f, row)
  PROVE  BlindPatch(o.cards, o.patch) /\ StillIssued(o.cards)
<1> DEFINE h == IF row.sha = None THEN object[row.key] ELSE row.sha
<1>1. \A p : BlindPatch(cards, p) =>
        /\ BlindPatch(Answered(p, cards).cards, Answered(p, cards).patch)
        /\ StillIssued(Answered(p, cards).cards)
  BY CardsIssued DEF Answered
<1>2. \A c : BlindPatch(c, FailPatch)
  BY FailuresBlind
<1>3. ASSUME NEW id \in DuplicatesOf(row.key, h)
      PROVE  BlindPatch(cards, Adopt(row, id, h))
  <2>1. id \in RagIds /\ Issued(cards, id)
    BY DEF DuplicatesOf, Live, Serves, Issued
  <2> QED
    BY <1>2, <2>1, LinkAssumption DEF Adopt, SucceedPatch, BlindPatch
<1>4. ASSUME NEW id \in FreshIds, o \in SendManifest(f, row, h, id)
      PROVE  BlindPatch(o.cards, o.patch) /\ StillIssued(o.cards)
  <2> DEFINE after == Registered(f, id, row.key, h)
  <2>1. id \in RagIds /\ Issued(after, id) /\ StillIssued(after)
    BY CardsIssued DEF FreshIds, Registered, Issued, TypeOK
  <2>2. BlindPatch(after, SucceedPatch("SUBMITTED", id, HashUpdate(row, h)))
    BY <2>1, LinkAssumption DEF BlindPatch, SucceedPatch
  <2> QED
    BY <1>2, <1>4, <2>1, <2>2, CallFaultsBlind DEF SendManifest, Answered
<1> HIDE DEF h
<1>5. \/ Register(f, row) = {Answered(SkipPatch, cards)}
      \/ Register(f, row) = {Answered(MissPreviewPatch(row), cards)}
      \/ Register(f, row) = {Answered(FailPatch, cards)}
      \/ Register(f, row) =
           {Answered(Adopt(row, id, h), cards) : id \in DuplicatesOf(row.key, h)}
             \cup CallFaults(row, FailPatch, cards)
      \/ Register(f, row) = UNION {SendManifest(f, row, h, id) : id \in FreshIds}
  BY Zenon DEF Register, h
<1> QED
  BY <1>1, <1>2, <1>3, <1>4, <1>5, FailuresBlind, CallFaultsBlind, CardsIssued

LEMMA RemoveBlind ==
  ASSUME TypeOK, NEW row \in Row, row.state \in {"REMOVED", "ARCHIVED"},
         NEW o \in Remove(row)
  PROVE  BlindPatch(o.cards, o.patch) /\ StillIssued(o.cards)
<1>1. \A c : BlindPatch(c, SettlePatch(row.state)) /\ BlindPatch(c, RetryPatch(row))
  BY FailuresBlind
<1>2. StillIssued(cards) /\ StillIssued(Deleted(row.rag))
  BY CardsIssued
<1>3. o \in CallFaults(row, RetryPatch(row), Deleted(row.rag))
        => BlindPatch(o.cards, o.patch) /\ StillIssued(o.cards)
  BY <1>1, <1>2, CallFaultsBlind
<1> QED
  BY <1>1, <1>2, <1>3 DEF Remove, Answered

LEMMA PollIssued ==
  ASSUME TypeOK, NEW row \in Row, RowIssued(cards, row), row.rag # None, NEW o \in Poll(row)
  PROVE  TickPatch(o.cards, row, o.patch) /\ StillIssued(o.cards)
<1>1. row.rag \in RagIds /\ Issued(cards, row.rag)
  BY DEF Row, RowIssued
<1>2. \A p : TickPatch(cards, row, p) =>
        TickPatch(Answered(p, cards).cards, row, Answered(p, cards).patch)
        /\ StillIssued(Answered(p, cards).cards)
  BY CardsIssued DEF Answered
<1>3. /\ TickPatch(cards, row, SettlePatch("REMOVED"))
      /\ TickPatch(cards, row, FailPatch)
      /\ TickPatch(cards, row, PollAgainPatch)
  BY FailuresBlind, BlindIsTick
<1>4. TickPatch(cards, row, SucceedPatch("INDEXED", row.rag, Unset))
  BY <1>1, LinkAssumption DEF TickPatch, SucceedPatch
<1>5. o \in CallFaults(row, FailPatch, cards)
        => TickPatch(o.cards, row, o.patch) /\ StillIssued(o.cards)
  BY FailuresBlind, CardsIssued, CallFaultsBlind, BlindIsTick
<1>6. Live(row.rag) => cards[row.rag].status \in {"ready", "error", "processing"}
  BY DEF Live, Serves
<1>7. row.aged \in BOOLEAN
  BY DEF Row
<1>8. \/ o = Answered(SettlePatch("REMOVED"), cards)
      \/ o = Answered(SucceedPatch("INDEXED", row.rag, Unset), cards)
      \/ o = Answered(FailPatch, cards)
      \/ o = Answered(PollAgainPatch, cards)
      \/ o \in CallFaults(row, FailPatch, cards)
  BY <1>6, <1>7 DEF Poll
<1> QED
  BY <1>2, <1>3, <1>4, <1>5, <1>8

LEMMA RekeyIssued ==
  ASSUME TypeOK, NEW f, NEW row \in Row, RowIssued(cards, row), row.rag # None,
         NEW o \in Rekey(f, row)
  PROVE  TickPatch(o.cards, row, o.patch) /\ StillIssued(o.cards)
<1> DEFINE h == IF row.sha = None THEN object[row.key] ELSE row.sha
<1> DEFINE after == [cards EXCEPT ![row.rag].key = row.key]
<1>1. row.rag \in RagIds /\ Issued(cards, row.rag)
  BY DEF Row, RowIssued
<1>2. StillIssued(cards) /\ StillIssued(after)
  BY <1>1, CardsIssued
<1>3. Issued(after, row.rag)
  BY <1>1, <1>2 DEF StillIssued
<1> HIDE DEF h, after
<1>4. TickPatch(after, row, Rekeyed(row, h))
  BY <1>1, <1>3, LinkAssumption DEF Rekeyed, SucceedPatch, TickPatch
<1>5. \A p \in {MissPreviewPatch(row), FailPatch, ContentChangedPatch} :
        BlindPatch(cards, p) /\ TickPatch(cards, row, p)
  BY FailuresBlind, BlindIsTick
<1>6. \A c \in {cards, after} : o \in CallFaults(row, FailPatch, c)
        => TickPatch(o.cards, row, o.patch) /\ StillIssued(o.cards)
  BY <1>2, FailuresBlind, CallFaultsBlind, BlindIsTick
<1>7. \/ o \in {Answered(MissPreviewPatch(row), cards), Answered(FailPatch, cards),
                  Continues(ContentChangedPatch, cards), Answered(Rekeyed(row, h), after)}
      \/ o \in CallFaults(row, FailPatch, after)
      \/ o \in CallFaults(row, FailPatch, cards)
  BY DEF Rekey, h, after
<1> QED
  BY <1>2, <1>4, <1>5, <1>6, <1>7 DEF Answered, Continues

LEMMA DeleteForReindexIssued ==
  ASSUME TypeOK, NEW row \in Row, row.state = "REINDEX_PENDING", NEW o \in DeleteForReindex(row)
  PROVE  TickPatch(o.cards, row, o.patch) /\ StillIssued(o.cards)
<1>1. StillIssued(Deleted(row.rag))
  BY CardsIssued
<1>2. TickPatch(Deleted(row.rag), row, ClearRagPatch)
  BY LinkAssumption, UnsetDiffers DEF TickPatch, ClearRagPatch, Keep
<1>3. o \in CallFaults(row, FailPatch, Deleted(row.rag))
        => TickPatch(o.cards, row, o.patch) /\ StillIssued(o.cards)
  BY <1>1, FailuresBlind, CallFaultsBlind, BlindIsTick
<1> QED
  BY <1>1, <1>2, <1>3 DEF DeleteForReindex, Continues

LEMMA ProcessIssued ==
  ASSUME TypeOK, NEW f \in Files, NEW row \in Row, RowIssued(cards, row),
         NEW o \in Process(f, row)
  PROVE  TickPatch(o.cards, row, o.patch) /\ StillIssued(o.cards)
BY ProcessCases, PollIssued, RegisterBlind, RemoveBlind, DeleteForReindexIssued,
   RekeyIssued, BlindIsTick

(* A notify only registers or removes. *)
LEMMA NotifyBlind ==
  ASSUME TypeOK, NEW f \in Files, NEW row \in Row, ShouldNotify(row),
         NEW o \in Process(f, row)
  PROVE  BlindPatch(o.cards, o.patch) /\ StillIssued(o.cards)
BY ProcessCases, RegisterBlind, RemoveBlind DEF ShouldNotify

LEMMA RequestsBlind ==
  ASSUME NEW c, NEW r
  PROVE  BlindPatch(c, RequestPatch(r))
BY UnsetDiffers DEF RequestPatch, MarkRekey, MarkContentChanged, MarkRemoved, MarkArchived,
                    MarkRetried, Keep, BlindPatch

LEMMA FlushBlind ==
  ASSUME NEW c, NEW stored \in Row, NEW loaded \in Row, NEW p \in Patch,
         RowIssued(c, stored), BlindPatch(c, p)
  PROVE  RowIssued(c, Flush(stored, loaded, p))
BY DEF Flush, Written, RowIssued, BlindPatch, Row, Patch

LEMMA FlushTick ==
  ASSUME NEW c, NEW row \in Row, NEW p \in Patch, RowIssued(c, row), TickPatch(c, row, p)
  PROVE  RowIssued(c, Flush(row, row, p))
<1> DEFINE new == Flush(row, row, p)
<1>1. new.rag = (IF p.rag = Unset THEN row.rag ELSE p.rag)
      /\ new.state = (IF p.state = Unset THEN row.state ELSE p.state)
  BY DEF Flush, Written
<1>2. row.rag \in RagIds \cup {None} /\ p.rag \in RagIds \cup {None, Unset}
  BY DEF Row, Patch
<1> HIDE DEF new
<1>3. new.rag \in RagIds => Issued(c, new.rag)
  BY <1>1 DEF RowIssued, TickPatch
<1>4. new.state = "INDEXED" => new.rag \in RagIds
  BY <1>1, <1>2, UnsetDiffers DEF RowIssued, TickPatch
<1> QED
  BY <1>3, <1>4 DEF RowIssued, new

LEMMA FreshRowsIssued ==
  ASSUME NEW c
  PROVE  /\ RowIssued(c, Absent)
         /\ \A s \in {"PENDING", "SKIPPED"} : \A k, h : RowIssued(c, NewRow(s, k, h))
BY LinkAssumption DEF RowIssued, NewRow, Absent

LEMMA SessionsIssued ==
  ASSUME NEW c
  PROVE  BlindPatch(c, NoSession.patch) /\ NoSession.pc = "off"
BY KeepBlind DEF NoSession

(* What holds of the cards as they were holds of them after any step. *)
LEMMA IssuedLater ==
  ASSUME NEW c, StillIssued(c)
  PROVE  /\ \A row : RowIssued(cards, row) => RowIssued(c, row)
         /\ \A p : BlindPatch(cards, p) => BlindPatch(c, p)
BY DEF StillIssued, RowIssued, BlindPatch

LEMMA IndexedInit == Init => IndexedInv
BY FreshRowsIssued, SessionsIssued DEF Init, IndexedInv

LEMMA TickIssued ==
  ASSUME TypeOK, IndexedInv, Tick
  PROVE  IndexedInv'
<1>1. CASE TickClaim
  BY <1>1, FreshRowsIssued DEF TickClaim, IndexedInv
<1>2. ASSUME NEW f \in Files, TickCall(f)
      PROVE  IndexedInv'
  <2>1. PICK o \in Process(f, work[f]) :
          /\ cards' = IF broken THEN WithoutSession(o.cards) ELSE o.cards
          /\ broken' = (broken \/ IdTaken(f, o.patch.rag))
          /\ work' = IF broken' THEN work
                     ELSE [work EXCEPT ![f] = Flush(@, @, o.patch)]
    BY <1>2 DEF TickCall
  <2>2. work[f] \in Row /\ RowIssued(cards, work[f])
    BY DEF TypeOK, IndexedInv
  <2>3. TickPatch(o.cards, work[f], o.patch) /\ StillIssued(o.cards)
    BY <2>1, <2>2, ProcessIssued
  <2>4. o.patch \in Patch
    <3>1. o \in Outcome
      BY <2>1, <2>2, ProcessType
    <3> QED
      BY <3>1 DEF Outcome
  <2>5. StillIssued(cards')
    BY <2>1, <2>3, CardsIssued DEF WithoutSession
  <2>6. UNCHANGED <<link, notify>>
    BY <1>2 DEF TickCall
  <2>7. ASSUME NEW g \in Files
        PROVE  RowIssued(cards', work'[g])
    <3>1. CASE broken' \/ g # f
      <4>1. work'[g] = work[g]
        BY <2>1, <3>1 DEF TypeOK
      <4> QED
        BY <2>5, <4>1, IssuedLater DEF IndexedInv
    <3>2. CASE ~broken' /\ g = f
      <4>1. cards' = o.cards /\ work'[g] = Flush(work[f], work[f], o.patch)
        BY <2>1, <3>2 DEF TypeOK
      <4>2. RowIssued(o.cards, work[f])
        BY <2>2, <2>3, IssuedLater
      <4> QED
        BY <2>2, <2>3, <2>4, <4>1, <4>2, FlushTick
    <3> QED
      BY <3>1, <3>2
  <2> QED
    BY <2>5, <2>6, <2>7, IssuedLater DEF IndexedInv
<1>3. CASE TickCommit
  BY <1>3, FreshRowsIssued DEF TickCommit, IndexedInv, Seen
<1> QED
  BY <1>1, <1>2, <1>3 DEF Tick

LEMMA NotifyIssued ==
  ASSUME TypeOK, IndexedInv, NEW f \in Files, NEW k \in NotifyKinds, Notify(f, k)
  PROVE  IndexedInv'
<1> DEFINE s == notify[f][k]
<1>1. /\ s \in Session /\ BlindPatch(cards, s.patch) /\ link[f] \in Row
      /\ RowIssued(cards, link[f])
      /\ s.pc = "call" => ShouldNotify(s.snap)
  BY DEF TypeOK, IndexedInv
<1>2. ASSUME NEW t \in Session, SetSession(f, k, t), BlindPatch(cards', t.patch),
             t.pc = "call" => ShouldNotify(t.snap), StillIssued(cards')
      PROVE  \A g \in Files, j \in NotifyKinds :
                /\ notify'[g][j].pc = "call" => ShouldNotify(notify'[g][j].snap)
                /\ BlindPatch(cards', notify'[g][j].patch)
  <2> SUFFICES ASSUME NEW g \in Files, NEW j \in NotifyKinds
               PROVE  /\ notify'[g][j].pc = "call" => ShouldNotify(notify'[g][j].snap)
                      /\ BlindPatch(cards', notify'[g][j].patch)
    OBVIOUS
  <2>1. CASE g = f /\ j = k
    <3>1. notify'[g][j] = t
      BY <1>2, <2>1 DEF SetSession, TypeOK
    <3> QED
      BY <1>2, <3>1
  <2>2. CASE ~(g = f /\ j = k)
    <3>1. notify'[g][j] = notify[g][j]
      BY <1>2, <2>2 DEF SetSession, TypeOK
    <3> QED
      BY <1>2, <3>1, IssuedLater DEF IndexedInv
  <2> QED
    BY <2>1, <2>2
<1>3. NoSession \in Session /\ NoSession.pc = "off" /\ BlindPatch(cards, NoSession.patch)
  BY NoSessionType, SessionsIssued
<1>4. CASE NotifyRead(f, k)
  <2> DEFINE t == IF ShouldNotify(link[f])
                  THEN [NoSession EXCEPT !.pc = "call", !.snap = link[f]]
                  ELSE NoSession
  <2>1. t \in Session /\ BlindPatch(cards, t.patch) /\ (t.pc = "call" => ShouldNotify(t.snap))
    BY <1>1, <1>3 DEF Session
  <2>2. UNCHANGED <<link, work, cards>> /\ SetSession(f, k, t)
    BY <1>4 DEF NotifyRead, queue
  <2>3. StillIssued(cards')
    BY <2>2, CardsIssued
  <2> HIDE DEF t
  <2> QED
    BY <1>2, <2>1, <2>2, <2>3 DEF IndexedInv
<1>5. CASE NotifyCall(f, k)
  <2>1. PICK o \in Process(f, s.snap) :
          /\ cards' = o.cards
          /\ SetSession(f, k, IF o.patch = Keep THEN NoSession
                              ELSE [NoSession EXCEPT !.pc = "select", !.patch = o.patch])
    BY <1>5 DEF NotifyCall
  <2> DEFINE t == IF o.patch = Keep THEN NoSession
                  ELSE [NoSession EXCEPT !.pc = "select", !.patch = o.patch]
  <2>2. s.snap \in Row /\ ShouldNotify(s.snap)
    BY <1>1, <1>5 DEF Session, NotifyCall
  <2>3. BlindPatch(cards', o.patch) /\ StillIssued(cards')
    BY <2>1, <2>2, NotifyBlind
  <2>4. o.patch \in Patch
    <3>1. o \in Outcome
      BY <2>1, <2>2, ProcessType
    <3> QED
      BY <3>1 DEF Outcome
  <2>5. t \in Session /\ BlindPatch(cards', t.patch) /\ t.pc # "call"
    <3>1. CASE o.patch = Keep
      BY <3>1, <1>3, SessionsIssued
    <3>2. CASE o.patch # Keep
      <4>1. t = [pc |-> "select", snap |-> Absent, base |-> Absent, patch |-> o.patch]
        BY <3>2 DEF NoSession
      <4> HIDE DEF t
      <4> QED
        BY <4>1, <2>3, <2>4, AbsentType DEF Session
    <3> QED
      BY <3>1, <3>2
  <2>6. UNCHANGED <<link, work>> /\ SetSession(f, k, t)
    BY <1>5, <2>1 DEF NotifyCall, queue
  <2> HIDE DEF t
  <2>7. \A g \in Files : RowIssued(cards', link'[g]) /\ RowIssued(cards', work'[g])
    BY <2>3, <2>6, IssuedLater DEF IndexedInv
  <2> QED
    BY <1>2, <2>3, <2>5, <2>6, <2>7 DEF IndexedInv
<1>6. CASE NotifySelect(f, k)
  <2> DEFINE t == [s EXCEPT !.pc = "write", !.base = link[f]]
  <2>1. t \in Session /\ BlindPatch(cards, t.patch) /\ t.pc # "call"
    BY <1>1 DEF Session
  <2>2. UNCHANGED <<link, work, cards>> /\ SetSession(f, k, t)
    BY <1>6 DEF NotifySelect, queue
  <2>3. StillIssued(cards')
    BY <2>2, CardsIssued
  <2> HIDE DEF t
  <2> QED
    BY <1>2, <2>1, <2>2, <2>3 DEF IndexedInv
<1>7. CASE NotifyWrite(f, k)
  <2>0. s.base \in Row /\ s.patch \in Patch
    BY <1>1 DEF Session
  <2>1. RowIssued(cards, Flush(link[f], s.base, s.patch))
    BY <1>1, <2>0, FlushBlind
  <2>2. UNCHANGED <<work, cards>> /\ SetSession(f, k, NoSession)
    BY <1>7 DEF NotifyWrite, queue
  <2>3. \/ link' = link
        \/ link' = [link EXCEPT ![f] = Flush(@, s.base, s.patch)]
    BY <1>7 DEF NotifyWrite
  <2>4. \A g \in Files : RowIssued(cards, link'[g])
    BY <2>1, <2>3 DEF IndexedInv, TypeOK
  <2>5. StillIssued(cards')
    BY <2>2, CardsIssued
  <2> QED
    BY <1>2, <1>3, <2>2, <2>4, <2>5 DEF IndexedInv
<1> QED
  BY <1>4, <1>5, <1>6, <1>7 DEF Notify

(* A commit that starts a notify leaves the other sessions alone. *)
LEMMA NotifyStarts ==
  ASSUME TypeOK, IndexedInv, NEW f \in Files, NEW k \in NotifyKinds,
         \/ notify' = [notify EXCEPT ![f][k] = [NoSession EXCEPT !.pc = "read"]]
         \/ notify' = notify
  PROVE  \A g \in Files, j \in NotifyKinds :
           /\ notify'[g][j].pc = "call" => ShouldNotify(notify'[g][j].snap)
           /\ BlindPatch(cards, notify'[g][j].patch)
<1> DEFINE t == [NoSession EXCEPT !.pc = "read"]
<1>1. t.pc = "read" /\ BlindPatch(cards, t.patch)
  BY KeepBlind DEF NoSession
<1> HIDE DEF t
<1>2. ASSUME NEW g \in Files, NEW j \in NotifyKinds
      PROVE  notify'[g][j] \in {notify[g][j], t}
  <2>1. CASE g = f
    <3>1. notify'[g] \in {notify[g], [notify[g] EXCEPT ![k] = t]}
      BY <2>1 DEF TypeOK, t
    <3> QED
      BY <3>1 DEF TypeOK
  <2>2. CASE g # f
    BY <2>2 DEF TypeOK
  <2> QED
    BY <2>1, <2>2
<1> QED
  BY <1>1, <1>2 DEF IndexedInv

LEMMA RequestsIssued ==
  ASSUME TypeOK, IndexedInv, NEW f \in Files, RequestBegins(f) \/ RequestStep(f)
  PROVE  IndexedInv'
<1>1. CASE RequestBegins(f)
  <2>1. UNCHANGED <<link, work, cards, notify>>
    BY <1>1 DEF RequestBegins, RenameBegin, OverwriteBegin, DeleteBegin, ArchiveBegin,
                RetryBegin, BackfillBegin, Begin, queue
  <2> QED
    BY <2>1 DEF IndexedInv
<1>2. CASE RequestLoad(f) \/ \E role \in Roles : RequestAbort(f, role)
  <2>1. UNCHANGED <<link, work, cards, notify>>
    BY <1>2 DEF RequestLoad, RequestAbort, queue
  <2> QED
    BY <2>1 DEF IndexedInv
<1>3. ASSUME NEW role \in Roles, RequestCommit(f, role)
      PROVE  IndexedInv'
  <2> DEFINE r == request[f][role]
  <2>1. r.base \in Row /\ RequestPatch(r) \in Patch /\ link[f] \in Row
    BY RequestPatchType DEF TypeOK, Request
  <2>2. RowIssued(cards, Flush(link[f], r.base, RequestPatch(r)))
    BY <2>1, FlushBlind, RequestsBlind DEF IndexedInv
  <2>3. RowIssued(cards, BackfilledRow(f, r.rec))
    BY FreshRowsIssued DEF BackfilledRow
  <2>4. \/ link' = [link EXCEPT ![f] = BackfilledRow(f, r.rec)]
        \/ link' = [link EXCEPT ![f] = Flush(@, r.base, RequestPatch(r))]
        \/ link' = link
    BY <1>3, Zenon DEF RequestCommit
  <2>5. UNCHANGED <<work, cards>>
    BY <1>3 DEF RequestCommit, queue
  <2>6. \/ notify' = [notify EXCEPT ![f]["delete"] = [NoSession EXCEPT !.pc = "read"]]
        \/ notify' = notify
    BY <1>3 DEF RequestCommit
  <2>7. \A g \in Files : RowIssued(cards, link'[g])
    BY <2>2, <2>3, <2>4 DEF IndexedInv, TypeOK
  <2>8. \A g \in Files, k \in NotifyKinds :
          /\ notify'[g][k].pc = "call" => ShouldNotify(notify'[g][k].snap)
          /\ BlindPatch(cards, notify'[g][k].patch)
    BY <2>6, NotifyStarts DEF NotifyKinds
  <2> QED
    BY <2>5, <2>7, <2>8 DEF IndexedInv
<1> QED
  BY <1>1, <1>2, <1>3 DEF RequestStep

LEMMA OtherIssued ==
  ASSUME TypeOK, IndexedInv,
         \/ \E u \in Uploads : Upload(u)
         \/ \E f \in Files : WritePreview(f) \/ BackoffEnds(f) \/ MaxWaitPasses(f)
         \/ \E id \in RagIds : RagFinishes(id)
         \/ Crash
  PROVE  IndexedInv'
<1>1. ASSUME NEW u \in Uploads, Upload(u)
      PROVE  IndexedInv'
  <2>0. u[1] \in Files
    BY QueueAssumption
  <2>1. \A s \in {"SKIPPED", "PENDING"} : \A k, h : RowIssued(cards, NewRow(s, k, h))
    BY FreshRowsIssued
  <2>2. \E s \in {"SKIPPED", "PENDING"} : \E k, h :
          link' = [link EXCEPT ![u[1]] = NewRow(s, k, h)]
    BY <1>1 DEF Upload
  <2>3. \A g \in Files : RowIssued(cards, link'[g])
    BY <2>1, <2>2 DEF IndexedInv, TypeOK
  <2>4. \/ notify' = [notify EXCEPT ![u[1]]["create"] = [NoSession EXCEPT !.pc = "read"]]
        \/ notify' = notify
    BY <1>1 DEF Upload
  <2>5. \A g \in Files, k \in NotifyKinds :
          /\ notify'[g][k].pc = "call" => ShouldNotify(notify'[g][k].snap)
          /\ BlindPatch(cards, notify'[g][k].patch)
    BY <2>0, <2>4, NotifyStarts DEF NotifyKinds
  <2> QED
    BY <1>1, <2>3, <2>5 DEF Upload, IndexedInv, queue
<1>2. ASSUME NEW f \in Files, WritePreview(f)
      PROVE  IndexedInv'
  BY <1>2 DEF WritePreview, IndexedInv, queue
<1>3. ASSUME NEW f \in Files, BackoffEnds(f) \/ MaxWaitPasses(f)
      PROVE  IndexedInv'
  <2>0. \A g \in Files : link[g] \in Row /\ RowIssued(cards, link[g])
    BY DEF TypeOK, IndexedInv
  <2>1. \A g \in Files : link'[g].rag = link[g].rag /\ link'[g].state = link[g].state
    <3>1. \A g \in Files : link'[g] \in {link[g], [link[g] EXCEPT !.next = "past"],
                                                  [link[g] EXCEPT !.aged = TRUE]}
      BY <1>3 DEF BackoffEnds, MaxWaitPasses, TypeOK
    <3>2. \A row \in Row : /\ [row EXCEPT !.next = "past"].rag = row.rag
                           /\ [row EXCEPT !.next = "past"].state = row.state
                           /\ [row EXCEPT !.aged = TRUE].rag = row.rag
                           /\ [row EXCEPT !.aged = TRUE].state = row.state
      BY DEF Row
    <3> QED
      BY <2>0, <3>1, <3>2 DEF TypeOK
  <2>2. \A g \in Files : RowIssued(cards, link'[g])
    BY <2>0, <2>1 DEF RowIssued
  <2> QED
    BY <1>3, <2>2 DEF BackoffEnds, MaxWaitPasses, IndexedInv, queue
<1>4. ASSUME NEW id \in RagIds, RagFinishes(id)
      PROVE  IndexedInv'
  <2>1. StillIssued(cards')
    BY <1>4 DEF RagFinishes, StillIssued, Issued, TypeOK, Card
  <2> QED
    BY <1>4, <2>1, IssuedLater DEF RagFinishes, IndexedInv, queue
<1>5. CASE Crash
  BY <1>5, FreshRowsIssued, SessionsIssued DEF Crash, IndexedInv
<1> QED
  BY <1>1, <1>2, <1>3, <1>4, <1>5

LEMMA IndexedStep == TypeOK /\ IndexedInv /\ [Next]_vars => IndexedInv'
<1> SUFFICES ASSUME TypeOK, IndexedInv, [Next]_vars PROVE IndexedInv'
  OBVIOUS
<1>1. CASE UNCHANGED vars
  BY <1>1 DEF vars, queue, IndexedInv
<1>2. CASE Next
  BY <1>2, TickIssued, NotifyIssued, RequestsIssued, OtherIssued DEF Next
<1> QED
  BY <1>1, <1>2

LEMMA IndexedImplies == TypeOK /\ IndexedInv => IndexedIsRegistered
<1> SUFFICES ASSUME TypeOK, IndexedInv, NEW f \in Files
             PROVE  /\ link[f].rag # None => cards[link[f].rag].status # "unused"
                    /\ link[f].state = "INDEXED" => link[f].rag # None
  BY DEF IndexedIsRegistered
<1>1. link[f].rag \in RagIds \cup {None}
  BY DEF TypeOK, Row
<1> QED
  BY <1>1, LinkAssumption DEF IndexedInv, RowIssued, Issued

(* No interleaving of ticks, notifies and requests leaves an INDEXED row     *)
(* without an id, or a row with an id RAG never issued: the hand-written     *)
(* patches of sync_job.py and the stale updates of the request hooks and of  *)
(* notify_index_links all keep it.                                          *)
THEOREM IndexedAlwaysRegistered == Spec => []IndexedIsRegistered
<1>1. Init => TypeOK /\ IndexedInv
  BY InitType, IndexedInit
<1>2. TypeOK /\ IndexedInv /\ [Next]_vars => (TypeOK /\ IndexedInv)'
  BY StepType, IndexedStep
<1>3. TypeOK /\ IndexedInv => IndexedIsRegistered
  BY IndexedImplies
<1> QED
  BY <1>1, <1>2, <1>3, PTL DEF Spec
=============================================================================
