------------------------- MODULE IndexRefinementProofs -------------------------
(***************************************************************************)
(* What the queue keeps of a file that users rename, overwrite, archive and    *)
(* delete, for every number of files, ids and attempts and every batch size:  *)
(* a removal is settled only when the card is gone, what has left the library  *)
(* does not come back, no card is forgotten, and every step is a step of        *)
(* SearchIndex. Not so with the notify of an upload or with the requests of     *)
(* admins: UsersOnly leaves them out. Last, a file has one card at a time when  *)
(* nothing RAG has accepted is lost.                                         *)
(***************************************************************************)
EXTENDS IndexRefinement, IndexQueueProofs, FiniteSetTheorems

UsersOnly == "create" \notin Notifies /\ Operations \subseteq UserOperations

Gone(c, id) == id \in RagIds => c[id].status = "gone"
In(f) == record[f].status = "committed"
Out(f) == record[f].status \in {"deleted", "archived"}

OutStates == {"ABSENT", "REMOVED", "ARCHIVED", "FAILED"}
LeavingStates == {"REMOVED", "ARCHIVED"}
QueuedStates == {"PENDING", "SUBMITTED", "REINDEX_PENDING"}
ServedStates == {"SUBMITTED", "INDEXED"}

(* The committed row against the record and the cards.                       *)
LinkInv(f) ==
    /\ record[f].status = "none" => link[f] = Absent
    /\ In(f) => link[f].state \notin LeavingStates /\ link[f].next # "never"
    /\ Out(f) => link[f].state \in OutStates
    /\ link[f].state = "ABSENT" => link[f] = Absent
    /\ link[f].next = "never" => Gone(cards, link[f].rag)
    /\ link[f].state \in ServedStates => Live(link[f].rag)

(* The row of a file the tick holds: what it may be committed as. The id the   *)
(* table holds is given up only for a card that is gone.                      *)
ClaimInv(f) ==
    f \in claimed =>
        /\ Due(link[f])
        /\ work[f].state # "ABSENT"
        /\ In(f) => work[f].state \notin LeavingStates /\ work[f].next # "never"
        /\ Out(f) => /\ work[f].state \in LeavingStates \cup {"FAILED"}
                     /\ work[f].rag = link[f].rag
        /\ work[f].next = "never" => Gone(cards, work[f].rag)
        /\ work[f].state \in ServedStates => Live(work[f].rag)
        /\ work[f].rag # link[f].rag => Gone(cards, link[f].rag)
        /\ work[f].rag \notin {None, link[f].rag} => work[f].state = "SUBMITTED"

(* The rows the tick has still to call RAG about, with or without its locks:    *)
(* what it may do to a card is allowed by the table as it is by now.          *)
TodoInv(f) ==
    f \in todo =>
        /\ record[f].status # "none"
        /\ work[f].rag \in {None, link[f].rag}
        /\ work[f].state \in LeavingStates => Out(f)
        /\ In(f) => link[f].state \in QueuedStates
        /\ work[f].state # "SUBMITTED" => link[f].state \notin ServedStates

(* The notify of a delete has read a row that is to be removed, and it is for    *)
(* good: no other session makes anything else of it.                         *)
NotifyInv(f) ==
    /\ notify[f]["create"].pc = "off"
    /\ LET s == notify[f]["delete"]
       IN  s.pc # "off" =>
               /\ record[f].status = "deleted" /\ link[f].state # "ABSENT"
               /\ s.pc = "call" => s.snap.state = "REMOVED" /\ s.snap.rag = link[f].rag
               /\ s.patch.rag = Unset
               /\ s.patch.state \in {Unset, "REMOVED", "FAILED"}
               /\ s.patch.next = "never" => Gone(cards, link[f].rag)

(* A request knows the record it read, and whether there is a row.            *)
RequestInv(f) ==
    LET r == request[f]["user"]
    IN  /\ request[f]["admin"] = NoRequest
        /\ r.op # "none" => In(f) \/ Out(f)
        /\ r.op \in {"rename", "overwrite", "archive"} => In(f)
        /\ r.op \in {"rename", "overwrite"} => r.rec.status = "committed"
        /\ r.op = "archive" => r.rec.status = "archived"
        /\ r.op = "delete" => r.rec.status = "deleted" /\ record[f].status # "deleted"
        /\ r.pc # "idle" => r.op \in UserOperations
        /\ r.pc = "loaded" =>
              /\ Exists(r.base) <=> Exists(link[f])
              /\ In(f) => r.base.state \notin LeavingStates

FileInv(f) ==
    LinkInv(f) /\ ClaimInv(f) /\ TodoInv(f) /\ NotifyInv(f) /\ RequestInv(f)

(* No two files hold one id, in the table or in the tick's view of it.         *)
ApartInv ==
    \A f, g \in Files : f # g =>
        /\ link[f].rag # None => link[f].rag # link[g].rag
        /\ Seen(f).rag # None => Seen(f).rag # Seen(g).rag

QueueInv ==
    /\ broken => claimed = {}
    /\ ApartInv
    /\ \A f \in Files : FileInv(f)

Inv == TypeOK /\ IndexedInv /\ QueueInv

-----------------------------------------------------------------------------
(* What a call to RAG does to the cards: what is gone stays gone, a card is     *)
(* taken away only for the row that holds it, and a new one has a new id.      *)

Withdrawing(row) == row.state \in LeavingStates \cup {"REINDEX_PENDING"}

CardsMove(row, c) ==
    /\ \A id \in RagIds : cards[id].status = "gone" => c[id].status = "gone"
    /\ \A id : Live(id) => Serves(c, id) \/ (id = row.rag /\ Withdrawing(row))
    /\ \A id : Serves(c, id) => Live(id) \/ cards[id].status = "unused"

LEMMA CardsStay ==
  ASSUME NEW row
  PROVE  CardsMove(row, cards)
BY DEF CardsMove, Live

LEMMA DeletedMoves ==
  ASSUME TypeOK, NEW row, Withdrawing(row)
  PROVE  /\ CardsMove(row, Deleted(row.rag))
         /\ ~Serves(Deleted(row.rag), row.rag)
<1>1. cards \in [RagIds -> Card]
  BY DEF TypeOK
<1>2. CASE ~Live(row.rag)
  BY <1>2, CardsStay DEF Deleted, Live
<1>3. CASE Live(row.rag)
  <2>1. row.rag \in RagIds
    BY <1>3 DEF Live, Serves
  <2>2. /\ Deleted(row.rag)[row.rag].status = "gone"
        /\ \A id \in RagIds \ {row.rag} : Deleted(row.rag)[id] = cards[id]
    BY <1>1, <1>3, <2>1 DEF Deleted, Card
  <2> QED
    BY <1>3, <2>1, <2>2 DEF CardsMove, Live, Serves
<1> QED
  BY <1>2, <1>3

LEMMA RegisteredMoves ==
  ASSUME TypeOK, NEW row, NEW f, NEW id \in FreshIds, NEW k, NEW h
  PROVE  /\ CardsMove(row, Registered(f, id, k, h))
         /\ Serves(Registered(f, id, k, h), id)
<1> DEFINE c == Registered(f, id, k, h)
<1>1. cards \in [RagIds -> Card] /\ id \in RagIds /\ cards[id].status = "unused"
  BY DEF TypeOK, FreshIds
<1>2. c[id].status = "processing" /\ \A j \in RagIds \ {id} : c[j] = cards[j]
  BY <1>1 DEF Registered
<1> HIDE DEF c
<1>3. CardsMove(row, c) /\ Serves(c, id)
  BY <1>1, <1>2 DEF CardsMove, Live, Serves
<1> QED
  BY <1>3 DEF c

LEMMA RekeyedMoves ==
  ASSUME TypeOK, NEW row, NEW id \in RagIds, NEW k
  PROVE  /\ CardsMove(row, [cards EXCEPT ![id].key = k])
         /\ \A j : Live(j) => Serves([cards EXCEPT ![id].key = k], j)
<1> DEFINE c == [cards EXCEPT ![id].key = k]
<1>1. \A j \in RagIds : c[j].status = cards[j].status
  BY DEF TypeOK, Card
<1> HIDE DEF c
<1>2. CardsMove(row, c) /\ \A j : Live(j) => Serves(c, j)
  BY <1>1 DEF CardsMove, Live, Serves
<1> QED
  BY <1>2 DEF c

-----------------------------------------------------------------------------
(* What the row's handler may write.                                        *)

(* The row is given up, or left as it is for another try. *)
Quiet(p) ==
    p.rag = Unset /\ p.next # "never" /\ p.state \in {Unset, "FAILED", "SKIPPED"}

(* A card of the row is served from now on. *)
Attached(o) ==
    /\ o.patch.state = "SUBMITTED" /\ o.patch.next # "never"
    /\ o.patch.rag \in RagIds /\ Serves(o.cards, o.patch.rag)

ShownAs(row, o) ==
    /\ o.patch.state = "INDEXED" /\ o.patch.next # "never"
    /\ o.patch.rag = row.rag /\ row.rag \in RagIds /\ Serves(o.cards, row.rag)

ContentFirst(row, o) ==
    /\ row.state = "PENDING"
    /\ o.patch = ContentChangedPatch

Cleared(row, o) ==
    /\ row.state = "REINDEX_PENDING"
    /\ o.patch = ClearRagPatch
    /\ ~Serves(o.cards, row.rag)

QueuedOutcome(row, o) ==
    /\ \/ Quiet(o.patch)
       \/ row.rag = None /\ Attached(o)
       \/ ShownAs(row, o)
       \/ ContentFirst(row, o)
       \/ Cleared(row, o)
    /\ ~o.done => ContentFirst(row, o) \/ Cleared(row, o)

LeavingOutcome(row, o) ==
    /\ o.done
    /\ o.patch.rag = Unset
    /\ o.patch.state \in {Unset, "FAILED", row.state}
    /\ o.patch.next = "never" => ~Serves(o.cards, row.rag)

LEMMA QuietPatches ==
  ASSUME NEW row
  PROVE  /\ Quiet(FailPatch) /\ Quiet(SkipPatch) /\ Quiet(Keep)
         /\ Quiet(RetryPatch(row)) /\ Quiet(MissPreviewPatch(row)) /\ Quiet(PollAgainPatch)
         /\ RetryPatch(row).state \in {Unset, "FAILED"}
         /\ Keep.state = Unset
BY LinkAssumption DEF Quiet, FailPatch, SkipPatch, RetryPatch, MissPreviewPatch, PollAgainPatch, Keep,
     NextAttempts

LEMMA CallFaultsMove ==
  ASSUME TypeOK, NEW row, NEW p, NEW after, CardsMove(row, after),
         NEW o \in CallFaults(row, p, after)
  PROVE  /\ CardsMove(row, o.cards) /\ o.done
         /\ o.patch \in {RetryPatch(row), p, Keep}
         /\ o.cards \in {cards, after}
BY CardsStay DEF CallFaults, Faulted

LEMMA RegisterOutcome ==
  ASSUME TypeOK, NEW f \in Files, NEW row \in Row, NEW o \in Register(f, row)
  PROVE  CardsMove(row, o.cards) /\ o.done /\ (Quiet(o.patch) \/ Attached(o))
<1> DEFINE h == IF row.sha = None THEN object[row.key] ELSE row.sha
           Good(x) == CardsMove(row, x.cards) /\ x.done /\ (Quiet(x.patch) \/ Attached(x))
<1>1. \A p : Quiet(p) => Good(Answered(p, cards))
  BY CardsStay DEF Answered
<1>2. /\ Quiet(FailPatch) /\ Quiet(SkipPatch) /\ Quiet(MissPreviewPatch(row))
      /\ Quiet(RetryPatch(row)) /\ Quiet(Keep)
  BY QuietPatches
<1>3. \A after, x : CardsMove(row, after) /\ x \in CallFaults(row, FailPatch, after) => Good(x)
  <2> SUFFICES ASSUME NEW after, NEW x, CardsMove(row, after),
                      x \in CallFaults(row, FailPatch, after)
               PROVE  Good(x)
    OBVIOUS
  <2>1. CardsMove(row, x.cards) /\ x.done /\ x.patch \in {RetryPatch(row), FailPatch, Keep}
    BY CallFaultsMove
  <2> QED
    BY <1>2, <2>1
<1>4. ASSUME NEW id, NEW c, id \in RagIds, Serves(c, id), CardsMove(row, c)
      PROVE  Good(Answered(SucceedPatch("SUBMITTED", id, HashUpdate(row, h)), c))
  BY <1>4 DEF Answered, Attached, SucceedPatch
<1>5. ASSUME NEW id \in DuplicatesOf(row.key, h)
      PROVE  Good(Answered(Adopt(row, id, h), cards))
  <2>1. id \in RagIds /\ Serves(cards, id)
    BY DEF DuplicatesOf, Live
  <2>2. Good(Answered(SucceedPatch("SUBMITTED", id, HashUpdate(row, h)), cards))
    BY <1>4, <2>1, CardsStay
  <2> QED
    BY <1>1, <1>2, <2>2 DEF Adopt
<1>6. ASSUME NEW id \in FreshIds, NEW x \in SendManifest(f, row, h, id)
      PROVE  Good(x)
  <2> DEFINE after == Registered(f, id, row.key, h)
  <2>1. CardsMove(row, after) /\ Serves(after, id) /\ id \in RagIds
    BY RegisteredMoves DEF FreshIds
  <2>2. Good(Answered(SucceedPatch("SUBMITTED", id, HashUpdate(row, h)), after))
    BY <1>4, <2>1
  <2> QED
    BY <1>3, <2>1, <2>2 DEF SendManifest
<1>7. \/ o = Answered(SkipPatch, cards)
      \/ o = Answered(MissPreviewPatch(row), cards)
      \/ o = Answered(FailPatch, cards)
      \/ \E id \in DuplicatesOf(row.key, h) : o = Answered(Adopt(row, id, h), cards)
      \/ o \in CallFaults(row, FailPatch, cards)
      \/ \E id \in FreshIds : o \in SendManifest(f, row, h, id)
  <2> HIDE DEF h
  <2>1. \/ Register(f, row) = {Answered(SkipPatch, cards)}
        \/ Register(f, row) = {Answered(MissPreviewPatch(row), cards)}
        \/ Register(f, row) = {Answered(FailPatch, cards)}
        \/ Register(f, row) =
             {Answered(Adopt(row, id, h), cards) : id \in DuplicatesOf(row.key, h)}
               \cup CallFaults(row, FailPatch, cards)
        \/ Register(f, row) = UNION {SendManifest(f, row, h, id) : id \in FreshIds}
    BY Zenon DEF Register, h
  <2> QED
    BY <2>1
<1> HIDE DEF Good, h
<1>8. Good(o)
  BY <1>1, <1>2, <1>3, <1>5, <1>6, <1>7, CardsStay
<1> QED
  BY <1>8 DEF Good

(* A card that RAG serves is polled; it is not taken for gone.                *)
LEMMA PollOutcome ==
  ASSUME TypeOK, NEW row \in Row, row.rag # None, NEW o \in Poll(row)
  PROVE  /\ CardsMove(row, o.cards) /\ o.done
         /\ Live(row.rag) => Quiet(o.patch) \/ ShownAs(row, o)
<1>1. row.rag \in RagIds /\ row.aged \in BOOLEAN
  BY DEF Row
<1>2. Live(row.rag) => cards[row.rag].status \in {"processing", "ready", "error"}
  BY DEF Live, Serves
<1>3. \/ ~Live(row.rag) /\ o = Answered(SettlePatch("REMOVED"), cards)
      \/ o = Answered(SucceedPatch("INDEXED", row.rag, Unset), cards)
      \/ o = Answered(FailPatch, cards)
      \/ o = Answered(PollAgainPatch, cards)
      \/ o \in CallFaults(row, FailPatch, cards)
  BY <1>1, <1>2 DEF Poll
<1>4. ASSUME NEW p, Quiet(p), o = Answered(p, cards)
      PROVE  CardsMove(row, o.cards) /\ o.done /\ Quiet(o.patch)
  BY <1>4, CardsStay DEF Answered
<1>5. CASE o = Answered(SucceedPatch("INDEXED", row.rag, Unset), cards)
  BY <1>1, <1>5, CardsStay DEF Answered, SucceedPatch, ShownAs, Live
<1>6. CASE o \in CallFaults(row, FailPatch, cards)
  <2>1. CardsMove(row, o.cards) /\ o.done /\ o.patch \in {RetryPatch(row), FailPatch, Keep}
    BY <1>6, CallFaultsMove, CardsStay
  <2> QED
    BY <2>1, QuietPatches
<1>7. CASE ~Live(row.rag) /\ o = Answered(SettlePatch("REMOVED"), cards)
  BY <1>7, CardsStay DEF Answered
<1> QED
  BY <1>3, <1>4, <1>5, <1>6, <1>7, QuietPatches

LEMMA RekeyOutcome ==
  ASSUME TypeOK, NEW f \in Files, NEW row \in Row, row.state = "PENDING", row.rag # None,
         NEW o \in Rekey(f, row)
  PROVE  CardsMove(row, o.cards) /\ QueuedOutcome(row, o)
<1> DEFINE h == IF row.sha = None THEN object[row.key] ELSE row.sha
           after == [cards EXCEPT ![row.rag].key = row.key]
<1>1. row.rag \in RagIds
  BY DEF Row
<1>2. CardsMove(row, after) /\ \A j : Live(j) => Serves(after, j)
  BY <1>1, RekeyedMoves
<1>3. \/ o = Answered(MissPreviewPatch(row), cards)
      \/ o = Answered(FailPatch, cards)
      \/ o = Continues(ContentChangedPatch, cards)
      \/ Live(row.rag) /\ o = Answered(Rekeyed(row, h), after)
      \/ o \in CallFaults(row, FailPatch, after)
      \/ o \in CallFaults(row, FailPatch, cards)
  <2> HIDE DEF h, after
  <2>1. o \in (IF object[row.key] = None
               THEN {Answered(IF f \in Previews /\ row.sha = None
                              THEN MissPreviewPatch(row) ELSE FailPatch, cards)}
               ELSE (IF ~Live(row.rag)
                     THEN {Answered(FailPatch, cards)}
                     ELSE IF cards[row.rag].sha # h
                     THEN {Continues(ContentChangedPatch, cards)}
                     ELSE {Answered(Rekeyed(row, h), after)})
                    \cup CallFaults(row, FailPatch,
                           IF Live(row.rag) /\ cards[row.rag].sha = h THEN after ELSE cards))
    BY DEF Rekey, h, after
  <2> QED
    BY <2>1
<1> HIDE DEF after, h
<1>4. ASSUME NEW p, Quiet(p), o = Answered(p, cards)
      PROVE  CardsMove(row, o.cards) /\ QueuedOutcome(row, o)
  BY <1>4, CardsStay DEF Answered, QueuedOutcome
<1>5. CASE o = Continues(ContentChangedPatch, cards)
  BY <1>5, CardsStay DEF Continues, QueuedOutcome, ContentFirst
<1>6. CASE Live(row.rag) /\ o = Answered(Rekeyed(row, h), after)
  BY <1>1, <1>2, <1>6 DEF Answered, Rekeyed, SucceedPatch, ShownAs, QueuedOutcome
<1>7. ASSUME NEW c, CardsMove(row, c), o \in CallFaults(row, FailPatch, c)
      PROVE  CardsMove(row, o.cards) /\ QueuedOutcome(row, o)
  <2>1. CardsMove(row, o.cards) /\ o.done /\ o.patch \in {RetryPatch(row), FailPatch, Keep}
    BY <1>7, CallFaultsMove
  <2> QED
    BY <2>1, QuietPatches DEF QueuedOutcome
<1> QED
  BY <1>2, <1>3, <1>4, <1>5, <1>6, <1>7, QuietPatches, CardsStay

LEMMA DeleteForReindexOutcome ==
  ASSUME TypeOK, NEW row \in Row, row.state = "REINDEX_PENDING", NEW o \in DeleteForReindex(row)
  PROVE  CardsMove(row, o.cards) /\ QueuedOutcome(row, o)
<1>1. CardsMove(row, Deleted(row.rag)) /\ ~Serves(Deleted(row.rag), row.rag)
  BY DeletedMoves DEF Withdrawing
<1>2. CASE o = Continues(ClearRagPatch, Deleted(row.rag))
  BY <1>1, <1>2 DEF Continues, QueuedOutcome, Cleared
<1>3. CASE o \in CallFaults(row, FailPatch, Deleted(row.rag))
  <2>1. CardsMove(row, o.cards) /\ o.done /\ o.patch \in {RetryPatch(row), FailPatch, Keep}
    BY <1>1, <1>3, CallFaultsMove
  <2> QED
    BY <2>1, QuietPatches DEF QueuedOutcome
<1> QED
  BY <1>2, <1>3 DEF DeleteForReindex

LEMMA RemoveOutcome ==
  ASSUME TypeOK, NEW row \in Row, row.state \in LeavingStates, NEW o \in Remove(row)
  PROVE  CardsMove(row, o.cards) /\ LeavingOutcome(row, o)
<1>1. CardsMove(row, Deleted(row.rag)) /\ ~Serves(Deleted(row.rag), row.rag)
  BY DeletedMoves DEF Withdrawing
<1>2. ASSUME NEW c, CardsMove(row, c), ~Serves(c, row.rag), o = Answered(SettlePatch(row.state), c)
      PROVE  CardsMove(row, o.cards) /\ LeavingOutcome(row, o)
  BY <1>2 DEF Answered, LeavingOutcome, SettlePatch, Keep
<1>3. row.rag = None => ~Serves(cards, row.rag)
  BY LinkAssumption DEF Serves
<1>4. CASE o \in CallFaults(row, RetryPatch(row), Deleted(row.rag))
  <2>1. CardsMove(row, o.cards) /\ o.done /\ o.patch \in {RetryPatch(row), Keep}
    BY <1>1, <1>4, CallFaultsMove
  <2> QED
    BY <2>1, QuietPatches DEF LeavingOutcome, Quiet
<1> QED
  BY <1>1, <1>2, <1>3, <1>4, CardsStay DEF Remove

(* The two ways a call may end, by the state of the row: IndexSyncJob._process  *)
(* takes nothing for gone that RAG serves.                                  *)
LEMMA ProcessOutcome ==
  ASSUME TypeOK, NEW f \in Files, NEW row \in Row, NEW o \in Process(f, row)
  PROVE  /\ CardsMove(row, o.cards)
         /\ \/ row.state \in LeavingStates /\ LeavingOutcome(row, o)
            \/ row.state \in QueuedStates /\ QueuedOutcome(row, o)
            \/ row.state = "SUBMITTED" /\ ~Live(row.rag)
<1>1. CASE row.state = "SUBMITTED" /\ row.rag # None /\ Process(f, row) = Poll(row)
  BY <1>1, PollOutcome DEF QueuedStates, QueuedOutcome
<1>2. CASE /\ row.state \in {"SUBMITTED", "REINDEX_PENDING", "PENDING"} /\ row.rag = None
           /\ Process(f, row) = Register(f, row)
  BY <1>2, RegisterOutcome DEF QueuedStates, QueuedOutcome
<1>3. CASE row.state \in {"REMOVED", "ARCHIVED"} /\ Process(f, row) = Remove(row)
  BY <1>3, RemoveOutcome DEF LeavingStates
<1>4. CASE /\ row.state = "REINDEX_PENDING" /\ row.rag # None
           /\ Process(f, row) = DeleteForReindex(row)
  BY <1>4, DeleteForReindexOutcome DEF QueuedStates
<1>5. CASE row.state = "PENDING" /\ row.rag # None /\ Process(f, row) = Rekey(f, row)
  BY <1>5, RekeyOutcome DEF QueuedStates
<1> QED
  BY <1>1, <1>2, <1>3, <1>4, <1>5, ProcessCases

-----------------------------------------------------------------------------
(* What a step leaves alone.                                                *)

SameRow(f) == record'[f] = record[f] /\ link'[f] = link[f]

SameTick(f) ==
    /\ f \in claimed' => f \in claimed /\ work'[f] = work[f]
    /\ f \in todo' => f \in todo /\ work'[f] = work[f]

SameSessions(f) == notify'[f] = notify[f] /\ request'[f] = request[f]

GoneStays == \A id \in RagIds : cards[id].status = "gone" => cards'[id].status = "gone"
ServedStays(id) == Live(id) => Serves(cards', id)

(* The cards this file is served by. *)
CardsKept(f) ==
    /\ GoneStays
    /\ link[f].state \in ServedStates => ServedStays(link[f].rag)
    /\ f \in claimed /\ work[f].state \in ServedStates => ServedStays(work[f].rag)

LEMMA CardsUnchanged ==
  ASSUME UNCHANGED cards
  PROVE  \A f : CardsKept(f)
BY DEF CardsKept, GoneStays, ServedStays, Live

LEMMA LinkKept ==
  ASSUME NEW f \in Files, LinkInv(f), SameRow(f), CardsKept(f)
  PROVE  LinkInv(f)'
BY DEF LinkInv, SameRow, CardsKept, GoneStays, ServedStays, Gone, In, Out, Live

LEMMA ClaimKept ==
  ASSUME NEW f \in Files, ClaimInv(f), SameRow(f), SameTick(f), CardsKept(f)
  PROVE  ClaimInv(f)'
BY DEF ClaimInv, SameRow, SameTick, CardsKept, GoneStays, ServedStays, Gone, In, Out, Live

LEMMA TodoKept ==
  ASSUME NEW f \in Files, TodoInv(f), SameRow(f), SameTick(f)
  PROVE  TodoInv(f)'
BY DEF TodoInv, SameRow, SameTick, In, Out

LEMMA NotifyKept ==
  ASSUME NEW f \in Files, NotifyInv(f), SameRow(f), notify'[f] = notify[f], GoneStays
  PROVE  NotifyInv(f)'
BY DEF NotifyInv, SameRow, GoneStays, Gone

LEMMA RequestKept ==
  ASSUME NEW f \in Files, RequestInv(f), SameRow(f), request'[f] = request[f]
  PROVE  RequestInv(f)'
BY DEF RequestInv, SameRow, In, Out

LEMMA FileKept ==
  ASSUME NEW f \in Files, FileInv(f), SameRow(f), SameTick(f), SameSessions(f), CardsKept(f)
  PROVE  FileInv(f)'
BY LinkKept, ClaimKept, TodoKept, NotifyKept, RequestKept
   DEF FileInv, SameSessions, CardsKept

LEMMA ApartKept ==
  ASSUME ApartInv,
         \A f \in Files : link'[f].rag = link[f].rag,
         \/ \A f \in Files : Seen(f)'.rag = Seen(f).rag
         \/ \A f \in Files : Seen(f)'.rag = link[f].rag
  PROVE  ApartInv'
BY DEF ApartInv

LEMMA InitQueue == Init => QueueInv
<1> SUFFICES ASSUME Init PROVE QueueInv
  OBVIOUS
<1>1. Absent.state = "ABSENT" /\ Absent.rag = None /\ Absent.next = "null"
  BY DEF Absent
<1>2. \A f \in Files : record[f].status \in {"none", "committed"}
  BY DEF Init, NoRecord
<1>3. \A f \in Files : link[f] = Absent /\ notify[f]["create"] = NoSession
                        /\ notify[f]["delete"] = NoSession
                        /\ request[f]["user"] = NoRequest /\ request[f]["admin"] = NoRequest
  BY DEF Init, NotifyKinds, Roles
<1>4. claimed = {} /\ todo = {}
  BY DEF Init
<1>5. NoSession.pc = "off" /\ NoRequest.op = "none" /\ NoRequest.pc = "idle"
  BY DEF NoSession, NoRequest
<1>6. ASSUME NEW f \in Files PROVE FileInv(f)
  <2>1. LinkInv(f)
    BY <1>1, <1>2, <1>3 DEF LinkInv, In, Out, LeavingStates, ServedStates, OutStates
  <2>2. ClaimInv(f) /\ TodoInv(f)
    BY <1>4 DEF ClaimInv, TodoInv
  <2>3. NotifyInv(f) /\ RequestInv(f)
    BY <1>3, <1>5 DEF NotifyInv, RequestInv
  <2> QED
    BY <2>1, <2>2, <2>3 DEF FileInv
<1>7. ApartInv
  BY <1>1, <1>3, <1>4 DEF ApartInv, Seen
<1> QED
  BY <1>4, <1>6, <1>7 DEF QueueInv

-----------------------------------------------------------------------------
(* The steps of clocks, of RAG, of previews, and a crash.                    *)

(* A row whose columns other than its times stay, in no tick.                 *)
LEMMA TimesKept ==
  ASSUME NEW f \in Files, FileInv(f), f \notin claimed', UNCHANGED <<cards, record>>,
         link'[f].state = link[f].state, link'[f].rag = link[f].rag,
         link[f] # Absent,
         link'[f].next \in {link[f].next, "past"},
         f \in todo' => f \in todo, work'[f] = work[f], SameSessions(f)
  PROVE  FileInv(f)'
<1>1. LinkInv(f)'
  BY DEF FileInv, LinkInv, Gone, In, Out, Live
<1>2. ClaimInv(f)'
  BY DEF ClaimInv
<1>3. TodoInv(f)'
  BY DEF FileInv, TodoInv, In, Out
<1>4. NotifyInv(f)'
  BY DEF FileInv, NotifyInv, Gone, SameSessions
<1>5. RequestInv(f)'
  BY DEF FileInv, RequestInv, In, Out, Exists, SameSessions
<1> QED
  BY <1>1, <1>2, <1>3, <1>4, <1>5 DEF FileInv

LEMMA BackoffKeeps ==
  ASSUME Inv, NEW f \in Files, BackoffEnds(f) \/ MaxWaitPasses(f)
  PROVE  QueueInv'
<1>1. /\ UNCHANGED <<record, cards, claimed, todo, work, broken, notify, request>>
      /\ \A g \in Files : link[g] \in Row
  BY DEF BackoffEnds, MaxWaitPasses, queue, Inv, TypeOK
<1>2. \A g \in Files \ {f} : link'[g] = link[g]
  BY <1>1 DEF BackoffEnds, MaxWaitPasses, Inv, TypeOK
<1>3. /\ link'[f].state = link[f].state /\ link'[f].rag = link[f].rag
      /\ link'[f].next \in {link[f].next, "past"}
  <2>1. link'[f] = [link[f] EXCEPT !.next = "past"] \/ link'[f] = [link[f] EXCEPT !.aged = TRUE]
    BY DEF BackoffEnds, MaxWaitPasses, Inv, TypeOK
  <2> QED
    BY <1>1, <2>1 DEF Row
<1>4. link[f] # Absent /\ f \notin claimed
  BY DEF BackoffEnds, MaxWaitPasses, Locked, Inv, QueueInv, FileInv, ClaimInv, Due, Absent
<1>5. FileInv(f)'
  BY <1>1, <1>3, <1>4, TimesKept DEF Inv, QueueInv, FileInv, LinkInv, SameSessions
<1>6. ASSUME NEW g \in Files \ {f} PROVE FileInv(g)'
  BY <1>1, <1>2, CardsUnchanged, FileKept
     DEF Inv, QueueInv, SameRow, SameTick, SameSessions
<1>7. ApartInv'
  <2>1. \A g \in Files : link'[g].rag = link[g].rag /\ Seen(g)'.rag = Seen(g).rag
    BY <1>1, <1>2, <1>3 DEF Seen
  <2> QED
    BY <2>1, ApartKept DEF Inv, QueueInv
<1> QED
  BY <1>1, <1>5, <1>6, <1>7 DEF Inv, QueueInv

LEMMA RagKeeps ==
  ASSUME Inv, NEW id \in RagIds, RagFinishes(id)
  PROVE  QueueInv'
<1>1. UNCHANGED <<record, link, claimed, todo, work, broken, notify, request>>
  BY DEF RagFinishes, queue
<1>2. \A f : CardsKept(f)
  BY DEF RagFinishes, CardsKept, GoneStays, ServedStays, Live, Serves, Inv, TypeOK, Card
<1>3. \A f \in Files : FileInv(f)'
  BY <1>1, <1>2, FileKept DEF Inv, QueueInv, SameRow, SameTick, SameSessions
<1>4. ApartInv'
  BY <1>1, ApartKept DEF Seen, Inv, QueueInv
<1> QED
  BY <1>1, <1>3, <1>4 DEF Inv, QueueInv

LEMMA PreviewKeeps ==
  ASSUME Inv, NEW f \in Files, WritePreview(f)
  PROVE  QueueInv'
<1>1. UNCHANGED <<record, link, cards, claimed, todo, work, broken, notify, request>>
  BY DEF WritePreview, queue
<1>2. \A g \in Files : FileInv(g)'
  BY <1>1, CardsUnchanged, FileKept DEF Inv, QueueInv, SameRow, SameTick, SameSessions
<1>3. ApartInv'
  BY <1>1, ApartKept DEF Seen, Inv, QueueInv
<1> QED
  BY <1>1, <1>2, <1>3 DEF Inv, QueueInv

LEMMA CrashKeeps ==
  ASSUME Inv, Crash
  PROVE  QueueInv'
<1>1. UNCHANGED <<record, link, cards>> /\ claimed' = {} /\ todo' = {} /\ broken' = FALSE
  BY DEF Crash
<1>2. \A f \in Files : /\ notify'[f]["create"] = NoSession /\ notify'[f]["delete"] = NoSession
                       /\ request'[f]["user"] = NoRequest /\ request'[f]["admin"] = NoRequest
  BY DEF Crash, NotifyKinds, Roles
<1>3. NoSession.pc = "off" /\ NoRequest.op = "none" /\ NoRequest.pc = "idle"
  BY DEF NoSession, NoRequest
<1>4. ASSUME NEW f \in Files PROVE FileInv(f)'
  <2>1. LinkInv(f)'
    BY <1>1, CardsUnchanged, LinkKept DEF SameRow, Inv, QueueInv, FileInv
  <2>2. ClaimInv(f)' /\ TodoInv(f)'
    BY <1>1 DEF ClaimInv, TodoInv
  <2>3. NotifyInv(f)' /\ RequestInv(f)'
    BY <1>2, <1>3 DEF NotifyInv, RequestInv
  <2> QED
    BY <2>1, <2>2, <2>3 DEF FileInv
<1>5. ApartInv'
  BY <1>1, ApartKept DEF Seen, Inv, QueueInv
<1> QED
  BY <1>1, <1>4, <1>5 DEF QueueInv

-----------------------------------------------------------------------------
(* The steps of the tick.                                                   *)

(* A due row has a file; one that is in the library is on its way into the index. *)
LEMMA DueRow ==
  ASSUME NEW f \in Files, link[f] \in Row, LinkInv(f), Due(link[f])
  PROVE  /\ link[f].state # "ABSENT" /\ link[f].next # "never"
         /\ record[f].status # "none"
         /\ In(f) => link[f].state \in QueuedStates
         /\ Out(f) => link[f].state \in LeavingStates
BY DEF LinkInv, Due, DueStates, IndexLinkState, Absent, QueuedStates, OutStates, LeavingStates

LEMMA TickClaimKeeps ==
  ASSUME Inv, TickClaim
  PROVE  QueueInv'
<1>1. UNCHANGED <<record, link, cards, broken, notify, request>> /\ ~broken
  BY DEF TickClaim
<1>2. ASSUME NEW f \in Files, f \in claimed'
      PROVE  Due(link[f]) /\ work'[f] = link[f]
  BY <1>2 DEF TickClaim, DueRows
<1>3. ASSUME NEW f \in Files PROVE FileInv(f)'
  <2>0. link[f] \in Row /\ LinkInv(f)
    BY DEF Inv, QueueInv, FileInv, TypeOK
  <2>1. LinkInv(f)' /\ NotifyInv(f)' /\ RequestInv(f)'
    BY <1>1, CardsUnchanged, LinkKept, NotifyKept, RequestKept
       DEF SameRow, CardsKept, Inv, QueueInv, FileInv
  <2>2. ClaimInv(f)'
    <3> SUFFICES ASSUME f \in claimed' PROVE ClaimInv(f)'
      BY DEF ClaimInv
    <3>1. Due(link[f]) /\ work'[f] = link[f]
      BY <1>2
    <3> QED
      BY <1>1, <2>0, <3>1, DueRow
         DEF ClaimInv, LinkInv, In, Out, Live, Gone, LeavingStates, QueuedStates
  <2>3. TodoInv(f)'
    <3> SUFFICES ASSUME f \in todo' PROVE TodoInv(f)'
      BY DEF TodoInv
    <3>1. Due(link[f]) /\ work'[f] = link[f]
      BY <1>2 DEF TickClaim
    <3>2. link[f].state \in LeavingStates \cup QueuedStates
      BY <3>1 DEF Due, DueStates, IndexLinkState, LeavingStates, QueuedStates
    <3>3. record[f].status \in RecordStatus
      BY DEF Inv, TypeOK, Record
    <3> QED
      BY <1>1, <2>0, <3>1, <3>2, <3>3, DueRow
         DEF TodoInv, In, Out, LeavingStates, QueuedStates, ServedStates, RecordStatus
  <2> QED
    BY <2>1, <2>2, <2>3 DEF FileInv
<1>4. ApartInv'
  <2>1. \A f \in Files : Seen(f)'.rag = link[f].rag
    BY <1>1, <1>2 DEF Seen
  <2> QED
    BY <1>1, <2>1, ApartKept DEF Inv, QueueInv
<1> QED
  BY <1>1, <1>3, <1>4 DEF QueueInv

LEMMA TickCommitKeeps ==
  ASSUME Inv, TickCommit
  PROVE  QueueInv'
<1>1. /\ UNCHANGED <<record, cards, todo, notify, request>>
      /\ claimed' = {} /\ broken' = FALSE /\ todo = {}
  BY DEF TickCommit
<1>2. \A f \in Files : link'[f] = Seen(f)
  BY DEF TickCommit
<1>3. ASSUME NEW f \in Files PROVE FileInv(f)'
  <2>0. FileInv(f) /\ link[f] \in Row
    BY DEF Inv, QueueInv, TypeOK
  <2>1. CASE f \notin claimed
    <3>1. SameRow(f) /\ SameTick(f) /\ SameSessions(f)
      BY <1>1, <1>2, <2>1 DEF SameRow, SameTick, SameSessions, Seen
    <3> QED
      BY <1>1, <2>0, <3>1, CardsUnchanged, FileKept
  <2>2. CASE f \in claimed
    <3>1. link'[f] = work[f]
      BY <1>2, <2>2 DEF Seen
    <3>2. /\ link[f].state # "ABSENT" /\ record[f].status # "none"
      BY <2>0, <2>2, DueRow DEF FileInv, ClaimInv
    <3>3. LinkInv(f)'
      BY <1>1, <2>0, <2>2, <3>1, <3>2
         DEF FileInv, ClaimInv, LinkInv, In, Out, Live, Gone, LeavingStates, OutStates
    <3>4. ClaimInv(f)' /\ TodoInv(f)'
      BY <1>1 DEF ClaimInv, TodoInv
    <3>5. NotifyInv(f)'
      BY <1>1, <2>0, <2>2, <3>1 DEF FileInv, ClaimInv, NotifyInv, Out, Gone
    <3>6. RequestInv(f)'
      BY <1>1, <2>0, <2>2, <3>1, <3>2 DEF FileInv, ClaimInv, RequestInv, In, Out, Exists
    <3> QED
      BY <3>3, <3>4, <3>5, <3>6 DEF FileInv
  <2> QED
    BY <2>1, <2>2
<1>4. ApartInv'
  BY <1>1, <1>2 DEF Inv, QueueInv, ApartInv, Seen
<1> QED
  BY <1>1, <1>3, <1>4 DEF QueueInv

(* What the row is after the tick's session has written over it what it decided. *)
LEMMA FlushedOver ==
  ASSUME NEW row, NEW p
  PROVE  LET new == Flush(row, row, p)
         IN  /\ new.state = (IF p.state = Unset THEN row.state ELSE p.state)
             /\ new.rag = (IF p.rag = Unset THEN row.rag ELSE p.rag)
             /\ new.next = (IF p.next = Unset THEN row.next ELSE p.next)
BY LinkAssumption DEF Flush, Written, WrittenStamp, NextAttempts

(* An id in the table that RAG does not serve is that of a card it has deleted. *)
LEMMA NotServedIsGone ==
  ASSUME TypeOK, NEW id, id \in RagIds => Issued(cards, id), ~Live(id)
  PROVE  Gone(cards, id)
BY DEF Gone, Issued, Live, Serves, TypeOK, Card, CardStatus

(* A call for one row takes no card from another. *)
LEMMA CallKeepsCards ==
  ASSUME Inv, NEW f \in todo, CardsMove(work[f], cards')
  PROVE  \A g \in Files : CardsKept(g)
<1>0. f \in Files /\ TodoInv(f) /\ FileInv(f)
  BY DEF Inv, TypeOK, QueueInv, FileInv
<1>1. GoneStays
  BY DEF CardsMove, GoneStays
<1>2. ASSUME NEW id, Live(id), ~Serves(cards', id)
      PROVE  id = work[f].rag /\ Withdrawing(work[f]) /\ id \in RagIds /\ id = link[f].rag
  <2>1. id = work[f].rag /\ Withdrawing(work[f]) /\ id \in RagIds
    BY <1>2 DEF CardsMove, Live, Serves
  <2> QED
    BY <1>0, <2>1, LinkAssumption DEF TodoInv
<1>3. ASSUME NEW g \in Files, link[g].state \in ServedStates
      PROVE  ServedStays(link[g].rag)
  <2> SUFFICES ASSUME Live(link[g].rag), ~Serves(cards', link[g].rag) PROVE FALSE
    BY DEF ServedStays
  <2>1. Withdrawing(work[f]) /\ link[g].rag \in RagIds /\ link[g].rag = link[f].rag
    BY <1>2
  <2>2. CASE g = f
    BY <1>0, <1>3, <2>1, <2>2 DEF TodoInv, Withdrawing, LeavingStates
  <2>3. CASE g # f
    BY <1>0, <2>1, <2>3, LinkAssumption DEF Inv, QueueInv, ApartInv
  <2> QED
    BY <2>2, <2>3
<1>4. ASSUME NEW g \in Files, g \in claimed, work[g].state \in ServedStates
      PROVE  ServedStays(work[g].rag)
  <2> SUFFICES ASSUME Live(work[g].rag), ~Serves(cards', work[g].rag) PROVE FALSE
    BY DEF ServedStays
  <2>1. Withdrawing(work[f]) /\ work[g].rag \in RagIds /\ work[g].rag = work[f].rag
    BY <1>2
  <2>2. f \in claimed
    BY <1>4 DEF Inv, QueueInv, TypeOK
  <2>3. CASE g = f
    BY <1>4, <2>1, <2>3 DEF Withdrawing, LeavingStates, ServedStates
  <2>4. CASE g # f
    BY <1>0, <1>4, <2>1, <2>2, <2>4, LinkAssumption DEF Inv, QueueInv, ApartInv, Seen
  <2> QED
    BY <2>3, <2>4
<1> QED
  BY <1>1, <1>3, <1>4 DEF CardsKept

(* The row the tick holds, after a call: what is written over it keeps it fit to  *)
(* be committed.                                                             *)
LEMMA CallKeepsClaim ==
  ASSUME Inv, NEW f \in todo, f \in claimed, NEW o \in Process(f, work[f]),
         cards' = o.cards, claimed' = claimed, UNCHANGED <<record, link>>,
         work'[f] = Flush(work[f], work[f], o.patch),
         f \in todo' => ~o.done
  PROVE  ClaimInv(f)' /\ TodoInv(f)'
<1> DEFINE row == work[f]
<1>1. /\ f \in Files /\ row \in Row /\ ClaimInv(f) /\ TodoInv(f) /\ TypeOK
      /\ RowIssued(cards, row)
  BY DEF Inv, TypeOK, QueueInv, FileInv, IndexedInv
<1>2. /\ Due(link[f]) /\ row.state # "ABSENT"
      /\ In(f) => row.state \notin LeavingStates /\ row.next # "never"
      /\ Out(f) => row.state \in LeavingStates \cup {"FAILED"} /\ row.rag = link[f].rag
      /\ row.next = "never" => Gone(cards, row.rag)
      /\ row.state \in ServedStates => Live(row.rag)
      /\ row.rag # link[f].rag => Gone(cards, link[f].rag)
      /\ row.rag \notin {None, link[f].rag} => row.state = "SUBMITTED"
  BY <1>1 DEF ClaimInv
<1>3. /\ record[f].status # "none"
      /\ row.rag \in {None, link[f].rag}
      /\ row.state \in LeavingStates => Out(f)
      /\ In(f) => link[f].state \in QueuedStates
      /\ row.state # "SUBMITTED" => link[f].state \notin ServedStates
  BY <1>1 DEF TodoInv
<1>4. /\ CardsMove(row, o.cards)
      /\ \/ row.state \in LeavingStates /\ LeavingOutcome(row, o)
         \/ row.state \in QueuedStates /\ QueuedOutcome(row, o)
  BY <1>1, <1>2, ProcessOutcome DEF ServedStates
<1>5. /\ work'[f].state = (IF o.patch.state = Unset THEN row.state ELSE o.patch.state)
      /\ work'[f].rag = (IF o.patch.rag = Unset THEN row.rag ELSE o.patch.rag)
      /\ work'[f].next = (IF o.patch.next = Unset THEN row.next ELSE o.patch.next)
  BY FlushedOver
<1>6. /\ \A id : Gone(cards, id) => Gone(o.cards, id)
      /\ ~Serves(o.cards, row.rag) => Gone(o.cards, row.rag)
      /\ row.state = "SUBMITTED" => Serves(o.cards, row.rag)
  <2>1. o.cards \in [RagIds -> Card]
    <3>1. o \in Outcome
      BY <1>1, ProcessType
    <3> QED
      BY <3>1 DEF Outcome
  <2>2. StillIssued(o.cards)
    BY <1>1, ProcessIssued
  <2>3. \A id : Gone(cards, id) => Gone(o.cards, id)
    BY <1>4 DEF CardsMove, Gone
  <2>4. ~Serves(o.cards, row.rag) => Gone(o.cards, row.rag)
    BY <1>1, <2>1, <2>2 DEF Gone, Serves, StillIssued, Issued, RowIssued, Card, CardStatus
  <2>5. row.state = "SUBMITTED" => Serves(o.cards, row.rag)
    BY <1>2, <1>4 DEF CardsMove, Live, Withdrawing, LeavingStates, ServedStates
  <2> QED
    BY <2>3, <2>4, <2>5
<1>7. /\ Unset \notin RagIds /\ Unset # None /\ Unset \notin IndexLinkState \cup NextAttempts
      /\ "REINDEX_PENDING" # Unset /\ "SUBMITTED" # Unset /\ "INDEXED" # Unset
      /\ Gone(o.cards, None)
  BY LinkAssumption DEF IndexLinkState, Gone
<1> HIDE DEF row
<1>8. CASE row.state \in LeavingStates /\ LeavingOutcome(row, o)
  <2>1. Out(f) /\ ~In(f)
    BY <1>3, <1>8 DEF Out, In
  <2>2. work'[f].state \in LeavingStates \cup {"FAILED"} /\ work'[f].rag = row.rag
    BY <1>5, <1>8 DEF LeavingOutcome
  <2>3. work'[f].next = "never" => Gone(o.cards, row.rag)
    BY <1>2, <1>5, <1>6, <1>8 DEF LeavingOutcome
  <2>4. f \notin todo'
    BY <1>8 DEF LeavingOutcome
  <2> QED
    BY <1>2, <2>1, <2>2, <2>3, <2>4 DEF ClaimInv, TodoInv, In, Out, LeavingStates, ServedStates
<1>9. CASE row.state \in QueuedStates /\ QueuedOutcome(row, o)
  <2>1. In(f) /\ ~Out(f) /\ row.next # "never"
    <3>1. record[f].status \in RecordStatus
      BY <1>1 DEF TypeOK, Record
    <3> QED
      BY <1>2, <1>3, <1>9, <3>1 DEF RecordStatus, In, Out, QueuedStates, LeavingStates
  <2>2. \/ Quiet(o.patch)
        \/ row.rag = None /\ Attached(o)
        \/ ShownAs(row, o)
        \/ ContentFirst(row, o)
        \/ Cleared(row, o)
    BY <1>9 DEF QueuedOutcome
  <2>3. /\ work'[f].next # "never"
        /\ work'[f].state \in {row.state, "FAILED", "SKIPPED", "SUBMITTED", "INDEXED", "REINDEX_PENDING"}
    BY <1>5, <1>7, <2>1, <2>2
       DEF Quiet, Attached, ShownAs, ContentFirst, ContentChangedPatch, Cleared, ClearRagPatch, Keep
  <2>4. work'[f].state \in ServedStates => Serves(o.cards, work'[f].rag)
    BY <1>5, <1>6, <1>7, <1>9, <2>2
       DEF Quiet, Attached, ShownAs, ContentFirst, ContentChangedPatch, Cleared, ClearRagPatch,
           Keep, ServedStates, QueuedStates, Live
  <2>5. /\ work'[f].rag # link[f].rag => Gone(o.cards, link[f].rag)
        /\ work'[f].rag \notin {None, link[f].rag} => work'[f].state = "SUBMITTED"
    BY <1>2, <1>3, <1>5, <1>6, <1>7, <2>2
       DEF Quiet, Attached, ShownAs, ContentFirst, ContentChangedPatch, Cleared, ClearRagPatch, Keep
  <2>6. ClaimInv(f)'
    BY <1>2, <2>1, <2>3, <2>4, <2>5, <1>9
       DEF ClaimInv, In, Out, LeavingStates, QueuedStates, Live
  <2>7. TodoInv(f)'
    <3> SUFFICES ASSUME f \in todo' PROVE TodoInv(f)'
      BY DEF TodoInv
    <3>1. ContentFirst(row, o) \/ Cleared(row, o)
      BY <1>9 DEF QueuedOutcome
    <3>2. /\ work'[f].state = "REINDEX_PENDING" /\ row.state # "SUBMITTED"
          /\ work'[f].rag \in {None, link[f].rag}
      BY <1>3, <1>5, <1>7, <3>1
         DEF ContentFirst, ContentChangedPatch, Cleared, ClearRagPatch, Keep
    <3> QED
      BY <1>3, <3>2 DEF TodoInv, In, Out, LeavingStates
  <2> QED
    BY <2>6, <2>7
<1> QED
  BY <1>4, <1>8, <1>9

LEMMA TickCallKeeps ==
  ASSUME Inv, NEW f \in Files, TickCall(f)
  PROVE  QueueInv'
<1>1. PICK o \in Process(f, work[f]) :
        /\ cards' = IF broken THEN WithoutSession(o.cards) ELSE o.cards
        /\ broken' = (broken \/ IdTaken(f, o.patch.rag))
        /\ todo' = IF o.done \/ broken' THEN todo \ {f} ELSE todo
        /\ claimed' = IF broken' THEN {} ELSE claimed
        /\ work' = IF broken' THEN work
                   ELSE [work EXCEPT ![f] = Flush(@, @, o.patch)]
  BY DEF TickCall
<1>2. f \in todo /\ UNCHANGED <<record, link, notify, request>>
  BY DEF TickCall
<1>3. TypeOK /\ work[f] \in Row /\ FileInv(f) /\ work \in [Files -> Row]
  BY DEF Inv, TypeOK, QueueInv
<1>4. CardsMove(work[f], cards')
  BY <1>1, <1>3, ProcessOutcome, CardsStay DEF WithoutSession
<1>5. \A g \in Files : CardsKept(g)
  BY <1>2, <1>4, CallKeepsCards
<1>6. ASSUME NEW g \in Files \ {f} PROVE FileInv(g)'
  <2>1. SameRow(g) /\ SameTick(g) /\ SameSessions(g)
    BY <1>1, <1>2, <1>3 DEF SameRow, SameTick, SameSessions
  <2> QED
    BY <1>5, <2>1, FileKept DEF Inv, QueueInv
<1>7. FileInv(f)'
  <2>1. CASE broken'
    <3>1. SameRow(f) /\ SameTick(f) /\ SameSessions(f)
      BY <1>1, <1>2, <2>1 DEF SameRow, SameTick, SameSessions
    <3> QED
      BY <1>3, <1>5, <3>1, FileKept
  <2>2. CASE ~broken'
    <3>1. /\ cards' = o.cards /\ claimed' = claimed /\ f \in claimed /\ (f \in todo' => ~o.done)
          /\ work'[f] = Flush(work[f], work[f], o.patch)
      BY <1>1, <1>2, <1>3, <2>2 DEF TypeOK
    <3>2. ClaimInv(f)' /\ TodoInv(f)'
      BY <1>1, <1>2, <3>1, CallKeepsClaim
    <3>3. LinkInv(f)' /\ NotifyInv(f)' /\ RequestInv(f)'
      BY <1>2, <1>3, <1>5, LinkKept, NotifyKept, RequestKept DEF FileInv, SameRow, CardsKept
    <3> QED
      BY <3>2, <3>3 DEF FileInv
  <2> QED
    BY <2>1, <2>2
<1>8. ApartInv'
  <2>1. CASE broken'
    <3>1. \A g \in Files : Seen(g)'.rag = link[g].rag
      BY <1>1, <1>2, <2>1 DEF Seen
    <3> QED
      BY <1>2, <3>1, ApartKept DEF Inv, QueueInv
  <2>2. CASE ~broken'
    <3>1. /\ ~IdTaken(f, o.patch.rag) /\ claimed' = claimed /\ f \in claimed
          /\ work' = [work EXCEPT ![f] = Flush(@, @, o.patch)]
      BY <1>1, <1>2, <1>3, <2>2 DEF TypeOK
    <3>2. \A g \in Files \ {f} : Seen(g)' = Seen(g)
      BY <1>2, <1>3, <3>1 DEF Seen
    <3>3. Seen(f) = work[f] /\ Seen(f)' = Flush(work[f], work[f], o.patch)
      BY <1>3, <3>1 DEF Seen
    <3>4. Seen(f)'.rag = (IF o.patch.rag = Unset THEN Seen(f).rag ELSE o.patch.rag)
      BY <3>3, FlushedOver
    <3>5. o.patch.rag \in RagIds \cup {None, Unset}
      <4>1. o \in Outcome
        BY <1>1, <1>3, ProcessType
      <4> QED
        BY <4>1 DEF Outcome, Patch
    <3>6. o.patch.rag \in RagIds => \A g \in Files \ {f} : Seen(g).rag # o.patch.rag
      BY <3>1 DEF IdTaken
    <3> QED
      BY <1>2, <3>2, <3>4, <3>5, <3>6 DEF Inv, QueueInv, ApartInv
  <2> QED
    BY <2>1, <2>2
<1> QED
  BY <1>1, <1>6, <1>7, <1>8 DEF QueueInv

-----------------------------------------------------------------------------
(* The steps of the notify of a delete.                                      *)

(* The other files, and this one up to its notify, when a session moves on.      *)
LEMMA SessionKeeps ==
  ASSUME Inv, NEW f \in Files, NEW k \in NotifyKinds, NEW s, SetSession(f, k, s),
         UNCHANGED <<record, link, queue, request>>, \A g \in Files : CardsKept(g),
         NotifyInv(f)'
  PROVE  QueueInv'
<1>1. UNCHANGED <<claimed, todo, work, broken>>
  BY DEF queue
<1>2. ASSUME NEW g \in Files \ {f} PROVE FileInv(g)'
  <2>1. notify'[g] = notify[g]
    BY DEF SetSession, Inv, TypeOK
  <2> QED
    BY <1>1, <2>1, FileKept DEF SameRow, SameTick, SameSessions, Inv, QueueInv
<1>3. FileInv(f)'
  BY <1>1, LinkKept, ClaimKept, TodoKept, RequestKept
     DEF SameRow, SameTick, Inv, QueueInv, FileInv
<1>4. ApartInv'
  BY <1>1, ApartKept DEF Seen, Inv, QueueInv
<1> QED
  BY <1>1, <1>2, <1>3, <1>4 DEF Inv, QueueInv

(* The session of a delete that is under way, as it has moved on.               *)
LEMMA SessionMoves ==
  ASSUME Inv, NEW f \in Files, NEW k \in NotifyKinds, notify[f][k].pc # "off",
         NEW s, SetSession(f, k, s)
  PROVE  /\ k = "delete" /\ notify'[f]["create"].pc = "off" /\ notify'[f]["delete"] = s
         /\ record[f].status = "deleted" /\ link[f].state # "ABSENT"
         /\ notify[f]["delete"].patch.rag = Unset
         /\ notify[f]["delete"].patch.state \in {Unset, "REMOVED", "FAILED"}
<1>1. NotifyInv(f) /\ notify \in [Files -> [NotifyKinds -> Session]]
  BY DEF Inv, QueueInv, FileInv, TypeOK
<1>2. k = "delete"
  BY <1>1 DEF NotifyInv, NotifyKinds
<1> QED
  BY <1>1, <1>2 DEF NotifyInv, SetSession, NotifyKinds

LEMMA NotifyReadKeeps ==
  ASSUME Inv, NEW f \in Files, NEW k \in NotifyKinds, NotifyRead(f, k)
  PROVE  QueueInv'
<1> DEFINE s == IF ShouldNotify(link[f])
                THEN [NoSession EXCEPT !.pc = "call", !.snap = link[f]]
                ELSE NoSession
<1>1. /\ SetSession(f, k, s) /\ UNCHANGED <<record, link, cards, queue, request>>
      /\ notify[f][k].pc = "read"
  BY DEF NotifyRead
<1>2. /\ notify'[f]["create"].pc = "off" /\ notify'[f]["delete"] = s
      /\ record[f].status = "deleted" /\ link[f].state # "ABSENT"
  <2> HIDE DEF s
  <2> QED
    BY <1>1, SessionMoves
<1>3. link[f].state \in OutStates
  BY <1>2 DEF Inv, QueueInv, FileInv, LinkInv, Out
<1>4. /\ s.pc = "call" => s.snap.state = "REMOVED" /\ s.snap.rag = link[f].rag
      /\ s.patch = Keep
  BY <1>3 DEF NoSession, ShouldNotify, OutStates
<1> HIDE DEF s
<1>5. NotifyInv(f)'
  BY <1>1, <1>2, <1>4, LinkAssumption DEF NotifyInv, Keep, NextAttempts
<1> QED
  BY <1>1, <1>5, CardsUnchanged, SessionKeeps

LEMMA NotifySelectKeeps ==
  ASSUME Inv, NEW f \in Files, NEW k \in NotifyKinds, NotifySelect(f, k)
  PROVE  QueueInv'
<1> DEFINE s == [notify[f][k] EXCEPT !.pc = "write", !.base = link[f]]
<1>1. /\ SetSession(f, k, s) /\ UNCHANGED <<record, link, cards, queue, request>>
      /\ notify[f][k].pc = "select"
  BY DEF NotifySelect
<1>2. s.pc = "write" /\ s.patch = notify[f][k].patch
  BY DEF Inv, TypeOK, Session
<1> HIDE DEF s
<1>3. /\ k = "delete" /\ notify'[f]["create"].pc = "off" /\ notify'[f]["delete"] = s
  BY <1>1, SessionMoves
<1>4. NotifyInv(f)'
  BY <1>1, <1>2, <1>3 DEF Inv, QueueInv, FileInv, NotifyInv, Gone
<1> QED
  BY <1>1, <1>4, CardsUnchanged, SessionKeeps

(* The notify takes the card of a file that is out of the library.             *)
LEMMA RemovalKeepsCards ==
  ASSUME Inv, NEW f \in Files, Out(f), NEW row, row.rag = link[f].rag, CardsMove(row, cards')
  PROVE  \A g \in Files : CardsKept(g)
<1>0. FileInv(f)
  BY DEF Inv, QueueInv
<1>1. GoneStays
  BY DEF CardsMove, GoneStays
<1>2. ASSUME NEW id, Live(id), ~Serves(cards', id)
      PROVE  id \in RagIds /\ id = link[f].rag
  BY <1>2 DEF CardsMove, Live, Serves
<1>3. ASSUME NEW g \in Files, link[g].state \in ServedStates
      PROVE  ServedStays(link[g].rag)
  <2> SUFFICES ASSUME Live(link[g].rag), ~Serves(cards', link[g].rag) PROVE FALSE
    BY DEF ServedStays
  <2>1. link[g].rag \in RagIds /\ link[g].rag = link[f].rag
    BY <1>2
  <2>2. g # f
    BY <1>0, <1>3 DEF FileInv, LinkInv, OutStates, ServedStates
  <2> QED
    BY <2>1, <2>2, LinkAssumption DEF Inv, QueueInv, ApartInv
<1>4. ASSUME NEW g \in Files, g \in claimed, work[g].state \in ServedStates
      PROVE  ServedStays(work[g].rag)
  <2> SUFFICES ASSUME Live(work[g].rag), ~Serves(cards', work[g].rag) PROVE FALSE
    BY DEF ServedStays
  <2>1. work[g].rag \in RagIds /\ work[g].rag = link[f].rag
    BY <1>2
  <2>2. g # f
    BY <1>0, <1>4 DEF FileInv, ClaimInv, LeavingStates, ServedStates
  <2>3. Seen(f).rag = link[f].rag
    BY <1>0 DEF FileInv, ClaimInv, Seen
  <2> QED
    BY <1>4, <2>1, <2>2, <2>3, LinkAssumption DEF Inv, QueueInv, ApartInv, Seen
<1> QED
  BY <1>1, <1>3, <1>4 DEF CardsKept

LEMMA NotifyCallKeeps ==
  ASSUME Inv, NEW f \in Files, NEW k \in NotifyKinds, NotifyCall(f, k)
  PROVE  QueueInv'
<1> DEFINE snap == notify[f][k].snap
<1>1. PICK o \in Process(f, snap) :
        /\ cards' = o.cards
        /\ SetSession(f, k, IF o.patch = Keep THEN NoSession
                            ELSE [NoSession EXCEPT !.pc = "select", !.patch = o.patch])
  BY DEF NotifyCall
<1> DEFINE s == IF o.patch = Keep THEN NoSession
                ELSE [NoSession EXCEPT !.pc = "select", !.patch = o.patch]
<1>2. /\ SetSession(f, k, s) /\ UNCHANGED <<record, link, queue, request>>
      /\ notify[f][k].pc = "call"
  BY <1>1 DEF NotifyCall
<1>3. s.pc # "call" /\ s.patch = o.patch
  BY DEF NoSession
<1> HIDE DEF s
<1>4. /\ k = "delete" /\ notify'[f]["create"].pc = "off" /\ notify'[f]["delete"] = s
      /\ record[f].status = "deleted" /\ link[f].state # "ABSENT"
  BY <1>2, SessionMoves
<1>5. /\ snap \in Row /\ snap.state = "REMOVED" /\ snap.rag = link[f].rag
  BY <1>2, <1>4 DEF Inv, QueueInv, FileInv, NotifyInv, TypeOK, Session
<1> HIDE DEF snap
<1>6. CardsMove(snap, o.cards) /\ LeavingOutcome(snap, o)
  BY <1>1, <1>5, ProcessOutcome DEF Inv, QueuedStates
<1>7. /\ o.patch.rag = Unset /\ o.patch.state \in {Unset, "REMOVED", "FAILED"}
      /\ o.patch.next = "never" => ~Serves(cards', link[f].rag)
  BY <1>1, <1>5, <1>6 DEF LeavingOutcome
<1>8. ~Serves(cards', link[f].rag) => Gone(cards', link[f].rag)
  <2>1. TypeOK /\ RowIssued(cards, link[f])
    BY DEF Inv, IndexedInv
  <2>2. o \in Outcome
    BY <1>1, <1>5, <2>1, ProcessType
  <2>3. cards' \in [RagIds -> Card]
    BY <1>1, <2>2 DEF Outcome
  <2>4. StillIssued(cards')
    BY <1>1, <1>5, <2>1, NotifyBlind DEF ShouldNotify
  <2> QED
    BY <2>1, <2>3, <2>4 DEF Gone, Serves, StillIssued, Issued, RowIssued, Card, CardStatus
<1>9. NotifyInv(f)'
  BY <1>2, <1>3, <1>4, <1>7, <1>8 DEF NotifyInv
<1>10. \A g \in Files : CardsKept(g)
  BY <1>1, <1>4, <1>5, <1>6, RemovalKeepsCards DEF Out
<1> QED
  BY <1>2, <1>9, <1>10, SessionKeeps

(* What an UPDATE leaves in the row: a column is the stored one or the patch's.   *)
LEMMA FlushedFields ==
  ASSUME NEW stored, NEW loaded, NEW p
  PROVE  LET new == Flush(stored, loaded, p)
         IN  /\ new.state = stored.state \/ (p.state # Unset /\ new.state = p.state)
             /\ new.rag = stored.rag \/ (p.rag # Unset /\ new.rag = p.rag)
             /\ new.next = stored.next \/ (p.next # Unset /\ new.next = p.next)
BY LinkAssumption DEF Flush, Written, WrittenStamp, NextAttempts

(* A write by another session than the tick's: the id stays, and so does what    *)
(* the tick has in hand.                                                     *)
LEMMA WriteKeeps ==
  ASSUME Inv, NEW f \in Files, f \notin claimed, UNCHANGED <<cards, queue>>,
         \A g \in Files \ {f} : SameRow(g) /\ SameSessions(g),
         link'[f].rag = link[f].rag,
         LinkInv(f)', TodoInv(f)', NotifyInv(f)', RequestInv(f)'
  PROVE  QueueInv'
<1>1. UNCHANGED <<claimed, todo, work, broken>>
  BY DEF queue
<1>2. ASSUME NEW g \in Files \ {f} PROVE FileInv(g)'
  BY <1>1, CardsUnchanged, FileKept DEF SameTick, Inv, QueueInv
<1>3. FileInv(f)'
  BY <1>1 DEF FileInv, ClaimInv
<1>4. ApartInv'
  BY <1>1, ApartKept DEF Seen, SameRow, Inv, QueueInv
<1> QED
  BY <1>1, <1>2, <1>3, <1>4 DEF Inv, QueueInv

LEMMA NotifyWriteMoves ==
  ASSUME Inv, NEW f \in Files, NEW k \in NotifyKinds, NotifyWrite(f, k)
  PROVE  /\ f \notin claimed /\ UNCHANGED <<record, cards, queue, request>>
         /\ record[f].status = "deleted" /\ link[f].state # "ABSENT"
         /\ notify'[f]["create"].pc = "off" /\ notify'[f]["delete"] = NoSession
         /\ \A g \in Files \ {f} : SameRow(g) /\ SameSessions(g)
         /\ link'[f].rag = link[f].rag
         /\ link'[f].state \in {link[f].state, "REMOVED", "FAILED"}
         /\ link'[f].next = "never" => Gone(cards, link[f].rag)
<1> DEFINE s == notify[f][k]
           p == s.patch
<1>1. /\ UNCHANGED <<record, cards, queue, request>> /\ SetSession(f, k, NoSession)
      /\ s.pc = "write" /\ f \notin claimed
  BY DEF NotifyWrite, Locked
<1>2. /\ k = "delete" /\ notify'[f]["create"].pc = "off" /\ notify'[f]["delete"] = NoSession
      /\ record[f].status = "deleted" /\ link[f].state # "ABSENT"
      /\ p.rag = Unset /\ p.state \in {Unset, "REMOVED", "FAILED"}
  BY <1>1, SessionMoves
<1>3. /\ p.next = "never" => Gone(cards, link[f].rag)
      /\ link[f].next = "never" => Gone(cards, link[f].rag)
  BY <1>1, <1>2 DEF Inv, QueueInv, FileInv, NotifyInv, LinkInv
<1>4. link' = [link EXCEPT ![f] = Flush(@, s.base, p)]
  BY <1>2, LinkAssumption DEF NotifyWrite
<1>5. link'[f] = Flush(link[f], s.base, p) /\ \A g \in Files \ {f} : link'[g] = link[g]
  BY <1>4 DEF Inv, TypeOK
<1> HIDE DEF s, p
<1>6. /\ link'[f].rag = link[f].rag
      /\ link'[f].state \in {link[f].state, "REMOVED", "FAILED"}
      /\ link'[f].next = "never" => Gone(cards, link[f].rag)
  BY <1>2, <1>3, <1>5, FlushedFields
<1>7. \A g \in Files \ {f} : notify'[g] = notify[g]
  BY <1>1 DEF SetSession, Inv, TypeOK
<1> QED
  BY <1>1, <1>2, <1>5, <1>6, <1>7 DEF SameRow, SameSessions

LEMMA NotifyWriteKeeps ==
  ASSUME Inv, NEW f \in Files, NEW k \in NotifyKinds, NotifyWrite(f, k)
  PROVE  QueueInv'
<1>1. /\ f \notin claimed /\ UNCHANGED <<record, cards, queue, request>>
      /\ record[f].status = "deleted" /\ link[f].state # "ABSENT"
      /\ notify'[f]["create"].pc = "off" /\ notify'[f]["delete"] = NoSession
      /\ \A g \in Files \ {f} : SameRow(g) /\ SameSessions(g)
      /\ link'[f].rag = link[f].rag
      /\ link'[f].state \in {link[f].state, "REMOVED", "FAILED"}
      /\ link'[f].next = "never" => Gone(cards, link[f].rag)
  BY NotifyWriteMoves
<1>2. FileInv(f)
  BY DEF Inv, QueueInv
<1>3. link'[f].state # "ABSENT" /\ link'[f].state \in OutStates
  BY <1>1, <1>2 DEF FileInv, LinkInv, Out, OutStates
<1>4. LinkInv(f)'
  BY <1>1, <1>3 DEF LinkInv, In, Out, OutStates, ServedStates, Gone
<1>5. TodoInv(f)'
  BY <1>1, <1>2, <1>3 DEF FileInv, TodoInv, In, Out, OutStates, ServedStates, queue
<1>6. NotifyInv(f)'
  BY <1>1 DEF NotifyInv, NoSession
<1>7. RequestInv(f)'
  BY <1>1, <1>2, <1>3 DEF FileInv, RequestInv, In, Out, Exists
<1> QED
  BY <1>1, <1>4, <1>5, <1>6, <1>7, WriteKeeps

-----------------------------------------------------------------------------
(* The steps of requests.                                                   *)

(* A step that only moves the requests on a file.                             *)
LEMMA RequestMoves ==
  ASSUME Inv, NEW f \in Files, UNCHANGED <<record, link, cards, queue, notify>>,
         \A g \in Files \ {f} : request'[g] = request[g],
         RequestInv(f)'
  PROVE  QueueInv'
<1>1. UNCHANGED <<claimed, todo, work, broken>>
  BY DEF queue
<1>2. ASSUME NEW g \in Files \ {f} PROVE FileInv(g)'
  BY <1>1, CardsUnchanged, FileKept DEF SameRow, SameTick, SameSessions, Inv, QueueInv
<1>3. FileInv(f)'
  BY <1>1, CardsUnchanged, LinkKept, ClaimKept, TodoKept, NotifyKept
     DEF SameRow, SameTick, CardsKept, Inv, QueueInv, FileInv
<1>4. ApartInv'
  BY <1>1, ApartKept DEF Seen, Inv, QueueInv
<1> QED
  BY <1>1, <1>2, <1>3, <1>4 DEF Inv, QueueInv

LEMMA BeginKeeps ==
  ASSUME Inv, NEW f \in Files, NEW op, NEW rec, Begin(f, "user", UserRequest(op, rec)),
         op \in UserOperations, In(f) \/ Out(f),
         op \in {"rename", "overwrite", "archive"} => In(f),
         op \in {"rename", "overwrite"} => rec.status = "committed",
         op = "archive" => rec.status = "archived",
         op = "delete" => rec.status = "deleted" /\ record[f].status # "deleted"
  PROVE  QueueInv'
<1>1. UNCHANGED <<record, link, cards, queue, notify>>
  BY DEF Begin
<1>2. /\ \A g \in Files \ {f} : request'[g] = request[g]
      /\ request'[f]["admin"] = request[f]["admin"]
      /\ request'[f]["user"] = UserRequest(op, rec)
  BY DEF Begin, Inv, TypeOK, Roles
<1>3. RequestInv(f)'
  BY <1>1, <1>2 DEF RequestInv, UserRequest, In, Out, Inv, QueueInv, FileInv
<1> QED
  BY <1>1, <1>2, <1>3, RequestMoves

LEMMA RequestBeginsKeep ==
  ASSUME UsersOnly, Inv, NEW f \in Files, RequestBegins(f)
  PROVE  QueueInv'
<1>0. record[f] \in Record
  BY DEF Inv, TypeOK
<1>1. ASSUME NEW k \in Names, RenameBegin(f, k)
      PROVE  QueueInv'
  <2>1. In(f) /\ [record[f] EXCEPT !.key = k].status = "committed"
    BY <1>0, <1>1 DEF RenameBegin, In, Record
  <2>2. Begin(f, "user", UserRequest("rename", [record[f] EXCEPT !.key = k]))
    BY <1>1 DEF RenameBegin
  <2> QED
    BY <2>1, <2>2, BeginKeeps DEF UserOperations
<1>2. ASSUME NEW h \in Contents, OverwriteBegin(f, h)
      PROVE  QueueInv'
  <2>1. In(f) /\ [record[f] EXCEPT !.sha = h].status = "committed"
    BY <1>0, <1>2 DEF OverwriteBegin, In, Record
  <2>2. Begin(f, "user", UserRequest("overwrite", [record[f] EXCEPT !.sha = h]))
    BY <1>2 DEF OverwriteBegin
  <2> QED
    BY <2>1, <2>2, BeginKeeps DEF UserOperations
<1>3. CASE DeleteBegin(f)
  <2>1. /\ In(f) \/ Out(f)
        /\ record[f].status # "deleted"
        /\ [record[f] EXCEPT !.status = "deleted"].status = "deleted"
    BY <1>0, <1>3 DEF DeleteBegin, In, Out, Record
  <2>2. Begin(f, "user", UserRequest("delete", [record[f] EXCEPT !.status = "deleted"]))
    BY <1>3 DEF DeleteBegin
  <2> QED
    BY <2>1, <2>2, BeginKeeps DEF UserOperations
<1>4. CASE ArchiveBegin(f)
  <2>1. In(f) /\ [record[f] EXCEPT !.status = "archived"].status = "archived"
    BY <1>0, <1>4 DEF ArchiveBegin, In, Record
  <2>2. Begin(f, "user", UserRequest("archive", [record[f] EXCEPT !.status = "archived"]))
    BY <1>4 DEF ArchiveBegin
  <2> QED
    BY <2>1, <2>2, BeginKeeps DEF UserOperations
<1>5. ~RetryBegin(f) /\ ~BackfillBegin(f)
  BY DEF UsersOnly, UserOperations, RetryBegin, BackfillBegin, Begin
<1> QED
  BY <1>1, <1>2, <1>3, <1>4, <1>5 DEF RequestBegins

LEMMA RequestLoadKeeps ==
  ASSUME Inv, NEW f \in Files, RequestLoad(f)
  PROVE  QueueInv'
<1>1. /\ UNCHANGED <<record, link, cards, queue, notify>>
      /\ request[f]["user"].pc = "stored"
  BY DEF RequestLoad
<1>2. /\ \A g \in Files \ {f} : request'[g] = request[g]
      /\ request'[f]["admin"] = request[f]["admin"]
      /\ request'[f]["user"] = [request[f]["user"] EXCEPT !.pc = "loaded", !.base = link[f]]
  BY DEF RequestLoad, Inv, TypeOK, Roles
<1>3. request[f]["user"] \in Request /\ RequestInv(f) /\ LinkInv(f)
  BY DEF Inv, TypeOK, QueueInv, FileInv, Roles
<1>4. /\ request'[f]["user"].op = request[f]["user"].op
      /\ request'[f]["user"].rec = request[f]["user"].rec
      /\ request'[f]["user"].base = link[f]
  BY <1>2, <1>3 DEF Request
<1>5. RequestInv(f)'
  BY <1>1, <1>2, <1>3, <1>4 DEF RequestInv, LinkInv, In, Out
<1> QED
  BY <1>1, <1>2, <1>5, RequestMoves

LEMMA RequestAbortKeeps ==
  ASSUME Inv, NEW f \in Files, NEW role \in Roles, RequestAbort(f, role)
  PROVE  QueueInv'
<1>1. UNCHANGED <<record, link, cards, queue, notify>>
  BY DEF RequestAbort
<1>2. /\ \A g \in Files \ {f} : request'[g] = request[g]
      /\ \A r \in Roles : request'[f][r] = request[f][r] \/ request'[f][r] = NoRequest
  BY DEF RequestAbort, Inv, TypeOK
<1>3. NoRequest.op = "none" /\ NoRequest.pc = "idle" /\ RequestInv(f)
  BY DEF NoRequest, Inv, QueueInv, FileInv
<1>4. RequestInv(f)'
  BY <1>1, <1>2, <1>3 DEF RequestInv, Roles, In, Out
<1> QED
  BY <1>1, <1>2, <1>4, RequestMoves

(* What the hooks of a request write: never an id, and never a settled row.       *)
LEMMA HookPatches ==
  ASSUME NEW r, r.op \in UserOperations
  PROVE  LET p == RequestPatch(r)
         IN  /\ p.rag = Unset
             /\ p.next \in {Unset, "null", "past"}
             /\ r.op \in {"rename", "overwrite"} => p.state \in {Unset, "PENDING", "REINDEX_PENDING"}
             /\ r.op = "archive" => p.state = "ARCHIVED"
             /\ r.op = "delete" => p.state = "REMOVED"
<1>1. CASE r.op = "rename"
  <2>1. RequestPatch(r) = MarkRekey(r.base, r.rec.key)
    BY <1>1 DEF RequestPatch
  <2> QED
    BY <1>1, <2>1 DEF MarkRekey, Keep
<1>2. CASE r.op = "overwrite"
  <2>1. RequestPatch(r) = MarkContentChanged(r.base, r.rec.key, r.rec.sha)
    BY <1>2 DEF RequestPatch
  <2> QED
    BY <1>2, <2>1 DEF MarkContentChanged
<1>3. CASE r.op = "archive"
  <2>1. RequestPatch(r) = MarkArchived
    BY <1>3 DEF RequestPatch
  <2> QED
    BY <1>3, <2>1 DEF MarkArchived, Keep
<1>4. CASE r.op = "delete"
  <2>1. RequestPatch(r) = MarkRemoved
    BY <1>4 DEF RequestPatch
  <2> QED
    BY <1>4, <2>1 DEF MarkRemoved, Keep
<1> QED
  BY <1>1, <1>2, <1>3, <1>4 DEF UserOperations

LEMMA RequestCommitMoves ==
  ASSUME Inv, NEW f \in Files, NEW role \in Roles, RequestCommit(f, role)
  PROVE  /\ f \notin claimed /\ UNCHANGED <<cards, queue>>
         /\ \A g \in Files \ {f} : SameRow(g) /\ SameSessions(g)
         /\ request'[f]["user"] = NoRequest /\ request'[f]["admin"] = NoRequest
         /\ notify'[f]["create"] = notify[f]["create"] /\ notify[f]["delete"].pc = "off"
         /\ \/ notify'[f]["delete"] = notify[f]["delete"]
            \/ /\ notify'[f]["delete"] = [NoSession EXCEPT !.pc = "read"]
               /\ record'[f].status = "deleted" /\ Exists(link[f])
         /\ link'[f].rag = link[f].rag
         /\ Exists(link'[f]) <=> Exists(link[f])
         /\ ~Exists(link[f]) => link'[f] = link[f]
         /\ link'[f].next = "never" => link[f].next = "never"
         /\ \/ /\ In(f) /\ record'[f].status = "committed"
               /\ link'[f].state \in {link[f].state, "PENDING", "REINDEX_PENDING"}
            \/ /\ In(f) \/ Out(f)
               /\ record'[f].status \in {"archived", "deleted"}
               /\ In(f) /\ Exists(link[f]) => link'[f].state \in LeavingStates
               /\ Out(f) => link'[f].state \in {link[f].state, "REMOVED"}
<1> DEFINE r == request[f]["user"]
           p == RequestPatch(r)
<1>0. /\ FileInv(f) /\ RequestInv(f) /\ TypeOK
      /\ request \in [Files -> [Roles -> Request]] /\ link \in [Files -> Row]
      /\ notify \in [Files -> [NotifyKinds -> Session]]
      /\ record \in [Files -> Record]
  BY DEF Inv, QueueInv, FileInv, TypeOK
<1>1. role = "user"
  BY <1>0 DEF RequestInv, RequestCommit, NoRequest, Roles
<1>2. /\ UNCHANGED <<cards, queue>> /\ f \notin claimed /\ r.pc = "loaded"
      /\ record' = [record EXCEPT ![f] = r.rec]
      /\ request' = [request EXCEPT ![f]["user"] = NoRequest]
      /\ notify' = IF r.op = "delete" /\ Exists(r.base) /\ "delete" \in Notifies
                   THEN [notify EXCEPT ![f]["delete"] = [NoSession EXCEPT !.pc = "read"]]
                   ELSE notify
  BY <1>1 DEF RequestCommit, Locked
<1>3. /\ r.op \in UserOperations
      /\ In(f) \/ Out(f)
      /\ r.op \in {"rename", "overwrite", "archive"} => In(f)
      /\ r.op \in {"rename", "overwrite"} => r.rec.status = "committed"
      /\ r.op = "archive" => r.rec.status = "archived"
      /\ r.op = "delete" => r.rec.status = "deleted" /\ record[f].status # "deleted"
      /\ Exists(r.base) <=> Exists(link[f])
      /\ In(f) => r.base.state \notin LeavingStates
      /\ request[f]["admin"] = NoRequest
  BY <1>0, <1>2 DEF RequestInv, UserOperations
<1>4. /\ r.op # "backfill"
      /\ link' = IF Exists(r.base) THEN [link EXCEPT ![f] = Flush(@, r.base, p)] ELSE link
  <2>1. r.op # "backfill"
    BY <1>3 DEF UserOperations
  <2>2. link' = CASE r.op = "backfill" /\ ~Exists(link[f]) ->
                        [link EXCEPT ![f] = BackfilledRow(f, r.rec)]
                  [] r.op # "backfill" /\ Exists(r.base) ->
                        [link EXCEPT ![f] = Flush(@, r.base, RequestPatch(r))]
                  [] OTHER -> link
    BY <1>1 DEF RequestCommit
  <2> HIDE DEF r
  <2> QED
    BY <2>1, <2>2
<1>5. /\ p.rag = Unset
      /\ p.next \in {Unset, "null", "past"}
      /\ r.op \in {"rename", "overwrite"} => p.state \in {Unset, "PENDING", "REINDEX_PENDING"}
      /\ r.op = "archive" => p.state = "ARCHIVED"
      /\ r.op = "delete" => p.state = "REMOVED"
  BY <1>3, HookPatches
<1> HIDE DEF p
<1>6. /\ \A g \in Files \ {f} : SameRow(g) /\ SameSessions(g)
      /\ request'[f]["user"] = NoRequest /\ request'[f]["admin"] = NoRequest
      /\ notify'[f]["create"] = notify[f]["create"]
      /\ \/ notify'[f]["delete"] = notify[f]["delete"]
         \/ /\ notify'[f]["delete"] = [NoSession EXCEPT !.pc = "read"]
            /\ r.op = "delete" /\ Exists(r.base)
      /\ record'[f] = r.rec
  <2>1. /\ \A g \in Files \ {f} : record'[g] = record[g] /\ link'[g] = link[g]
                                  /\ notify'[g] = notify[g] /\ request'[g] = request[g]
        /\ record'[f] = r.rec
    BY <1>0, <1>2, <1>4
  <2>2. request'[f]["user"] = NoRequest /\ request'[f]["admin"] = NoRequest
    BY <1>0, <1>2, <1>3 DEF Roles
  <2>3. /\ notify'[f]["create"] = notify[f]["create"]
        /\ \/ notify'[f]["delete"] = notify[f]["delete"]
           \/ /\ notify'[f]["delete"] = [NoSession EXCEPT !.pc = "read"]
              /\ r.op = "delete" /\ Exists(r.base)
    BY <1>0, <1>2 DEF NotifyKinds
  <2> QED
    BY <2>1, <2>2, <2>3 DEF SameRow, SameSessions
<1>7. notify[f]["delete"].pc = "off"
  BY <1>0, <1>3 DEF FileInv, NotifyInv, In, Out, UserOperations
<1>8. CASE ~Exists(r.base)
  <2>1. link'[f] = link[f] /\ ~Exists(link[f])
    BY <1>3, <1>4, <1>8
  <2>2. link[f] = Absent
    BY <1>0, <2>1 DEF Exists, FileInv, LinkInv
  <2> QED
    BY <1>2, <1>3, <1>6, <1>7, <1>8, <2>1 DEF UserOperations
<1>9. CASE Exists(r.base)
  <2>1. link'[f] = Flush(link[f], r.base, p) /\ Exists(link[f])
    BY <1>0, <1>3, <1>4, <1>9
  <2>2. /\ link'[f].state = link[f].state \/ (p.state # Unset /\ link'[f].state = p.state)
        /\ link'[f].rag = link[f].rag
        /\ link'[f].next = "never" => link[f].next = "never"
    BY <1>5, <2>1, FlushedFields
  <2>3. p.state # Unset /\ p.state # r.base.state => link'[f].state = p.state
    BY <2>1 DEF Flush, Written
  <2>4. Exists(link'[f])
    BY <1>3, <1>5, <2>1, <2>2 DEF Exists, UserOperations
  <2>5. \/ /\ In(f) /\ record'[f].status = "committed"
           /\ link'[f].state \in {link[f].state, "PENDING", "REINDEX_PENDING"}
        \/ /\ record'[f].status \in {"archived", "deleted"}
           /\ In(f) => link'[f].state \in LeavingStates
           /\ Out(f) => link'[f].state \in {link[f].state, "REMOVED"}
    <3>1. CASE r.op \in {"rename", "overwrite"}
      BY <1>3, <1>5, <1>6, <2>2, <3>1
    <3>2. CASE r.op = "archive"
      BY <1>3, <1>5, <1>6, <2>2, <2>3, <3>2, LinkAssumption
         DEF LeavingStates, IndexLinkState, In, Out
    <3>3. CASE r.op = "delete"
      BY <1>3, <1>5, <1>6, <2>2, <2>3, <3>3, LinkAssumption DEF LeavingStates, IndexLinkState
    <3> QED
      BY <1>3, <3>1, <3>2, <3>3 DEF UserOperations
  <2> QED
    BY <1>2, <1>3, <1>6, <1>7, <2>1, <2>2, <2>4, <2>5
<1> QED
  BY <1>8, <1>9

LEMMA RequestCommitKeeps ==
  ASSUME Inv, NEW f \in Files, NEW role \in Roles, RequestCommit(f, role)
  PROVE  QueueInv'
<1>1. /\ f \notin claimed /\ UNCHANGED <<cards, queue>>
      /\ \A g \in Files \ {f} : SameRow(g) /\ SameSessions(g)
      /\ request'[f]["user"] = NoRequest /\ request'[f]["admin"] = NoRequest
      /\ notify'[f]["create"] = notify[f]["create"] /\ notify[f]["delete"].pc = "off"
      /\ \/ notify'[f]["delete"] = notify[f]["delete"]
         \/ /\ notify'[f]["delete"] = [NoSession EXCEPT !.pc = "read"]
            /\ record'[f].status = "deleted" /\ Exists(link[f])
      /\ link'[f].rag = link[f].rag
      /\ Exists(link'[f]) <=> Exists(link[f])
      /\ ~Exists(link[f]) => link'[f] = link[f]
      /\ link'[f].next = "never" => link[f].next = "never"
      /\ \/ /\ In(f) /\ record'[f].status = "committed"
            /\ link'[f].state \in {link[f].state, "PENDING", "REINDEX_PENDING"}
         \/ /\ In(f) \/ Out(f)
            /\ record'[f].status \in {"archived", "deleted"}
            /\ In(f) /\ Exists(link[f]) => link'[f].state \in LeavingStates
            /\ Out(f) => link'[f].state \in {link[f].state, "REMOVED"}
  BY RequestCommitMoves
<1>2. FileInv(f)
  BY DEF Inv, QueueInv
<1>3. LinkInv(f) /\ TodoInv(f) /\ NotifyInv(f)
  BY <1>2 DEF FileInv
<1>4. LinkInv(f)'
  <2>1. record'[f].status # "none"
    BY <1>1
  <2>2. In(f)' => link'[f].state \notin LeavingStates /\ link'[f].next # "never"
    BY <1>1, <1>3 DEF LinkInv, In, LeavingStates
  <2>3. Out(f)' => link'[f].state \in OutStates
    BY <1>1, <1>3 DEF LinkInv, In, Out, OutStates, LeavingStates, Exists
  <2>4. link'[f].state = "ABSENT" => link'[f] = Absent
    BY <1>1, <1>3 DEF LinkInv, Exists
  <2>5. link'[f].next = "never" => Gone(cards', link'[f].rag)
    BY <1>1, <1>3 DEF LinkInv
  <2>6. link'[f].state \in ServedStates => Serves(cards', link'[f].rag)
    <3>1. link'[f].state \in ServedStates => link[f].state = link'[f].state
      BY <1>1, <1>3 DEF LinkInv, ServedStates, LeavingStates, OutStates, Exists
    <3> QED
      BY <1>1, <1>3, <3>1 DEF LinkInv, Live
  <2> QED
    BY <2>1, <2>2, <2>3, <2>4, <2>5, <2>6 DEF LinkInv, In, Out, Live
<1>5. TodoInv(f)'
  <2>1. UNCHANGED <<todo, work>>
    BY <1>1 DEF queue
  <2> QED
    BY <1>1, <1>3, <2>1
       DEF TodoInv, In, Out, QueuedStates, ServedStates, LeavingStates, Exists
<1>6. NotifyInv(f)'
  <2>1. NoSession.patch = Keep /\ [NoSession EXCEPT !.pc = "read"].patch = Keep
        /\ [NoSession EXCEPT !.pc = "read"].pc = "read"
    BY DEF NoSession
  <2>2. CASE notify'[f]["delete"] = notify[f]["delete"]
    BY <1>1, <1>3, <2>2 DEF NotifyInv
  <2>3. CASE /\ notify'[f]["delete"] = [NoSession EXCEPT !.pc = "read"]
             /\ record'[f].status = "deleted" /\ Exists(link[f])
    <3> DEFINE s == [NoSession EXCEPT !.pc = "read"]
    <3>1. notify'[f]["delete"] = s /\ s.pc = "read" /\ s.patch = Keep
      BY <2>1, <2>3
    <3> HIDE DEF s
    <3>2. Keep.rag = Unset /\ Keep.state = Unset /\ Keep.next # "never"
      BY LinkAssumption DEF Keep, NextAttempts
    <3> QED
      BY <1>1, <1>3, <2>3, <3>1, <3>2 DEF NotifyInv, Exists
  <2> QED
    BY <1>1, <2>2, <2>3
<1>7. RequestInv(f)'
  BY <1>1 DEF RequestInv, NoRequest
<1> QED
  BY <1>1, <1>4, <1>5, <1>6, <1>7, WriteKeeps

(* What comes into the library comes into the queue, or is skipped.             *)
LEMMA UploadMoves ==
  ASSUME UsersOnly, Inv, NEW u \in Uploads, Upload(u)
  PROVE  /\ u[1] \in Files /\ u[1] \notin claimed /\ UNCHANGED <<cards, queue, notify, request>>
         /\ \A g \in Files \ {u[1]} : SameRow(g)
         /\ record[u[1]].status = "none" /\ link[u[1]] = Absent
         /\ record'[u[1]].status = "committed"
         /\ link'[u[1]].state \in {"SKIPPED", "PENDING"}
         /\ link'[u[1]].rag = None /\ link'[u[1]].next = "null"
<1> DEFINE f == u[1]
<1>1. f \in Files
  BY QueueAssumption
<1>2. /\ UNCHANGED <<cards, queue, notify, request>>
      /\ record[f].status = "none"
      /\ record' = [record EXCEPT ![f] = [status |-> "committed", key |-> u[2], sha |-> u[3]]]
  BY DEF Upload, UsersOnly
<1>3. \E s \in {"SKIPPED", "PENDING"} : \E k, h : link' = [link EXCEPT ![f] = NewRow(s, k, h)]
  BY DEF Upload
<1> HIDE DEF f
<1>4. link[f] = Absent /\ f \notin claimed
  <2>1. FileInv(f)
    BY <1>1 DEF Inv, QueueInv
  <2>2. link[f] = Absent
    BY <1>2, <2>1 DEF FileInv, LinkInv
  <2> QED
    BY <2>1, <2>2 DEF FileInv, ClaimInv, Due, Absent, DueStates, IndexLinkState
<1>5. \A s, k, h : /\ NewRow(s, k, h).state = s /\ NewRow(s, k, h).rag = None
                   /\ NewRow(s, k, h).next = "null"
  BY DEF NewRow, Absent
<1>6. /\ record'[f].status = "committed"
      /\ \A g \in Files \ {f} : record'[g] = record[g] /\ link'[g] = link[g]
      /\ link'[f].state \in {"SKIPPED", "PENDING"}
      /\ link'[f].rag = None /\ link'[f].next = "null"
  BY <1>1, <1>2, <1>3, <1>5 DEF Inv, TypeOK
<1> QED
  BY <1>1, <1>2, <1>4, <1>6 DEF SameRow, f

LEMMA UploadKeepsQueue ==
  ASSUME UsersOnly, Inv, NEW u \in Uploads, Upload(u)
  PROVE  QueueInv'
<1> DEFINE f == u[1]
<1>1. /\ f \in Files /\ f \notin claimed /\ UNCHANGED <<cards, queue, notify, request>>
      /\ \A g \in Files \ {f} : SameRow(g)
      /\ record[f].status = "none" /\ link[f] = Absent
      /\ record'[f].status = "committed"
      /\ link'[f].state \in {"SKIPPED", "PENDING"}
      /\ link'[f].rag = None /\ link'[f].next = "null"
  BY UploadMoves
<1> HIDE DEF f
<1>2. FileInv(f) /\ Absent.rag = None
  BY <1>1 DEF Inv, QueueInv, Absent
<1>3. LinkInv(f)'
  BY <1>1 DEF LinkInv, In, Out, LeavingStates, ServedStates
<1>4. TodoInv(f)'
  BY <1>1, <1>2 DEF FileInv, TodoInv, queue
<1>5. NotifyInv(f)'
  BY <1>1, <1>2 DEF FileInv, NotifyInv
<1>6. RequestInv(f)'
  BY <1>1, <1>2 DEF FileInv, RequestInv, In, Out, UserOperations
<1>7. link'[f].rag = link[f].rag
  BY <1>1, <1>2
<1>8. \A g \in Files \ {f} : SameRow(g) /\ SameSessions(g)
  BY <1>1 DEF SameSessions
<1> QED
  BY <1>1, <1>3, <1>4, <1>5, <1>6, <1>7, <1>8, WriteKeeps

-----------------------------------------------------------------------------
LEMMA InvInit == Init => Inv
BY InitType, IndexedInit, InitQueue DEF Inv

LEMMA InvStep == UsersOnly /\ Inv /\ [Next]_vars => Inv'
<1> SUFFICES ASSUME UsersOnly, Inv, [Next]_vars PROVE Inv'
  OBVIOUS
<1>1. TypeOK' /\ IndexedInv'
  BY StepType, IndexedStep DEF Inv
<1>2. CASE UNCHANGED vars
  <2>1. QueueInv'
    <3>1. UNCHANGED <<record, link, cards, claimed, todo, work, broken, notify, request>>
      BY <1>2 DEF vars, queue
    <3>2. \A f \in Files : FileInv(f)'
      BY <3>1, CardsUnchanged, FileKept DEF Inv, QueueInv, SameRow, SameTick, SameSessions
    <3>3. ApartInv'
      BY <3>1, ApartKept DEF Seen, Inv, QueueInv
    <3> QED
      BY <3>1, <3>2, <3>3 DEF Inv, QueueInv
  <2> QED
    BY <1>1, <2>1 DEF Inv
<1>3. CASE Tick
  BY <1>1, <1>3, TickClaimKeeps, TickCallKeeps, TickCommitKeeps DEF Tick, Inv
<1>4. ASSUME NEW u \in Uploads, Upload(u) PROVE Inv'
  BY <1>1, <1>4, UploadKeepsQueue DEF Inv
<1>5. ASSUME NEW f \in Files, NEW k \in NotifyKinds, Notify(f, k) PROVE Inv'
  BY <1>1, <1>5, NotifyReadKeeps, NotifyCallKeeps, NotifySelectKeeps, NotifyWriteKeeps
     DEF Notify, Inv
<1>6. ASSUME NEW f \in Files, RequestBegins(f) PROVE Inv'
  BY <1>1, <1>6, RequestBeginsKeep DEF Inv
<1>7. ASSUME NEW f \in Files, RequestStep(f) PROVE Inv'
  BY <1>1, <1>7, RequestLoadKeeps, RequestCommitKeeps, RequestAbortKeeps DEF RequestStep, Inv
<1>8. ASSUME NEW f \in Files, WritePreview(f) \/ BackoffEnds(f) \/ MaxWaitPasses(f) PROVE Inv'
  BY <1>1, <1>8, PreviewKeeps, BackoffKeeps DEF Inv
<1>9. ASSUME NEW id \in RagIds, RagFinishes(id) PROVE Inv'
  BY <1>1, <1>9, RagKeeps DEF Inv
<1>10. CASE Crash
  BY <1>1, <1>10, CrashKeeps DEF Inv
<1> QED
  BY <1>2, <1>3, <1>4, <1>5, <1>6, <1>7, <1>8, <1>9, <1>10 DEF Next

LEMMA Invariance == UsersOnly => (Spec => []Inv)
<1> SUFFICES ASSUME UsersOnly PROVE Spec => []Inv
  OBVIOUS
<1>1. Init => Inv
  BY InvInit
<1>2. Inv /\ [Next]_vars => Inv'
  BY InvStep
<1> QED
  BY <1>1, <1>2, PTL DEF Spec

(* A row taken out of the queue for good leaves no searchable card: whoever      *)
(* settled it (the tick or the notify of a delete, in _remove), RAG had           *)
(* confirmed, for every interleaving with renames, overwrites and lost answers.   *)
THEOREM SettledCardsAreGone == UsersOnly => (Spec => []SettledIsGone)
<1> SUFFICES ASSUME UsersOnly PROVE Spec => []SettledIsGone
  OBVIOUS
<1>1. Inv => SettledIsGone
  BY DEF Inv, QueueInv, FileInv, LinkInv, SettledIsGone, Gone, Live, Serves
<1>2. Spec => []Inv
  BY Invariance
<1> QED
  BY <1>1, <1>2, PTL

(* What was deleted or archived stays out of the live states, whichever session   *)
(* writes last: the tick that claimed before, the notify or another request.      *)
THEOREM OutStaysOut == UsersOnly => (Spec => []OutOfLibraryOutOfIndex)
<1> SUFFICES ASSUME UsersOnly PROVE Spec => []OutOfLibraryOutOfIndex
  OBVIOUS
<1>1. Inv => OutOfLibraryOutOfIndex
  BY DEF Inv, QueueInv, FileInv, LinkInv, Out, OutStates, OutOfLibraryOutOfIndex
<1>2. Spec => []Inv
  BY Invariance
<1> QED
  BY <1>1, <1>2, PTL

(* Only the commit of a tick changes an id in the table.                        *)
LEMMA IdsMove ==
  ASSUME UsersOnly, Inv, Next, ~TickCommit, NEW f \in Files, link[f].rag # None
  PROVE  link'[f].rag = link[f].rag
<1>0. link \in [Files -> Row]
  BY DEF Inv, TypeOK
<1>1. CASE TickClaim \/ (\E g \in Files : TickCall(g)) \/ Crash
  BY <1>1 DEF TickClaim, TickCall, Crash
<1>2. ASSUME NEW u \in Uploads, Upload(u) PROVE link'[f].rag = link[f].rag
  BY <1>2, UploadMoves DEF SameRow, Absent
<1>3. ASSUME NEW g \in Files, NEW k \in NotifyKinds, Notify(g, k)
      PROVE  link'[f].rag = link[f].rag
  <2>1. CASE NotifyWrite(g, k)
    <3>1. link'[g].rag = link[g].rag /\ \A x \in Files \ {g} : SameRow(x)
      BY <2>1, NotifyWriteMoves
    <3> QED
      BY <3>1 DEF SameRow
  <2> QED
    BY <1>3, <2>1 DEF Notify, NotifyRead, NotifyCall, NotifySelect
<1>4. ASSUME NEW g \in Files, RequestBegins(g) \/ RequestStep(g)
      PROVE  link'[f].rag = link[f].rag
  <2>1. ASSUME NEW role \in Roles, RequestCommit(g, role)
        PROVE  link'[f].rag = link[f].rag
    <3>1. link'[g].rag = link[g].rag /\ \A x \in Files \ {g} : SameRow(x)
      BY <2>1, RequestCommitMoves
    <3> QED
      BY <3>1 DEF SameRow
  <2> QED
    BY <1>4, <2>1
       DEF RequestBegins, RenameBegin, OverwriteBegin, DeleteBegin, ArchiveBegin, RetryBegin,
           BackfillBegin, Begin, RequestStep, RequestLoad, RequestAbort
<1>5. ASSUME NEW g \in Files, WritePreview(g) PROVE link'[f].rag = link[f].rag
  BY <1>5 DEF WritePreview
<1>6. ASSUME NEW g \in Files, BackoffEnds(g) \/ MaxWaitPasses(g)
      PROVE  link'[f].rag = link[f].rag
  <2>1. \/ link'[f] = link[f]
        \/ link'[f] = [link[f] EXCEPT !.next = "past"]
        \/ link'[f] = [link[f] EXCEPT !.aged = TRUE]
    BY <1>0, <1>6 DEF BackoffEnds, MaxWaitPasses
  <2>2. link[f] \in Row
    BY <1>0
  <2> QED
    BY <2>1, <2>2 DEF Row
<1>7. ASSUME NEW id \in RagIds, RagFinishes(id) PROVE link'[f].rag = link[f].rag
  BY <1>7 DEF RagFinishes
<1> QED
  BY <1>1, <1>2, <1>3, <1>4, <1>5, <1>6, <1>7 DEF Next, Tick

(* No write drops or replaces the id of a card RAG still serves: a batch that      *)
(* commits another id, or none, has had the old card deleted, and the sessions     *)
(* that write beside the tick (apply_transition of the notify, the hooks of the     *)
(* requests) never write an id.                                              *)
THEOREM NoCardIsForgotten == UsersOnly => (Spec => CardsAreNotForgotten)
<1> SUFFICES ASSUME UsersOnly PROVE Spec => CardsAreNotForgotten
  OBVIOUS
<1>1. Inv /\ [Next]_vars =>
        [\A f \in Files : link[f].rag # None /\ link'[f].rag # link[f].rag
                              => ~Serves(cards', link[f].rag)]_vars
  <2> SUFFICES ASSUME Inv, Next, NEW f \in Files,
                      link[f].rag # None, link'[f].rag # link[f].rag
               PROVE  ~Serves(cards', link[f].rag)
    OBVIOUS
  <2>1. TickCommit
    BY IdsMove
  <2>2. f \in claimed /\ link'[f] = work[f] /\ cards' = cards
    BY <2>1 DEF TickCommit, Seen
  <2>3. Gone(cards, link[f].rag)
    BY <2>2 DEF Inv, QueueInv, FileInv, ClaimInv
  <2> QED
    BY <2>2, <2>3 DEF Gone, Serves
<1>2. Spec => []Inv
  BY Invariance
<1> QED
  BY <1>1, <1>2, PTL DEF Spec, CardsAreNotForgotten

-----------------------------------------------------------------------------
(* Step by step, the queue is SearchIndex.                                    *)

LEMMA Phases ==
  ASSUME NEW row \in Row
  PROVE  /\ row.next = "never" => PhaseOf(row) = "gone"
         /\ row.next # "never" =>
              /\ row.state = "ABSENT" => PhaseOf(row) = "none"
              /\ row.state \in QueuedStates => PhaseOf(row) = "queued"
              /\ row.state = "INDEXED" => PhaseOf(row) = "indexed"
              /\ row.state \in {"FAILED", "SKIPPED"} => PhaseOf(row) = "stopped"
              /\ row.state \in LeavingStates => PhaseOf(row) = "leaving"
         /\ row.state \in QueuedStates \cup LeavingStates
                          \cup {"ABSENT", "INDEXED", "FAILED", "SKIPPED"}
BY DEF PhaseOf, Row, IndexLinkState, QueuedStates, LeavingStates

LEMMA Shelves ==
  ASSUME TypeOK, NEW f \in Files
  PROVE  /\ record[f].status = "none" => ShelfOf(f) = "none"
         /\ In(f) => ShelfOf(f) = "in"
         /\ Out(f) => ShelfOf(f) = "out"
         /\ record[f].status = "none" \/ In(f) \/ Out(f)
<1>1. record[f].status \in RecordStatus
  BY DEF TypeOK, Record
<1> QED
  BY <1>1 DEF ShelfOf, In, Out, RecordStatus

EntryMoves(f) == EntryOf(f)' = EntryOf(f) \/ Abstract!Moves(EntryOf(f), EntryOf(f)')

LEMMA EntryStays ==
  ASSUME NEW f \in Files, SameRow(f), Live(link[f].rag) <=> Serves(cards', link[f].rag)
  PROVE  EntryMoves(f)
BY DEF EntryMoves, EntryOf, ShelfOf, SameRow, Live, Serves

(* A row that is to be removed, or has been given up, is past being queued or shown. *)
LEMMA OutRow ==
  ASSUME NEW row \in Row, NEW c, row.state \in LeavingStates \cup {"FAILED"},
         row.next = "never" => Gone(c, row.rag)
  PROVE  /\ PhaseOf(row) \in {"leaving", "stopped", "gone"}
         /\ PhaseOf(row) = "gone" => ~Serves(c, row.rag)
<1>1. row.next = "never" => ~Serves(c, row.rag)
  BY DEF Gone, Serves
<1> QED
  BY <1>1, Phases DEF LeavingStates

LEMMA OutPhase ==
  ASSUME Inv, NEW f \in Files, Out(f), link[f].state # "ABSENT"
  PROVE  /\ PhaseOf(link[f]) \in {"leaving", "stopped", "gone"}
         /\ PhaseOf(link[f]) = "gone" => ~Live(link[f].rag)
<1>1. link[f] \in Row /\ LinkInv(f)
  BY DEF Inv, TypeOK, QueueInv, FileInv
<1>2. link[f].state \in LeavingStates \cup {"FAILED"}
  BY <1>1 DEF LinkInv, OutStates, LeavingStates
<1> QED
  BY <1>1, <1>2, OutRow DEF LinkInv, Live

(* The card a row knows is never one that is issued later.                     *)
LEMMA FoundOnce ==
  ASSUME Inv, NEW f \in Files, NEW c,
         \A id : Serves(c, id) => Live(id) \/ cards[id].status = "unused"
  PROVE  Serves(c, link[f].rag) => Live(link[f].rag)
<1>1. RowIssued(cards, link[f])
  BY DEF Inv, IndexedInv
<1> QED
  BY <1>1, LinkAssumption DEF RowIssued, Issued, Serves

(* The row stays and the card it knows may go.                                *)
LEMMA EntryOfCall ==
  ASSUME Inv, NEW f \in Files, SameRow(f),
         \A id : Serves(cards', id) => Live(id) \/ cards[id].status = "unused",
         Live(link[f].rag) /\ ~Serves(cards', link[f].rag) =>
             Out(f) \/ (In(f) /\ link[f].state \in QueuedStates)
  PROVE  EntryMoves(f)
<1>0. link[f] \in Row /\ LinkInv(f) /\ TypeOK
  BY DEF Inv, TypeOK, QueueInv, FileInv
<1>1. CASE Live(link[f].rag) <=> Serves(cards', link[f].rag)
  BY <1>1, EntryStays
<1>2. CASE Live(link[f].rag) /\ ~Serves(cards', link[f].rag)
  <2> DEFINE e == EntryOf(f)
             d == EntryOf(f)'
  <2>1. /\ e.shelf = ShelfOf(f) /\ e.phase = PhaseOf(link[f]) /\ e.found = TRUE
        /\ d.shelf = e.shelf /\ d.phase = e.phase /\ d.found = FALSE
    BY <1>2 DEF EntryOf, ShelfOf, SameRow, Live
  <2>2. CASE Out(f)
    <3>1. link[f].state # "ABSENT"
      BY <1>0, <1>2, LinkAssumption DEF LinkInv, Absent, Live, Serves
    <3>2. e.shelf = "out" /\ e.phase \in {"leaving", "stopped", "gone"} /\ e.phase # "gone"
      BY <1>0, <1>2, <2>1, <2>2, <3>1, OutPhase, Shelves
    <3> HIDE DEF e, d
    <3>3. Abstract!Withdrawn(e, d)
      BY <2>1, <3>2 DEF Abstract!Withdrawn, Abstract!Stays
    <3> QED
      BY <3>3 DEF EntryMoves, Abstract!Moves, e, d
  <2>3. CASE In(f) /\ link[f].state \in QueuedStates
    <3>1. e.shelf = "in" /\ e.phase = "queued"
      BY <1>0, <2>1, <2>3, Phases, Shelves DEF LinkInv
    <3> HIDE DEF e, d
    <3>2. Abstract!Queued(e, d)
      BY <2>1, <3>1 DEF Abstract!Queued, Abstract!Stays
    <3> QED
      BY <3>2 DEF EntryMoves, Abstract!Moves, e, d
  <2> QED
    BY <1>2, <2>2, <2>3
<1> QED
  BY <1>1, <1>2, FoundOnce

(* A step that leaves the cards of all rows alone, but those of one call.        *)
LEMMA EntryOfTickCall ==
  ASSUME Inv, NEW f \in Files, NEW g \in Files, TickCall(f)
  PROVE  EntryMoves(g)
<1>1. PICK o \in Process(f, work[f]) :
        cards' = IF broken THEN WithoutSession(o.cards) ELSE o.cards
  BY DEF TickCall
<1>2. f \in todo /\ SameRow(g)
  BY DEF TickCall, SameRow
<1>3. TypeOK /\ work[f] \in Row /\ TodoInv(f)
  BY DEF Inv, TypeOK, QueueInv, FileInv
<1>4. CardsMove(work[f], cards')
  BY <1>1, <1>3, ProcessOutcome, CardsStay DEF WithoutSession
<1>5. \A id : Serves(cards', id) => Live(id) \/ cards[id].status = "unused"
  BY <1>4 DEF CardsMove
<1>6. ASSUME Live(link[g].rag), ~Serves(cards', link[g].rag)
      PROVE  Out(g) \/ (In(g) /\ link[g].state \in QueuedStates)
  <2>1. link[g].rag = work[f].rag /\ link[g].rag \in RagIds
    BY <1>4, <1>6 DEF CardsMove, Live, Serves
  <2>2. link[g].rag = link[f].rag
    BY <1>2, <1>3, <2>1, LinkAssumption DEF TodoInv
  <2>3. g = f
    BY <2>1, <2>2, LinkAssumption DEF Inv, QueueInv, ApartInv
  <2> QED
    BY <1>2, <1>3, <2>3, Shelves DEF TodoInv
<1> QED
  BY <1>2, <1>5, <1>6, EntryOfCall

(* The notify of a delete takes the card of a file that is out.               *)
LEMMA EntryOfNotifyCall ==
  ASSUME Inv, NEW f \in Files, NEW g \in Files, NEW k \in NotifyKinds, NotifyCall(f, k)
  PROVE  EntryMoves(g)
<1> DEFINE snap == notify[f][k].snap
<1>1. /\ notify[f][k].pc = "call" /\ SameRow(g)
      /\ \E o \in Process(f, snap) : cards' = o.cards
  BY DEF NotifyCall, SameRow
<1>2. /\ TypeOK /\ NotifyInv(f) /\ notify[f][k] \in Session
  BY DEF Inv, QueueInv, FileInv, TypeOK
<1>3. k = "delete"
  BY <1>1, <1>2 DEF NotifyInv, NotifyKinds
<1>4. /\ snap \in Row /\ snap.rag = link[f].rag /\ Out(f)
  BY <1>1, <1>2, <1>3 DEF NotifyInv, Session, Out
<1> HIDE DEF snap
<1>5. CardsMove(snap, cards')
  BY <1>1, <1>2, <1>4, ProcessOutcome
<1>6. \A id : Serves(cards', id) => Live(id) \/ cards[id].status = "unused"
  BY <1>5 DEF CardsMove
<1>7. ASSUME Live(link[g].rag), ~Serves(cards', link[g].rag)
      PROVE  Out(g)
  <2>1. link[g].rag = link[f].rag /\ link[g].rag \in RagIds
    BY <1>4, <1>5, <1>7 DEF CardsMove, Live, Serves
  <2>2. g = f
    BY <2>1, LinkAssumption DEF Inv, QueueInv, ApartInv
  <2> QED
    BY <1>4, <2>2
<1> QED
  BY <1>1, <1>6, <1>7, EntryOfCall

(* A batch moves what it holds: in the library on to the next phase, outside only  *)
(* further out.                                                              *)
LEMMA EntryOfTickCommit ==
  ASSUME Inv, NEW f \in Files, TickCommit
  PROVE  EntryMoves(f)
<1> DEFINE e == EntryOf(f)
           d == EntryOf(f)'
<1>1. UNCHANGED <<record, cards>> /\ link'[f] = Seen(f)
  BY DEF TickCommit
<1>2. /\ link[f] \in Row /\ work[f] \in Row /\ LinkInv(f) /\ ClaimInv(f) /\ TypeOK
  BY DEF Inv, TypeOK, QueueInv, FileInv
<1>3. CASE f \notin claimed
  BY <1>1, <1>3, EntryStays DEF Seen, SameRow, Live
<1>4. CASE f \in claimed
  <2>1. /\ e.shelf = ShelfOf(f) /\ e.phase = PhaseOf(link[f]) /\ e.found = Live(link[f].rag)
        /\ d.shelf = e.shelf /\ d.phase = PhaseOf(work[f]) /\ d.found = Live(work[f].rag)
    BY <1>1, <1>4 DEF EntryOf, ShelfOf, Live, Seen
  <2> HIDE DEF e, d
  <2>2. /\ Due(link[f])
        /\ work[f].state # "ABSENT"
        /\ In(f) => work[f].state \notin LeavingStates /\ work[f].next # "never"
        /\ Out(f) => /\ work[f].state \in LeavingStates \cup {"FAILED"}
                     /\ work[f].rag = link[f].rag
        /\ work[f].next = "never" => Gone(cards, work[f].rag)
        /\ work[f].state \in ServedStates => Live(work[f].rag)
        /\ work[f].rag # link[f].rag => Gone(cards, link[f].rag)
        /\ work[f].rag \notin {None, link[f].rag} => work[f].state = "SUBMITTED"
    BY <1>2, <1>4 DEF ClaimInv
  <2>3. /\ link[f].next # "never"
        /\ In(f) => link[f].state \in QueuedStates
        /\ record[f].status # "none"
    BY <1>2, <2>2, DueRow
  <2>4. CASE In(f)
    <3>1. e.shelf = "in" /\ e.phase = "queued"
      BY <1>2, <2>1, <2>3, <2>4, Phases, Shelves
    <3>2. work[f].state \in QueuedStates \cup {"INDEXED", "FAILED", "SKIPPED"}
      BY <1>2, <2>2, <2>4, Phases
    <3>3. CASE work[f].state \in QueuedStates
      <4>1. d.phase = "queued"
        BY <1>2, <2>1, <2>2, <2>4, <3>3, Phases
      <4> QED
        BY <2>1, <3>1, <4>1
           DEF EntryMoves, Abstract!Moves, Abstract!Queued, Abstract!Stays, e, d
    <3>4. CASE work[f].state = "INDEXED"
      <4>1. d.phase = "indexed" /\ d.found = TRUE
        BY <1>2, <2>1, <2>2, <2>4, <3>4, Phases DEF ServedStates
      <4>2. work[f].rag = link[f].rag
        BY <2>2, <3>4, LinkAssumption DEF ServedStates, Live, Serves
      <4> QED
        BY <2>1, <3>1, <4>1, <4>2
           DEF EntryMoves, Abstract!Moves, Abstract!Shown, Abstract!Stays, e, d
    <3>5. CASE work[f].state \in {"FAILED", "SKIPPED"}
      <4>1. d.phase = "stopped"
        BY <1>2, <2>1, <2>2, <2>4, <3>5, Phases
      <4>2. Live(work[f].rag) <=> Live(link[f].rag)
        BY <2>2, <3>5, LinkAssumption DEF Live, Serves, Gone
      <4>3. d.found = e.found
        BY <2>1, <4>2 DEF Live, Serves
      <4> QED
        BY <2>1, <3>1, <4>1, <4>3
           DEF EntryMoves, Abstract!Moves, Abstract!GivenUp, Abstract!Stays, e, d
    <3> QED
      BY <3>2, <3>3, <3>4, <3>5
  <2>5. CASE Out(f)
    <3>1. e.shelf = "out" /\ d.found = e.found
      BY <1>2, <2>1, <2>2, <2>5, Shelves
    <3>2. d.phase \in {"leaving", "stopped", "gone"}
      BY <1>2, <2>1, <2>2, <2>5, Phases DEF LeavingStates
    <3>3. d.phase = "gone" => ~d.found
      <4>1. work[f].next = "never" => ~Live(work[f].rag)
        BY <2>2 DEF Gone, Live, Serves
      <4>2. work[f].next # "never" => d.phase # "gone"
        BY <1>2, <2>1, <2>2, <2>5, Phases DEF LeavingStates
      <4> QED
        BY <2>1, <4>1, <4>2
    <3>4. Abstract!Withdrawn(e, d)
      BY <2>1, <3>1, <3>2, <3>3 DEF Abstract!Withdrawn, Abstract!Stays
    <3> QED
      BY <3>4 DEF EntryMoves, Abstract!Moves, e, d
  <2> QED
    BY <1>2, <2>3, <2>4, <2>5, Shelves
<1> QED
  BY <1>3, <1>4

(* Two rows of one state that are both not settled are in one phase.            *)
LEMMA OnePhase ==
  ASSUME NEW r \in Row, NEW s \in Row, r.state = s.state, r.next # "never", s.next # "never"
  PROVE  PhaseOf(r) = PhaseOf(s)
BY Phases DEF Row, IndexLinkState, QueuedStates, LeavingStates

(* The delete's own attempt only takes the file further out.                  *)
LEMMA EntryOfNotifyWrite ==
  ASSUME Inv, Inv', NEW f \in Files, NEW g \in Files, NEW k \in NotifyKinds, NotifyWrite(f, k)
  PROVE  EntryMoves(g)
<1>1. /\ UNCHANGED <<record, cards>>
      /\ record[f].status = "deleted" /\ link[f].state # "ABSENT"
      /\ \A x \in Files \ {f} : SameRow(x)
      /\ link'[f].rag = link[f].rag
      /\ link'[f].state \in {link[f].state, "REMOVED", "FAILED"}
      /\ link'[f].next = "never" => Gone(cards, link[f].rag)
  BY NotifyWriteMoves
<1>2. CASE g # f
  BY <1>1, <1>2, EntryStays DEF Live
<1>3. CASE g = f
  <2> DEFINE e == EntryOf(f)
             d == EntryOf(f)'
  <2>1. TypeOK /\ LinkInv(f) /\ link'[f] \in Row /\ Out(f)
    BY <1>1 DEF Inv, TypeOK, QueueInv, FileInv, Out
  <2>2. link'[f].state \in LeavingStates \cup {"FAILED"}
    BY <1>1, <2>1 DEF LinkInv, OutStates, LeavingStates
  <2>3. /\ PhaseOf(link'[f]) \in {"leaving", "stopped", "gone"}
        /\ PhaseOf(link'[f]) = "gone" => ~Serves(cards, link[f].rag)
    BY <1>1, <2>1, <2>2, OutRow
  <2>4. /\ e.shelf = "out" /\ d.shelf = e.shelf /\ d.phase = PhaseOf(link'[f])
        /\ e.found = Serves(cards, link[f].rag) /\ d.found = Serves(cards, link[f].rag)
    BY <1>1, <2>1, Shelves DEF EntryOf, ShelfOf, Live
  <2> HIDE DEF e, d
  <2>5. Abstract!Withdrawn(e, d)
    BY <2>3, <2>4 DEF Abstract!Withdrawn, Abstract!Stays
  <2> QED
    BY <1>3, <2>5 DEF EntryMoves, Abstract!Moves, e, d
<1> QED
  BY <1>2, <1>3

LEMMA EntryOfUpload ==
  ASSUME UsersOnly, Inv, Inv', NEW u \in Uploads, Upload(u), NEW g \in Files
  PROVE  EntryMoves(g)
<1> DEFINE f == u[1]
<1>1. /\ f \in Files /\ UNCHANGED cards
      /\ \A x \in Files \ {f} : SameRow(x)
      /\ record[f].status = "none" /\ link[f] = Absent
      /\ record'[f].status = "committed"
      /\ link'[f].state \in {"SKIPPED", "PENDING"}
      /\ link'[f].rag = None /\ link'[f].next = "null"
  BY UploadMoves
<1> HIDE DEF f
<1>2. CASE g # f
  BY <1>1, <1>2, EntryStays DEF Live
<1>3. CASE g = f
  <2> DEFINE e == EntryOf(f)
             d == EntryOf(f)'
  <2>1. TypeOK /\ link[f] \in Row /\ link'[f] \in Row
    BY <1>1 DEF Inv, TypeOK
  <2>2. e = Abstract!Unoffered("none")
    <3>1. ShelfOf(f) = "none" /\ PhaseOf(link[f]) = "none" /\ ~Live(link[f].rag)
      BY <1>1, <2>1, Phases, Shelves, LinkAssumption DEF Absent, Live, Serves
    <3>2. Live(link[f].rag) = FALSE
      BY <3>1 DEF Live, Serves
    <3> QED
      BY <3>1, <3>2 DEF EntryOf, Abstract!Unoffered
  <2>3. /\ d.shelf = "in" /\ d.phase = PhaseOf(link'[f]) /\ d.found = FALSE
    BY <1>1, LinkAssumption DEF EntryOf, ShelfOf, Live, Serves
  <2>4. PhaseOf(link'[f]) \in {"queued", "stopped"}
    BY <1>1, <2>1, Phases DEF QueuedStates
  <2> HIDE DEF e, d
  <2>5. Abstract!Offered(e, d)
    BY <2>2, <2>3, <2>4 DEF Abstract!Offered
  <2> QED
    BY <1>3, <2>5 DEF EntryMoves, Abstract!Moves, e, d
<1> QED
  BY <1>2, <1>3

(* Clocks change no phase.                                                   *)
LEMMA EntryOfClock ==
  ASSUME Inv, Inv', NEW f \in Files, NEW g \in Files, BackoffEnds(f) \/ MaxWaitPasses(f)
  PROVE  EntryMoves(g)
<1>1. UNCHANGED <<record, cards>> /\ link \in [Files -> Row] /\ link'[g] \in Row /\ link[g] \in Row
  BY DEF BackoffEnds, MaxWaitPasses, Inv, TypeOK
<1>2. \/ link'[g] = link[g]
      \/ link[g].next = "later" /\ link'[g] = [link[g] EXCEPT !.next = "past"]
      \/ link'[g] = [link[g] EXCEPT !.aged = TRUE]
  BY <1>1 DEF BackoffEnds, MaxWaitPasses
<1>3. /\ link'[g].state = link[g].state /\ link'[g].rag = link[g].rag
      /\ link'[g].next = "never" <=> link[g].next = "never"
  BY <1>1, <1>2 DEF Row
<1>4. PhaseOf(link'[g]) = PhaseOf(link[g])
  BY <1>1, <1>3, OnePhase, Phases
<1> QED
  BY <1>1, <1>3, <1>4 DEF EntryMoves, EntryOf, ShelfOf, Live

(* A request queues the file anew, takes it out of the library, or takes it        *)
(* further out; a file without a row is left without one.                      *)
LEMMA EntryOfRequest ==
  ASSUME Inv, Inv', NEW f \in Files, NEW g \in Files, NEW role \in Roles,
         RequestCommit(f, role)
  PROVE  EntryMoves(g)
<1>1. /\ UNCHANGED cards
      /\ \A x \in Files \ {f} : SameRow(x)
      /\ link'[f].rag = link[f].rag
      /\ Exists(link'[f]) <=> Exists(link[f])
      /\ ~Exists(link[f]) => link'[f] = link[f]
      /\ link'[f].next = "never" => link[f].next = "never"
      /\ \/ /\ In(f) /\ record'[f].status = "committed"
            /\ link'[f].state \in {link[f].state, "PENDING", "REINDEX_PENDING"}
         \/ /\ In(f) \/ Out(f)
            /\ record'[f].status \in {"archived", "deleted"}
            /\ In(f) /\ Exists(link[f]) => link'[f].state \in LeavingStates
            /\ Out(f) => link'[f].state \in {link[f].state, "REMOVED"}
  BY RequestCommitMoves
<1>2. CASE g # f
  BY <1>1, <1>2, EntryStays DEF SameRow, Live
<1>3. CASE g = f
  <2> DEFINE e == EntryOf(f)
             d == EntryOf(f)'
  <2>1. /\ TypeOK /\ LinkInv(f) /\ link[f] \in Row /\ link'[f] \in Row
    BY DEF Inv, TypeOK, QueueInv, FileInv
  <2>2. /\ e.shelf = ShelfOf(f) /\ d.shelf = ShelfOf(f)'
        /\ e.phase = PhaseOf(link[f]) /\ d.phase = PhaseOf(link'[f])
        /\ e.found = Serves(cards, link[f].rag) /\ d.found = Serves(cards, link[f].rag)
    BY <1>1 DEF EntryOf, Live
  <2>3. /\ In(f) => e.shelf = "in"
        /\ Out(f) => e.shelf = "out"
        /\ record'[f].status = "committed" => d.shelf = "in"
        /\ record'[f].status \in {"archived", "deleted"} => d.shelf = "out"
    BY <2>2 DEF ShelfOf, In, Out
  <2>4. (e.shelf = d.shelf /\ e.phase = d.phase) \/ Abstract!Moves(e, d) => EntryMoves(g)
    BY <1>1, <1>3 DEF EntryMoves, EntryOf, Live
  <2> HIDE DEF e, d
  <2>5. CASE ~Exists(link[f])
    <3>1. link[f].state = "ABSENT" /\ link[f] = Absent /\ Absent.next = "null"
      BY <2>1, <2>5 DEF Exists, LinkInv, Absent
    <3>2. e.phase = "none" /\ d.phase = "none"
      BY <1>1, <2>1, <2>2, <2>5, <3>1, Phases
    <3>3. CASE e.shelf = d.shelf
      BY <2>4, <3>2, <3>3
    <3>4. CASE e.shelf = "in" /\ d.shelf = "out"
      <4>1. Abstract!Leaves(e, d)
        BY <2>2, <3>2, <3>4 DEF Abstract!Leaves
      <4> QED
        BY <2>4, <4>1 DEF Abstract!Moves
    <3> QED
      BY <1>1, <2>3, <3>3, <3>4
  <2>6. CASE Exists(link[f]) /\ In(f)
    <3>1. link[f].next # "never" /\ link'[f].next # "never"
      BY <1>1, <2>1, <2>6 DEF LinkInv
    <3>2. CASE link'[f].state = link[f].state /\ record'[f].status = "committed"
      BY <2>1, <2>2, <2>3, <2>4, <2>6, <3>1, <3>2, OnePhase
    <3>3. CASE /\ link'[f].state \in {"PENDING", "REINDEX_PENDING"}
               /\ record'[f].status = "committed"
      <4>1. d.phase = "queued"
        BY <2>1, <2>2, <3>1, <3>3, Phases DEF QueuedStates
      <4>2. Abstract!Queued(e, d)
        BY <2>2, <2>3, <2>6, <3>3, <4>1 DEF Abstract!Queued, Abstract!Stays
      <4> QED
        BY <2>4, <4>2 DEF Abstract!Moves
    <3>4. CASE /\ record'[f].status \in {"archived", "deleted"}
               /\ link'[f].state \in LeavingStates
      <4>1. d.phase = "leaving"
        BY <2>1, <2>2, <3>1, <3>4, Phases
      <4>2. Abstract!Leaves(e, d)
        BY <2>2, <2>3, <2>6, <3>4, <4>1 DEF Abstract!Leaves
      <4> QED
        BY <2>4, <4>2 DEF Abstract!Moves
    <3> QED
      BY <1>1, <2>6, <3>2, <3>3, <3>4
  <2>7. CASE Exists(link[f]) /\ Out(f)
    <3>1. record'[f].status \in {"archived", "deleted"}
      BY <1>1, <2>7 DEF In, Out
    <3>2. link'[f].state \in LeavingStates \cup {"FAILED"}
      BY <1>1, <2>1, <2>7 DEF LinkInv, OutStates, LeavingStates, In, Out, Exists
    <3>3. link'[f].next = "never" => Gone(cards, link'[f].rag)
      BY <1>1, <2>1 DEF LinkInv
    <3>4. /\ d.phase \in {"leaving", "stopped", "gone"}
          /\ d.phase = "gone" => ~Serves(cards, link[f].rag)
      BY <1>1, <2>1, <2>2, <3>2, <3>3, OutRow
    <3>5. Abstract!Withdrawn(e, d)
      BY <2>2, <2>3, <2>7, <3>1, <3>4 DEF Abstract!Withdrawn, Abstract!Stays
    <3> QED
      BY <2>4, <3>5 DEF Abstract!Moves
  <2> QED
    BY <1>1, <2>5, <2>6, <2>7
<1> QED
  BY <1>2, <1>3

(* Where a step leads is an entry again.                                       *)
LEMMA EntryType ==
  ASSUME NEW f \in Files, link'[f] \in Row
  PROVE  EntryOf(f)' \in Abstract!Entry
<1>1. PhaseOf(link'[f]) \in Abstract!Phase
  BY Phases DEF Abstract!Phase
<1>2. ShelfOf(f)' \in Abstract!Shelf
  BY DEF ShelfOf, Abstract!Shelf
<1>3. Serves(cards', link'[f].rag) \in BOOLEAN
  BY DEF Serves
<1> QED
  BY <1>1, <1>2, <1>3 DEF EntryOf, Live, Abstract!Entry

LEMMA EntriesStep ==
  ASSUME UsersOnly, Inv, Inv', Next, NEW f \in Files
  PROVE  EntryMoves(f)
<1>1. CASE Tick
  <2>1. CASE TickClaim
    BY <2>1, EntryStays DEF TickClaim, SameRow, Live
  <2> QED
    BY <1>1, <2>1, EntryOfTickCall, EntryOfTickCommit DEF Tick
<1>2. ASSUME NEW u \in Uploads, Upload(u) PROVE EntryMoves(f)
  BY <1>2, EntryOfUpload
<1>3. ASSUME NEW g \in Files, NEW k \in NotifyKinds, Notify(g, k) PROVE EntryMoves(f)
  <2>1. CASE NotifyRead(g, k) \/ NotifySelect(g, k)
    BY <2>1, EntryStays DEF NotifyRead, NotifySelect, SameRow, Live
  <2> QED
    BY <1>3, <2>1, EntryOfNotifyCall, EntryOfNotifyWrite DEF Notify
<1>4. ASSUME NEW g \in Files, RequestBegins(g) PROVE EntryMoves(f)
  <2>1. UNCHANGED <<record, link, cards>>
    BY <1>4 DEF RequestBegins, RenameBegin, OverwriteBegin, DeleteBegin, ArchiveBegin, RetryBegin,
                BackfillBegin, Begin
  <2> QED
    BY <2>1, EntryStays DEF SameRow, Live
<1>5. ASSUME NEW g \in Files, RequestStep(g) PROVE EntryMoves(f)
  <2>1. CASE RequestLoad(g) \/ \E role \in Roles : RequestAbort(g, role)
    BY <2>1, EntryStays DEF RequestLoad, RequestAbort, SameRow, Live
  <2> QED
    BY <1>5, <2>1, EntryOfRequest DEF RequestStep
<1>6. ASSUME NEW g \in Files, WritePreview(g) PROVE EntryMoves(f)
  BY <1>6, EntryStays DEF WritePreview, SameRow, Live
<1>7. ASSUME NEW g \in Files, BackoffEnds(g) \/ MaxWaitPasses(g) PROVE EntryMoves(f)
  BY <1>7, EntryOfClock
<1>8. ASSUME NEW id \in RagIds, RagFinishes(id) PROVE EntryMoves(f)
  <2>1. SameRow(f)
    BY <1>8 DEF RagFinishes, SameRow
  <2>2. \A x : Serves(cards, x) <=> Serves(cards', x)
    BY <1>8 DEF RagFinishes, Serves, Inv, TypeOK, Card
  <2> QED
    BY <2>1, <2>2, EntryStays DEF Live
<1>9. CASE Crash
  BY <1>9, EntryStays DEF Crash, SameRow, Live
<1> QED
  BY <1>1, <1>2, <1>3, <1>4, <1>5, <1>6, <1>7, <1>8, <1>9 DEF Next

(* The queue starts as SearchIndex does and takes only its steps, whatever the     *)
(* tick, the notify of a delete and the requests write over each other: a card is   *)
(* lost only through the queue, a file that has left stays out, and is gone only    *)
(* when RAG has confirmed (file_index_links as _process, _remove and the hooks of    *)
(* LibraryIndexHooks write it). ImplementsSearchIndex adds that nobody waits forever. *)
THEOREM QueueIsSearchIndex ==
  UsersOnly => (Spec => Abstract!Init /\ [][Abstract!Next]_Entries)
<1> SUFFICES ASSUME UsersOnly PROVE Spec => Abstract!Init /\ [][Abstract!Next]_Entries
  OBVIOUS
<1>1. Init => Abstract!Init
  <2> SUFFICES ASSUME Init, NEW f \in Files
               PROVE  EntryOf(f) \in {Abstract!Unoffered("none"), Abstract!Unoffered("in")}
    BY DEF Abstract!Init, Entries
  <2>1. Inv
    BY InvInit
  <2>2. link[f] = Absent /\ link[f] \in Row /\ record[f].status \in {"none", "committed"}
    BY <2>1 DEF Init, NoRecord, Inv, TypeOK
  <2>3. /\ ShelfOf(f) \in {"none", "in"} /\ PhaseOf(link[f]) = "none"
        /\ Live(link[f].rag) = FALSE
    BY <2>1, <2>2, Phases, Shelves, LinkAssumption DEF Absent, Live, Serves, ShelfOf
  <2> QED
    BY <2>3 DEF EntryOf, Abstract!Unoffered
<1>2. Inv /\ Inv' /\ [Next]_vars => [Abstract!Next]_Entries
  <2> SUFFICES ASSUME Inv, Inv', [Next]_vars PROVE [Abstract!Next]_Entries
    OBVIOUS
  <2>1. CASE UNCHANGED vars
    <3>1. UNCHANGED <<record, link, cards>>
      BY <2>1 DEF vars
    <3> QED
      BY <3>1 DEF Entries, EntryOf, ShelfOf, Live
  <2>2. CASE Next
    <3>1. \A f \in Files : EntryMoves(f)
      BY <2>2, EntriesStep
    <3>2. \A f \in Files : EntryOf(f)' \in Abstract!Entry
      BY EntryType DEF Inv, TypeOK
    <3>3. Entries' \in [Files -> Abstract!Entry]
      BY <3>2 DEF Entries
    <3>4. \A f \in Files : Entries'[f] # Entries[f] => Abstract!Moves(Entries[f], Entries'[f])
      BY <3>1 DEF Entries, EntryMoves
    <3> QED
      BY <3>3, <3>4 DEF Abstract!Next
  <2> QED
    BY <2>1, <2>2
<1>3. Spec => []Inv
  BY Invariance
<1> QED
  BY <1>1, <1>2, <1>3, PTL DEF Spec

-----------------------------------------------------------------------------
(* One card per file. It needs that no registration and no commit is lost, and  *)
(* that the tick alone registers: either what UsersOnly leaves out does not       *)
(* happen, or no immediate notify is delivered.                               *)

NothingLost == Faults \cap {"lost", "garbled", "crash"} = {}
TickRegisters == UsersOnly \/ Notifies = {}

(* A notify at most deletes the card of a removed file, and writes no id.        *)
SessionQuiet(s) ==
    s.pc # "off" => (s.pc = "call" => s.snap.state = "REMOVED") /\ s.patch.rag = Unset

SessionsQuiet == \A f \in Files, k \in NotifyKinds : SessionQuiet(notify[f][k])

NoSessions == \A f \in Files, k \in NotifyKinds : notify[f][k] = NoSession

LEMMA NoSessionsStep ==
  ASSUME Notifies = {}, NoSessions, [Next]_vars
  PROVE  NoSessions'
<1>1. CASE UNCHANGED vars
  BY <1>1 DEF vars, NoSessions
<1>2. CASE Tick
  BY <1>2 DEF Tick, TickClaim, TickCall, TickCommit, NoSessions
<1>3. ASSUME NEW u \in Uploads, Upload(u) PROVE NoSessions'
  BY <1>3 DEF Upload, NoSessions
<1>4. ASSUME NEW f \in Files, NEW k \in NotifyKinds PROVE ~Notify(f, k)
  <2>1. notify[f][k].pc = "off"
    BY DEF NoSessions, NoSession
  <2> QED
    BY <2>1 DEF Notify, NotifyRead, NotifyCall, NotifySelect, NotifyWrite
<1>5. ASSUME NEW f \in Files, RequestBegins(f) PROVE NoSessions'
  BY <1>5 DEF RequestBegins, RenameBegin, OverwriteBegin, DeleteBegin, ArchiveBegin, RetryBegin,
              BackfillBegin, Begin, NoSessions
<1>6. ASSUME NEW f \in Files, RequestStep(f) PROVE NoSessions'
  BY <1>6 DEF RequestStep, RequestLoad, RequestCommit, RequestAbort, NoSessions
<1>7. ASSUME NEW f \in Files, WritePreview(f) \/ BackoffEnds(f) \/ MaxWaitPasses(f)
      PROVE  NoSessions'
  BY <1>7 DEF WritePreview, BackoffEnds, MaxWaitPasses, NoSessions
<1>8. ASSUME NEW id \in RagIds, RagFinishes(id) PROVE NoSessions'
  BY <1>8 DEF RagFinishes, NoSessions
<1>9. CASE Crash
  BY <1>9 DEF Crash, NoSessions
<1> QED
  BY <1>1, <1>2, <1>3, <1>4, <1>5, <1>6, <1>7, <1>8, <1>9 DEF Next

LEMMA SessionsStayQuiet == TickRegisters => (Spec => []SessionsQuiet)
<1>1. ASSUME UsersOnly PROVE Spec => []SessionsQuiet
  <2>1. Inv => SessionsQuiet
    BY DEF Inv, QueueInv, FileInv, NotifyInv, SessionsQuiet, SessionQuiet, NotifyKinds
  <2>2. Spec => []Inv
    BY <1>1, Invariance
  <2> QED
    BY <2>1, <2>2, PTL
<1>2. ASSUME Notifies = {} PROVE Spec => []SessionsQuiet
  <2>1. Init => NoSessions
    BY DEF Init, NoSessions
  <2>2. NoSessions /\ [Next]_vars => NoSessions'
    BY <1>2, NoSessionsStep
  <2>3. NoSessions => SessionsQuiet
    BY DEF NoSessions, SessionsQuiet, SessionQuiet, NoSession
  <2> QED
    BY <2>1, <2>2, <2>3, PTL DEF Spec
<1> QED
  BY <1>1, <1>2 DEF TickRegisters

-----------------------------------------------------------------------------
(* The row of a card's owner holds its id, as the tick sees that row by now.      *)
Held(id) == Live(id) => cards[id].owner \in Files /\ Seen(cards[id].owner).rag = id

(* A row in hand has dropped only the id of a card that is gone, and no other     *)
(* row is rolled back with it.                                               *)
BatchInv ==
    /\ broken => claimed = {} /\ todo = {}
    /\ BatchSize = 1 => \A f, g \in claimed : f = g
    /\ \A f \in claimed : work[f].rag # link[f].rag => ~Live(link[f].rag)
    /\ \A f \in todo : work[f].rag \in {None, link[f].rag}

(* A row comes with its upload or a backfill, and without an id.               *)
OriginInv(f) ==
    /\ record[f].status = "none" => link[f].state = "ABSENT" /\ f \notin claimed
    /\ link[f].state = "ABSENT" => link[f].rag = None
    /\ f \in claimed => work[f].state # "ABSENT"
    /\ \A role \in Roles : request[f][role].pc # "idle" => record[f].status # "none"
    /\ \A k \in NotifyKinds : notify[f][k].pc # "off" => record[f].status # "none"
    /\ request[f]["user"].pc # "idle" => request[f]["user"].rec.status # "none"

OwnedInv ==
    /\ \A id \in RagIds : Held(id)
    /\ BatchInv
    /\ \A f \in Files : OriginInv(f)

(* No more than one row is lost when the unique constraint rolls a batch back.    *)
OneRolledBack == broken => BatchSize = 1

LEMMA OwnedIsOne == OwnedInv => OneCardPerFile
BY DEF OwnedInv, Held, OneCardPerFile

LEMMA OwnedInit == Init => OwnedInv
<1> SUFFICES ASSUME Init PROVE OwnedInv
  OBVIOUS
<1>1. \A id \in RagIds : ~Live(id)
  BY DEF Init, UnusedCard, Live, Serves
<1>2. \A f \in Files : OriginInv(f)
  BY DEF Init, OriginInv, Absent, NoRequest, NoSession, Roles
<1> QED
  BY <1>1, <1>2 DEF Init, OwnedInv, Held, BatchInv

-----------------------------------------------------------------------------
(* What a call does to the cards and the id of its row.                        *)

Fewer(c) == \A id \in RagIds : Serves(c, id) => Live(id) /\ c[id].owner = cards[id].owner

Lets(row, o) ==
    /\ Fewer(o.cards)
    /\ \/ o.patch.rag \in {Unset, row.rag}
       \/ o.patch.rag = None /\ ~Serves(o.cards, row.rag)

Registers(f, row, o) ==
    /\ row.rag = None /\ o.done
    /\ \E id \in FreshIds : /\ o.patch.rag = id
                            /\ \E k, h : o.cards = Registered(f, id, k, h)

Adopts(row, o) ==
    /\ row.rag = None /\ o.done /\ o.cards = cards
    /\ \E id \in RagIds : Live(id) /\ o.patch.rag = id

LEMMA CardsFewer ==
  ASSUME TypeOK
  PROVE  /\ Fewer(cards)
         /\ \A id : Fewer(Deleted(id)) /\ ~Serves(Deleted(id), id)
         /\ \A id \in RagIds : \A k : Fewer([cards EXCEPT ![id].key = k])
<1>1. cards \in [RagIds -> Card]
  BY DEF TypeOK
<1>2. ASSUME NEW id PROVE Fewer(Deleted(id)) /\ ~Serves(Deleted(id), id)
  <2>1. CASE ~Live(id)
    BY <2>1 DEF Deleted, Fewer, Live
  <2>2. CASE Live(id)
    <3>1. id \in RagIds
      BY <2>2 DEF Live, Serves
    <3>2. /\ Deleted(id)[id].status = "gone"
          /\ \A j \in RagIds \ {id} : Deleted(id)[j] = cards[j]
      BY <1>1, <2>2, <3>1 DEF Deleted, Card
    <3> QED
      BY <3>1, <3>2 DEF Fewer, Live, Serves
  <2> QED
    BY <2>1, <2>2
<1>3. ASSUME NEW id \in RagIds, NEW k PROVE Fewer([cards EXCEPT ![id].key = k])
  <2> DEFINE c == [cards EXCEPT ![id].key = k]
  <2>1. \A j \in RagIds : c[j].status = cards[j].status /\ c[j].owner = cards[j].owner
    BY <1>1 DEF Card
  <2> HIDE DEF c
  <2>2. Fewer(c)
    BY <2>1 DEF Fewer, Live, Serves
  <2> QED
    BY <2>2 DEF c
<1> QED
  BY <1>2, <1>3 DEF Fewer, Live

LEMMA CallFaultsLet ==
  ASSUME TypeOK, NEW row, NEW p, p.rag = Unset, NEW after, Fewer(after),
         NEW o \in CallFaults(row, p, after)
  PROVE  Lets(row, o)
<1>1. o.patch \in {RetryPatch(row), p, Keep} /\ o.cards \in {cards, after}
  BY DEF CallFaults, Faulted
<1>2. o.patch.rag = Unset
  BY <1>1, QuietPatches DEF Quiet
<1> QED
  BY <1>1, <1>2, CardsFewer DEF Lets

(* A call that was not lost either left RAG as it was or was answered.           *)
LEMMA NotLost ==
  ASSUME NothingLost, NEW row, NEW p, NEW after,
         NEW o \in CallFaults(row, p, after), Spend(o.fault)
  PROVE  o.cards = cards /\ o.patch \in {RetryPatch(row), p}
BY DEF CallFaults, Faulted, NothingLost, Spend

LEMMA RegisterOwns ==
  ASSUME NothingLost, TypeOK, NEW f \in Files, NEW row \in Row, row.rag = None,
         NEW o \in Register(f, row), Spend(o.fault)
  PROVE  Lets(row, o) \/ Registers(f, row, o) \/ Adopts(row, o)
<1> DEFINE h == IF row.sha = None THEN object[row.key] ELSE row.sha
<1>1. /\ FailPatch.rag = Unset /\ SkipPatch.rag = Unset
      /\ MissPreviewPatch(row).rag = Unset /\ RetryPatch(row).rag = Unset
  BY QuietPatches DEF Quiet
<1>2. ASSUME NEW p, p.rag = Unset, o = Answered(p, cards) PROVE Lets(row, o)
  BY <1>2, CardsFewer DEF Answered, Lets
<1>3. ASSUME NEW after, o \in CallFaults(row, FailPatch, after) PROVE Lets(row, o)
  <2>1. o.cards = cards /\ o.patch \in {RetryPatch(row), FailPatch}
    BY <1>3, NotLost
  <2> QED
    BY <1>1, <2>1, CardsFewer DEF Lets
<1>4. ASSUME NEW id \in DuplicatesOf(row.key, h), o = Answered(Adopt(row, id, h), cards)
      PROVE  Adopts(row, o)
  <2>1. id \in RagIds /\ Live(id)
    BY DEF DuplicatesOf
  <2>2. Adopt(row, id, h).rag = id
    BY DEF Adopt, SucceedPatch
  <2> QED
    BY <1>4, <2>1, <2>2 DEF Answered, Adopts
<1>5. ASSUME NEW id \in FreshIds, o \in SendManifest(f, row, h, id)
      PROVE  Lets(row, o) \/ Registers(f, row, o)
  <2> DEFINE after == Registered(f, id, row.key, h)
             told == Answered(SucceedPatch("SUBMITTED", id, HashUpdate(row, h)), after)
  <2>1. o = told \/ o \in CallFaults(row, FailPatch, after)
    BY <1>5 DEF SendManifest
  <2>2. ASSUME o = told PROVE Registers(f, row, o)
    BY <2>2 DEF Answered, SucceedPatch, Registers
  <2> QED
    BY <1>3, <2>1, <2>2
<1>6. \/ o = Answered(SkipPatch, cards)
      \/ o = Answered(MissPreviewPatch(row), cards)
      \/ o = Answered(FailPatch, cards)
      \/ \E id \in DuplicatesOf(row.key, h) : o = Answered(Adopt(row, id, h), cards)
      \/ o \in CallFaults(row, FailPatch, cards)
      \/ \E id \in FreshIds : o \in SendManifest(f, row, h, id)
  <2> HIDE DEF h
  <2>1. \/ Register(f, row) = {Answered(SkipPatch, cards)}
        \/ Register(f, row) = {Answered(MissPreviewPatch(row), cards)}
        \/ Register(f, row) = {Answered(FailPatch, cards)}
        \/ Register(f, row) =
             {Answered(Adopt(row, id, h), cards) : id \in DuplicatesOf(row.key, h)}
               \cup CallFaults(row, FailPatch, cards)
        \/ Register(f, row) = UNION {SendManifest(f, row, h, id) : id \in FreshIds}
    BY Zenon DEF Register, h
  <2> QED
    BY <2>1
<1> HIDE DEF h
<1> QED
  BY <1>1, <1>2, <1>3, <1>4, <1>5, <1>6

LEMMA PollOwns ==
  ASSUME TypeOK, NEW row \in Row, NEW o \in Poll(row)
  PROVE  Lets(row, o)
<1>1. \/ o.cards = cards /\ o.patch \in {SettlePatch("REMOVED"), FailPatch, PollAgainPatch,
                                         SucceedPatch("INDEXED", row.rag, Unset)}
      \/ o \in CallFaults(row, FailPatch, cards)
  <2>1. Live(row.rag) => cards[row.rag].status \in {"processing", "ready", "error"}
    BY DEF Live, Serves
  <2>2. row.aged \in BOOLEAN
    BY DEF Row
  <2> QED
    BY <2>1, <2>2 DEF Poll, Answered
<1>2. /\ SettlePatch("REMOVED").rag = Unset /\ FailPatch.rag = Unset /\ PollAgainPatch.rag = Unset
      /\ SucceedPatch("INDEXED", row.rag, Unset).rag = row.rag
  BY DEF SettlePatch, FailPatch, PollAgainPatch, SucceedPatch, Keep
<1>3. CASE o \in CallFaults(row, FailPatch, cards)
  BY <1>2, <1>3, CallFaultsLet, CardsFewer
<1> QED
  BY <1>1, <1>2, <1>3, CardsFewer DEF Lets

LEMMA RekeyOwns ==
  ASSUME TypeOK, NEW f \in Files, NEW row \in Row, row.rag # None, NEW o \in Rekey(f, row)
  PROVE  Lets(row, o)
<1> DEFINE h == IF row.sha = None THEN object[row.key] ELSE row.sha
           after == [cards EXCEPT ![row.rag].key = row.key]
<1>1. Fewer(after)
  BY CardsFewer DEF Row
<1>2. /\ MissPreviewPatch(row).rag = Unset /\ FailPatch.rag = Unset
      /\ ContentChangedPatch.rag = Unset /\ Rekeyed(row, h).rag = row.rag
  BY QuietPatches DEF Quiet, ContentChangedPatch, Rekeyed, SucceedPatch, Keep
<1>3. \/ o = Answered(MissPreviewPatch(row), cards)
      \/ o = Answered(FailPatch, cards)
      \/ o = Continues(ContentChangedPatch, cards)
      \/ o = Answered(Rekeyed(row, h), after)
      \/ o \in CallFaults(row, FailPatch, after)
      \/ o \in CallFaults(row, FailPatch, cards)
  <2> HIDE DEF h, after
  <2>1. o \in (IF object[row.key] = None
               THEN {Answered(IF f \in Previews /\ row.sha = None
                              THEN MissPreviewPatch(row) ELSE FailPatch, cards)}
               ELSE (IF ~Live(row.rag)
                     THEN {Answered(FailPatch, cards)}
                     ELSE IF cards[row.rag].sha # h
                     THEN {Continues(ContentChangedPatch, cards)}
                     ELSE {Answered(Rekeyed(row, h), after)})
                    \cup CallFaults(row, FailPatch,
                           IF Live(row.rag) /\ cards[row.rag].sha = h THEN after ELSE cards))
    BY DEF Rekey, h, after
  <2> QED
    BY <2>1
<1> HIDE DEF h, after
<1>4. ASSUME NEW c, Fewer(c), o \in CallFaults(row, FailPatch, c) PROVE Lets(row, o)
  BY <1>2, <1>4, CallFaultsLet
<1>5. ASSUME NEW p, NEW c, Fewer(c), p.rag \in {Unset, row.rag},
             o = Answered(p, c) \/ o = Continues(p, c)
      PROVE  Lets(row, o)
  BY <1>5 DEF Answered, Continues, Lets
<1> QED
  BY <1>1, <1>2, <1>3, <1>4, <1>5, CardsFewer

LEMMA RemoveOwns ==
  ASSUME TypeOK, NEW row, NEW o \in Remove(row)
  PROVE  Lets(row, o)
<1>1. SettlePatch(row.state).rag = Unset /\ RetryPatch(row).rag = Unset
  BY QuietPatches DEF Quiet, SettlePatch, Keep
<1>2. \/ o = Answered(SettlePatch(row.state), cards)
      \/ o = Answered(SettlePatch(row.state), Deleted(row.rag))
      \/ o \in CallFaults(row, RetryPatch(row), Deleted(row.rag))
  BY DEF Remove
<1>3. Fewer(cards) /\ Fewer(Deleted(row.rag))
  BY CardsFewer
<1>4. CASE o \in CallFaults(row, RetryPatch(row), Deleted(row.rag))
  BY <1>1, <1>3, <1>4, CallFaultsLet
<1> QED
  BY <1>1, <1>2, <1>3, <1>4 DEF Lets, Answered

LEMMA DeleteForReindexOwns ==
  ASSUME TypeOK, NEW row, NEW o \in DeleteForReindex(row)
  PROVE  Lets(row, o)
<1>1. Fewer(Deleted(row.rag)) /\ ~Serves(Deleted(row.rag), row.rag)
  BY CardsFewer
<1>2. CASE o = Continues(ClearRagPatch, Deleted(row.rag))
  BY <1>1, <1>2 DEF Continues, ClearRagPatch, Keep, Lets
<1>3. CASE o \in CallFaults(row, FailPatch, Deleted(row.rag))
  <2>1. FailPatch.rag = Unset
    BY DEF FailPatch, Keep
  <2> QED
    BY <1>1, <1>3, <2>1, CallFaultsLet
<1> QED
  BY <1>2, <1>3 DEF DeleteForReindex

LEMMA ProcessOwns ==
  ASSUME NothingLost, TypeOK, NEW f \in Files, NEW row \in Row,
         NEW o \in Process(f, row), Spend(o.fault)
  PROVE  Lets(row, o) \/ Registers(f, row, o) \/ Adopts(row, o)
BY ProcessCases, RegisterOwns, PollOwns, RekeyOwns, RemoveOwns, DeleteForReindexOwns

-----------------------------------------------------------------------------
LEMMA BesideTheTick ==
  ASSUME TypeOK, OwnedInv, UNCHANGED queue, Fewer(cards'),
         \A f \in Files : link'[f].rag = link[f].rag /\ OriginInv(f)'
  PROVE  OwnedInv'
<1>1. UNCHANGED <<claimed, todo, work, broken>>
  BY DEF queue
<1>2. \A id \in RagIds : Held(id)'
  <2> SUFFICES ASSUME NEW id \in RagIds, Serves(cards', id) PROVE Held(id)'
    BY DEF Held, Live
  <2>1. Live(id) /\ cards'[id].owner = cards[id].owner
    BY DEF Fewer
  <2>2. cards[id].owner \in Files /\ Seen(cards[id].owner).rag = id
    BY <2>1 DEF OwnedInv, Held
  <2> QED
    BY <1>1, <2>1, <2>2 DEF Held, Seen
<1>3. BatchInv'
  <2>1. ASSUME NEW f \in claimed, work[f].rag # link[f].rag PROVE ~Serves(cards', link[f].rag)
    BY <2>1 DEF OwnedInv, BatchInv, Fewer, Live, Serves
  <2>2. claimed \subseteq Files /\ todo \subseteq Files
    BY DEF TypeOK
  <2>3. \A f \in claimed \cup todo : link'[f].rag = link[f].rag
    BY <2>2
  <2>4. BatchInv
    BY DEF OwnedInv
  <2> QED
    BY <1>1, <2>1, <2>3, <2>4 DEF BatchInv, Live
<1> QED
  BY <1>2, <1>3 DEF OwnedInv

LEMMA OriginKept ==
  ASSUME NEW f \in Files, OriginInv(f), UNCHANGED queue,
         record'[f] = record[f], request'[f] = request[f],
         \A k \in NotifyKinds : notify'[f][k].pc # "off" => notify[f][k].pc # "off",
         link'[f].rag = link[f].rag,
         link'[f].state = "ABSENT" <=> link[f].state = "ABSENT"
  PROVE  OriginInv(f)'
BY DEF OriginInv, queue

LEMMA UploadOwns ==
  ASSUME TypeOK, OwnedInv, NEW u \in Uploads, Upload(u)
  PROVE  OwnedInv'
<1> DEFINE f == u[1]
<1>1. f \in Files
  BY QueueAssumption
<1>2. /\ record[f].status = "none" /\ UNCHANGED <<cards, queue, request>>
      /\ notify' = notify \/ notify' = [notify EXCEPT ![f]["create"] =
                                          [NoSession EXCEPT !.pc = "read"]]
      /\ record' = [record EXCEPT ![f] = [status |-> "committed", key |-> u[2], sha |-> u[3]]]
      /\ \E h : link' = [link EXCEPT ![f] =
              NewRow(IF f \in Unsupported THEN "SKIPPED" ELSE "PENDING", u[2], h)]
  BY DEF Upload
<1> HIDE DEF f
<1>3. PICK h : link' = [link EXCEPT ![f] =
              NewRow(IF f \in Unsupported THEN "SKIPPED" ELSE "PENDING", u[2], h)]
  BY <1>2
<1>4. link'[f].rag = None /\ link'[f].state \in {"SKIPPED", "PENDING"}
  BY <1>1, <1>3 DEF TypeOK, NewRow, Absent
<1>5. \A g \in Files \ {f} : link'[g] = link[g] /\ record'[g] = record[g] /\ notify'[g] = notify[g]
  BY <1>1, <1>2, <1>3 DEF TypeOK
<1>6. link[f].rag = None /\ OriginInv(f)
  BY <1>1, <1>2 DEF OwnedInv, OriginInv
<1>7. record'[f].status = "committed"
  BY <1>1, <1>2 DEF TypeOK
<1>8. OriginInv(f)'
  BY <1>1, <1>2, <1>4, <1>6, <1>7 DEF OriginInv, Roles, queue
<1>9. \A g \in Files : OriginInv(g)'
  BY <1>2, <1>5, <1>8, OriginKept DEF OwnedInv
<1> QED
  BY <1>2, <1>4, <1>5, <1>6, <1>9, BesideTheTick, CardsFewer

LEMMA NotifyOwns ==
  ASSUME TypeOK, SessionsQuiet, OwnedInv, NEW f \in Files, NEW k \in NotifyKinds, Notify(f, k)
  PROVE  OwnedInv'
<1>1. UNCHANGED <<record, queue, request>>
  BY DEF Notify, NotifyRead, NotifyCall, NotifySelect, NotifyWrite
<1>7. notify[f][k].pc # "off" /\ \E s : notify' = [notify EXCEPT ![f][k] = s]
  BY DEF Notify, NotifyRead, NotifyCall, NotifySelect, NotifyWrite, SetSession
<1>8. \A g \in Files, j \in NotifyKinds : notify'[g][j].pc # "off" => notify[g][j].pc # "off"
  BY <1>7 DEF TypeOK
<1>2. SessionQuiet(notify[f][k])
  BY DEF SessionsQuiet
<1>3. ASSUME UNCHANGED link, Fewer(cards') PROVE OwnedInv'
  <2>1. \A g \in Files : OriginInv(g)'
    BY <1>1, <1>3, <1>8, OriginKept DEF OwnedInv
  <2> QED
    BY <1>1, <1>3, <2>1, BesideTheTick
<1>4. CASE NotifyRead(f, k) \/ NotifySelect(f, k)
  BY <1>3, <1>4, CardsFewer DEF NotifyRead, NotifySelect
<1>5. CASE NotifyCall(f, k)
  <2> DEFINE row == notify[f][k].snap
  <2>1. row \in Row /\ row.state = "REMOVED"
    BY <1>2, <1>5 DEF TypeOK, Session, NotifyCall, SessionQuiet
  <2>2. PICK o \in Process(f, row) : cards' = o.cards
    BY <1>5 DEF NotifyCall
  <2>3. Process(f, row) = Remove(row)
    BY <2>1 DEF Process
  <2>4. Fewer(cards')
    BY <2>2, <2>3, RemoveOwns DEF Lets
  <2> QED
    BY <1>3, <1>5, <2>4 DEF NotifyCall
<1>6. CASE NotifyWrite(f, k)
  <2> DEFINE p == notify[f][k].patch
  <2>1. UNCHANGED cards /\ p.rag = Unset
    BY <1>2, <1>6 DEF NotifyWrite, SessionQuiet
  <2>2. link' = link \/ link' = [link EXCEPT ![f] = Flush(@, notify[f][k].base, p)]
    BY <1>6 DEF NotifyWrite
  <2>3. p.state # Unset => p.state # "ABSENT"
    <3>1. notify[f][k] \in Session
      BY DEF TypeOK
    <3>2. p \in Patch
      BY <3>1 DEF Session
    <3> HIDE DEF p
    <3> QED
      BY <3>2 DEF Patch, IndexLinkState
  <2>4. CASE link' = link
    BY <1>3, <2>1, <2>4, CardsFewer
  <2>5. CASE link' = [link EXCEPT ![f] = Flush(@, notify[f][k].base, p)]
    <3>0. link'[f] = Flush(link[f], notify[f][k].base, p)
      BY <2>5 DEF TypeOK
    <3>1. \A g \in Files \ {f} : link'[g] = link[g]
      BY <2>5 DEF TypeOK
    <3>2. link'[f].rag = link[f].rag /\ (link'[f].state = "ABSENT" => link[f].state = "ABSENT")
      BY <2>1, <2>3, <3>0, FlushedFields
    <3>3. OriginInv(f)'
      <4>1. record[f].status # "none"
        BY <1>7 DEF OwnedInv, OriginInv
      <4> QED
        BY <1>1, <1>8, <3>2, <4>1 DEF OwnedInv, OriginInv, queue
    <3> QED
      BY <1>1, <1>8, <2>1, <3>1, <3>2, <3>3, OriginKept, BesideTheTick, CardsFewer DEF OwnedInv
  <2> QED
    BY <2>2, <2>4, <2>5
<1> QED
  BY <1>4, <1>5, <1>6 DEF Notify

LEMMA BeginOwns ==
  ASSUME TypeOK, OwnedInv, NEW f \in Files, NEW role \in Roles, NEW r, Begin(f, role, r),
         record[f].status # "none", role = "user" => r.rec.status # "none"
  PROVE  OwnedInv'
<1>1. /\ UNCHANGED <<record, link, cards, queue, notify>>
      /\ request' = [request EXCEPT ![f][role] = r]
  BY DEF Begin
<1>2. request'[f]["user"] \in {request[f]["user"], r}
      /\ (role # "user" => request'[f]["user"] = request[f]["user"])
  BY <1>1 DEF TypeOK, Roles
<1>3. OriginInv(f)'
  BY <1>1, <1>2 DEF OwnedInv, OriginInv, queue
<1>4. \A g \in Files \ {f} : request'[g] = request[g]
  BY <1>1 DEF TypeOK
<1> QED
  BY <1>1, <1>3, <1>4, OriginKept, BesideTheTick, CardsFewer DEF OwnedInv

LEMMA RequestBeginsOwns ==
  ASSUME TypeOK, OwnedInv, NEW f \in Files, RequestBegins(f)
  PROVE  OwnedInv'
<1>0. record[f] \in Record /\ "user" \in Roles /\ "admin" \in Roles
  BY DEF TypeOK, Roles
<1>1. ASSUME NEW k \in Names, RenameBegin(f, k) PROVE OwnedInv'
  BY <1>0, <1>1, BeginOwns DEF RenameBegin, UserRequest, Record
<1>2. ASSUME NEW h \in Contents, OverwriteBegin(f, h) PROVE OwnedInv'
  BY <1>0, <1>2, BeginOwns DEF OverwriteBegin, UserRequest, Record
<1>3. CASE DeleteBegin(f)
  BY <1>0, <1>3, BeginOwns DEF DeleteBegin, UserRequest, Record
<1>4. CASE ArchiveBegin(f)
  BY <1>0, <1>4, BeginOwns DEF ArchiveBegin, UserRequest, Record
<1>5. CASE RetryBegin(f)
  <2>1. link[f].state = "FAILED"
    BY <1>5 DEF RetryBegin
  <2>2. record[f].status # "none"
    BY <2>1 DEF OwnedInv, OriginInv
  <2> QED
    BY <1>0, <1>5, <2>2, BeginOwns DEF RetryBegin
<1>6. CASE BackfillBegin(f)
  BY <1>0, <1>6, BeginOwns DEF BackfillBegin
<1> QED
  BY <1>1, <1>2, <1>3, <1>4, <1>5, <1>6 DEF RequestBegins

LEMMA RequestCommitOwns ==
  ASSUME TypeOK, OwnedInv, NEW f \in Files, NEW role \in Roles, RequestCommit(f, role)
  PROVE  OwnedInv'
<1> DEFINE r == request[f][role]
<1>1. /\ r.pc = "loaded" /\ r \in Request /\ link[f] \in Row /\ record[f] \in Record
      /\ UNCHANGED <<cards, queue>>
      /\ request' = [request EXCEPT ![f][role] = NoRequest]
      /\ record' = IF role = "user" THEN [record EXCEPT ![f] = r.rec] ELSE record
      /\ OriginInv(f)
  BY DEF RequestCommit, TypeOK, OwnedInv
<1>2. link' = CASE r.op = "backfill" /\ ~Exists(link[f]) ->
                          [link EXCEPT ![f] = BackfilledRow(f, r.rec)]
                [] r.op # "backfill" /\ Exists(r.base) ->
                          [link EXCEPT ![f] = Flush(@, r.base, RequestPatch(r))]
                [] OTHER -> link
  BY DEF RequestCommit
<1>3. /\ \A g \in Files \ {f} : notify'[g] = notify[g]
  BY DEF RequestCommit, TypeOK
<1>4. RequestPatch(r).rag = Unset /\ RequestPatch(r) \in Patch
  <2>1. RequestPatch(r).rag = Unset
    BY DEF RequestPatch, MarkRekey, MarkContentChanged, MarkRemoved, MarkArchived,
           MarkRetried, Keep
  <2> QED
    BY <1>1, <2>1, RequestPatchType
<1> HIDE DEF r
<1>5. /\ link'[f].rag = link[f].rag
      /\ link'[f].state = "ABSENT" => link[f].state = "ABSENT"
      /\ \A g \in Files \ {f} : link'[g] = link[g]
  <2>1. CASE r.op = "backfill" /\ ~Exists(link[f])
    <3>1. link' = [link EXCEPT ![f] = BackfilledRow(f, r.rec)]
      BY <1>2, <2>1
    <3>2. BackfilledRow(f, r.rec).rag = None /\ BackfilledRow(f, r.rec).state # "ABSENT"
      BY DEF BackfilledRow, NewRow, Absent
    <3>3. link[f].rag = None
      BY <1>1, <2>1 DEF Exists, OriginInv
    <3> QED
      BY <3>1, <3>2, <3>3 DEF TypeOK
  <2>2. CASE r.op # "backfill" /\ Exists(r.base)
    <3>1. link' = [link EXCEPT ![f] = Flush(link[f], r.base, RequestPatch(r))]
      BY <1>2, <2>2 DEF TypeOK
    <3>2. RequestPatch(r).state # Unset => RequestPatch(r).state # "ABSENT"
      BY <1>4 DEF Patch, IndexLinkState
    <3>3. link'[f] = Flush(link[f], r.base, RequestPatch(r))
          /\ \A g \in Files \ {f} : link'[g] = link[g]
      BY <3>1 DEF TypeOK
    <3> QED
      BY <1>4, <3>2, <3>3, FlushedFields
  <2>3. CASE link' = link
    BY <2>3
  <2> QED
    BY <1>2, <2>1, <2>2, <2>3
<1>6. record[f].status # "none" /\ (role = "user" => r.rec.status # "none")
  BY <1>1 DEF OriginInv, r
<1>7. record'[f].status # "none" /\ \A g \in Files \ {f} : record'[g] = record[g]
  BY <1>1, <1>6 DEF TypeOK
<1>8. /\ \A g \in Files \ {f} : request'[g] = request[g]
      /\ request'[f]["user"].pc # "idle" => request'[f]["user"] = request[f]["user"]
  BY <1>1, NoRequestType DEF TypeOK, Roles, NoRequest
<1>9. OriginInv(f)'
  BY <1>1, <1>5, <1>7, <1>8 DEF OriginInv, queue
<1> QED
  BY <1>1, <1>3, <1>5, <1>7, <1>8, <1>9, OriginKept, BesideTheTick, CardsFewer DEF OwnedInv

LEMMA RequestStepOwns ==
  ASSUME TypeOK, OwnedInv, NEW f \in Files, RequestStep(f)
  PROVE  OwnedInv'
<1>1. ASSUME UNCHANGED <<record, link, cards, queue, notify>>,
             \A g \in Files \ {f} : request'[g] = request[g],
             \A role \in Roles : request'[f][role].pc # "idle" => request[f][role].pc # "idle",
             request'[f]["user"].pc # "idle" =>
                 request'[f]["user"].rec = request[f]["user"].rec
      PROVE  OwnedInv'
  <2>1. OriginInv(f)'
    BY <1>1 DEF OwnedInv, OriginInv, queue, Roles
  <2> QED
    BY <1>1, <2>1, OriginKept, BesideTheTick, CardsFewer DEF OwnedInv
<1>2. CASE RequestLoad(f)
  <2> DEFINE r == request[f]["user"]
             loaded == [r EXCEPT !.pc = "loaded", !.base = link[f]]
  <2>1. /\ r.pc = "stored"
        /\ request' = [request EXCEPT ![f]["user"] = loaded]
        /\ UNCHANGED <<record, link, cards, queue, notify>>
    BY <1>2 DEF RequestLoad, TypeOK, Roles
  <2>2. r \in Request /\ loaded.rec = r.rec
    BY DEF TypeOK, Roles, Request
  <2> HIDE DEF loaded
  <2>3. /\ request'[f]["user"] = loaded /\ request'[f]["admin"] = request[f]["admin"]
        /\ \A g \in Files \ {f} : request'[g] = request[g]
    BY <2>1 DEF TypeOK, Roles
  <2> QED
    BY <1>1, <2>1, <2>2, <2>3 DEF Roles
<1>3. ASSUME NEW role \in Roles, RequestAbort(f, role) PROVE OwnedInv'
  BY <1>1, <1>3 DEF RequestAbort, TypeOK, Roles, NoRequest
<1> QED
  BY <1>2, <1>3, RequestCommitOwns DEF RequestStep

LEMMA OthersOwn ==
  ASSUME TypeOK, OwnedInv
  PROVE  /\ \A f \in Files : WritePreview(f) \/ BackoffEnds(f) \/ MaxWaitPasses(f) => OwnedInv'
         /\ \A id \in RagIds : RagFinishes(id) => OwnedInv'
         /\ UNCHANGED vars => OwnedInv'
<1>1. ASSUME UNCHANGED <<record, queue, notify, request>>, Fewer(cards'),
             \A g \in Files : link'[g].rag = link[g].rag /\ link'[g].state = link[g].state
      PROVE  OwnedInv'
  BY <1>1, OriginKept, BesideTheTick DEF OwnedInv
<1>2. ASSUME NEW f \in Files, WritePreview(f) PROVE OwnedInv'
  BY <1>1, <1>2, CardsFewer DEF WritePreview
<1>3. ASSUME NEW f \in Files, BackoffEnds(f) \/ MaxWaitPasses(f) PROVE OwnedInv'
  <2>1. \/ link' = [link EXCEPT ![f].next = "past"]
        \/ link' = [link EXCEPT ![f].aged = TRUE]
    BY <1>3 DEF BackoffEnds, MaxWaitPasses
  <2>2. ASSUME NEW g \in Files
        PROVE  link'[g].rag = link[g].rag /\ link'[g].state = link[g].state
    <3>1. \/ link'[g] = link[g]
          \/ link'[g] = [link[g] EXCEPT !.next = "past"]
          \/ link'[g] = [link[g] EXCEPT !.aged = TRUE]
      BY <2>1 DEF TypeOK
    <3>2. link[g] \in Row
      BY DEF TypeOK
    <3> QED
      BY <3>1, <3>2 DEF Row
  <2> QED
    BY <1>1, <1>3, <2>2, CardsFewer DEF BackoffEnds, MaxWaitPasses
<1>4. ASSUME NEW id \in RagIds, RagFinishes(id) PROVE OwnedInv'
  <2>1. cards[id].status = "processing"
        /\ \E s \in {"ready", "error"} : cards' = [cards EXCEPT ![id].status = s]
    BY <1>4 DEF RagFinishes
  <2>2. \A j \in RagIds : cards'[j].owner = cards[j].owner
                            /\ (j # id => cards'[j] = cards[j])
    BY <2>1 DEF TypeOK, Card
  <2>3. Fewer(cards')
    BY <2>1, <2>2 DEF Fewer, Live, Serves
  <2> QED
    BY <1>1, <1>4, <2>3 DEF RagFinishes
<1>5. CASE UNCHANGED vars
  BY <1>1, <1>5, CardsFewer DEF vars
<1> QED
  BY <1>2, <1>3, <1>4, <1>5

LEMMA TickClaimOwns ==
  ASSUME TypeOK, OwnedInv, TickClaim
  PROVE  OwnedInv'
<1>1. /\ UNCHANGED <<record, link, cards, broken, notify, request>>
      /\ claimed = {} /\ ~broken /\ todo' = claimed'
      /\ claimed' = {f \in DueRows : Cardinality({g \in DueRows : g < f}) < BatchSize}
      /\ work' = [f \in Files |-> IF f \in claimed' THEN link[f] ELSE Absent]
  BY DEF TickClaim
<1>2. ASSUME NEW f \in claimed'
      PROVE  f \in Files /\ f \in DueRows /\ work'[f] = link[f] /\ link[f].state # "ABSENT"
  <2>1. f \in DueRows /\ f \in Files
    BY <1>1 DEF DueRows
  <2> QED
    BY <1>1, <2>1 DEF DueRows, Due, DueStates, IndexLinkState
<1>3. ASSUME BatchSize = 1, NEW f \in claimed', NEW g \in claimed' PROVE f = g
  <2>1. IsFiniteSet(DueRows)
    BY QueueAssumption, FS_Subset DEF DueRows
  <2>2. ASSUME NEW a \in claimed', NEW b \in claimed' PROVE ~(a < b)
    <3> DEFINE S == {x \in DueRows : x < b}
    <3>1. IsFiniteSet(S)
      BY <2>1, FS_Subset
    <3>2. Cardinality(S) < 1 /\ Cardinality(S) \in Nat
      BY <1>1, <1>3, <3>1, FS_CardinalityType
    <3>3. S = {}
      BY <3>1, <3>2, FS_EmptySet
    <3> QED
      BY <1>2, <3>3
  <2>3. f \in Nat /\ g \in Nat
    BY <1>2, LinkAssumption
  <2> QED
    BY <2>2, <2>3
<1>4. \A f \in Files : Seen(f)' = Seen(f)
  BY <1>1, <1>2 DEF Seen
<1>5. \A id \in RagIds : Held(id)'
  BY <1>1, <1>4 DEF OwnedInv, Held, Live
<1>6. BatchInv'
  BY <1>1, <1>2, <1>3 DEF BatchInv
<1>7. \A f \in Files : OriginInv(f)'
  BY <1>1, <1>2 DEF OwnedInv, OriginInv
<1> QED
  BY <1>5, <1>6, <1>7 DEF OwnedInv

LEMMA TickCommitOwns ==
  ASSUME TypeOK, OwnedInv, TickCommit
  PROVE  OwnedInv'
<1>1. /\ UNCHANGED <<record, cards, notify, request>>
      /\ claimed' = {} /\ todo' = {} /\ ~broken'
      /\ link' = [f \in Files |-> Seen(f)]
  BY DEF TickCommit
<1>2. \A f \in Files : Seen(f)' = Seen(f) /\ link'[f] = Seen(f)
  BY <1>1 DEF Seen
<1>3. \A id \in RagIds : Held(id)'
  BY <1>1, <1>2 DEF OwnedInv, Held, Live
<1>4. BatchInv'
  BY <1>1 DEF BatchInv
<1>5. \A f \in Files : OriginInv(f)'
  BY <1>1, <1>2 DEF OwnedInv, OriginInv, Seen
<1> QED
  BY <1>3, <1>4, <1>5 DEF OwnedInv

(* The batch is rolled back: it held this row alone, and this call registered     *)
(* nothing, because the id that was taken is one RAG had issued before.          *)
LEMMA RollbackOwns ==
  ASSUME TypeOK, IndexedInv, OwnedInv, NEW f \in todo, f \in Files, ~broken, BatchSize = 1,
         NEW o, Lets(work[f], o) \/ Registers(f, work[f], o) \/ Adopts(work[f], o),
         IdTaken(f, o.patch.rag),
         cards' = o.cards, broken', todo' = todo \ {f}, claimed' = {}, work' = work,
         UNCHANGED <<record, link, notify, request>>
  PROVE  OwnedInv'
<1>1. Fewer(cards')
  <2>1. ASSUME Registers(f, work[f], o) PROVE FALSE
    <3>1. PICK id \in FreshIds : o.patch.rag = id
      BY <2>1 DEF Registers
    <3>2. id \in RagIds /\ cards[id].status = "unused"
      BY DEF FreshIds
    <3>3. PICK g \in Files : Seen(g).rag = id
      BY <3>1 DEF IdTaken
    <3>4. RowIssued(cards, Seen(g))
      BY DEF IndexedInv, Seen
    <3> QED
      BY <3>2, <3>3, <3>4 DEF RowIssued, Issued
  <2> QED
    BY <2>1, CardsFewer DEF Lets, Adopts
<1>2. claimed = {f}
  <2>1. f \in claimed
    BY DEF TypeOK
  <2> QED
    BY <2>1 DEF OwnedInv, BatchInv
<1>3. work[f].rag \in {None, link[f].rag}
  BY DEF OwnedInv, BatchInv
<1>4. ASSUME NEW id \in RagIds, Serves(cards', id) PROVE Held(id)'
  <2>1. Live(id) /\ cards'[id].owner = cards[id].owner
    BY <1>1, <1>4 DEF Fewer
  <2>2. cards[id].owner \in Files /\ Seen(cards[id].owner).rag = id
    BY <2>1 DEF OwnedInv, Held
  <2>3. id # None
    BY LinkAssumption
  <2>4. link[cards[id].owner].rag = id
    BY <1>2, <1>3, <2>2, <2>3 DEF Seen
  <2> QED
    BY <2>1, <2>2, <2>4 DEF Held, Seen
<1>5. \A id \in RagIds : Held(id)'
  BY <1>4 DEF Held, Live
<1>6. todo' = {}
  BY <1>2 DEF TypeOK
<1>7. BatchInv'
  BY <1>6 DEF BatchInv
<1>8. \A g \in Files : OriginInv(g)'
  BY DEF OwnedInv, OriginInv
<1> QED
  BY <1>5, <1>7, <1>8 DEF OwnedInv

(* An adopted card belongs to a row that holds it, and that row is another.       *)
LEMMA AdoptedIsTaken ==
  ASSUME OwnedInv, NEW f \in claimed, NEW o, Adopts(work[f], o)
  PROVE  IdTaken(f, o.patch.rag)
<1>1. PICK id \in RagIds : Live(id) /\ o.patch.rag = id
  BY DEF Adopts
<1>2. cards[id].owner \in Files /\ Seen(cards[id].owner).rag = id
  BY <1>1 DEF OwnedInv, Held
<1>3. cards[id].owner # f
  BY <1>2, LinkAssumption DEF Adopts, Seen
<1> QED
  BY <1>1, <1>2, <1>3 DEF IdTaken

LEMMA CallOwns ==
  ASSUME TypeOK, IndexedInv, OwnedInv, NEW f \in todo, f \in Files, ~broken,
         NEW o, o.patch \in Patch, Lets(work[f], o) \/ Registers(f, work[f], o),
         cards' = o.cards, ~broken', UNCHANGED claimed,
         todo' = IF o.done THEN todo \ {f} ELSE todo,
         work' = [work EXCEPT ![f] = Flush(work[f], work[f], o.patch)],
         UNCHANGED <<record, link, notify, request>>
  PROVE  OwnedInv'
<1>1. /\ f \in claimed /\ work[f].rag \in {None, link[f].rag} /\ work[f].state # "ABSENT"
      /\ work[f].rag # link[f].rag => ~Live(link[f].rag)
  BY DEF OwnedInv, BatchInv, OriginInv, TypeOK
<1>2. /\ work'[f].rag = IF o.patch.rag = Unset THEN work[f].rag ELSE o.patch.rag
      /\ work'[f].state = IF o.patch.state = Unset THEN work[f].state ELSE o.patch.state
      /\ \A g \in Files \ {f} : work'[g] = work[g]
  BY FlushedOver DEF TypeOK
<1>3. \A g \in Files \ {f} : Seen(g)' = Seen(g)
  BY <1>2 DEF Seen
<1>4. Seen(f)' = work'[f] /\ Seen(f) = work[f]
  BY <1>1 DEF Seen
<1>5. work'[f].state # "ABSENT"
  BY <1>1, <1>2 DEF Patch, IndexLinkState
<1>6. \A g \in Files : OriginInv(g)'
  BY <1>2, <1>5 DEF OwnedInv, OriginInv
<1>7. CASE Lets(work[f], o)
  <2>1. Fewer(cards')
    BY <1>7 DEF Lets
  <2>2. \/ work'[f].rag = work[f].rag
        \/ work'[f].rag = None /\ ~Serves(cards', work[f].rag)
    BY <1>2, <1>7 DEF Lets
  <2>3. ASSUME NEW id \in RagIds, Serves(cards', id) PROVE Held(id)'
    <3>1. Live(id) /\ cards'[id].owner = cards[id].owner
      BY <2>1, <2>3 DEF Fewer
    <3>2. cards[id].owner \in Files /\ Seen(cards[id].owner).rag = id
      BY <3>1 DEF OwnedInv, Held
    <3>3. CASE cards[id].owner = f
      BY <1>4, <2>2, <2>3, <3>1, <3>2, <3>3 DEF Held
    <3>4. CASE cards[id].owner # f
      BY <1>3, <3>1, <3>2, <3>4 DEF Held
    <3> QED
      BY <3>3, <3>4
  <2>4. \A id \in RagIds : Held(id)'
    BY <2>3 DEF Held, Live
  <2>5. \A id : ~Live(id) => ~Serves(cards', id)
    BY <2>1 DEF Fewer, Serves
  <2>6. work'[f].rag # link[f].rag => ~Serves(cards', link[f].rag)
    BY <1>1, <2>2, <2>5
  <2>7. ASSUME NEW g \in claimed, work'[g].rag # link[g].rag PROVE ~Serves(cards', link[g].rag)
    BY <1>2, <2>5, <2>6, <2>7 DEF OwnedInv, BatchInv, TypeOK
  <2>8. \A g \in todo' : work'[g].rag \in {None, link[g].rag}
    BY <1>1, <1>2, <2>2 DEF OwnedInv, BatchInv, TypeOK
  <2>9. BatchInv'
    BY <2>7, <2>8 DEF OwnedInv, BatchInv, Live
  <2> QED
    BY <1>6, <2>4, <2>9 DEF OwnedInv
<1>8. CASE Registers(f, work[f], o)
  <2>1. PICK id \in FreshIds : /\ o.patch.rag = id
                               /\ \E k, h : o.cards = Registered(f, id, k, h)
    BY <1>8 DEF Registers
  <2>2. id \in RagIds /\ cards[id].status = "unused" /\ id # Unset /\ id # None
    BY LinkAssumption DEF FreshIds
  <2>3. /\ cards'[id].owner = f
        /\ \A j \in RagIds \ {id} : cards'[j] = cards[j]
    BY <2>1, <2>2 DEF Registered, TypeOK
  <2>4. work'[f].rag = id /\ work[f].rag = None
    BY <1>2, <1>8, <2>1, <2>2 DEF Registers
  <2>5. ASSUME NEW j \in RagIds, Serves(cards', j) PROVE Held(j)'
    <3>1. CASE j = id
      BY <1>4, <2>3, <2>4, <3>1 DEF Held
    <3>2. CASE j # id
      <4>1. Live(j) /\ cards'[j] = cards[j]
        BY <2>3, <2>5, <3>2 DEF Live, Serves
      <4>2. cards[j].owner \in Files /\ Seen(cards[j].owner).rag = j
        BY <4>1 DEF OwnedInv, Held
      <4>3. cards[j].owner # f
        BY <1>4, <2>4, <4>2, LinkAssumption
      <4> QED
        BY <1>3, <4>1, <4>2, <4>3 DEF Held
    <3> QED
      BY <3>1, <3>2
  <2>6. \A j \in RagIds : Held(j)'
    BY <2>5 DEF Held, Live
  <2>7. ASSUME NEW g \in Files, ~Live(link[g].rag) PROVE ~Serves(cards', link[g].rag)
    <3>1. link[g].rag # id
      BY <2>2 DEF IndexedInv, RowIssued, Issued
    <3> QED
      BY <2>3, <2>7, <3>1 DEF Live, Serves
  <2>8. ~Live(link[f].rag)
    BY <1>1, <2>4, LinkAssumption DEF Live, Serves
  <2>9. ASSUME NEW g \in claimed, work'[g].rag # link[g].rag PROVE ~Serves(cards', link[g].rag)
    BY <1>2, <2>7, <2>8, <2>9 DEF OwnedInv, BatchInv, TypeOK
  <2>10. \A g \in todo' : work'[g].rag \in {None, link[g].rag}
    BY <1>2, <1>8 DEF OwnedInv, BatchInv, TypeOK, Registers
  <2>11. BatchInv'
    BY <2>9, <2>10 DEF OwnedInv, BatchInv, Live
  <2> QED
    BY <1>6, <2>6, <2>11 DEF OwnedInv
<1> QED
  BY <1>7, <1>8

LEMMA TickCallOwns ==
  ASSUME NothingLost, TypeOK, IndexedInv, OwnedInv, OneRolledBack, OneRolledBack',
         NEW f \in Files, TickCall(f)
  PROVE  OwnedInv'
<1>1. PICK o \in Process(f, work[f]) :
          /\ Spend(o.fault)
          /\ cards' = IF broken THEN WithoutSession(o.cards) ELSE o.cards
          /\ broken' = (broken \/ IdTaken(f, o.patch.rag))
          /\ todo' = IF o.done \/ broken' THEN todo \ {f} ELSE todo
          /\ claimed' = IF broken' THEN {} ELSE claimed
          /\ work' = IF broken' THEN work
                     ELSE [work EXCEPT ![f] = Flush(@, @, o.patch)]
  BY DEF TickCall
<1>2. f \in todo /\ UNCHANGED <<record, link, notify, request>>
  BY DEF TickCall
<1>3. ~broken
  BY <1>2 DEF OwnedInv, BatchInv
<1>4. cards' = o.cards /\ (broken' <=> IdTaken(f, o.patch.rag))
  <2>1. cards' = o.cards
    BY <1>1, <1>3
  <2>2. broken' = (broken \/ IdTaken(f, o.patch.rag))
    BY <1>1
  <2> QED
    BY <1>3, <2>1, <2>2, Zenon
<1>5. Lets(work[f], o) \/ Registers(f, work[f], o) \/ Adopts(work[f], o)
  BY <1>1, ProcessOwns DEF TypeOK
<1>6. o.patch \in Patch
  BY <1>1, ProcessType DEF TypeOK, Outcome
<1>7. CASE IdTaken(f, o.patch.rag)
  <2>1. BatchSize = 1 /\ broken'
    BY <1>4, <1>7 DEF OneRolledBack
  <2>2. todo' = todo \ {f} /\ claimed' = {} /\ work' = work
    BY <1>1, <2>1
  <2> QED
    BY <1>2, <1>3, <1>4, <1>5, <1>7, <2>1, <2>2, RollbackOwns
<1>8. CASE ~IdTaken(f, o.patch.rag)
  <2>1. Lets(work[f], o) \/ Registers(f, work[f], o)
    BY <1>2, <1>3, <1>5, <1>8, AdoptedIsTaken DEF TypeOK
  <2>2. ~broken'
    BY <1>4, <1>8
  <2>3. /\ claimed' = claimed
        /\ todo' = IF o.done THEN todo \ {f} ELSE todo
        /\ work' = [work EXCEPT ![f] = Flush(work[f], work[f], o.patch)]
    BY <1>1, <2>2
  <2> QED
    BY <1>2, <1>3, <1>4, <1>6, <2>1, <2>2, <2>3, CallOwns
<1> QED
  BY <1>7, <1>8

LEMMA OwnedStep ==
  ASSUME NothingLost, TypeOK, IndexedInv, SessionsQuiet, OwnedInv,
         OneRolledBack, OneRolledBack', [Next]_vars
  PROVE  OwnedInv'
<1>1. CASE Tick
  BY <1>1, TickClaimOwns, TickCallOwns, TickCommitOwns DEF Tick
<1>2. ASSUME NEW f \in Files, NEW k \in NotifyKinds, Notify(f, k) PROVE OwnedInv'
  BY <1>2, NotifyOwns
<1>3. ASSUME NEW f \in Files, RequestBegins(f) \/ RequestStep(f) PROVE OwnedInv'
  BY <1>3, RequestBeginsOwns, RequestStepOwns
<1>4. ~Crash
  BY DEF Crash, Spend, NothingLost
<1> QED
  BY <1>1, <1>2, <1>3, <1>4, UploadOwns, OthersOwn DEF Next

(* When no registration and no commit of a batch is lost, a file never has two    *)
(* cards: old vectors go first (_delete_for_reindex) and a registration that RAG    *)
(* has accepted is in the row before anybody can rename or overwrite the file.     *)
(* OneRolledBack is what the unique rag_file_id can do: a batch it rolls back       *)
(* forgets the cards its other rows have registered, so such a batch is of one row. *)
THEOREM OneCardAtATime ==
  NothingLost /\ TickRegisters => (Spec /\ []OneRolledBack => []OneCardPerFile)
<1> SUFFICES ASSUME NothingLost, TickRegisters
             PROVE  Spec /\ []OneRolledBack => []OneCardPerFile
  OBVIOUS
<1>1. Init => OwnedInv
  BY OwnedInit
<1>2. /\ TypeOK /\ IndexedInv /\ SessionsQuiet /\ OwnedInv
      /\ OneRolledBack /\ OneRolledBack' /\ [Next]_vars
      => OwnedInv'
  BY OwnedStep
<1>3. Spec => []TypeOK
  BY TypeCorrect
<1>4. Spec => []IndexedInv
  <2>1. Init => TypeOK /\ IndexedInv
    BY InitType, IndexedInit
  <2>2. (TypeOK /\ IndexedInv) /\ [Next]_vars => (TypeOK /\ IndexedInv)'
    BY StepType, IndexedStep
  <2> QED
    BY <2>1, <2>2, PTL DEF Spec
<1>5. Spec => []SessionsQuiet
  BY SessionsStayQuiet
<1>6. OwnedInv => OneCardPerFile
  BY OwnedIsOne
<1> QED
  BY <1>1, <1>2, <1>3, <1>4, <1>5, <1>6, PTL DEF Spec

(* With batches of one row nothing is needed of the constraint, for any number of  *)
(* files, and all files may share keys and contents.                           *)
THEOREM OneCardInSmallBatches ==
  NothingLost /\ TickRegisters /\ BatchSize = 1 => (Spec => []OneCardPerFile)
<1> SUFFICES ASSUME NothingLost, TickRegisters, BatchSize = 1
             PROVE  Spec => []OneCardPerFile
  OBVIOUS
<1>1. OneRolledBack
  BY DEF OneRolledBack
<1>2. Spec /\ []OneRolledBack => []OneCardPerFile
  BY OneCardAtATime
<1> QED
  BY <1>1, <1>2, PTL

=============================================================================
