------------------------------ MODULE IndexLinks ------------------------------
(***************************************************************************)
(* One row of the table file_index_links and the ways the code writes it:   *)
(* the columns, the partial updates built by the sync job, the immediate    *)
(* notify and the request hooks, and the UPDATE statement the ORM emits.    *)
(*                                                                          *)
(* Time is abstracted to what the queue compares: next_attempt_at is NULL,  *)
(* a moment in the past, a moment in the future or the year-9999 stamp, and *)
(* "aged" says whether RAG_INDEX_MAX_WAIT_SECONDS passed since updated_at.  *)
(***************************************************************************)
EXTENDS Naturals

CONSTANTS Files,        \* file records, numbered in the order of created_at
          Keys,         \* object keys in the bucket
          Contents,     \* object bodies, standing for their SHA-256 as well
          RagIds,       \* file ids the RAG service may issue, in issue order
          MaxAttempts,  \* RAG_MAX_ATTEMPTS
          None,         \* NULL
          Unset         \* the UNSET default of apply_transition

(* The lifecycle states of a row; a file without a row is "ABSENT", and its  *)
(* other columns mean nothing.                                              *)
IndexLinkState == {"PENDING", "SUBMITTED", "INDEXED", "FAILED", "SKIPPED",
                   "REMOVED", "ARCHIVED", "REINDEX_PENDING"}
DueStates == IndexLinkState \ {"INDEXED", "FAILED", "SKIPPED"}

NextAttempts == {"null", "past", "later", "never"}

ASSUME LinkAssumption ==
    /\ Files \subseteq Nat
    /\ RagIds \subseteq Nat
    /\ Keys # {} /\ Contents # {}
    /\ MaxAttempts \in Nat \ {0}
    /\ None \notin RagIds
    /\ Unset \notin RagIds
    /\ Unset # None
    /\ Unset \notin IndexLinkState \cup NextAttempts

ErrorCodes == {"none", "code"}

Row == [state    : IndexLinkState \cup {"ABSENT"},
        rag      : RagIds \cup {None},
        key      : Keys,
        sha      : Contents \cup {None},
        attempts : Nat,
        next     : NextAttempts,
        err      : ErrorCodes,
        aged     : BOOLEAN]

(* The arguments of one apply_transition call. *)
Patch == [state    : IndexLinkState \cup {Unset},
          rag      : RagIds \cup {None, Unset},
          key      : Keys \cup {Unset},
          sha      : Contents \cup {None, Unset},
          attempts : Nat \cup {Unset},
          next     : NextAttempts \cup {Unset},
          err      : ErrorCodes \cup {Unset}]

AnyKey == CHOOSE k \in Keys : TRUE
AnyContent == CHOOSE h \in Contents : TRUE

Absent == [state |-> "ABSENT", rag |-> None, key |-> AnyKey, sha |-> None,
           attempts |-> 0, next |-> "null", err |-> "none", aged |-> FALSE]

(* upsert_pending's INSERT: registration decided, or refused with a skip code. *)
NewRow(state, k, h) ==
    [Absent EXCEPT !.state = state, !.key = k, !.sha = h,
                   !.err = IF state = "SKIPPED" THEN "code" ELSE "none"]

Exists(row) == row.state # "ABSENT"

(* claim_due's WHERE clause at the moment the tick starts. *)
Due(row) == row.state \in DueStates /\ row.next \in {"null", "past"}

(* The row will be claimed now or later: it has not left the queue. *)
InQueue(row) == row.state \in DueStates /\ row.next # "never"

-----------------------------------------------------------------------------
(* apply_transition and the UPDATE it emits.                                *)

Keep == [state |-> Unset, rag |-> Unset, key |-> Unset, sha |-> Unset,
         attempts |-> Unset, next |-> Unset, err |-> Unset]

(* Slip: the UNSET default is written like a value. *)
WrittenUnset(stored, loaded, new) == IF new = loaded THEN stored ELSE new

(* A column is part of the UPDATE only when its new value differs from the  *)
(* value the session loaded; a column left out keeps what the table holds.  *)
Written(stored, loaded, new) ==
    IF new = Unset \/ new = loaded THEN stored ELSE new

(* Two finite timestamps taken at different moments always differ. *)
WrittenStamp(stored, loaded, new) ==
    IF new \in {"past", "later"} THEN new ELSE Written(stored, loaded, new)

Changes(loaded, new) == new # Unset /\ new # loaded

(* A state or payload change, which is what moves updated_at. *)
Bumps(loaded, p) ==
    \/ Changes(loaded.state, p.state)
    \/ Changes(loaded.rag, p.rag)
    \/ Changes(loaded.key, p.key)
    \/ Changes(loaded.sha, p.sha)
    \/ Changes(loaded.err, p.err)

(* The stored row after a session that had loaded "loaded" flushes p. *)
Flush(stored, loaded, p) ==
    [state    |-> Written(stored.state, loaded.state, p.state),
     rag      |-> Written(stored.rag, loaded.rag, p.rag),
     key      |-> Written(stored.key, loaded.key, p.key),
     sha      |-> Written(stored.sha, loaded.sha, p.sha),
     attempts |-> Written(stored.attempts, loaded.attempts, p.attempts),
     next     |-> WrittenStamp(stored.next, loaded.next, p.next),
     err      |-> Written(stored.err, loaded.err, p.err),
     aged     |-> stored.aged /\ ~Bumps(loaded, p)]

-----------------------------------------------------------------------------
(* The partial updates of the sync job.                                     *)

FailPatch == [Keep EXCEPT !.state = "FAILED", !.next = "null", !.err = "code"]

SkipPatch == [Keep EXCEPT !.state = "SKIPPED", !.next = "null", !.err = "code"]

(* Out of attempts the row fails, whatever state it was in. Otherwise it    *)
(* backs off; a SUBMITTED row keeps its error code so that its max-wait     *)
(* clock, which runs from updated_at, is not restarted.                     *)
RetryPatch(row) ==
    LET attempts == row.attempts + 1
    IN IF attempts >= MaxAttempts
       THEN [FailPatch EXCEPT !.attempts = attempts]
       ELSE [Keep EXCEPT !.attempts = attempts, !.next = "later",
                         !.err = IF row.state = "SUBMITTED" THEN Unset ELSE "code"]

(* Slip: waiting for a preview is not counted as an attempt. *)
MissPreviewPatchUncounted(row) ==
    [Keep EXCEPT !.next = "later", !.err = "code"]

(* A Photos preview that is not written yet is waited for, then skipped. *)
MissPreviewPatch(row) ==
    LET attempts == row.attempts + 1
    IN IF attempts >= MaxAttempts
       THEN [SkipPatch EXCEPT !.attempts = attempts]
       ELSE [Keep EXCEPT !.attempts = attempts, !.next = "later", !.err = "code"]

SucceedPatch(state, id, h) ==
    [state |-> state, rag |-> id, key |-> Unset, sha |-> h,
     attempts |-> 0, next |-> "null", err |-> "none"]

(* Slip: a confirmed removal is left due. *)
SettlePatchDue(terminal) ==
    [Keep EXCEPT !.state = terminal, !.attempts = 0, !.next = "null",
                 !.err = "none"]

(* Removal confirmed: stamped with the year 9999 so that no tick claims it. *)
SettlePatch(terminal) ==
    [Keep EXCEPT !.state = terminal, !.attempts = 0, !.next = "never",
                 !.err = "none"]

(* Still processing: only the next poll is scheduled. *)
PollAgainPatch == [Keep EXCEPT !.next = "later"]

ClearRagPatch == [Keep EXCEPT !.rag = None]

ContentChangedPatch == [Keep EXCEPT !.state = "REINDEX_PENDING", !.next = "null",
                                    !.err = "code"]

-----------------------------------------------------------------------------
(* The partial updates of the request hooks, computed from the loaded row.  *)

MarkContentChanged(loaded, k, h) ==
    [state    |-> IF loaded.rag # None THEN "REINDEX_PENDING" ELSE "PENDING",
     rag      |-> Unset, key |-> k, sha |-> h,
     attempts |-> 0, next |-> "null", err |-> "none"]

(* Slip: a rename registers the file anew. *)
MarkRekeyAnew(loaded, k) ==
    [Keep EXCEPT !.state = "PENDING", !.rag = None, !.key = k, !.next = "past"]

MarkRekey(loaded, k) ==
    IF loaded.rag = None
    THEN [Keep EXCEPT !.key = k]
    ELSE [Keep EXCEPT !.state = "PENDING", !.key = k, !.next = "past"]

(* Slip: a removal forgets which card it is about. *)
MarkRemovedBlind == [Keep EXCEPT !.state = "REMOVED", !.rag = None, !.next = "null"]

MarkRemoved == [Keep EXCEPT !.state = "REMOVED", !.next = "null"]

MarkArchived == [Keep EXCEPT !.state = "ARCHIVED", !.next = "null"]

MarkRetried(loaded) ==
    [Keep EXCEPT !.state = IF loaded.rag # None THEN "SUBMITTED" ELSE "PENDING",
                 !.attempts = 0, !.next = "null", !.err = "none"]
=============================================================================
