---------------------------- MODULE IndexRefinement ----------------------------
(***************************************************************************)
(* IndexQueue implements SearchIndex: the table, the tick with its batches,    *)
(* the notifies, lost answers and crashes are the ways a file goes through     *)
(* the phases an owner may rely on.                                          *)
(***************************************************************************)
EXTENDS IndexQueue

ShelfOf(f) ==
    CASE record[f].status = "none"      -> "none"
      [] record[f].status = "committed" -> "in"
      [] OTHER                          -> "out"

(* The states of a row as its owner may tell them apart (GET                  *)
(* /api/indexing/status), and the year 9999 that marks a confirmed removal.   *)
PhaseOf(row) ==
    IF row.next = "never" THEN "gone"
    ELSE CASE row.state = "ABSENT"                                   -> "none"
           [] row.state \in {"PENDING", "SUBMITTED", "REINDEX_PENDING"} -> "queued"
           [] row.state = "INDEXED"                                  -> "indexed"
           [] row.state \in {"FAILED", "SKIPPED"}                    -> "stopped"
           [] row.state \in {"REMOVED", "ARCHIVED"}                  -> "leaving"

EntryOf(f) == [shelf |-> ShelfOf(f), phase |-> PhaseOf(link[f]),
               found |-> Live(link[f].rag)]
Entries == [f \in Files |-> EntryOf(f)]

Abstract == INSTANCE SearchIndex WITH entry <- Entries

(* A file that is shown has a card that is served, loses it only through the  *)
(* queue, never comes back once it has left, is marked gone only when RAG has  *)
(* confirmed, and never waits forever, although the tick, the delete notify    *)
(* and the requests write the row from copies of different age.              *)
ImplementsSearchIndex == Abstract!Spec
=============================================================================
