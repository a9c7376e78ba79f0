------------------------------ MODULE SearchIndex ------------------------------
(***************************************************************************)
(* What the index promises the library, file by file, without a queue, a     *)
(* table or a service: where the file is, how far the index has got with it,  *)
(* and whether the card the index knows for it can still be found.           *)
(*                                                                          *)
(*   none      never offered            stopped   given up, or not indexable *)
(*   queued    on its way into the index, or being brought up to date there  *)
(*   indexed   its search hits are shown                                     *)
(*   leaving   out of the library, its card is to be withdrawn               *)
(*   gone      withdrawn, and RAG has confirmed it                           *)
(*                                                                          *)
(* The files do not depend on each other: one step may move several.         *)
(***************************************************************************)
CONSTANT Files

VARIABLE entry

Shelf == {"none", "in", "out"}
Phase == {"none", "queued", "indexed", "stopped", "leaving", "gone"}
Entry == [shelf : Shelf, phase : Phase, found : BOOLEAN]

Unoffered(shelf) == [shelf |-> shelf, phase |-> "none", found |-> FALSE]

(* Files that were in the library before there was an index were not offered. *)
Init == entry \in [Files -> {Unoffered("none"), Unoffered("in")}]

Stays(e, d) == d.shelf = e.shelf

(* A file comes into the library; its card can come only later. *)
Offered(e, d) ==
    /\ e = Unoffered("none")
    /\ d.shelf = "in" /\ d.phase \in {"none", "queued", "stopped"} /\ ~d.found

(* In the library a file is queued, indexed and queued again. Its card comes  *)
(* while it is queued and goes only while it is queued: a file that is shown   *)
(* is found, and what makes it invisible first is its row, not its card.      *)
Queued(e, d) ==
    /\ e.shelf = "in" /\ Stays(e, d)
    /\ d.phase = "queued"
    /\ e.phase # "queued" => d.found = e.found

Shown(e, d) ==
    /\ e.shelf = "in" /\ Stays(e, d)
    /\ e.phase = "queued" /\ d.phase = "indexed" /\ e.found /\ d.found

(* Giving up, or not taking a file at all, leaves the card as it is.         *)
GivenUp(e, d) ==
    /\ e.shelf = "in" /\ Stays(e, d)
    /\ e.phase \in {"none", "queued"} /\ d.phase = "stopped" /\ d.found = e.found

(* Delete or archive: the card is still there, and still known. *)
Leaves(e, d) ==
    /\ e.shelf = "in" /\ d.shelf = "out"
    /\ d.phase \in {"leaving", "none"} /\ (d.phase = "none" => e.phase = "none")
    /\ d.found = e.found

(* Out of the library: no way back, no new card, and gone means gone.        *)
Withdrawn(e, d) ==
    /\ e.shelf = "out" /\ Stays(e, d)
    /\ d.phase \in {"leaving", "stopped", "gone"}
    /\ d.found => e.found
    /\ d.phase = "gone" => ~d.found

Moves(e, d) ==
    \/ Offered(e, d)
    \/ Queued(e, d) \/ Shown(e, d) \/ GivenUp(e, d)
    \/ Leaves(e, d) \/ Withdrawn(e, d)

Next ==
    /\ entry' \in [Files -> Entry]
    /\ \A f \in Files : entry'[f] # entry[f] => Moves(entry[f], entry'[f])

(* Nobody waits forever: neither to be indexed nor to be withdrawn.          *)
Waiting(e) == e.phase \in {"queued", "leaving"}
Serving == \A f \in Files : []<>~Waiting(entry[f])

Spec == Init /\ [][Next]_entry /\ Serving
=============================================================================
