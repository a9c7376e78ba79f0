---------------------------- MODULE MCIndexQueue ----------------------------
(* Instances of IndexQueue for TLC. *)
EXTENDS IndexRefinement

CONSTANTS k1, k2, h1, h2

(* One file. *)
OneUpload == {<<1, k1, h1>>}

(* A file stored before indexing was switched on, and a photo uploaded later. *)
OldFile == {<<1, k1, h1>>}
NewPhoto == {<<2, k2, h2>>}
=============================================================================
