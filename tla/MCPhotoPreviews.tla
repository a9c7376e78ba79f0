---------------------------- MODULE MCPhotoPreviews ----------------------------
(***************************************************************************)
(* Two photos, the second of which cannot be decoded; they fit in the quota      *)
(* only when both are looked at before either is charged.                     *)
(***************************************************************************)
EXTENDS PhotoPreviews

MCSize == [p \in Photos |-> p]
=============================================================================
