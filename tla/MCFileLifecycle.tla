---------------------------- MODULE MCFileLifecycle ----------------------------
(* Instances of FileLifecycle for TLC. A body's number is its size. *)
EXTENDS FileLifecycle

CONSTANTS k1, k2, k3, s1, s2

(* Every path is used once, so that no file meets the objects of another. *)
TwoUploads == {<<1, k1, 1>>, <<2, k2, 2>>}
OneBigUpload == {<<1, k1, 2>>}
OneRename == {<<1, k3>>}
OneOverwrite == {<<1, 3>>}
=============================================================================
