---------------------------- MODULE MCPrivateVault ----------------------------
(***************************************************************************)
(* Two browsers behind one address and two passphrases.                      *)
(***************************************************************************)
EXTENDS PrivateVault

File(op, at, to, body) == [op |-> op, at |-> at, to |-> to, body |-> body]

OneAddress == [s \in Sessions |-> "home"]

(* Every kind of request, around one directory and the registry. *)
MCAsks ==
    {File("upload", Root, "f", 1), File("upload", <<"d">>, "f", 2),
     File("mkdir", Root, "d", 0), File("rename", <<"d">>, "f", 0),
     File("rename", <<"f">>, "g", 0),
     File("delete", <<"d">>, None, 0), File("delete", <<"f">>, None, 0),
     File("listKeys", Root, None, 0), File("saveKeys", Root, None, 2)}
=============================================================================
