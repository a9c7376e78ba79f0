------------------------------- MODULE VaultTree -------------------------------
(***************************************************************************)
(* The private section as EncryptedStorageAdapter keeps it. Every name on a  *)
(* path is encrypted for itself, with the key of the session and a random    *)
(* vector, so writing a name twice makes two objects, and a path is found by  *)
(* listing every directory on it and decrypting the names there: the first   *)
(* match counts, and names under another key are passed over.                 *)
(*                                                                          *)
(* An entry is an object or a directory marker; its number is the place of    *)
(* its encrypted name in a listing, drawn anew for each write. A vault t is a *)
(* record of the entries and, as in FileTree, the records (which hold the     *)
(* paths in clear) and the bytes charged.                                    *)
(***************************************************************************)
EXTENDS FileTree

CONSTANTS Entries, \* places of encrypted names: positive numbers
          VaultKeys \* keys derived from the passphrases of the user

Top == 0

ASSUME VaultAssumption ==
    /\ Entries \subseteq Nat \ {Top} /\ IsFiniteSet(Entries)
    /\ None \notin VaultKeys \cup Entries \cup {Top}

Entry == [kind : {"none", "dir", "file"}, up : Entries \cup {Top},
          name : Names \cup {None}, key : VaultKeys \cup {None}, body : Bodies \cup {0}]
NoEntry == [kind |-> "none", up |-> Top, name |-> None, key |-> None, body |-> 0]

VaultType(t) ==
    t \in [ent : [Entries -> Entry], row : [Ids -> Row], used : [Users -> Int]]

EmptyVault ==
    [ent |-> [e \in Entries |-> NoEntry], row |-> [r \in Ids |-> NoRow],
     used |-> [u \in Users |-> 0]]

Places(t) == {e \in Entries : t.ent[e].kind = "none"}
Kept(t) == Entries \ Places(t)

(* Slip: the listing is not confined to the directory. *)
NamedAnywhere(t, k, up, n) == {e \in Kept(t) : t.ent[e].name = n /\ t.ent[e].key = k}

Named(t, k, up, n) ==
    {e \in Kept(t) : t.ent[e].up = up /\ t.ent[e].name = n /\ t.ent[e].key = k}

(* _resolve_encrypted_path: None where a name on the way has no match.        *)
Resolved(t, k, p) ==
    FoldLeft(LAMBDA at, n :
                IF at = None \/ Named(t, k, at, n) = {} THEN None
                ELSE Min(Named(t, k, at, n)),
             Top, p)

(* Slip: a name is written whether or not its parent is found. *)
AnyParent(t, k, p) == TRUE
HasParent(t, k, p) == Resolved(t, k, Front(p)) # None

Below(t, e) ==
    {d \in Kept(t) : \/ t.ent[d].up = e
                     \/ t.ent[d].up \in Kept(t) /\ t.ent[t.ent[d].up].up = e}

Dropped(t, S) == [t EXCEPT !.ent = [e \in Entries |-> IF e \in S THEN NoEntry ELSE @[e]]]

(* A name is encrypted below the parent the old one resolves to.             *)
Put(t, k, kind, p, b, e) ==
    [t EXCEPT !.ent[e] = [kind |-> kind, up |-> Resolved(t, k, Front(p)), name |-> Last(p),
                          key |-> k, body |-> b]]

(* rename: a new name for the entry, the encrypted names below it stay.      *)
Renamed(t, k, from, q, e) ==
    LET old == Resolved(t, k, from)
    IN  [t EXCEPT !.ent = [d \in Entries |->
            CASE d = e   -> [t.ent[old] EXCEPT !.name = Last(q), !.key = k,
                                               !.up = Resolved(t, k, Front(q))]
              [] d = old -> NoEntry
              [] OTHER   -> IF t.ent[d].up = old THEN [t.ent[d] EXCEPT !.up = e] ELSE t.ent[d]]]

(* What a session with the key k reads at p. *)
Decrypted(t, k, p) ==
    LET e == Resolved(t, k, p)
    IN  IF e \in Entries /\ t.ent[e].kind = "file" THEN t.ent[e].body ELSE None

-----------------------------------------------------------------------------
(* FileService on this adapter. e is the place of the name that is written.  *)

VaultUploaded(t, k, u, p, b, e) ==
    IF ~HasParent(t, k, p) THEN Raised(t)
    ELSE Done(Charged(Created(Put(t, k, "file", p, b, e), u, p, b, "committed"), u, Size(b)))

(* overwrite_file: the object that is found goes, the new one has a new name. *)
VaultOverwritten(t, k, u, p, b, e) ==
    LET r == CHOOSE x \in Found(t, p) : TRUE
        more == Size(b) - Size(t.row[r].body)
        bare == Dropped(Healed(t, p), {Resolved(t, k, p)})
    IN  CASE Ambiguous(t, p) -> Raised(t)
          [] Found(t, p) = {} -> VaultUploaded(t, k, u, p, b, e)
          [] OTHER ->
                IF GrowthRefused(t, u, more) \/ ~HasParent(t, k, p)
                THEN Raised(t)
                ELSE Done(Charged([Put(bare, k, "file", p, b, e) EXCEPT !.row[r].body = b],
                                  u, more))

VaultMkdir(t, k, p, e) ==
    IF HasParent(t, k, p) THEN Done(Put(t, k, "dir", p, 0, e)) ELSE Raised(t)

(* A record is deleted with whatever its path resolves to, a directory with   *)
(* its entries and without its records.                                      *)
VaultDeleted(t, k, u, p) ==
    LET r == CHOOSE x \in Found(t, p) : TRUE
        e == Resolved(t, k, p)
        bare == IF e \in Entries THEN Dropped(t, {e} \cup Below(t, e)) ELSE t
    IN  IF Ambiguous(t, p) THEN Raised(t)
        ELSE IF Found(t, p) # {} THEN
            Done(Charged(RowsDeleted(bare, {r}), u, 0 - Size(t.row[r].body)))
        ELSE IF e = None THEN Raised(t)
        ELSE Done(bare)

VaultRenamed(t, k, p, n, e) ==
    LET q == Append(Front(p), n)
        r == CHOOSE x \in Found(t, p) : TRUE
        old == Resolved(t, k, p)
    IN  IF old = None THEN Raised(t)
        ELSE IF t.ent[old].kind = "dir" THEN Done(RowsMoved(Renamed(t, k, p, q, e), p, q))
        ELSE IF Ambiguous(t, p) \/ Found(t, p) = {} THEN Raised(t)
        ELSE Done([Renamed(Healed(t, p), k, p, q, e) EXCEPT !.row[r].path = q])
=============================================================================
