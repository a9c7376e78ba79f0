------------------------------ MODULE PrivateVault ------------------------------
(***************************************************************************)
(* The private section of one user: browser sessions that unlock it with a   *)
(* passphrase, work on its files and on the keys registry, lock it or let it   *)
(* expire, and the reset that empties it.                                    *)
(*                                                                          *)
(* The key of a session is in Redis, the marker that tells a right key from a *)
(* wrong one in the bucket, the records in PostgreSQL; nothing ties the three *)
(* together. A session has one request at a time, and every await of unlock,  *)
(* reset and upload is a step of its own. Requests on files take their key     *)
(* once, when they begin.                                                   *)
(***************************************************************************)
EXTENDS VaultTree

CONSTANTS Owner,        \* the user
          Sessions,     \* values of the auth cookie
          Ips, Ip,      \* client addresses: [Sessions -> Ips]
          MaxAttempts,  \* UNLOCK_RATE_LIMIT_MAX_ATTEMPTS
          KeysFolder, KeysFile,  \* names of Keys/keys.yaml
          NoKeys,       \* contents of an empty registry
          Garbled,      \* contents that are no registry
          Asks,         \* requests on files: SUBSET Ask
          Passphrases,  \* keys that are tried: SUBSET VaultKeys
          Faults,       \* "store", "abort", "crash"
          MaxWork,      \* bound: an unlock or a reset counts 1, a request on files 2
          MaxFaults     \* bound: faults in one behaviour

ASSUME PrivateAssumption ==
    /\ Owner \in Users /\ Ip \in [Sessions -> Ips]
    /\ MaxAttempts \in Nat \ {0}
    /\ {KeysFolder, KeysFile} \subseteq Names
    /\ NoKeys \in Bodies \ Garbled /\ Garbled \subseteq Bodies
    /\ Passphrases \subseteq VaultKeys
    /\ IsFiniteSet(Sessions)
    /\ Faults \subseteq {"store", "abort", "crash"}
    /\ MaxWork \in Nat /\ MaxFaults \in Nat

VARIABLES
    vault,      \* entries, records and private_bytes
    marker,     \* the key .marker is encrypted with, None if there is none
    held,       \* private_key:<session> in Redis
    attempts,   \* unlock_attempts:<user>:<ip> in Redis
    expiring,   \* TRUE where that counter has a time to live
    job,        \* the request of a session
    spent,      \* requests and faults so far
    refused,    \* ghost: refused passphrases since the counter was last 0
    torn,       \* ghost: the marker was lost or replaced under a key in use
    cut         \* ghost: addresses whose counter a crash left without its time to live

redis == <<held, attempts, expiring>>
ghosts == <<refused, torn, cut>>
vars == <<vault, marker, redis, job, spent, ghosts>>

Ask == [op   : {"upload", "mkdir", "delete", "rename", "listKeys", "saveKeys"},
        at   : Paths, to : Names \cup {None}, body : Bodies \cup {0}]
NoAsk == [op |-> "none", at |-> Root, to |-> None, body |-> 0]

(* A written file has a name and contents; renaming the root is left out.     *)
ASSUME AsksAssumption ==
    /\ Asks \subseteq Ask
    /\ MaxDepth > 1
    /\ \A x \in Asks :
          /\ x.op \in {"upload", "mkdir"} => x.to \in Names /\ Len(x.at) < MaxDepth
          /\ x.op \in {"upload", "saveKeys"} => x.body \in Bodies
          /\ x.op = "rename" => x.at # Root /\ x.to \in Names

Idle == [step |-> "idle", key |-> None, ask |-> NoAsk]
Steps == {"idle", "look", "write", "grant", "refuse", "count", "wipe", "clear",
          "act", "commit", "folder", "file"}

TypeOK ==
    /\ VaultType(vault)
    /\ marker \in VaultKeys \cup {None}
    /\ held \in [Sessions -> VaultKeys \cup {None}]
    /\ attempts \in [Ips -> Nat] /\ expiring \in [Ips -> BOOLEAN]
    /\ job \in [Sessions -> [step : Steps, key : VaultKeys \cup {None}, ask : Ask \cup {NoAsk}]]
    /\ spent \in [work : 0..MaxWork, faults : 0..MaxFaults]
    /\ refused \in [Ips -> Nat]
    /\ torn \in BOOLEAN /\ cut \subseteq Ips

Init ==
    /\ vault = EmptyVault /\ marker = None
    /\ held = [s \in Sessions |-> None]
    /\ attempts = [i \in Ips |-> 0] /\ expiring = [i \in Ips |-> FALSE]
    /\ job = [s \in Sessions |-> Idle]
    /\ spent = [work |-> 0, faults |-> 0]
    /\ refused = [i \in Ips |-> 0] /\ torn = FALSE /\ cut = {}

Work(n) ==
    /\ spent.work + n <= MaxWork
    /\ spent' = [spent EXCEPT !.work = @ + n]
Start(s, step, key, ask) ==
    /\ job[s] = Idle
    /\ job' = [job EXCEPT ![s] = [step |-> step, key |-> key, ask |-> ask]]
Try(s, step, key) ==
    /\ Start(s, step, key, NoAsk)
    /\ Work(1)
Goto(s, step) == job' = [job EXCEPT ![s].step = step]
End(s) == job' = [job EXCEPT ![s] = Idle]
Fault(kind) ==
    /\ kind \in Faults /\ spent.faults < MaxFaults
    /\ spent' = [spent EXCEPT !.faults = @ + 1]

-----------------------------------------------------------------------------
(* POST /unlock.                                                            *)

(* The counter of an address is deleted. *)
Forgotten(i) ==
    /\ attempts' = [attempts EXCEPT ![i] = 0]
    /\ expiring' = [expiring EXCEPT ![i] = FALSE]
    /\ refused' = [refused EXCEPT ![i] = 0]
    /\ cut' = cut \ {i}

(* Slip: the counter is only looked at after a refusal. *)
MayTry(i) == TRUE
MayUnlock(i) == attempts[i] < MaxAttempts

UnlockBegin(s) ==
    /\ MayUnlock(Ip[s])
    /\ \E k \in Passphrases : Try(s, "look", k)
    /\ UNCHANGED <<vault, marker, redis, ghosts>>

(* Slip: any key opens a vault that has a marker. *)
VerdictOpen(k) == IF marker = None THEN "write" ELSE "grant"

(* marker_exists, then validate_marker.                                     *)
Verdict(k) ==
    IF marker = None THEN "write" ELSE IF marker = k THEN "grant" ELSE "refuse"

UnlockLook(s) ==
    /\ job[s].step = "look"
    /\ Goto(s, Verdict(job[s].key))
    /\ UNCHANGED <<vault, marker, redis, spent, ghosts>>

(* A request that has its key, or is about to hand it out.                   *)
AtWork(s) == job[s].step \in {"grant", "act", "commit", "folder", "file"}

(* A key other than k has a part in the vault. *)
Contested(k) ==
    \/ marker \notin {None, k}
    \/ \E e \in Kept(vault) : vault.ent[e].key # k
    \/ \E s \in Sessions : held[s] \notin {None, k}
    \/ \E s \in Sessions : (AtWork(s) \/ job[s].step = "write") /\ job[s].key # k

UnlockWrite(s) ==
    /\ job[s].step = "write"
    /\ marker' = job[s].key
    /\ torn' = (torn \/ Contested(job[s].key))
    /\ Goto(s, "grant")
    /\ UNCHANGED <<vault, redis, spent, refused, cut>>

(* set_private_key, then the counter is deleted. *)
UnlockGrant(s) ==
    /\ job[s].step = "grant"
    /\ held' = [held EXCEPT ![s] = job[s].key]
    /\ Forgotten(Ip[s])
    /\ End(s)
    /\ UNCHANGED <<vault, marker, spent, torn>>

UnlockRefuse(s) ==
    /\ job[s].step = "refuse"
    /\ refused' = [refused EXCEPT ![Ip[s]] = @ + 1]
    /\ attempts' = [attempts EXCEPT ![Ip[s]] = @ + 1]
    /\ IF attempts[Ip[s]] = 0 THEN Goto(s, "count") ELSE End(s)
    /\ UNCHANGED <<vault, marker, held, expiring, spent, torn, cut>>

(* Slip: the counter gets its time to live from the second refusal on. *)
TtlFromTheSecond(n) == n > 1
NeedsTtl(n) == n > 0

(* incr answered 1: only then the counter gets its time to live. EXPIRE of a  *)
(* counter that is gone does nothing.                                       *)
UnlockExpire(s) ==
    /\ job[s].step = "count"
    /\ expiring' = [expiring EXCEPT ![Ip[s]] = NeedsTtl(attempts[Ip[s]])]
    /\ End(s)
    /\ UNCHANGED <<vault, marker, held, attempts, spent, ghosts>>

(* The process ends between the two. *)
UnlockCrash(s) ==
    /\ job[s].step = "count" /\ Fault("crash")
    /\ cut' = IF attempts[Ip[s]] > 0 /\ ~expiring[Ip[s]] THEN cut \cup {Ip[s]} ELSE cut
    /\ End(s)
    /\ UNCHANGED <<vault, marker, redis, refused, torn>>

CounterExpires(i) ==
    /\ expiring[i]
    /\ Forgotten(i)
    /\ UNCHANGED <<vault, marker, held, job, spent, torn>>

-----------------------------------------------------------------------------
(* POST /lock, the end of a key's time to live, POST /reset.                 *)

Lock(s) ==
    /\ held[s] # None
    /\ held' = [held EXCEPT ![s] = None]
    /\ UNCHANGED <<vault, marker, attempts, expiring, job, spent, ghosts>>

ResetBegin(s) ==
    /\ attempts[Ip[s]] >= MaxAttempts
    /\ Try(s, "wipe", None)
    /\ held' = [held EXCEPT ![s] = None]
    /\ UNCHANGED <<vault, marker, attempts, expiring, ghosts>>

(* Every key below the root of the section goes, .marker and .tmp included.  *)
ResetWipe(s) ==
    /\ job[s].step = "wipe"
    /\ vault' = Dropped(vault, Entries) /\ marker' = None
    /\ torn' = (torn \/ \E o \in Sessions \ {s} : held[o] # None \/ AtWork(o))
    /\ Goto(s, "clear")
    /\ UNCHANGED <<redis, spent, refused, cut>>

(* Slip: the records are left to be deleted. *)
ClearedUsage(t) == [t EXCEPT !.used[Owner] = 0]

Cleared(t) ==
    [RowsDeleted(t, {r \in Ids : t.row[r].status = "committed"}) EXCEPT !.used[Owner] = 0]

(* delete_all_by_user_section and reset_private_usage, the counter, commit.  *)
ResetCommit(s) ==
    /\ job[s].step = "clear"
    /\ vault' = Cleared(vault)
    /\ Forgotten(Ip[s])
    /\ End(s)
    /\ UNCHANGED <<marker, held, spent, torn>>

(* Redis or the database fails: the objects are gone, the records are not.   *)
ResetAbort(s) ==
    /\ job[s].step = "clear" /\ Fault("abort")
    /\ End(s)
    /\ UNCHANGED <<vault, marker, redis, ghosts>>

-----------------------------------------------------------------------------
(* Requests on files, with the key the session held when they began.         *)

(* _validate_entries. *)
ValidKeys(b) == b \notin Garbled

Admits(x) ==
    /\ x.op = "upload" => ~WouldExceed(vault, Owner, Size(x.body))
    /\ x.op = "saveKeys" => ValidKeys(x.body)

AskBegin(s) ==
    /\ held[s] # None
    /\ \E x \in Asks :
          /\ Admits(x)
          /\ Start(s, IF x.op \in {"listKeys", "saveKeys"} THEN "folder" ELSE "act", held[s], x)
    /\ Work(2)
    /\ UNCHANGED <<vault, marker, redis, ghosts>>

AskEnd(s, result) ==
    /\ vault' = Committed(vault, result)
    /\ End(s)
    /\ UNCHANGED <<marker, redis, spent, ghosts>>

Free == Places(vault) # {} /\ FreeIds(vault) # {}
Target(x) == Append(x.at, x.to)

(* The object is moved into place, the record is committed later. *)
UploadMove(s) ==
    LET x == job[s].ask
        k == job[s].key
    IN  /\ job[s].step = "act" /\ x.op = "upload" /\ Free
        /\ IF HasParent(vault, k, Target(x))
           THEN /\ \E e \in Places(vault) : vault' = Put(vault, k, "file", Target(x), x.body, e)
                /\ Goto(s, "commit")
           ELSE End(s) /\ UNCHANGED vault
        /\ UNCHANGED <<marker, redis, spent, ghosts>>

UploadCommit(s) ==
    LET x == job[s].ask
    IN  /\ job[s].step = "commit" /\ FreeIds(vault) # {}
        /\ vault' = Charged(Created(vault, Owner, Target(x), x.body, "committed"),
                            Owner, Size(x.body))
        /\ End(s)
        /\ UNCHANGED <<marker, redis, spent, ghosts>>

(* Writing the object fails, or the transaction does.                       *)
UploadFails(s) ==
    /\ \/ job[s].step = "act" /\ job[s].ask.op = "upload" /\ Fault("store")
       \/ job[s].step = "commit" /\ Fault("abort")
    /\ End(s)
    /\ UNCHANGED <<vault, marker, redis, ghosts>>

Act(s, op, Result(_, _, _)) ==
    /\ job[s].step = "act" /\ job[s].ask.op = op /\ Free
    /\ \E e \in Places(vault) : AskEnd(s, Result(job[s].key, job[s].ask, e))

Mkdir(s) ==
    Act(s, "mkdir", LAMBDA k, x, e : VaultMkdir(vault, k, Target(x), e))
Rename(s) ==
    Act(s, "rename", LAMBDA k, x, e : VaultRenamed(vault, k, x.at, x.to, e))
Delete(s) ==
    Act(s, "delete", LAMBDA k, x, e : VaultDeleted(vault, k, Owner, x.at))

-----------------------------------------------------------------------------
(* KeysRegistryService: the folder Keys is looked for and made, then the      *)
(* file in it read or written.                                              *)

RegistryPath == <<KeysFolder, KeysFile>>

KeysFolderReady(s) ==
    /\ job[s].step = "folder" /\ Free
    /\ IF Resolved(vault, job[s].key, <<KeysFolder>>) # None THEN UNCHANGED vault
       ELSE \E e \in Places(vault) : vault' = Put(vault, job[s].key, "dir", <<KeysFolder>>, 0, e)
    /\ Goto(s, "file")
    /\ UNCHANGED <<marker, redis, spent, ghosts>>

RegistryWritten(k, b, e) == VaultOverwritten(vault, k, Owner, RegistryPath, b, e)

(* A missing registry is created empty, one that does not parse is refused.   *)
RegistryListed(k, e) ==
    LET b == Decrypted(vault, k, RegistryPath)
    IN  IF b = None THEN RegistryWritten(k, NoKeys, e)
        ELSE IF ~ValidKeys(b) \/ Ambiguous(vault, RegistryPath) THEN Raised(vault)
        ELSE Done(Healed(vault, RegistryPath))

KeysDone(s) ==
    LET x == job[s].ask
        k == job[s].key
    IN  /\ job[s].step = "file" /\ Free
        /\ \E e \in Places(vault) :
              AskEnd(s, IF x.op = "listKeys" THEN RegistryListed(k, e)
                        ELSE RegistryWritten(k, x.body, e))

-----------------------------------------------------------------------------
Unlock(s) ==
    \/ UnlockBegin(s) \/ UnlockLook(s) \/ UnlockWrite(s) \/ UnlockGrant(s)
    \/ UnlockRefuse(s) \/ UnlockExpire(s) \/ UnlockCrash(s)

Reset(s) == ResetBegin(s) \/ ResetWipe(s) \/ ResetCommit(s) \/ ResetAbort(s)

FileRequest(s) ==
    \/ AskBegin(s) \/ UploadMove(s) \/ UploadCommit(s) \/ UploadFails(s)
    \/ Mkdir(s) \/ Rename(s) \/ Delete(s) \/ KeysFolderReady(s) \/ KeysDone(s)

Next ==
    \/ \E s \in Sessions : Unlock(s) \/ Lock(s) \/ Reset(s) \/ FileRequest(s)
    \/ \E i \in Ips : CounterExpires(i)

(* Redis ends a time to live, and a request that runs goes on.               *)
Fairness ==
    /\ \A i \in Ips : WF_vars(CounterExpires(i))
    /\ \A s \in Sessions : WF_vars(UnlockLook(s) \/ UnlockRefuse(s) \/ UnlockExpire(s))

Spec == Init /\ [][Next]_vars /\ Fairness

-----------------------------------------------------------------------------
(* private_bytes is the sum of the live private records at every commit,      *)
(* whatever a reset found in flight and whatever a session with a stale key    *)
(* wrote, replaced or deleted.                                              *)
PrivateBytesAreTheLiveRows ==
    vault.used[Owner] = BytesOf(vault, LiveRows(vault))

(* One key opens everything: the marker, the names and contents of every        *)
(* entry, and every unlocked session agree. The only two ways out of it are a    *)
(* reset while another session is unlocked or at work, and two sessions that    *)
(* open an empty vault together with different passphrases; torn says one of     *)
(* them has happened.                                                       *)
OneKey ==
    ~torn =>
        /\ \A e \in Kept(vault) : vault.ent[e].key = marker
        /\ \A s \in Sessions : held[s] \in {None, marker}

(* "unlock <= 5 attempts / window" (docs/Design Spec.md) as the code keeps it:  *)
(* the counter is read before the passphrase is tried and raised after, so each *)
(* further session of the same address can have one more refused.             *)
AttemptsAreBounded ==
    \A i \in Ips :
        refused[i] <= MaxAttempts + Cardinality({s \in Sessions : Ip[s] = i}) - 1

(* An address that is locked out is let in again, as long as no process ended   *)
(* between counting a refusal and giving the counter its time to live.         *)
LockoutEnds ==
    \A i \in Ips : attempts[i] >= MaxAttempts ~> (attempts[i] < MaxAttempts \/ i \in cut)

Touches(x) ==
    CASE x.op \in {"upload", "mkdir"} -> {Target(x)}
      [] x.op = "rename"              -> {x.at, Target([x EXCEPT !.at = Front(@)])}
      [] x.op = "delete"              -> {x.at}
      [] x.op \in {"listKeys", "saveKeys"} -> {<<KeysFolder>>}
      [] OTHER -> {}

(* A step that changes the vault and leaves its marker: every path reads, under   *)
(* the key of the marker, what it did before unless the request that took the     *)
(* step names it or a directory above it. The entries another key left behind,    *)
(* and the records, do not reach it; nor does a place that is used again.        *)
PathsAreApart ==
    [][vault' # vault /\ marker' = marker /\ marker # None =>
        \A q \in Paths :
            (\A s \in Sessions : job[s] # job'[s] =>
                \A p \in Touches(job[s].ask) : ~IsPrefix(p, q))
            => Decrypted(vault', marker, q) = Decrypted(vault, marker, q)]_vars
=============================================================================
