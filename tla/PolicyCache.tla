----------------------------- MODULE PolicyCache -----------------------------
(***************************************************************************)
(* The policies of the authz context in DB mode: rows of table             *)
(* authz_policies (internal/authz/postgres/policy.go) read through a Redis *)
(* cache (internal/authz/redis/policy.go).                                 *)
(*                                                                         *)
(* Requests on any instance read a policy cache-aside: get, load, set.     *)
(* Administrators and booting instances write the table and then clear the *)
(* cache.  A statement, a transaction's commit or a Redis command is a     *)
(* step.  A Redis command fails when Redis is away, when the request's     *)
(* context is cancelled or when the instance dies: a fault.                *)
(***************************************************************************)
EXTENDS Naturals, FiniteSets

CONSTANTS
    Key,          \* pairs of resource and action
    Permission,   \* the tuples the unique index tells apart
    KeyOf,        \* the pair of each
    Default,      \* the compiled-in permissions, in policy_defaults.go
    Request,      \* requests that need a policy, on all instances
    Call,         \* calls of administrators and boots, on all instances
    MaxFaults,    \* bound on the commands that fail
    None

\* What the constants are.
PolicyCacheAssumption ==
    /\ KeyOf \in [Permission -> Key] /\ Default \subseteq Permission
    /\ None \notin Call \cup Key /\ MaxFaults \in Nat

VARIABLES
    row,       \* table authz_policies
    lock,      \* the holder of the advisory lock seedLockKey
    cached,    \* the pairs that have an entry authz:policy:<resource>:<action>
    entry,     \* and what it says
    reader,    \* the local state of each request
    writer,    \* the local state of each call; a call is made once
    faults,
    raced,     \* history: CreatePermission committed while the lock was held
    overtaken, \* history: requests whose policy changed after they loaded it
    spoiled    \* history: pairs whose entry was not cleared, or set by a
               \* request that was overtaken

vars == <<row, lock, cached, entry, reader, writer, faults, raced, overtaken, spoiled>>

database == <<row, lock, raced>>

cache == <<cached, entry>>

RowState == {"none", "active", "inactive"}

ReaderState == [pc : {"idle", "load", "set"}, key : Key \cup {None},
                policy : SUBSET Permission]

WriterState ==
    [pc : {"new", "known", "deleted", "unlink", "scan", "unlinkAll", "done", "failed"},
     keys : SUBSET Key, rows : SUBSET Permission]

PolicyFor(k) == {p \in Permission : KeyOf[p] = k /\ row[p] = "active"}

Stored == {p \in Permission : row[p] # "none"}

IdleReader == [pc |-> "idle", key |-> None, policy |-> {}]

Goto(w, pc, keys, rows) ==
    writer' = [writer EXCEPT ![w] = [pc |-> pc, keys |-> keys, rows |-> rows]]

TypeOK ==
    /\ row \in [Permission -> RowState]
    /\ lock \in Call \cup {None}
    /\ cached \in SUBSET Key
    /\ entry \in [Key -> SUBSET Permission]
    /\ reader \in [Request -> ReaderState]
    /\ writer \in [Call -> WriterState]
    /\ faults \in 0 .. MaxFaults
    /\ raced \in BOOLEAN
    /\ overtaken \in SUBSET Request
    /\ spoiled \in SUBSET Key
    /\ \A r \in Request : reader[r].pc # "idle" => reader[r].key \in Key
    /\ \A w \in Call : writer[w].pc \in {"known", "deleted"} <=> lock = w

\* The rows are what earlier versions and administrators have left; instances
\* of an earlier version may be serving.
Init ==
    /\ row \in [Permission -> RowState]
    /\ lock = None
    /\ cached = {}
    /\ entry = [k \in Key |-> {}]
    /\ reader = [r \in Request |-> IdleReader]
    /\ writer = [w \in Call |-> [pc |-> "new", keys |-> {}, rows |-> {}]]
    /\ faults = 0
    /\ raced = FALSE
    /\ overtaken = {}
    /\ spoiled = {}

-----------------------------------------------------------------------------
(* A request: PolicyCache.PolicyFor. *)

Carry(r, pc, k, policy) ==
    reader' = [reader EXCEPT ![r] = [pc |-> pc, key |-> k, policy |-> policy]]

(* A hit is the answer; a miss, or a failure, goes to the store. *)
Get(r, k) ==
    /\ reader[r].pc = "idle"
    /\ \/ k \in cached /\ UNCHANGED <<reader, faults>>
       \/ k \notin cached /\ Carry(r, "load", k, {}) /\ UNCHANGED faults
       \/ faults < MaxFaults /\ faults' = faults + 1 /\ Carry(r, "load", k, {})
    /\ UNCHANGED <<database, cache, writer, overtaken, spoiled>>

Load(r) ==
    /\ reader[r].pc = "load"
    /\ Carry(r, "set", reader[r].key, PolicyFor(reader[r].key))
    /\ overtaken' = overtaken \ {r}
    /\ UNCHANGED <<database, cache, writer, faults, spoiled>>

Set(r) ==
    /\ reader[r].pc = "set"
    /\ \/ /\ cached' = cached \cup {reader[r].key}
          /\ entry' = [entry EXCEPT ![reader[r].key] = reader[r].policy]
          /\ spoiled' = IF r \in overtaken THEN spoiled \cup {reader[r].key}
                        ELSE spoiled \ {reader[r].key}
          /\ UNCHANGED faults
       \/ faults < MaxFaults /\ faults' = faults + 1 /\ UNCHANGED <<cache, spoiled>>
    /\ Carry(r, "idle", None, {})
    /\ overtaken' = overtaken \ {r}
    /\ UNCHANGED <<database, writer>>

Drop(keys) ==
    /\ cached' = cached \ keys
    /\ entry' = [k \in Key |-> IF k \in keys THEN {} ELSE entry[k]]
    /\ spoiled' = spoiled \ keys

(* The TTL of an entry runs from its set; reading does not renew it. *)
Expire(k) ==
    /\ k \in cached
    /\ Drop({k})
    /\ UNCHANGED <<database, reader, writer, faults, overtaken>>

-----------------------------------------------------------------------------
(* The table. *)

\* A commit changes what the requests that carry an older policy hold.
Commit(r) ==
    /\ row' = r
    /\ overtaken' = overtaken \cup
          {q \in Request : reader[q].pc = "set"
              /\ \E p \in Permission :
                    /\ KeyOf[p] = reader[q].key
                    /\ ~(row[p] = "active" <=> r[p] = "active")}

\* Rows the lock holder has deleted: others wait for its commit.
Pending == UNION {writer[w].rows : w \in {v \in Call : writer[v].pc = "deleted"}}

(* Mutant: nothing is cleared for a pair that had no permission. *)
CreateQuietly(w, p) ==
    /\ writer[w].pc = "new" /\ p \notin Pending /\ row[p] = "none"
    /\ Commit([row EXCEPT ![p] = "active"])
    /\ raced' = (raced \/ lock # None)
    /\ IF PolicyFor(KeyOf[p]) = {} THEN Goto(w, "done", {}, {})
       ELSE Goto(w, "unlink", {KeyOf[p]}, {})
    /\ UNCHANGED <<lock, cache, reader, faults, spoiled>>

(* ErrPermissionExists for a tuple that has a row, active or not. *)
CreatePermission(w, p) ==
    /\ writer[w].pc = "new" /\ p \notin Pending
    /\ IF row[p] = "none"
       THEN /\ Commit([row EXCEPT ![p] = "active"])
            /\ raced' = (raced \/ lock # None)
            /\ Goto(w, "unlink", {KeyOf[p]}, {})
       ELSE /\ Goto(w, "failed", {}, {})
            /\ UNCHANGED <<row, raced, overtaken>>
    /\ UNCHANGED <<lock, cache, reader, faults, spoiled>>

(* A row whose id is gone, or inactive, is ErrPermissionNotFound. *)
DeactivatePermission(w, p) ==
    /\ writer[w].pc = "new" /\ p \notin Pending /\ row[p] = "active"
    /\ Commit([row EXCEPT ![p] = "inactive"])
    /\ Goto(w, "scan", {}, {})
    /\ UNCHANGED <<lock, cache, reader, faults, raced, spoiled>>

(* Mutant: each boot reads what is known before it takes the lock. *)
SeedKnownUnlocked(w) ==
    /\ writer[w].pc = "new"
    /\ Goto(w, "known", {KeyOf[p] : p \in Stored}, {})
    /\ lock' = w
    /\ UNCHANGED <<row, raced, cache, reader, faults, overtaken, spoiled>>

(* Mutant: only active rows make a pair known. *)
SeedKnownActive(w) ==
    /\ writer[w].pc = "new" /\ lock = None
    /\ lock' = w
    /\ Goto(w, "known", {KeyOf[p] : p \in {q \in Permission : row[q] = "active"}}, {})
    /\ UNCHANGED <<row, raced, cache, reader, faults, overtaken, spoiled>>

(* Under the lock: the pairs that have rows. *)
SeedKnown(w) ==
    /\ writer[w].pc = "new" /\ lock = None
    /\ lock' = w
    /\ Goto(w, "known", {KeyOf[p] : p \in Stored}, {})
    /\ UNCHANGED <<row, raced, cache, reader, faults, overtaken, spoiled>>

(* Mutant: a pair counts as known by its active rows. *)
SeedInsertAgain(w) ==
    /\ writer[w].pc = "known" /\ lock' = None
    /\ Commit([p \in Permission |->
          IF p \in Default /\ PolicyFor(KeyOf[p]) = {} THEN "active" ELSE row[p]])
    /\ Goto(w, "scan", {}, {})
    /\ UNCHANGED <<raced, cache, reader, faults, spoiled>>

(* The defaults of the other pairs are inserted, and all is committed; a     *)
(* duplicate rolls everything back and the boot fails.                       *)
SeedInsert(w) ==
    LET missing == {p \in Default : KeyOf[p] \notin writer[w].keys}
    IN  /\ writer[w].pc = "known" /\ lock' = None
        /\ IF \A p \in missing : row[p] = "none"
           THEN /\ Commit([p \in Permission |-> IF p \in missing THEN "active" ELSE row[p]])
                /\ Goto(w, "scan", {}, {})
           ELSE Goto(w, "failed", {}, {}) /\ UNCHANGED <<row, overtaken>>
        /\ UNCHANGED <<raced, cache, reader, faults, spoiled>>

(* DELETE FROM authz_policies, under the lock: the rows it sees. *)
ResetDelete(w) ==
    /\ writer[w].pc = "new" /\ lock = None
    /\ lock' = w
    /\ Goto(w, "deleted", {}, Stored)
    /\ UNCHANGED <<row, raced, cache, reader, faults, overtaken, spoiled>>

(* Mutant: rows that administrators deactivated stay as they are. *)
ResetKeepingInactive(w) ==
    /\ writer[w].pc = "deleted" /\ lock' = None
    /\ Commit([p \in Permission |->
          IF p \in Default /\ row[p] = "none" THEN "active"
          ELSE IF p \notin Default /\ row[p] = "active" THEN "none" ELSE row[p]])
    /\ Goto(w, "scan", {}, {})
    /\ UNCHANGED <<raced, cache, reader, faults, spoiled>>

ResetInsert(w) ==
    LET kept == Stored \ writer[w].rows
    IN  /\ writer[w].pc = "deleted" /\ lock' = None
        /\ IF kept \cap Default = {}
           THEN /\ Commit([p \in Permission |->
                      CASE p \in Default -> "active"
                        [] p \in kept -> row[p]
                        [] OTHER -> "none"])
                /\ Goto(w, "scan", {}, {})
           ELSE Goto(w, "failed", {}, {}) /\ UNCHANGED <<row, overtaken>>
        /\ UNCHANGED <<raced, cache, reader, faults, spoiled>>

-----------------------------------------------------------------------------
(* Clearing the cache after the commit. *)

Unlink(w) ==
    /\ writer[w].pc = "unlink"
    /\ Drop(writer[w].keys)
    /\ Goto(w, "done", {}, {})
    /\ UNCHANGED <<database, reader, faults, overtaken>>

(* SCAN answers every key that is there from its start to its end; whether   *)
(* it answers one that is set meanwhile is not said.  The keys answered      *)
(* before an error are cleared all the same.                                 *)
Scan(w) ==
    /\ writer[w].pc = "scan"
    /\ \E seen \in SUBSET cached :
          /\ Goto(w, "unlinkAll", seen, {})
          /\ spoiled' = spoiled \cup (cached \ seen)
          /\ \/ seen = cached /\ UNCHANGED faults
             \/ faults < MaxFaults /\ faults' = faults + 1
    /\ UNCHANGED <<database, cache, reader, overtaken>>

UnlinkAll(w) ==
    /\ writer[w].pc = "unlinkAll"
    /\ \E more \in SUBSET Key : Drop(writer[w].keys \cup more)
    /\ Goto(w, "done", {}, {})
    /\ UNCHANGED <<database, reader, faults, overtaken>>

(* The commands of the clearing fail, or the instance dies after the commit. *)
ClearingFails(w) ==
    /\ writer[w].pc \in {"unlink", "scan", "unlinkAll"}
    /\ faults < MaxFaults /\ faults' = faults + 1
    /\ spoiled' = spoiled \cup
          (IF writer[w].pc = "unlink" THEN writer[w].keys \cap cached ELSE cached)
    /\ Goto(w, "done", {}, {})
    /\ UNCHANGED <<database, cache, reader, overtaken>>

-----------------------------------------------------------------------------
Answer(r) == Load(r) \/ Set(r)

Finish(w) ==
    SeedInsert(w) \/ ResetInsert(w) \/ Unlink(w) \/ Scan(w) \/ UnlinkAll(w)

Next ==
    \/ \E r \in Request : Answer(r) \/ \E k \in Key : Get(r, k)
    \/ \E k \in Key : Expire(k)
    \/ \E w \in Call, p \in Permission : CreatePermission(w, p) \/ DeactivatePermission(w, p)
    \/ \E w \in Call : SeedKnown(w) \/ ResetDelete(w) \/ Finish(w) \/ ClearingFails(w)

Spec == Init /\ [][Next]_vars

-----------------------------------------------------------------------------
(* Properties. *)

Stale(k) == k \in cached /\ entry[k] # PolicyFor(k)

\* A call that has changed the table and will clear the entry of the pair.
Clearing(w, k) ==
    \/ writer[w].pc \in {"unlink", "unlinkAll"} /\ k \in writer[w].keys
    \/ writer[w].pc = "scan"

\* The cache answers as the store would (redis/policy.go:3-4) except while the
\* call that changed the policy has yet to clear it, after a clearing that
\* failed, and after a request that loaded before a change and set behind it.
FreshUnlessSpoiled ==
    \A k \in Key : Stale(k) => k \in spoiled \/ \E w \in Call : Clearing(w, k)

\* "Administration never hard-deletes", and boots respect it
\* (postgres/policy.go:77-78): only a reset gives a deactivated permission back.
DeactivatedStays ==
    [][\A p \in Permission : row[p] = "inactive" /\ row'[p] # "inactive" =>
          \E w \in Call : writer[w].pc = "deleted" /\ writer'[w].pc = "scan"]_vars

\* Instances that boot together do not fail each other (postgres/policy.go:
\* 97-98): a seed or a reset ends on a duplicate only when an administrator
\* created a permission while it held the lock.
BootsSucceedUnlessRaced ==
    [][\A w \in Call :
          writer[w].pc \in {"known", "deleted"} /\ writer'[w].pc = "failed" => raced]_vars

\* A reset that is not raced leaves the defaults, all active, and nothing else.
ResetIsWhole ==
    [][\A w \in Call :
          writer[w].pc = "deleted" /\ writer'[w].pc = "scan" /\ ~raced =>
              \A p \in Permission : row'[p] = IF p \in Default THEN "active" ELSE "none"]_vars

\* Boots and resets, of any number of instances at once, leave in the table what
\* they promise (postgres/policy.go: Seed, Reset).
TableIsWhatWasAsked == DeactivatedStays /\ BootsSucceedUnlessRaced /\ ResetIsWhole

-----------------------------------------------------------------------------
(* What the comments say and the code does not keep. *)

\* "Deleting this decorator makes the system slower, never incorrect"
\* (redis/policy.go:3-4).  A request that loads before a call commits and sets
\* after it has cleared leaves the old policy in force, with no failure at all.
SlowerNeverIncorrect ==
    faults = 0 /\ (\A w \in Call : writer[w].pc \in {"new", "done", "failed"}) =>
        \A k \in Key : ~Stale(k)
=============================================================================
