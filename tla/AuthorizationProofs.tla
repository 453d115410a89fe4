------------------------- MODULE AuthorizationProofs -------------------------
(***************************************************************************)
(* Theorems about PolicyCache and Subscription, as MCPolicyCache composes  *)
(* them, for any number of pairs, permissions, requests, administrators    *)
(* and instances: a stale entry has a cause that can be named,             *)
(* deactivations outlive boots, boots do not fail each other, a reset is   *)
(* whole, and no change of the subscription is lost.  Then about Requests  *)
(* and RoleGrants, which MCAccess composes: whatever fails while a request *)
(* is checked only denies, work of others is reached by teaching alone, a  *)
(* narrow role stays in its unit, and no chain of grants leads above where *)
(* the server started.                                                     *)
(***************************************************************************)
EXTENDS MCPolicyCache, MCAccess, FiniteSetTheorems, SequenceTheorems, TLAPS

-----------------------------------------------------------------------------
(* The policies' constants. *)

LEMMA KeysAndDefaults ==
    /\ KeyOf \in [Permission -> Key] /\ Default \subseteq Permission
    /\ None \notin Call \cup Key /\ MaxFaults \in Nat
BY CacheAssumption DEF Cache!PolicyCacheAssumption

-----------------------------------------------------------------------------
(* Types. *)

ReadersOK ==
    /\ reader \in [Request -> Cache!ReaderState]
    /\ \A r \in Request : reader[r].pc # "idle" => reader[r].key \in Key

WritersOK ==
    /\ writer \in [Call -> Cache!WriterState]
    /\ lock \in Call \cup {None}
    /\ \A w \in Call : writer[w].pc \in {"known", "deleted"} <=> lock = w

OthersOK ==
    /\ row \in [Permission -> Cache!RowState]
    /\ cached \in SUBSET Key
    /\ entry \in [Key -> SUBSET Permission]
    /\ faults \in 0 .. MaxFaults
    /\ raced \in BOOLEAN
    /\ overtaken \in SUBSET Request
    /\ spoiled \in SUBSET Key

LEMMA TypeParts == Cache!TypeOK <=> ReadersOK /\ WritersOK /\ OthersOK
BY DEF Cache!TypeOK, ReadersOK, WritersOK, OthersOK

LEMMA PolicyForTyped == ASSUME NEW k PROVE Cache!PolicyFor(k) \in SUBSET Permission
BY DEF Cache!PolicyFor

LEMMA CarryOK ==
    ASSUME ReadersOK, NEW r \in Request, NEW pc, NEW k, NEW policy,
           [pc |-> pc, key |-> k, policy |-> policy] \in Cache!ReaderState,
           pc # "idle" => k \in Key,
           Cache!Carry(r, pc, k, policy)
    PROVE  /\ ReadersOK'
           /\ reader'[r] = [pc |-> pc, key |-> k, policy |-> policy]
           /\ \A q \in Request \ {r} : reader'[q] = reader[q]
<1> DEFINE s == [pc |-> pc, key |-> k, policy |-> policy]
<1>1. s \in Cache!ReaderState /\ s.pc = pc /\ s.key = k
  OBVIOUS
<1> HIDE DEF s
<1>2. reader' = [reader EXCEPT ![r] = s]
  BY DEF Cache!Carry, s
<1>3. reader' \in [Request -> Cache!ReaderState]
  BY <1>1, <1>2 DEF ReadersOK
<1>4. \A q \in Request : reader'[q] = IF q = r THEN s ELSE reader[q]
  BY <1>2 DEF ReadersOK
<1>5. \A q \in Request : reader'[q].pc # "idle" => reader'[q].key \in Key
  BY <1>1, <1>4 DEF ReadersOK
<1> QED BY <1>3, <1>4, <1>5 DEF ReadersOK, s

(* A call that goes on takes, keeps or gives back the lock. *)
LEMMA GotoOK ==
    ASSUME WritersOK, NEW w \in Call,
           NEW pc, NEW keys, NEW rows,
           [pc |-> pc, keys |-> keys, rows |-> rows] \in Cache!WriterState,
           Cache!Goto(w, pc, keys, rows),
           \/ pc \in {"known", "deleted"} /\ lock = None /\ lock' = w
           \/ pc \notin {"known", "deleted"} /\ lock = w /\ lock' = None
           \/ pc \notin {"known", "deleted"} /\ lock # w /\ lock' = lock
    PROVE  /\ WritersOK'
           /\ writer'[w] = [pc |-> pc, keys |-> keys, rows |-> rows]
           /\ \A v \in Call \ {w} : writer'[v] = writer[v]
<1> DEFINE s == [pc |-> pc, keys |-> keys, rows |-> rows]
<1>1. s \in Cache!WriterState /\ s.pc = pc
  OBVIOUS
<1> HIDE DEF s
<1>2. writer' = [writer EXCEPT ![w] = s]
  BY DEF Cache!Goto, s
<1>3. writer' \in [Call -> Cache!WriterState] /\ lock' \in Call \cup {None}
  BY <1>1, <1>2 DEF WritersOK
<1>4. \A v \in Call : writer'[v] = IF v = w THEN s ELSE writer[v]
  BY <1>2 DEF WritersOK
<1>5. \A v \in Call : writer'[v].pc \in {"known", "deleted"} <=> lock' = v
  BY <1>1, <1>4, KeysAndDefaults DEF WritersOK
<1> QED BY <1>3, <1>4, <1>5 DEF WritersOK, s

(* The states without rows that a call goes to. *)
LEMMA PlainStates ==
    \A keys \in SUBSET Key :
        \A pc \in {"known", "unlink", "scan", "unlinkAll", "done", "failed"} :
            [pc |-> pc, keys |-> keys, rows |-> {}] \in Cache!WriterState
BY DEF Cache!WriterState

LEMMA EmptyKeys == {} \in SUBSET Key
OBVIOUS

LEMMA CommitOK ==
    ASSUME OthersOK, NEW r \in [Permission -> Cache!RowState], Cache!Commit(r),
           UNCHANGED <<cached, entry, faults, spoiled>>, raced' \in BOOLEAN
    PROVE  OthersOK'
BY DEF OthersOK, Cache!Commit

LEMMA DropOK ==
    ASSUME OthersOK, NEW keys, Cache!Drop(keys)
    PROVE  /\ cached' \in SUBSET Key /\ entry' \in [Key -> SUBSET Permission]
           /\ spoiled' \in SUBSET Key
BY DEF OthersOK, Cache!Drop

LEMMA Unlocked ==
    ASSUME WritersOK, NEW w \in Call
    PROVE  /\ writer[w].pc \notin {"known", "deleted"} => lock # w
           /\ writer[w].pc \in {"known", "deleted"} => lock = w
           /\ writer[w] \in Cache!WriterState
BY DEF WritersOK

LEMMA StepTyped == Cache!TypeOK /\ [Cache!Next]_(Cache!vars) => Cache!TypeOK'
<1> SUFFICES ASSUME Cache!TypeOK, [Cache!Next]_(Cache!vars) PROVE Cache!TypeOK'
  OBVIOUS
<1>0. ReadersOK /\ WritersOK /\ OthersOK
  BY TypeParts
<1> SUFFICES ReadersOK' /\ WritersOK' /\ OthersOK'
  BY DEF Cache!TypeOK, ReadersOK, WritersOK, OthersOK
<1>1. ASSUME NEW r \in Request, NEW k \in Key, Cache!Get(r, k)
      PROVE  ReadersOK' /\ WritersOK' /\ OthersOK'
  <2>1. ReadersOK'
    <3>1. CASE reader' = reader
      BY <1>0, <3>1 DEF ReadersOK
    <3>2. CASE Cache!Carry(r, "load", k, {})
      <4>1. [pc |-> "load", key |-> k, policy |-> {}] \in Cache!ReaderState
        BY DEF Cache!ReaderState
      <4> QED BY <1>0, <3>2, <4>1, CarryOK
    <3> QED BY <1>1, <3>1, <3>2 DEF Cache!Get
  <2>2. faults' \in 0 .. MaxFaults
    BY <1>0, <1>1, KeysAndDefaults DEF Cache!Get, OthersOK
  <2> QED BY <1>0, <1>1, <2>1, <2>2 DEF Cache!Get, Cache!database, Cache!cache, WritersOK, OthersOK
<1>2. ASSUME NEW r \in Request, Cache!Load(r)
      PROVE  ReadersOK' /\ WritersOK' /\ OthersOK'
  <2>1. reader[r].key \in Key
    BY <1>0, <1>2 DEF Cache!Load, ReadersOK
  <2>2. ReadersOK'
    <3>1. [pc |-> "set", key |-> reader[r].key, policy |-> Cache!PolicyFor(reader[r].key)]
            \in Cache!ReaderState
      BY <2>1, PolicyForTyped DEF Cache!ReaderState
    <3> QED BY <1>0, <1>2, <2>1, <3>1, CarryOK DEF Cache!Load
  <2> QED BY <1>0, <1>2, <2>2 DEF Cache!Load, Cache!database, Cache!cache, WritersOK, OthersOK
<1>3. ASSUME NEW r \in Request, Cache!Set(r)
      PROVE  ReadersOK' /\ WritersOK' /\ OthersOK'
  <2>1. reader[r].key \in Key /\ reader[r].policy \in SUBSET Permission
    BY <1>0, <1>3 DEF Cache!Set, ReadersOK, Cache!ReaderState
  <2>2. ReadersOK'
    <3>1. [pc |-> "idle", key |-> None, policy |-> {}] \in Cache!ReaderState
      BY DEF Cache!ReaderState
    <3> QED BY <1>0, <1>3, <3>1, CarryOK DEF Cache!Set
  <2>3. /\ cached' \in SUBSET Key /\ entry' \in [Key -> SUBSET Permission]
        /\ spoiled' \in SUBSET Key /\ faults' \in 0 .. MaxFaults
    BY <1>0, <1>3, <2>1, KeysAndDefaults DEF Cache!Set, OthersOK, Cache!cache
  <2> QED BY <1>0, <1>3, <2>2, <2>3 DEF Cache!Set, Cache!database, WritersOK, OthersOK
<1>4. ASSUME NEW k \in Key, Cache!Expire(k)
      PROVE  ReadersOK' /\ WritersOK' /\ OthersOK'
  BY <1>0, <1>4, DropOK DEF Cache!Expire, Cache!database, ReadersOK, WritersOK, OthersOK
<1>5. ASSUME NEW w \in Call, NEW p \in Permission, Cache!CreatePermission(w, p)
      PROVE  ReadersOK' /\ WritersOK' /\ OthersOK'
  <2>1. CASE row[p] = "none"
    <3>1. [row EXCEPT ![p] = "active"] \in [Permission -> Cache!RowState] /\ KeyOf[p] \in Key
      BY <1>0, KeysAndDefaults DEF OthersOK, Cache!RowState
    <3>2. OthersOK'
      BY <1>0, <1>5, <2>1, <3>1, CommitOK DEF Cache!CreatePermission, OthersOK, Cache!cache
    <3>3. WritersOK'
      BY <1>0, <1>5, <2>1, <3>1, GotoOK, Unlocked, PlainStates, EmptyKeys DEF Cache!CreatePermission
    <3> QED BY <1>0, <1>5, <3>2, <3>3 DEF Cache!CreatePermission, ReadersOK
  <2>2. CASE row[p] # "none"
    <3>1. WritersOK'
      BY <1>0, <1>5, <2>2, GotoOK, Unlocked, PlainStates, EmptyKeys DEF Cache!CreatePermission
    <3> QED BY <1>0, <1>5, <2>2, <3>1 DEF Cache!CreatePermission, Cache!cache, ReadersOK, OthersOK
  <2> QED BY <2>1, <2>2
<1>6. ASSUME NEW w \in Call, NEW p \in Permission, Cache!DeactivatePermission(w, p)
      PROVE  ReadersOK' /\ WritersOK' /\ OthersOK'
  <2>1. [row EXCEPT ![p] = "inactive"] \in [Permission -> Cache!RowState]
    BY <1>0 DEF OthersOK, Cache!RowState
  <2>2. OthersOK'
    BY <1>0, <1>6, <2>1, CommitOK DEF Cache!DeactivatePermission, OthersOK, Cache!cache
  <2>3. WritersOK'
    BY <1>0, <1>6, GotoOK, Unlocked, PlainStates, EmptyKeys DEF Cache!DeactivatePermission
  <2> QED BY <1>0, <1>6, <2>2, <2>3 DEF Cache!DeactivatePermission, ReadersOK
<1>7. ASSUME NEW w \in Call, Cache!SeedKnown(w) \/ Cache!ResetDelete(w)
      PROVE  ReadersOK' /\ WritersOK' /\ OthersOK'
  <2>1. {KeyOf[p] : p \in Cache!Stored} \in SUBSET Key /\ Cache!Stored \in SUBSET Permission
    BY KeysAndDefaults DEF Cache!Stored
  <2>2. CASE Cache!SeedKnown(w)
    <3>1. [pc |-> "known", keys |-> {KeyOf[p] : p \in Cache!Stored}, rows |-> {}] \in Cache!WriterState
      BY <2>1 DEF Cache!WriterState
    <3>2. WritersOK'
      BY <1>0, <2>2, <3>1, GotoOK DEF Cache!SeedKnown
    <3> QED BY <1>0, <2>2, <3>2 DEF Cache!SeedKnown, Cache!cache, ReadersOK, OthersOK
  <2>3. CASE Cache!ResetDelete(w)
    <3>1. [pc |-> "deleted", keys |-> {}, rows |-> Cache!Stored] \in Cache!WriterState
      BY <2>1 DEF Cache!WriterState
    <3>2. WritersOK'
      BY <1>0, <2>3, <3>1, GotoOK DEF Cache!ResetDelete
    <3> QED BY <1>0, <2>3, <3>2 DEF Cache!ResetDelete, Cache!cache, ReadersOK, OthersOK
  <2> QED BY <1>7, <2>2, <2>3
<1>8. ASSUME NEW w \in Call, Cache!SeedInsert(w)
      PROVE  ReadersOK' /\ WritersOK' /\ OthersOK'
  <2> DEFINE missing == {p \in Default : KeyOf[p] \notin writer[w].keys}
             r == [p \in Permission |-> IF p \in missing THEN "active" ELSE row[p]]
  <2>1. r \in [Permission -> Cache!RowState]
    BY <1>0 DEF OthersOK, Cache!RowState
  <2>2. WritersOK'
    BY <1>0, <1>8, GotoOK, Unlocked, PlainStates, EmptyKeys DEF Cache!SeedInsert
  <2>3. \/ Cache!Commit(r)
        \/ UNCHANGED <<row, overtaken>>
    BY <1>8 DEF Cache!SeedInsert
  <2>4. UNCHANGED <<raced, cached, entry, faults, spoiled, reader>>
    BY <1>8 DEF Cache!SeedInsert, Cache!cache
  <2> HIDE DEF r
  <2>5. OthersOK'
    BY <1>0, <2>1, <2>3, <2>4, CommitOK DEF OthersOK
  <2> QED BY <1>0, <2>2, <2>4, <2>5 DEF ReadersOK
<1>9. ASSUME NEW w \in Call, Cache!ResetInsert(w)
      PROVE  ReadersOK' /\ WritersOK' /\ OthersOK'
  <2> DEFINE kept == Cache!Stored \ writer[w].rows
             r == [p \in Permission |-> CASE p \in Default -> "active"
                                          [] p \in kept -> row[p]
                                          [] OTHER -> "none"]
  <2>1. r \in [Permission -> Cache!RowState]
    BY <1>0 DEF OthersOK, Cache!RowState
  <2>2. WritersOK'
    BY <1>0, <1>9, GotoOK, Unlocked, PlainStates, EmptyKeys DEF Cache!ResetInsert
  <2>3. \/ Cache!Commit(r)
        \/ UNCHANGED <<row, overtaken>>
    BY <1>9 DEF Cache!ResetInsert
  <2>4. UNCHANGED <<raced, cached, entry, faults, spoiled, reader>>
    BY <1>9 DEF Cache!ResetInsert, Cache!cache
  <2> HIDE DEF r
  <2>5. OthersOK'
    BY <1>0, <2>1, <2>3, <2>4, CommitOK DEF OthersOK
  <2> QED BY <1>0, <2>2, <2>4, <2>5 DEF ReadersOK
<1>10. ASSUME NEW w \in Call, Cache!Unlink(w) \/ Cache!Scan(w) \/ Cache!UnlinkAll(w)
       PROVE  ReadersOK' /\ WritersOK' /\ OthersOK'
  <2>1. CASE Cache!Scan(w)
    <3>1. PICK seen \in SUBSET cached : /\ Cache!Goto(w, "unlinkAll", seen, {})
                                       /\ spoiled' = spoiled \cup (cached \ seen)
      BY <2>1 DEF Cache!Scan
    <3>2. [pc |-> "unlinkAll", keys |-> seen, rows |-> {}] \in Cache!WriterState
      BY <1>0 DEF OthersOK, Cache!WriterState
    <3>3. WritersOK'
      <4>1. lock # w /\ lock' = lock
        BY <1>0, <2>1, Unlocked DEF Cache!Scan, Cache!database
      <4> QED BY <1>0, <3>1, <3>2, <4>1, GotoOK
    <3>4. spoiled' \in SUBSET Key
      BY <1>0, <3>1 DEF OthersOK
    <3>5. faults' \in 0 .. MaxFaults
      <4>1. faults' = faults \/ (faults < MaxFaults /\ faults' = faults + 1)
        BY <2>1 DEF Cache!Scan
      <4> QED BY <1>0, <4>1, KeysAndDefaults DEF OthersOK
    <3> QED BY <1>0, <2>1, <3>3, <3>4, <3>5 DEF Cache!Scan, Cache!database, Cache!cache, ReadersOK, OthersOK
  <2>2. CASE Cache!Unlink(w) \/ Cache!UnlinkAll(w)
    <3>1. WritersOK'
      BY <1>0, <2>2, GotoOK, Unlocked, PlainStates, EmptyKeys DEF Cache!Unlink, Cache!UnlinkAll, Cache!database
    <3>2. OthersOK'
      BY <1>0, <2>2, DropOK DEF Cache!Unlink, Cache!UnlinkAll, Cache!database, OthersOK
    <3> QED BY <1>0, <2>2, <3>1, <3>2 DEF Cache!Unlink, Cache!UnlinkAll, ReadersOK
  <2> QED BY <1>10, <2>1, <2>2
<1>11. ASSUME NEW w \in Call, Cache!ClearingFails(w)
       PROVE  ReadersOK' /\ WritersOK' /\ OthersOK'
  <2>1. WritersOK'
    BY <1>0, <1>11, GotoOK, Unlocked, PlainStates, EmptyKeys DEF Cache!ClearingFails, Cache!database
  <2>2. faults' \in 0 .. MaxFaults /\ spoiled' \in SUBSET Key
    BY <1>0, <1>11, KeysAndDefaults DEF Cache!ClearingFails, OthersOK
  <2> QED BY <1>0, <1>11, <2>1, <2>2 DEF Cache!ClearingFails, Cache!database, Cache!cache, ReadersOK, OthersOK
<1>12. CASE UNCHANGED Cache!vars
  BY <1>0, <1>12 DEF Cache!vars, ReadersOK, WritersOK, OthersOK
<1> QED
  BY <1>1, <1>2, <1>3, <1>4, <1>5, <1>6, <1>7, <1>8, <1>9, <1>10, <1>11, <1>12
     DEF Cache!Next, Cache!Answer, Cache!Finish

LEMMA InitTyped == Cache!Init => Cache!TypeOK
<1> SUFFICES ASSUME Cache!Init PROVE ReadersOK /\ WritersOK /\ OthersOK
  BY TypeParts
<1>1. ReadersOK
  <2>1. Cache!IdleReader \in Cache!ReaderState /\ Cache!IdleReader.pc = "idle"
    BY DEF Cache!IdleReader, Cache!ReaderState
  <2> QED BY <2>1 DEF Cache!Init, ReadersOK
<1>2. WritersOK
  <2> DEFINE s == [pc |-> "new", keys |-> {}, rows |-> {}]
  <2>1. s \in Cache!WriterState /\ s.pc = "new"
    BY DEF Cache!WriterState
  <2>2. writer = [w \in Call |-> s] /\ lock = None
    BY DEF Cache!Init
  <2> HIDE DEF s
  <2>3. writer \in [Call -> Cache!WriterState] /\ lock \in Call \cup {None}
    BY <2>1, <2>2
  <2>4. ASSUME NEW w \in Call
        PROVE  writer[w].pc \notin {"known", "deleted"} /\ lock # w
    BY <2>1, <2>2, KeysAndDefaults
  <2>5. \A w \in Call : (writer[w].pc \in {"known", "deleted"}) <=> (lock = w)
    BY <2>4
  <2> QED BY ONLY <2>3, <2>5 DEF WritersOK
<1>3. OthersOK
  <2>1. faults \in 0 .. MaxFaults
    BY KeysAndDefaults DEF Cache!Init
  <2>2. /\ cached \in SUBSET Key /\ entry \in [Key -> SUBSET Permission]
        /\ overtaken \in SUBSET Request /\ spoiled \in SUBSET Key
    BY DEF Cache!Init
  <2>3. row \in [Permission -> Cache!RowState] /\ raced \in BOOLEAN
    BY DEF Cache!Init
  <2> QED BY ONLY <2>1, <2>2, <2>3 DEF OthersOK
<1> QED BY <1>1, <1>2, <1>3

\* Variables keep their types, a request in flight has its pair, and whoever
\* is inside a seed or a reset, and nobody else, has the advisory lock.
THEOREM TypeCorrect == Cache!Spec => []Cache!TypeOK
BY InitTyped, StepTyped, PTL DEF Cache!Spec

-----------------------------------------------------------------------------
(* What a commit changes for the requests that carry a policy. *)

\* A request that was not overtaken carries the policy of the table.
CarriesFresh ==
    \A r \in Request : reader[r].pc = "set" /\ r \notin overtaken =>
        reader[r].policy = Cache!PolicyFor(reader[r].key)

LEMMA CommitOvertakes ==
    ASSUME NEW r, Cache!Commit(r), NEW q \in Request, reader[q].pc = "set",
           q \notin overtaken', NEW k, reader[q].key = k
    PROVE  Cache!PolicyFor(k)' = Cache!PolicyFor(k)
<1> DEFINE changed(j) == \E p \in Permission :
                          KeyOf[p] = j /\ ~(row[p] = "active" <=> r[p] = "active")
<1>1. ~changed(k)
  <2> HIDE DEF changed
  <2>1. overtaken' = overtaken \cup
           {o \in Request : reader[o].pc = "set" /\ changed(reader[o].key)}
    BY DEF Cache!Commit, changed
  <2> QED BY <2>1
<1>2. \A p \in Permission : KeyOf[p] = k => (row[p] = "active" <=> r[p] = "active")
  BY <1>1
<1>3. \A p \in Permission :
         (KeyOf[p] = k /\ row'[p] = "active") <=> (KeyOf[p] = k /\ row[p] = "active")
  BY <1>2 DEF Cache!Commit
<1> QED BY <1>3 DEF Cache!PolicyFor

LEMMA SameRow == ASSUME row' = row, NEW k PROVE Cache!PolicyFor(k)' = Cache!PolicyFor(k)
BY DEF Cache!PolicyFor

Commits == \E r : Cache!Commit(r) /\ reader' = reader

LEMMA StepCarriesFresh == Cache!TypeOK /\ CarriesFresh /\ [Cache!Next]_(Cache!vars) => CarriesFresh'
<1> SUFFICES ASSUME Cache!TypeOK, CarriesFresh, [Cache!Next]_(Cache!vars),
                    NEW q \in Request, reader'[q].pc = "set", q \notin overtaken',
                    NEW k, reader'[q].key = k
             PROVE  reader'[q].policy = Cache!PolicyFor(k)'
  BY DEF CarriesFresh, Cache!PolicyFor
<1>0. ReadersOK
  BY TypeParts
<1>1. ASSUME Commits
      PROVE  reader'[q].policy = Cache!PolicyFor(k)'
  <2>1. PICK r : Cache!Commit(r) /\ reader' = reader
    BY <1>1 DEF Commits
  <2>2. q \notin overtaken
    BY <2>1 DEF Cache!Commit
  <2>3. Cache!PolicyFor(k)' = Cache!PolicyFor(k)
    BY <2>1, CommitOvertakes
  <2> QED BY <2>1, <2>2, <2>3 DEF CarriesFresh
<1>2. ASSUME UNCHANGED <<row, reader, overtaken>>
      PROVE  reader'[q].policy = Cache!PolicyFor(k)'
  BY <1>2, SameRow DEF CarriesFresh
<1>3. ASSUME NEW r \in Request, NEW j \in Key, Cache!Get(r, j)
      PROVE  reader'[q].policy = Cache!PolicyFor(k)'
  <2>1. reader'[q] = reader[q] \/ reader'[q].pc = "load"
    BY <1>0, <1>3 DEF Cache!Get, Cache!Carry, ReadersOK
  <2> QED BY <1>3, <2>1, SameRow DEF Cache!Get, Cache!database, CarriesFresh
<1>4. ASSUME NEW r \in Request, Cache!Load(r)
      PROVE  reader'[q].policy = Cache!PolicyFor(k)'
  <2>1. CASE q = r
    <3>1. /\ reader'[q].policy = Cache!PolicyFor(reader[q].key)
          /\ reader'[q].key = reader[q].key
      BY <1>0, <1>4, <2>1 DEF Cache!Load, Cache!Carry, ReadersOK
    <3> QED BY <1>4, <3>1, SameRow DEF Cache!Load, Cache!database
  <2>2. CASE q # r
    <3>1. reader'[q] = reader[q] /\ q \notin overtaken
      BY <1>0, <1>4, <2>2 DEF Cache!Load, Cache!Carry, ReadersOK
    <3> QED BY <1>4, <3>1, SameRow DEF Cache!Load, Cache!database, CarriesFresh
  <2> QED BY <2>1, <2>2
<1>5. ASSUME NEW r \in Request, Cache!Set(r)
      PROVE  reader'[q].policy = Cache!PolicyFor(k)'
  <2>1. q # r
    BY <1>0, <1>5 DEF Cache!Set, Cache!Carry, ReadersOK
  <2>2. reader'[q] = reader[q] /\ q \notin overtaken
    BY <1>0, <1>5, <2>1 DEF Cache!Set, Cache!Carry, ReadersOK
  <2> QED BY <1>5, <2>2, SameRow DEF Cache!Set, Cache!database, CarriesFresh
<1>6. ASSUME NEW w \in Call,
             \/ \E p \in Permission : Cache!CreatePermission(w, p) \/ Cache!DeactivatePermission(w, p)
             \/ Cache!SeedKnown(w) \/ Cache!ResetDelete(w) \/ Cache!Finish(w) \/ Cache!ClearingFails(w)
      PROVE  Commits \/ UNCHANGED <<row, reader, overtaken>>
  BY <1>6 DEF Commits, Cache!CreatePermission, Cache!DeactivatePermission, Cache!SeedKnown, Cache!ResetDelete, Cache!Finish,
              Cache!SeedInsert, Cache!ResetInsert, Cache!Unlink, Cache!Scan, Cache!UnlinkAll, Cache!ClearingFails, Cache!database
<1>7. ASSUME NEW j \in Key, Cache!Expire(j)
      PROVE  UNCHANGED <<row, reader, overtaken>>
  BY <1>7 DEF Cache!Expire, Cache!database
<1>8. CASE UNCHANGED Cache!vars
  BY <1>2, <1>8 DEF Cache!vars
<1> QED BY <1>1, <1>2, <1>3, <1>4, <1>5, <1>6, <1>7, <1>8 DEF Cache!Next, Cache!Answer

-----------------------------------------------------------------------------
(* The cache. *)

LEMMA KeepsClearing ==
    ASSUME NEW w \in Call, NEW v \in Call, v # w, writer \in [Call -> Cache!WriterState],
           NEW pc, NEW keys, NEW rows, Cache!Goto(w, pc, keys, rows),
           NEW k, Cache!Clearing(v, k)
    PROVE  Cache!Clearing(v, k)'
<1>1. writer'[v] = writer[v]
  BY DEF Cache!Goto
<1> QED BY <1>1 DEF Cache!Clearing

LEMMA StepFresh ==
    Cache!TypeOK /\ CarriesFresh /\ FreshUnlessSpoiled /\ [Cache!Next]_(Cache!vars) => FreshUnlessSpoiled'
<1> SUFFICES ASSUME Cache!TypeOK, CarriesFresh, FreshUnlessSpoiled, [Cache!Next]_(Cache!vars),
                    NEW k \in Key, k \in cached', entry'[k] # Cache!PolicyFor(k)',
                    k \notin spoiled'
             PROVE  \E w \in Call : Cache!Clearing(w, k)'
  BY DEF FreshUnlessSpoiled, Cache!FreshUnlessSpoiled, Cache!Stale
<1>0. ReadersOK /\ WritersOK /\ OthersOK
  BY TypeParts
<1>1. ASSUME UNCHANGED <<row, cached, entry, spoiled, writer>>
      PROVE  \E w \in Call : Cache!Clearing(w, k)'
  BY <1>1, SameRow DEF FreshUnlessSpoiled, Cache!FreshUnlessSpoiled, Cache!Stale, Cache!Clearing
<1>2. ASSUME NEW r \in Request, Cache!Set(r)
      PROVE  \E w \in Call : Cache!Clearing(w, k)'
  <2>1. UNCHANGED <<row, writer>>
    BY <1>2 DEF Cache!Set, Cache!database
  <2>2. CASE UNCHANGED <<cached, entry, spoiled>>
    BY <1>1, <2>1, <2>2
  <2>3. CASE /\ cached' = cached \cup {reader[r].key}
             /\ entry' = [entry EXCEPT ![reader[r].key] = reader[r].policy]
             /\ spoiled' = IF r \in overtaken THEN spoiled \cup {reader[r].key}
                           ELSE spoiled \ {reader[r].key}
    <3>1. CASE k = reader[r].key
      <4>1. r \notin overtaken
        BY <2>3, <3>1
      <4>2. entry'[k] = Cache!PolicyFor(k)
        BY <1>0, <1>2, <2>3, <3>1, <4>1 DEF CarriesFresh, Cache!Set, OthersOK
      <4> QED BY <2>1, <4>2, SameRow
    <3>2. CASE k # reader[r].key
      <4>1. k \in cached /\ entry'[k] = entry[k] /\ k \notin spoiled
        BY <1>0, <2>3, <3>2 DEF OthersOK
      <4> QED BY <2>1, <4>1, SameRow DEF FreshUnlessSpoiled, Cache!FreshUnlessSpoiled, Cache!Stale, Cache!Clearing
    <3> QED BY <3>1, <3>2
  <2> QED BY <1>2, <2>2, <2>3 DEF Cache!Set, Cache!cache
<1>3. ASSUME NEW j \in Key, Cache!Expire(j)
      PROVE  \E w \in Call : Cache!Clearing(w, k)'
  <2>1. k \in cached /\ entry'[k] = entry[k] /\ k \notin spoiled
    BY <1>3 DEF Cache!Expire, Cache!Drop
  <2> QED BY <1>3, <2>1, SameRow DEF Cache!Expire, Cache!database, FreshUnlessSpoiled, Cache!FreshUnlessSpoiled, Cache!Stale, Cache!Clearing
<1>4. ASSUME NEW w \in Call, NEW p \in Permission, Cache!CreatePermission(w, p)
      PROVE  \E v \in Call : Cache!Clearing(v, k)'
  <2>1. UNCHANGED <<cached, entry, spoiled>>
    BY <1>4 DEF Cache!CreatePermission, Cache!cache
  <2>2. CASE row[p] = "none"
    <3>1. Cache!Goto(w, "unlink", {KeyOf[p]}, {}) /\ row' = [row EXCEPT ![p] = "active"]
      BY <1>4, <2>2 DEF Cache!CreatePermission, Cache!Commit
    <3>2. CASE k = KeyOf[p]
      <4>1. writer'[w].pc = "unlink" /\ writer'[w].keys = {k}
        BY <1>0, <3>1, <3>2 DEF Cache!Goto, WritersOK
      <4> QED BY <4>1 DEF Cache!Clearing
    <3>3. CASE k # KeyOf[p]
      <4>1. \A o \in Permission : KeyOf[o] = k => row'[o] = row[o]
        BY <1>0, <3>1, <3>3 DEF OthersOK
      <4>2. Cache!PolicyFor(k)' = Cache!PolicyFor(k)
        BY <4>1 DEF Cache!PolicyFor
      <4>3. PICK v \in Call : Cache!Clearing(v, k)
        BY <2>1, <4>2 DEF FreshUnlessSpoiled, Cache!FreshUnlessSpoiled, Cache!Stale
      <4>4. v # w
        BY <1>4, <4>3 DEF Cache!CreatePermission, Cache!Clearing
      <4>5. Cache!Clearing(v, k)'
        BY <1>0, <3>1, <4>3, <4>4, KeepsClearing DEF WritersOK
      <4> QED BY <4>5
    <3> QED BY <3>2, <3>3
  <2>3. CASE row[p] # "none"
    <3>1. Cache!Goto(w, "failed", {}, {}) /\ row' = row
      BY <1>4, <2>3 DEF Cache!CreatePermission
    <3>2. PICK v \in Call : Cache!Clearing(v, k)
      BY <2>1, <3>1, SameRow DEF FreshUnlessSpoiled, Cache!FreshUnlessSpoiled, Cache!Stale
    <3>3. v # w
      BY <1>4, <3>2 DEF Cache!CreatePermission, Cache!Clearing
    <3>4. Cache!Clearing(v, k)'
      BY <1>0, <3>1, <3>2, <3>3, KeepsClearing DEF WritersOK
    <3> QED BY <3>4
  <2> QED BY <2>2, <2>3
<1>5. ASSUME NEW w \in Call,
             \/ \E p \in Permission : Cache!DeactivatePermission(w, p)
             \/ Cache!SeedInsert(w) /\ writer'[w].pc = "scan"
             \/ Cache!ResetInsert(w) /\ writer'[w].pc = "scan"
      PROVE  \E v \in Call : Cache!Clearing(v, k)'
  <2>1. ASSUME NEW p \in Permission, Cache!DeactivatePermission(w, p)
        PROVE  writer'[w].pc = "scan"
    <3>1. Cache!Goto(w, "scan", {}, {})
      BY <2>1 DEF Cache!DeactivatePermission
    <3> QED BY <1>0, <3>1 DEF Cache!Goto, WritersOK
  <2>2. writer'[w].pc = "scan"
    BY <1>5, <2>1
  <2> QED BY <2>2 DEF Cache!Clearing
<1>6. ASSUME NEW w \in Call,
             \/ Cache!SeedInsert(w) /\ writer'[w].pc # "scan"
             \/ Cache!ResetInsert(w) /\ writer'[w].pc # "scan"
             \/ Cache!SeedKnown(w) \/ Cache!ResetDelete(w)
      PROVE  \E v \in Call : Cache!Clearing(v, k)'
  <2>1. UNCHANGED <<row, cached, entry, spoiled>>
    BY <1>0, <1>6 DEF Cache!SeedInsert, Cache!ResetInsert, Cache!SeedKnown, Cache!ResetDelete, Cache!Goto, WritersOK, Cache!cache
  <2>2. PICK v \in Call : Cache!Clearing(v, k)
    BY <2>1, SameRow DEF FreshUnlessSpoiled, Cache!FreshUnlessSpoiled, Cache!Stale
  <2>3. v # w
    BY <1>6, <2>2 DEF Cache!SeedInsert, Cache!ResetInsert, Cache!SeedKnown, Cache!ResetDelete, Cache!Clearing
  <2>4. writer'[v] = writer[v]
    BY <1>0, <1>6, <2>3 DEF Cache!SeedInsert, Cache!ResetInsert, Cache!SeedKnown, Cache!ResetDelete, Cache!Goto, WritersOK
  <2> QED BY <2>2, <2>4 DEF Cache!Clearing
<1>7. ASSUME NEW w \in Call, Cache!Scan(w)
      PROVE  \E v \in Call : Cache!Clearing(v, k)'
  <2>1. PICK seen \in SUBSET cached : /\ Cache!Goto(w, "unlinkAll", seen, {})
                                     /\ spoiled' = spoiled \cup (cached \ seen)
    BY <1>7 DEF Cache!Scan
  <2>2. writer'[w].pc = "unlinkAll" /\ writer'[w].keys = seen
    BY <1>0, <2>1 DEF Cache!Goto, WritersOK
  <2>3. k \in seen
    BY <1>7, <2>1 DEF Cache!Scan, Cache!cache
  <2> QED BY <2>2, <2>3 DEF Cache!Clearing
<1>8. ASSUME NEW w \in Call, Cache!Unlink(w) \/ Cache!UnlinkAll(w)
      PROVE  \E v \in Call : Cache!Clearing(v, k)'
  <2>1. /\ k \in cached /\ entry'[k] = entry[k] /\ k \notin spoiled
        /\ k \notin writer[w].keys
        /\ writer[w].pc \in {"unlink", "unlinkAll"}
        /\ row' = row /\ Cache!Goto(w, "done", {}, {})
    BY <1>8 DEF Cache!Unlink, Cache!UnlinkAll, Cache!Drop, Cache!database
  <2>2. PICK v \in Call : Cache!Clearing(v, k)
    BY <2>1, SameRow DEF FreshUnlessSpoiled, Cache!FreshUnlessSpoiled, Cache!Stale
  <2>3. v # w
    BY <2>1, <2>2 DEF Cache!Clearing
  <2>4. Cache!Clearing(v, k)'
    BY <1>0, <2>1, <2>2, <2>3, KeepsClearing DEF WritersOK
  <2> QED BY <2>4
<1>9. ASSUME NEW w \in Call, Cache!ClearingFails(w)
      PROVE  \E v \in Call : Cache!Clearing(v, k)'
  <2>1. /\ UNCHANGED <<row, cached, entry>> /\ k \notin spoiled
        /\ Cache!Goto(w, "done", {}, {})
        /\ k \in cached /\ ~Cache!Clearing(w, k)
    BY <1>9 DEF Cache!ClearingFails, Cache!database, Cache!cache, Cache!Clearing
  <2>2. PICK v \in Call : Cache!Clearing(v, k)
    BY <2>1, SameRow DEF FreshUnlessSpoiled, Cache!FreshUnlessSpoiled, Cache!Stale
  <2>3. v # w
    BY <2>1, <2>2
  <2>4. Cache!Clearing(v, k)'
    BY <1>0, <2>1, <2>2, <2>3, KeepsClearing DEF WritersOK
  <2> QED BY <2>4
<1>10. ASSUME NEW r \in Request, Cache!Load(r) \/ \E j \in Key : Cache!Get(r, j)
       PROVE  UNCHANGED <<row, cached, entry, spoiled, writer>>
  BY <1>10 DEF Cache!Load, Cache!Get, Cache!database, Cache!cache
<1>11. CASE UNCHANGED Cache!vars
  BY <1>1, <1>11 DEF Cache!vars
<1> QED
  BY <1>1, <1>2, <1>3, <1>4, <1>5, <1>6, <1>7, <1>8, <1>9, <1>10, <1>11
     DEF Cache!Next, Cache!Answer, Cache!Finish

\* The cache answers as the store would, except while the call that changed
\* the policy has yet to clear it, after a clearing that failed, and after a
\* request that loaded before a change and set behind it.
THEOREM CacheIsFresh == Cache!Spec => []FreshUnlessSpoiled
<1>1. Cache!Init => CarriesFresh /\ FreshUnlessSpoiled
  BY DEF Cache!Init, CarriesFresh, Cache!IdleReader, FreshUnlessSpoiled, Cache!FreshUnlessSpoiled, Cache!Stale
<1>2. /\ Cache!TypeOK /\ CarriesFresh /\ FreshUnlessSpoiled /\ [Cache!Next]_(Cache!vars)
      => (CarriesFresh /\ FreshUnlessSpoiled)'
  BY StepCarriesFresh, StepFresh
<1> QED BY <1>1, <1>2, TypeCorrect, PTL DEF Cache!Spec

-----------------------------------------------------------------------------
(* Seeds and resets. *)

\* Only the call itself leaves the states that hold the lock.
LEMMA HolderSteps ==
    ASSUME Cache!TypeOK, [Cache!Next]_(Cache!vars), NEW w \in Call,
           writer[w].pc \in {"known", "deleted"}, writer'[w] # writer[w]
    PROVE  \/ writer[w].pc = "known" /\ Cache!SeedInsert(w)
           \/ writer[w].pc = "deleted" /\ Cache!ResetInsert(w)
<1>0. WritersOK
  BY TypeParts
<1>1. ASSUME NEW v \in Call, NEW pc, NEW keys, NEW rows, Cache!Goto(v, pc, keys, rows)
      PROVE  v = w
  BY <1>0, <1>1 DEF Cache!Goto, WritersOK
<1>2. \A v \in Call, p \in Permission :
         ~(Cache!CreatePermission(v, p) \/ Cache!DeactivatePermission(v, p))
  <2> SUFFICES ASSUME NEW v \in Call, NEW p \in Permission,
                      Cache!CreatePermission(v, p) \/ Cache!DeactivatePermission(v, p)
               PROVE  v = w
    BY DEF Cache!CreatePermission, Cache!DeactivatePermission
  <2> QED BY <1>1 DEF Cache!CreatePermission, Cache!DeactivatePermission
<1>3. \A v \in Call :
         (Cache!SeedKnown(v) \/ Cache!ResetDelete(v) \/ Cache!Finish(v) \/ Cache!ClearingFails(v)) => v = w
  BY <1>1 DEF Cache!SeedKnown, Cache!ResetDelete, Cache!Finish, Cache!SeedInsert, Cache!ResetInsert, Cache!Unlink, Cache!Scan,
              Cache!UnlinkAll, Cache!ClearingFails
<1>4. PICK v \in Call : Cache!SeedKnown(v) \/ Cache!ResetDelete(v) \/ Cache!Finish(v) \/ Cache!ClearingFails(v)
  BY <1>2 DEF Cache!Next, Cache!Answer, Cache!Get, Cache!Load, Cache!Set, Cache!Expire, Cache!vars
<1> QED
  BY <1>3, <1>4 DEF Cache!SeedKnown, Cache!ResetDelete, Cache!Finish, Cache!SeedInsert, Cache!ResetInsert, Cache!Unlink, Cache!Scan,
                    Cache!UnlinkAll, Cache!ClearingFails

\* A deactivated permission comes back with a reset and with nothing else.
THEOREM OnlyResetReactivates == Cache!Spec => Cache!DeactivatedStays
<1>1. ASSUME Cache!TypeOK, [Cache!Next]_(Cache!vars), NEW p \in Permission,
             row[p] = "inactive", row'[p] # "inactive"
      PROVE  \E w \in Call : writer[w].pc = "deleted" /\ writer'[w].pc = "scan"
  <2>0. WritersOK /\ OthersOK
    BY <1>1, TypeParts
  <2>1. ASSUME NEW w \in Call, Cache!ResetInsert(w)
        PROVE  writer[w].pc = "deleted" /\ writer'[w].pc = "scan"
    <3>1. Cache!Goto(w, "scan", {}, {})
      BY <1>1, <2>1 DEF Cache!ResetInsert
    <3> QED BY <2>0, <2>1, <3>1 DEF Cache!ResetInsert, Cache!Goto, WritersOK
  <2>2. ASSUME NEW w \in Call, NEW o \in Permission,
               Cache!CreatePermission(w, o) \/ Cache!DeactivatePermission(w, o)
        PROVE  FALSE
    BY <1>1, <2>0, <2>2 DEF Cache!CreatePermission, Cache!DeactivatePermission, Cache!Commit, OthersOK
  <2>3. ASSUME NEW w \in Call, Cache!SeedInsert(w)
        PROVE  FALSE
    <3> DEFINE missing == {o \in Default : KeyOf[o] \notin writer[w].keys}
               r == [o \in Permission |-> IF o \in missing THEN "active" ELSE row[o]]
    <3>1. (\A o \in missing : row[o] = "none") /\ Cache!Commit(r)
      BY <1>1, <2>3 DEF Cache!SeedInsert
    <3>2. p \notin missing
      BY <1>1, <3>1
    <3>3. row'[p] = r[p]
      BY <3>1 DEF Cache!Commit
    <3>4. r[p] = row[p]
      BY <3>2
    <3> QED BY <1>1, <3>3, <3>4
  <2> QED
    BY <1>1, <2>1, <2>2, <2>3
       DEF Cache!Next, Cache!Answer, Cache!Finish, Cache!Get, Cache!Load, Cache!Set, Cache!Expire, Cache!SeedKnown, Cache!ResetDelete, Cache!Unlink, Cache!Scan,
           Cache!UnlinkAll, Cache!ClearingFails, Cache!database, Cache!vars
<1>2. Cache!TypeOK /\ [Cache!Next]_(Cache!vars) =>
        \A p \in Permission : row[p] = "inactive" /\ row'[p] # "inactive" =>
           \E w \in Call : writer[w].pc = "deleted" /\ writer'[w].pc = "scan"
  BY <1>1
<1> QED BY <1>2, TypeCorrect, PTL DEF Cache!Spec, Cache!DeactivatedStays

\* What the holder of the lock has read is all there is, unless an
\* administrator created a permission meanwhile.
HolderKnows ==
    \A w \in Call : ~raced =>
        /\ writer[w].pc = "known" => \A p \in Cache!Stored : KeyOf[p] \in writer[w].keys
        /\ writer[w].pc = "deleted" => Cache!Stored \subseteq writer[w].rows

LEMMA StepHolderKnows == Cache!TypeOK /\ HolderKnows /\ [Cache!Next]_(Cache!vars) => HolderKnows'
<1> SUFFICES ASSUME Cache!TypeOK, HolderKnows, [Cache!Next]_(Cache!vars), NEW w \in Call, ~raced'
             PROVE  /\ writer'[w].pc = "known" =>
                         \A p \in Cache!Stored' : KeyOf[p] \in writer'[w].keys
                    /\ writer'[w].pc = "deleted" => Cache!Stored' \subseteq writer'[w].rows
  BY DEF HolderKnows
<1>0. WritersOK /\ OthersOK
  BY TypeParts
<1>1. ~raced
  BY <1>0 DEF Cache!Next, Cache!Answer, Cache!Finish, Cache!Get, Cache!Load, Cache!Set, Cache!Expire, Cache!CreatePermission,
              Cache!DeactivatePermission, Cache!SeedKnown, Cache!SeedInsert, Cache!ResetDelete, Cache!ResetInsert, Cache!Unlink,
              Cache!Scan, Cache!UnlinkAll, Cache!ClearingFails, Cache!database, Cache!vars, OthersOK
<1>2. ASSUME writer'[w] = writer[w], Cache!Stored' \subseteq Cache!Stored
      PROVE  /\ writer'[w].pc = "known" =>
                  \A p \in Cache!Stored' : KeyOf[p] \in writer'[w].keys
             /\ writer'[w].pc = "deleted" => Cache!Stored' \subseteq writer'[w].rows
  BY <1>1, <1>2 DEF HolderKnows
<1>3. ASSUME row' = row
      PROVE  Cache!Stored' = Cache!Stored
  BY <1>3 DEF Cache!Stored
<1>4. ASSUME NEW v \in Call, NEW pc, NEW keys, NEW rows, Cache!Goto(v, pc, keys, rows), v # w
      PROVE  writer'[w] = writer[w]
  BY <1>0, <1>4 DEF Cache!Goto, WritersOK
<1>5. ASSUME NEW v \in Call, NEW pc, NEW keys, NEW rows, Cache!Goto(v, pc, keys, rows),
             pc \notin {"known", "deleted"}, v = w
      PROVE  writer'[w].pc \notin {"known", "deleted"}
  BY <1>0, <1>5 DEF Cache!Goto, WritersOK
<1>6. ASSUME NEW v \in Call, NEW p \in Permission,
             Cache!CreatePermission(v, p) \/ Cache!DeactivatePermission(v, p)
      PROVE  \/ writer'[w].pc \notin {"known", "deleted"}
             \/ writer'[w] = writer[w] /\ Cache!Stored' \subseteq Cache!Stored
  <2>1. CASE v = w
    BY <1>5, <1>6, <2>1 DEF Cache!CreatePermission, Cache!DeactivatePermission
  <2>2. CASE v # w
    <3>1. writer'[w] = writer[w]
      BY <1>4, <1>6, <2>2 DEF Cache!CreatePermission, Cache!DeactivatePermission
    <3>2. CASE Cache!Stored' \subseteq Cache!Stored
      BY <3>1, <3>2
    <3>3. CASE ~(Cache!Stored' \subseteq Cache!Stored)
      <4>1. Cache!CreatePermission(v, p) /\ row' # row
        <5>1. ~Cache!DeactivatePermission(v, p)
          BY <1>0, <3>3 DEF Cache!DeactivatePermission, Cache!Commit, Cache!Stored, OthersOK
        <5> QED BY <1>3, <1>6, <3>3, <5>1
      <4>2. lock = None
        BY <4>1 DEF Cache!CreatePermission
      <4>3. writer[w].pc \notin {"known", "deleted"}
        BY <1>0, <4>2, KeysAndDefaults DEF WritersOK
      <4> QED BY <3>1, <4>3
    <3> QED BY <3>2, <3>3
  <2> QED BY <2>1, <2>2
<1>7. ASSUME NEW v \in Call, Cache!SeedKnown(v)
      PROVE  \/ writer'[w] = writer[w] /\ Cache!Stored' \subseteq Cache!Stored
             \/ writer'[w].pc = "known" /\ writer'[w].keys = {KeyOf[p] : p \in Cache!Stored'}
  <2>1. Cache!Stored' = Cache!Stored /\ Cache!Goto(v, "known", {KeyOf[p] : p \in Cache!Stored}, {})
    BY <1>3, <1>7 DEF Cache!SeedKnown
  <2> DEFINE keys == {KeyOf[p] : p \in Cache!Stored}
  <2>2. keys' = keys
    BY <2>1
  <2> HIDE DEF keys
  <2>3. CASE v = w
    <3>1. writer'[w].pc = "known" /\ writer'[w].keys = keys
      BY <1>0, <2>1, <2>3 DEF Cache!Goto, WritersOK, keys
    <3> QED BY <2>1, <3>1 DEF keys
  <2> QED BY <1>4, <2>1, <2>3
<1>8. ASSUME NEW v \in Call, Cache!ResetDelete(v)
      PROVE  \/ writer'[w] = writer[w] /\ Cache!Stored' \subseteq Cache!Stored
             \/ writer'[w].pc = "deleted" /\ writer'[w].rows = Cache!Stored'
  <2>1. Cache!Stored' = Cache!Stored /\ Cache!Goto(v, "deleted", {}, Cache!Stored)
    BY <1>3, <1>8 DEF Cache!ResetDelete
  <2>2. CASE v = w
    BY <1>0, <2>1, <2>2 DEF Cache!Goto, WritersOK
  <2> QED BY <1>4, <2>1, <2>2
<1>9. ASSUME NEW v \in Call, Cache!SeedInsert(v) \/ Cache!ResetInsert(v)
      PROVE  writer'[w].pc \notin {"known", "deleted"}
  <2>1. CASE v = w
    BY <1>5, <1>9, <2>1 DEF Cache!SeedInsert, Cache!ResetInsert
  <2>2. CASE v # w
    <3>1. writer'[w] = writer[w]
      BY <1>4, <1>9, <2>2 DEF Cache!SeedInsert, Cache!ResetInsert
    <3>2. lock = v
      BY <1>0, <1>9 DEF Cache!SeedInsert, Cache!ResetInsert, WritersOK
    <3> QED BY <1>0, <2>2, <3>1, <3>2 DEF WritersOK
  <2> QED BY <2>1, <2>2
<1>10. ASSUME NEW v \in Call, Cache!Unlink(v) \/ Cache!Scan(v) \/ Cache!UnlinkAll(v) \/ Cache!ClearingFails(v)
       PROVE  \/ writer'[w].pc \notin {"known", "deleted"}
              \/ writer'[w] = writer[w] /\ Cache!Stored' \subseteq Cache!Stored
  <2>1. row' = row
    BY <1>10 DEF Cache!Unlink, Cache!Scan, Cache!UnlinkAll, Cache!ClearingFails, Cache!database
  <2>2. PICK pc \in {"done", "unlinkAll"}, keys \in SUBSET cached : Cache!Goto(v, pc, keys, {})
    BY <1>10 DEF Cache!Unlink, Cache!Scan, Cache!UnlinkAll, Cache!ClearingFails
  <2> QED BY <1>3, <1>4, <1>5, <2>1, <2>2
<1>11. CASE UNCHANGED <<row, writer>>
  BY <1>2, <1>3, <1>11
<1>12. ASSUME NEW r \in Request, Cache!Answer(r) \/ \E k \in Key : Cache!Get(r, k)
       PROVE  UNCHANGED <<row, writer>>
  BY <1>12 DEF Cache!Answer, Cache!Load, Cache!Set, Cache!Get, Cache!database
<1>13. ASSUME NEW k \in Key, Cache!Expire(k)
       PROVE  UNCHANGED <<row, writer>>
  BY <1>13 DEF Cache!Expire, Cache!database
<1>14. CASE UNCHANGED Cache!vars
  BY <1>11, <1>14 DEF Cache!vars
<1>15. ASSUME writer'[w].pc = "known" /\ writer'[w].keys = {KeyOf[p] : p \in Cache!Stored'}
       PROVE  \A p \in Cache!Stored' : KeyOf[p] \in writer'[w].keys
  BY <1>15
<1> QED
  BY <1>2, <1>6, <1>7, <1>8, <1>9, <1>10, <1>11, <1>12, <1>13, <1>14, <1>15 DEF Cache!Next, Cache!Finish

LEMMA HolderKnowsAlways == Cache!Spec => []HolderKnows
<1>1. Cache!Init => HolderKnows
  BY DEF Cache!Init, HolderKnows
<1> QED BY <1>1, StepHolderKnows, TypeCorrect, PTL DEF Cache!Spec

\* Instances that boot together do not fail each other: a seed or a reset ends
\* on a duplicate only when a permission was created while it held the lock.
THEOREM BootsDoNotFailEachOther == Cache!Spec => Cache!BootsSucceedUnlessRaced
<1>1. ASSUME Cache!TypeOK, HolderKnows, [Cache!Next]_(Cache!vars), NEW w \in Call,
             writer[w].pc \in {"known", "deleted"}, writer'[w].pc = "failed"
      PROVE  raced
  <2>0. WritersOK
    BY <1>1, TypeParts
  <2>1. ASSUME Cache!Goto(w, "scan", {}, {})
        PROVE  FALSE
    BY <1>1, <2>0, <2>1 DEF Cache!Goto, WritersOK
  <2>2. CASE writer[w].pc = "known" /\ Cache!SeedInsert(w)
    <3>1. PICK p \in Default : KeyOf[p] \notin writer[w].keys /\ row[p] # "none"
      BY <2>1, <2>2 DEF Cache!SeedInsert
    <3>2. p \in Cache!Stored
      BY <3>1, KeysAndDefaults DEF Cache!Stored
    <3> QED BY <1>1, <2>2, <3>1, <3>2 DEF HolderKnows
  <2>3. CASE writer[w].pc = "deleted" /\ Cache!ResetInsert(w)
    <3>1. (Cache!Stored \ writer[w].rows) \cap Default # {}
      BY <2>1, <2>3 DEF Cache!ResetInsert
    <3> QED BY <1>1, <2>3, <3>1 DEF HolderKnows
  <2> QED BY <1>1, <2>2, <2>3, HolderSteps
<1>2. Cache!TypeOK /\ HolderKnows /\ [Cache!Next]_(Cache!vars) =>
        \A w \in Call :
           writer[w].pc \in {"known", "deleted"} /\ writer'[w].pc = "failed" => raced
  BY <1>1
<1> QED BY <1>2, TypeCorrect, HolderKnowsAlways, PTL DEF Cache!Spec, Cache!BootsSucceedUnlessRaced

\* A reset that is not raced leaves the defaults, all active, and nothing else.
THEOREM ResetsAreWhole == Cache!Spec => Cache!ResetIsWhole
<1>1. ASSUME Cache!TypeOK, HolderKnows, [Cache!Next]_(Cache!vars), NEW w \in Call,
             writer[w].pc = "deleted", writer'[w].pc = "scan", ~raced,
             NEW p \in Permission
      PROVE  row'[p] = IF p \in Default THEN "active" ELSE "none"
  <2>0. WritersOK
    BY <1>1, TypeParts
  <2>1. Cache!ResetInsert(w)
    BY <1>1, HolderSteps
  <2>2. Cache!Stored \ writer[w].rows = {}
    BY <1>1 DEF HolderKnows
  <2>3. row' = [o \in Permission |-> CASE o \in Default -> "active"
                                       [] o \in {} -> row[o]
                                       [] OTHER -> "none"]
    BY <2>1, <2>2 DEF Cache!ResetInsert, Cache!Commit
  <2> QED BY <2>3
<1>2. Cache!TypeOK /\ HolderKnows /\ [Cache!Next]_(Cache!vars) =>
        \A w \in Call :
           writer[w].pc = "deleted" /\ writer'[w].pc = "scan" /\ ~raced =>
              \A p \in Permission : row'[p] = IF p \in Default THEN "active" ELSE "none"
  BY <1>1
<1> QED BY <1>2, TypeCorrect, HolderKnowsAlways, PTL DEF Cache!Spec, Cache!ResetIsWhole

\* Boots and resets of any number of instances leave in the table what they
\* promise (postgres/policy.go: Seed, Reset).
THEOREM BootsAndResetsKeepTheTable == Cache!Spec => TableIsWhatWasAsked
BY OnlyResetReactivates, BootsDoNotFailEachOther, ResetsAreWhole
   DEF TableIsWhatWasAsked, Cache!TableIsWhatWasAsked

-----------------------------------------------------------------------------
(* The subscription.  What a call has read is the row, as long as the row   *)
(* has the version it read; then nothing has been entered since it began,   *)
(* and its time is later than every entry's.  Each round a call has lost    *)
(* was won by another.                                                      *)

ReadIsCurrent(c) ==
    /\ admins[c].pc \in {"begin", "write"} =>
          /\ admins[c].seen.version \in Nat
          /\ admins[c].seen.version <= subscription.version
          /\ admins[c].seen.version = subscription.version => admins[c].seen = subscription
    /\ admins[c].pc = "write" =>
          /\ admins[c].at \in 0 .. clock
          /\ admins[c].seen.version = subscription.version
             => \A e \in history : admins[c].at > e.at

LossesAreWins(c) ==
    /\ admins[c].pc \in {"read", "begin", "write"} =>
          /\ admins[c].round \in 1 .. MaxUpdateRetries /\ admins[c].since \in Nat
          /\ subscription.version >= admins[c].since + (admins[c].round - 1)
    /\ admins[c].pc \in {"begin", "write"} =>
          admins[c].seen.version >= admins[c].since + (admins[c].round - 1)
    /\ admins[c].pc = "conflict" =>
          /\ admins[c].since \in Nat
          /\ subscription.version >= admins[c].since + MaxUpdateRetries

ChainInv ==
    /\ admins = [c \in Administrator |-> admins[c]]
    /\ subscription.version \in Nat /\ clock \in Nat
    /\ IsFiniteSet(history) /\ \A e \in history : e.at \in 0 .. clock
    /\ \A c \in Administrator : ReadIsCurrent(c) /\ LossesAreWins(c)
    /\ Subs!HistoryIsTheChain

LEMMA SameCardinality == ASSUME NEW S PROVE Subs!Cardinality(S) = Cardinality(S)
BY Zenon DEF Subs!Cardinality, Cardinality

LEMMA Rounds == MaxUpdateRetries \in Nat \ {0}
BY SubscriptionAssumption DEF Subs!SubscriptionAssumption

LEMMA ChainInit == Subs!Init => ChainInv
<1> SUFFICES ASSUME Subs!Init PROVE ChainInv
  OBVIOUS
<1> DEFINE first == [at |-> 0, row |-> Subs!Setup, change |-> "initial setup"]
<1>1. /\ history = {first} /\ first.at = 0 /\ first.row = Subs!Setup
      /\ subscription.row = Subs!Setup /\ subscription.version = 0 /\ clock = 0
  BY DEF Subs!Init
<1> HIDE DEF first
<1>2. IsFiniteSet(history) /\ Subs!Cardinality(history) = 1
  BY <1>1, FS_Singleton, SameCardinality
<1>3. Subs!Consecutive = {}
  BY <1>1 DEF Subs!Consecutive, Subs!Later
<1>4. Subs!HistoryIsTheChain
  BY <1>1, <1>2, <1>3 DEF Subs!HistoryIsTheChain
<1>5. \A c \in Administrator : ReadIsCurrent(c) /\ LossesAreWins(c)
  BY DEF Subs!Init, ReadIsCurrent, LossesAreWins
<1>6. admins = [c \in Administrator |-> admins[c]]
  BY DEF Subs!Init
<1> QED BY <1>1, <1>2, <1>4, <1>5, <1>6 DEF ChainInv

(* A step of one call that neither writes the row nor turns the clock back. *)
LEMMA ChainStep ==
    ASSUME ChainInv, NEW c \in Administrator, UNCHANGED <<subscription, history>>,
           clock' \in Nat, clock' >= clock,
           admins' = [q \in Administrator |-> admins'[q]],
           \A q \in Administrator \ {c} : admins'[q] = admins[q],
           (ReadIsCurrent(c) /\ LossesAreWins(c))'
    PROVE  ChainInv'
<1>1. \A q \in Administrator \ {c} : (ReadIsCurrent(q) /\ LossesAreWins(q))'
  BY DEF ChainInv, ReadIsCurrent, LossesAreWins
<1>2. Subs!HistoryIsTheChain'
  BY DEF ChainInv, Subs!HistoryIsTheChain, Subs!Consecutive, Subs!Later, Subs!Apply,
         Subs!ApplyOverridesTo, Subs!NoOverrides, Subs!Cardinality
<1> QED BY <1>1, <1>2 DEF ChainInv

(* What a call reads of its own state after a step. *)
LEMMA CallStep ==
    ASSUME ChainInv, NEW c \in Administrator, NEW s, admins' = [admins EXCEPT ![c] = s]
    PROVE  /\ admins' = [q \in Administrator |-> admins'[q]] /\ admins'[c] = s
           /\ \A q \in Administrator \ {c} : admins'[q] = admins[q]
<1>1. admins' = [q \in Administrator |-> IF q = c THEN s ELSE admins[q]]
  BY DEF ChainInv
<1> QED BY <1>1

LEMMA StartChain ==
    ASSUME ChainInv, NEW c \in Administrator, Subs!Start(c)
    PROVE  ChainInv'
<1>1. PICK change \in Change :
          admins' = [admins EXCEPT ![c] = [pc |-> "read", change |-> change, round |-> 1,
                                           since |-> subscription.version]]
  BY DEF Subs!Start
<1> DEFINE s == [pc |-> "read", change |-> change, round |-> 1, since |-> subscription.version]
<1>2. s.pc = "read" /\ s.round = 1 /\ s.since = subscription.version
  OBVIOUS
<1>3. admins' = [admins EXCEPT ![c] = s]
  BY <1>1
<1> HIDE DEF s
<1>4. /\ admins' = [q \in Administrator |-> admins'[q]] /\ admins'[c] = s
      /\ \A q \in Administrator \ {c} : admins'[q] = admins[q]
  BY <1>3, CallStep
<1>5. UNCHANGED <<subscription, history, clock>>
  BY DEF Subs!Start
<1>6. (ReadIsCurrent(c) /\ LossesAreWins(c))'
  BY <1>2, <1>4, <1>5, Rounds DEF ReadIsCurrent, LossesAreWins, ChainInv
<1> QED BY <1>4, <1>5, <1>6, ChainStep DEF ChainInv

LEMMA GetChain ==
    ASSUME ChainInv, NEW c \in Administrator, Subs!Get(c)
    PROVE  ChainInv'
<1> DEFINE a == admins[c]
           s == [pc |-> "begin", change |-> a.change, round |-> a.round,
                 since |-> a.since, seen |-> subscription]
<1>1. admins' = [admins EXCEPT ![c] = s]
  BY DEF Subs!Get
<1>2. /\ s.pc = "begin" /\ s.round = a.round /\ s.since = a.since /\ s.seen = subscription
  OBVIOUS
<1> HIDE DEF s
<1>3. /\ admins' = [q \in Administrator |-> admins'[q]] /\ admins'[c] = s
      /\ \A q \in Administrator \ {c} : admins'[q] = admins[q]
  BY <1>1, CallStep
<1>4. UNCHANGED <<subscription, history, clock>> /\ a.pc = "read"
  BY DEF Subs!Get
<1>5. (ReadIsCurrent(c) /\ LossesAreWins(c))'
  BY <1>2, <1>3, <1>4 DEF ReadIsCurrent, LossesAreWins, ChainInv
<1> QED BY <1>3, <1>4, <1>5, ChainStep DEF ChainInv

(* A transaction that begins has a time later than all before it. *)
LEMMA BeginChain ==
    ASSUME ChainInv, NEW c \in Administrator, Subs!BeginTx(c)
    PROVE  ChainInv'
<1> DEFINE a == admins[c]
           at == clock + 1
           s == [pc |-> "write", change |-> a.change, round |-> a.round,
                 since |-> a.since, seen |-> a.seen, at |-> at]
<1>1. admins' = [admins EXCEPT ![c] = s] /\ clock' = at
  BY DEF Subs!BeginTx
<1>2. /\ s.pc = "write" /\ s.round = a.round /\ s.since = a.since /\ s.seen = a.seen
      /\ s.at = at
  OBVIOUS
<1> HIDE DEF s
<1>3. /\ admins' = [q \in Administrator |-> admins'[q]] /\ admins'[c] = s
      /\ \A q \in Administrator \ {c} : admins'[q] = admins[q]
  BY <1>1, CallStep
<1>4. UNCHANGED <<subscription, history>> /\ a.pc = "begin"
  BY DEF Subs!BeginTx
<1>5. at \in Nat /\ at > clock /\ \A e \in history : at > e.at
  BY DEF ChainInv
<1> HIDE DEF at
<1>6. (ReadIsCurrent(c) /\ LossesAreWins(c))'
  BY <1>1, <1>2, <1>3, <1>4, <1>5 DEF ReadIsCurrent, LossesAreWins, ChainInv
<1> QED BY <1>1, <1>3, <1>4, <1>5, <1>6, ChainStep DEF ChainInv

(* Whoever lost a race read an older version than the row has. *)
LEMMA LoseChain ==
    ASSUME ChainInv, NEW c \in Administrator, Subs!LoseTheRace(c)
    PROVE  ChainInv'
<1> DEFINE a == admins[c]
           again == [pc |-> "read", change |-> a.change, round |-> a.round + 1,
                     since |-> a.since]
           over == [pc |-> "conflict", since |-> a.since]
           s == IF a.round < MaxUpdateRetries THEN again ELSE over
<1>1. admins' = [admins EXCEPT ![c] = s]
  BY DEF Subs!LoseTheRace
<1>2. /\ again.pc = "read" /\ again.round = a.round + 1 /\ again.since = a.since
      /\ over.pc = "conflict" /\ over.since = a.since
  OBVIOUS
<1> HIDE DEF again, over
<1>3. \/ s = again /\ a.round < MaxUpdateRetries
      \/ s = over /\ ~(a.round < MaxUpdateRetries)
  BY Zenon
<1> HIDE DEF s
<1>4. /\ admins' = [q \in Administrator |-> admins'[q]] /\ admins'[c] = s
      /\ \A q \in Administrator \ {c} : admins'[q] = admins[q]
  BY <1>1, CallStep
<1>5. /\ UNCHANGED <<subscription, history, clock>> /\ a.pc = "write"
      /\ subscription.version # a.seen.version
  BY DEF Subs!LoseTheRace, Subs!VersionHolds
<1>6. /\ a.round \in 1 .. MaxUpdateRetries /\ a.since \in Nat
      /\ subscription.version >= a.since + a.round
  <2>1. /\ a.seen.version \in Nat /\ a.seen.version <= subscription.version
        /\ a.round \in 1 .. MaxUpdateRetries /\ a.since \in Nat
        /\ a.seen.version >= a.since + (a.round - 1) /\ subscription.version \in Nat
    BY <1>5 DEF ChainInv, ReadIsCurrent, LossesAreWins
  <2> QED BY <1>5, <2>1
<1>7. (ReadIsCurrent(c) /\ LossesAreWins(c))'
  BY <1>2, <1>3, <1>4, <1>5, <1>6, Rounds DEF ReadIsCurrent, LossesAreWins
<1> QED BY <1>4, <1>5, <1>7, ChainStep DEF ChainInv

LEMMA FailChain ==
    ASSUME ChainInv, NEW c \in Administrator, Subs!Fail(c)
    PROVE  ChainInv'
<1> DEFINE s == [pc |-> "failed"]
<1>1. admins' = [admins EXCEPT ![c] = s] /\ UNCHANGED <<subscription, history, clock>>
  BY DEF Subs!Fail
<1>2. s.pc = "failed"
  OBVIOUS
<1> HIDE DEF s
<1>3. /\ admins' = [q \in Administrator |-> admins'[q]] /\ admins'[c] = s
      /\ \A q \in Administrator \ {c} : admins'[q] = admins[q]
  BY <1>1, CallStep
<1>4. (ReadIsCurrent(c) /\ LossesAreWins(c))'
  BY <1>2, <1>3 DEF ReadIsCurrent, LossesAreWins
<1> QED BY <1>1, <1>3, <1>4, ChainStep DEF ChainInv

(* The write that holds the current version enters the newest entry, made of *)
(* the row that the one before it entered.                                  *)
LEMMA WriteChain ==
    ASSUME ChainInv, NEW c \in Administrator, Subs!UpdateWithHistory(c)
    PROVE  ChainInv'
<1> DEFINE a == admins[c]
           updated == Subs!Apply(a.change, a.seen.row)
           new == [at |-> a.at, row |-> updated, change |-> a.change]
           next == [row |-> updated, version |-> subscription.version + 1]
           s == [pc |-> "done"]
<1>1. /\ subscription' = next /\ history' = history \cup {new} /\ clock' = clock
      /\ admins' = [admins EXCEPT ![c] = s]
      /\ a.pc = "write" /\ subscription.version = a.seen.version
  BY DEF Subs!UpdateWithHistory, Subs!VersionHolds
<1>2. /\ new.at = a.at /\ new.row = updated /\ new.change = a.change
      /\ next.row = updated /\ next.version = subscription.version + 1 /\ s.pc = "done"
  OBVIOUS
<1> HIDE DEF updated, new, next, s
<1>3. /\ admins' = [q \in Administrator |-> admins'[q]] /\ admins'[c] = s
      /\ \A q \in Administrator \ {c} : admins'[q] = admins[q]
  BY <1>1, CallStep
<1>4. /\ a.seen = subscription /\ a.at \in 0 .. clock /\ \A e \in history : new.at > e.at
      /\ subscription.version \in Nat /\ clock \in Nat
      /\ IsFiniteSet(history) /\ \A e \in history : e.at \in 0 .. clock
  BY <1>1, <1>2 DEF ChainInv, ReadIsCurrent
<1>5. new \notin history
  BY <1>2, <1>4
<1>6. /\ subscription'.version = subscription.version + 1 /\ subscription'.row = new.row
      /\ updated = Subs!Apply(new.change, subscription.row)
  BY <1>1, <1>2, <1>4 DEF updated
<1>7. \A q \in Administrator : (ReadIsCurrent(q) /\ LossesAreWins(q))'
  <2> SUFFICES ASSUME NEW q \in Administrator PROVE (ReadIsCurrent(q) /\ LossesAreWins(q))'
    OBVIOUS
  <2>1. CASE q = c
    BY <1>2, <1>3, <2>1 DEF ReadIsCurrent, LossesAreWins
  <2>2. CASE q # c
    <3>1. admins'[q] = admins[q] /\ ReadIsCurrent(q) /\ LossesAreWins(q)
      BY <1>3, <2>2 DEF ChainInv
    <3>2. ReadIsCurrent(q)'
      <4>1. ASSUME admins[q].pc \in {"begin", "write"}
            PROVE  /\ admins[q].seen.version \in Nat
                   /\ admins[q].seen.version <= subscription.version
                   /\ admins[q].seen.version # subscription.version + 1
        BY <1>4, <3>1, <4>1 DEF ReadIsCurrent
      <4>2. admins[q].pc = "write" => admins[q].at \in 0 .. clock
        BY <3>1 DEF ReadIsCurrent
      <4> QED BY <1>1, <1>4, <1>6, <3>1, <4>1, <4>2 DEF ReadIsCurrent
    <3>3. LossesAreWins(q)'
      <4>1. /\ admins'[q] = admins[q] /\ subscription'.version > subscription.version
            /\ subscription'.version \in Nat
        BY <1>4, <1>6, <3>1
      <4>2. admins[q].pc = "conflict" =>
                /\ admins[q].since \in Nat
                /\ subscription.version >= admins[q].since + MaxUpdateRetries
        BY <3>1 DEF LossesAreWins
      <4>3. admins[q].pc = "conflict" =>
                /\ admins[q].since \in Nat
                /\ subscription'.version >= admins[q].since + MaxUpdateRetries
        BY <1>4, <4>1, <4>2, Rounds
      <4>4. admins[q].pc \in {"read", "begin", "write"} =>
                /\ admins[q].round \in 1 .. MaxUpdateRetries /\ admins[q].since \in Nat
                /\ subscription'.version >= admins[q].since + (admins[q].round - 1)
        BY <1>4, <3>1, <4>1, Rounds DEF LossesAreWins
      <4> QED BY <3>1, <4>1, <4>3, <4>4 DEF LossesAreWins
    <3> QED BY <3>2, <3>3
  <2> QED BY <2>1, <2>2
<1>8. IsFiniteSet(history') /\ \A e \in history' : e.at \in 0 .. clock'
  BY <1>1, <1>2, <1>4, FS_AddElement
<1>9. Subs!HistoryIsTheChain'
  <2>1. PICK last \in history : /\ last.row = subscription.row
                                /\ \A f \in history \ {last} : last.at > f.at
    BY DEF ChainInv, Subs!HistoryIsTheChain, Subs!Later
  <2>2. ASSUME NEW e \in history', NEW f \in history', f.at > e.at,
               ~\E g \in history' : g.at > e.at /\ f.at > g.at
        PROVE  f.row = Subs!Apply(f.change, e.row)
    <3>1. CASE f = new
      <4>1. e \in history
        BY <1>1, <2>2, <3>1
      <4>2. e = last
        BY <1>1, <1>4, <2>1, <2>2, <3>1, <4>1
      <4> QED BY <1>2, <1>6, <2>1, <3>1, <4>2
    <3>2. CASE f # new
      <4>1. f \in history /\ e \in history
        BY <1>1, <1>2, <1>4, <2>2, <3>2
      <4>2. <<e, f>> \in Subs!Consecutive
        BY <1>1, <2>2, <4>1 DEF Subs!Consecutive, Subs!Later
      <4> QED BY <4>2 DEF ChainInv, Subs!HistoryIsTheChain
    <3> QED BY <3>1, <3>2
  <2>3. \A pair \in Subs!Consecutive' : pair[2].row = Subs!Apply(pair[2].change, pair[1].row)
    BY <2>2 DEF Subs!Consecutive, Subs!Later
  <2>4. new \in history' /\ \A f \in history' \ {new} : new.at > f.at
    BY <1>1, <1>4
  <2>5. Cardinality(history') = subscription'.version + 1
    <3>1. Cardinality(history) = subscription.version + 1
      BY SameCardinality DEF ChainInv, Subs!HistoryIsTheChain
    <3>2. Cardinality(history') = Cardinality(history) + 1
      BY <1>1, <1>4, <1>5, FS_AddElement
    <3> QED BY <1>6, <3>1, <3>2
  <2>6. \A pair \in Subs!Consecutive' :
            pair[2].row = Subs!Apply(pair[2].change, pair[1].row)'
    BY <2>3 DEF Subs!Apply, Subs!ApplyOverridesTo, Subs!NoOverrides
  <2>7. Subs!Cardinality(history)' = subscription'.version + 1
    BY <2>5, SameCardinality
  <2> QED BY <1>6, <2>4, <2>6, <2>7 DEF Subs!HistoryIsTheChain, Subs!Later
<1> QED BY <1>1, <1>3, <1>4, <1>6, <1>7, <1>8, <1>9 DEF ChainInv

LEMMA ChainNext == ChainInv /\ [Subs!Next]_(Subs!vars) => ChainInv'
<1> SUFFICES ASSUME ChainInv, [Subs!Next]_(Subs!vars) PROVE ChainInv'
  OBVIOUS
<1>1. ASSUME UNCHANGED <<subscription, history, clock, admins>>
      PROVE  ChainInv'
  BY <1>1 DEF ChainInv, ReadIsCurrent, LossesAreWins, Subs!HistoryIsTheChain,
     Subs!Consecutive, Subs!Later, Subs!Apply, Subs!ApplyOverridesTo, Subs!NoOverrides,
     Subs!Cardinality
<1>2. CASE UNCHANGED Subs!vars
  BY <1>1, <1>2 DEF Subs!vars
<1>3. ASSUME NEW t \in Tier, Subs!UpdateTierLimits(t) PROVE ChainInv'
  BY <1>1, <1>3 DEF Subs!UpdateTierLimits
<1> QED BY <1>2, <1>3, StartChain, GetChain, BeginChain, WriteChain, LoseChain, FailChain
        DEF Subs!Next

(* However many administrators change the subscription at once, lose to each  *)
(* other, try again and fail, no change is lost or taken back: the history,   *)
(* read back by its times, is the chain of changes that leads to the row, and *)
(* a call gives up only after as many others got through as it has rounds     *)
(* (updateSubscription in subscription.go, UpdateWithHistory in               *)
(* postgres/subscription.go).                                                 *)
THEOREM ChangesStayChained == Subs!Spec => []ChangesAreChained
<1>1. ChainInv => ChangesAreChained
  BY DEF ChainInv, LossesAreWins, ChangesAreChained, Subs!ChangesAreChained,
         Subs!GivesUpOnlyOvertaken
<1> QED BY <1>1, ChainInit, ChainNext, PTL DEF Subs!Spec

-----------------------------------------------------------------------------
(* Requests, the authorization of every route, with any roles, units and     *)
(* faults of the readers.                                                    *)

GateKinds == {"none", "superadmin", "staff", "under", "singleton", "classroom", "post"}

(* The routes of a group have its gate. *)
LEMMA GroupGate ==
    \A gate, routes : \A r \in Group(gate, routes) : r.gate = gate
<1> TAKE gate, routes
<1> TAKE r \in Group(gate, routes)
<1>1. PICK q \in routes : r = [method |-> q.method, path |-> gate.base \o q.path, gate |-> gate,
                               handler |-> q.handler, custom |-> q.custom]
  BY DEF Group
<1> QED BY <1>1

(* Every kind of gate is one that Decide knows. *)
LEMMA KindsOfGates ==
    /\ \A base : Open(base).kind \in GateKinds
    /\ \A base, resource : /\ StaffGate(base, resource).kind \in GateKinds
                           /\ StaffSingleton(base, resource).kind \in GateKinds
                           /\ Classroom(base, resource).kind \in GateKinds
                           /\ InOffering(base, resource).kind \in GateKinds
    /\ \A base, resource, param : StaffAtGate(base, resource, param).kind \in GateKinds
    /\ \A base, resource, on, param :
          StaffUnder(base, resource, on, param).kind \in GateKinds
    /\ \A base : /\ PostGate(base).kind \in GateKinds
                 /\ SuperAdminGate(base).kind \in GateKinds
BY DEF GateKinds, Open, StaffGate, StaffSingleton, Classroom,
       InOffering, StaffAtGate, StaffUnder, PostGate,
       SuperAdminGate, Gate

LEMMA RouterGates == \A r \in Router : r.gate.kind \in GateKinds
<1>1. \A r \in DirectoryRoutes : r.gate.kind \in GateKinds
  BY GroupGate, KindsOfGates DEF DirectoryRoutes
<1>2. \A r \in OwnRecordRoutes : r.gate.kind \in GateKinds
  BY GroupGate, KindsOfGates DEF OwnRecordRoutes
<1>3. \A r \in StructureRoutes : r.gate.kind \in GateKinds
  BY GroupGate, KindsOfGates DEF StructureRoutes
<1>4. \A r \in CalendarRoutes : r.gate.kind \in GateKinds
  BY GroupGate, KindsOfGates DEF CalendarRoutes
<1>5. \A r \in OfferingRoutes : r.gate.kind \in GateKinds
  BY GroupGate, KindsOfGates DEF OfferingRoutes
<1>6. \A r \in StudentRoutes : r.gate.kind \in GateKinds
  BY GroupGate, KindsOfGates DEF StudentRoutes
<1>7. \A r \in ContentRoutes : r.gate.kind \in GateKinds
  BY GroupGate, KindsOfGates DEF ContentRoutes
<1>8. \A r \in CourseworkRoutes : r.gate.kind \in GateKinds
  BY GroupGate, KindsOfGates DEF CourseworkRoutes
<1>9. \A r \in ExamRoutes : r.gate.kind \in GateKinds
  BY GroupGate, KindsOfGates DEF ExamRoutes
<1>10. \A r \in RecordRoutes : r.gate.kind \in GateKinds
  BY GroupGate, KindsOfGates DEF RecordRoutes
<1>11. \A r \in PostRoutes : r.gate.kind \in GateKinds
  BY GroupGate, KindsOfGates DEF PostRoutes
<1>12. \A r \in ActivityRoutes : r.gate.kind \in GateKinds
  BY GroupGate, KindsOfGates DEF ActivityRoutes
<1>13. \A r \in CommunicationRoutes : r.gate.kind \in GateKinds
  BY GroupGate, KindsOfGates DEF CommunicationRoutes
<1>14. \A r \in IdentityRoutes : r.gate.kind \in GateKinds
  BY GroupGate, KindsOfGates DEF IdentityRoutes
<1>15. \A r \in SubscriptionRoutes : r.gate.kind \in GateKinds
  BY GroupGate, KindsOfGates DEF SubscriptionRoutes
<1>16. \A r \in PolicyRoutes : r.gate.kind \in GateKinds
  BY GroupGate, KindsOfGates DEF PolicyRoutes
<1>17. \A r \in UploadRoutes : r.gate.kind \in GateKinds
  BY GroupGate, KindsOfGates DEF UploadRoutes
<1> QED BY <1>1, <1>2, <1>3, <1>4, <1>5, <1>6, <1>7, <1>8, <1>9, <1>10, <1>11, <1>12, <1>13, <1>14, <1>15, <1>16, <1>17 DEF Router

(* What the facts would be if a reader that failed had answered. *)
Answered(facts, home, seat) ==
    [facts EXCEPT !.home = IF facts.fault = "lineage" THEN home ELSE @,
                  !.seat = IF facts.fault = "seats" THEN seat ELSE @,
                  !.fault = "none"]

(* One answer agrees with the facts on all that their reader did read. *)
Agrees(read, facts) ==
    /\ read.fault = "none"
    /\ facts.fault # "lineage" => read.home = facts.home
    /\ facts.fault # "seats" => read.seat = facts.seat
    /\ read.postScope = facts.postScope /\ read.author = facts.author

LEMMA AnsweredAgrees ==
    ASSUME NEW r, NEW facts \in FactsOf(r), NEW home, NEW seat
    PROVE  Agrees(Answered(facts, home, seat), facts)
<1> DEFINE FactsLike(H, S, P, A, M, O, F) ==
              [home : H, seat : S, postScope : P, author : A, member : M, own : O, fault : F]
<1>1. \E H, S, P, A, M, O, F : facts \in FactsLike(H, S, P, A, M, O, F)
  <2>1. \E H, S, P, A, M, O, F : FactsOf(r) = FactsLike(H, S, P, A, M, O, F)
    BY Zenon DEF FactsOf
  <2> QED BY <2>1
<1>2. \E h, s, p, a, m, o, f : facts = [home |-> h, seat |-> s, postScope |-> p, author |-> a,
                                       member |-> m, own |-> o, fault |-> f]
  BY <1>1
<1> QED BY <1>2 DEF Answered, Agrees

(* A lineage that was read is the one any answer gives. *)
LEMMA LineageAgrees ==
    ASSUME NEW resource, NEW facts, NEW read, Agrees(read, facts),
           LineageFor(resource, facts).answer = "found"
    PROVE  LineageFor(resource, read) = LineageFor(resource, facts)
<1>1. CASE resource \notin DOMAIN LineageQueries
  BY <1>1 DEF LineageFor
<1>2. CASE resource \in DOMAIN LineageQueries
  <2>1. facts.fault \notin {"lineage", "missing"}
    BY <1>2 DEF LineageFor
  <2>2. read.home = facts.home /\ read.fault = "none"
    BY <2>1 DEF Agrees
  <2> QED BY <1>2, <2>1, <2>2 DEF LineageFor
<1> QED BY <1>1, <1>2

LEMMA Answers ==
    /\ Denied.answer = "denied"
    /\ \A answer : Refusal(answer).answer = answer
    /\ \A matched, relation, filter : Allowed(matched, relation, filter).answer = "allowed"
    /\ \A role : StaffAllowed(role).answer = "allowed"
BY DEF Denied, Refusal, Allowed, StaffAllowed

LEMMA LineageAnswers ==
    \A resource, facts :
        LineageFor(resource, facts).answer \in {"found", "failed", "missing"}
BY DEF LineageFor

(* The staff arm answers yes or no only on what was read. *)
LEMMA StaffArmAgrees ==
    ASSUME NEW role, NEW resource, NEW perms, NEW targeted, NEW facts, NEW read,
           Agrees(read, facts),
           StaffArm(role, resource, perms, targeted, facts).answer \in {"allowed", "denied"}
    PROVE  StaffArm(role, resource, perms, targeted, read)
              = StaffArm(role, resource, perms, targeted, facts)
<1> DEFINE settled == role = NoRole \/ MatchByRoleAlone(role, perms)
                        \/ ~CouldMatchSameUnit(role, perms)
<1>1. CASE settled \/ ~targeted
  BY <1>1, Zenon DEF StaffArm
<1>2. CASE ~settled /\ targeted
  <2>1. \A f : StaffArm(role, resource, perms, targeted, f) =
                 IF LineageFor(resource, f).answer # "found"
                 THEN Refusal(LineageFor(resource, f).answer)
                 ELSE IF MatchSameUnit(role, perms, LineageFor(resource, f).unit)
                      THEN StaffAllowed(role) ELSE Denied
    BY <1>2, Zenon DEF StaffArm
  <2>2. LineageFor(resource, facts).answer = "found"
    BY <2>1, Answers, LineageAnswers
  <2>3. LineageFor(resource, read) = LineageFor(resource, facts)
    BY <2>2, LineageAgrees
  <2> QED BY <2>1, <2>3
<1> QED BY <1>1, <1>2

LEMMA CheckOfferingAgrees ==
    ASSUME NEW role, NEW resource, NEW action, NEW facts, NEW read, Agrees(read, facts),
           CheckOffering(role, resource, action, facts).answer \in {"allowed", "denied"}
    PROVE  /\ CheckOffering(role, resource, action, read)
                = CheckOffering(role, resource, action, facts)
           /\ read.seat = facts.seat
<1>1. facts.fault # "seats"
  BY Answers DEF CheckOffering
<1>2. read.seat = facts.seat /\ read.fault # "seats"
  BY <1>1 DEF Agrees
<1> DEFINE policy == PolicyFor(resource, action)
<1>3. CASE facts.seat \in policy.offering
  BY <1>1, <1>2, <1>3 DEF CheckOffering
<1>4. CASE facts.seat \notin policy.offering
  <2>1. \A f : f.fault # "seats" /\ f.seat = facts.seat =>
          CheckOffering(role, resource, action, f)
            = StaffArm(role, "offering", policy.staff, TRUE, f)
    BY <1>4 DEF CheckOffering
  <2> DEFINE perms == policy.staff
             targeted == TRUE
             Arm(f) == StaffArm(role, "offering", perms, targeted, f)
  <2>2. Arm(facts).answer \in {"allowed", "denied"}
    BY <1>1, <2>1
  <2>3. Arm(read) = Arm(facts)
    <3> HIDE DEF perms, targeted
    <3> QED BY <2>2, StaffArmAgrees
  <2> QED BY <1>1, <1>2, <2>1, <2>3
<1> QED BY <1>2, <1>3, <1>4

LEMMA CheckPostAgrees ==
    ASSUME NEW role, NEW action, NEW facts, NEW read, Agrees(read, facts),
           CheckPost(role, action, facts).answer = "allowed"
    PROVE  CheckPost(role, action, read).answer = "allowed"
<1>1. /\ facts.fault \notin {"post", "missing"} /\ read.fault = "none"
      /\ read.author = facts.author /\ read.postScope = facts.postScope
  <2>1. facts.fault = "post" => CheckPost(role, action, facts) = Refusal("failed")
    BY Zenon DEF CheckPost
  <2>2. facts.fault = "missing" => CheckPost(role, action, facts) = Refusal("missing")
    BY DEF CheckPost
  <2> QED BY <2>1, <2>2, Answers DEF Agrees
<1>2. CASE facts.author
  BY <1>1, <1>2, Answers DEF CheckPost
<1>3. CASE ~facts.author /\ facts.postScope = "offering"
  <2>1. \A f : f.fault \notin {"post", "missing"} /\ ~f.author /\ f.postScope = "offering" =>
          CheckPost(role, action, f) = CheckOfferingPost(role, action, f)
    BY DEF CheckPost
  <2>2. CheckOfferingPost(role, action, facts).answer = "allowed"
    BY <1>1, <1>3, <2>1
  <2>3. CheckOffering(role, "post", action, facts).answer \in {"allowed", "denied"}
    BY <2>2 DEF CheckOfferingPost
  <2>4. /\ CheckOffering(role, "post", action, read)
              = CheckOffering(role, "post", action, facts)
        /\ read.seat = facts.seat
    BY <2>3, CheckOfferingAgrees
  <2>5. CheckOfferingPost(role, action, read) = CheckOfferingPost(role, action, facts)
    BY <2>4 DEF CheckOfferingPost
  <2> QED BY <1>1, <1>3, <2>1, <2>2, <2>5
<1>4. CASE ~facts.author /\ facts.postScope # "offering"
  <2>1. \A f : f.fault \notin {"post", "missing"} /\ ~f.author /\ f.postScope # "offering" =>
          CheckPost(role, action, f) = CheckUnitPost(role, action, f)
    BY DEF CheckPost
  <2>2. CheckUnitPost(role, action, facts).answer = "allowed"
    BY <1>1, <1>4, <2>1
  <2> DEFINE scope == facts.postScope
             perms == PermsReaching(PolicyFor("post", action).staff, scope)
             Arm(f) == StaffArm(role, scope, perms, scope # "university", f)
  <2>3. \A f : f.postScope = scope =>
          CheckUnitPost(role, action, f) =
              IF Arm(f).answer = "denied" /\ action \in {"get", "list"}
              THEN Allowed("nothing", "none", NoFilter) ELSE Arm(f)
    BY DEF CheckUnitPost
  <2>4. Arm(facts).answer \in {"allowed", "denied"}
    BY <2>2, <2>3
  <2>5. Arm(read) = Arm(facts)
    BY <2>4, StaffArmAgrees
  <2>6. CheckUnitPost(role, action, read) = CheckUnitPost(role, action, facts)
    <3> HIDE DEF Arm
    <3> QED BY <1>1, <2>3, <2>5
  <2> QED BY <1>1, <1>4, <2>1, <2>2, <2>6
<1> QED BY <1>2, <1>3, <1>4, <1>1

(* So does the decision of every kind of gate. *)
LEMMA DecideAgrees ==
    ASSUME NEW gate, gate.kind \in GateKinds, NEW action, NEW role, NEW facts, NEW read,
           Agrees(read, facts), Decide(gate, action, role, facts).answer = "allowed"
    PROVE  Decide(gate, action, role, read).answer = "allowed"
<1> DEFINE targeted == HasParam(Route.path, gate.param)
           perms == PolicyFor(gate.resource, action).staff
<1>1. CASE gate.kind = "none"
  BY <1>1, Answers DEF Decide
<1>2. CASE gate.kind = "superadmin"
  BY <1>2 DEF Decide
<1>3. CASE gate.kind = "staff"
  <2> DEFINE Arm(f) == StaffArm(role, gate.resource, perms, targeted, f)
  <2>1. \A f : Decide(gate, action, role, f) = Arm(f)
    BY <1>3 DEF Decide, CheckStaff
  <2>2. Arm(facts).answer \in {"allowed", "denied"}
    <3> HIDE DEF Arm
    <3> QED BY <2>1
  <2>3. Arm(read) = Arm(facts)
    <3> HIDE DEF perms
    <3> QED BY <2>2, StaffArmAgrees
  <2> HIDE DEF Arm
  <2> QED BY <2>1, <2>3
<1>4. CASE gate.kind = "under"
  <2> DEFINE asked == TRUE
             Arm(f) == StaffArm(role, gate.on, perms, asked, f)
  <2>1. \A f : Decide(gate, action, role, f) = Arm(f)
    BY <1>4 DEF Decide, CheckStaffOn
  <2>2. Arm(facts).answer \in {"allowed", "denied"}
    <3> HIDE DEF Arm
    <3> QED BY <2>1
  <2>3. Arm(read) = Arm(facts)
    <3> HIDE DEF perms, asked
    <3> QED BY <2>2, StaffArmAgrees
  <2> HIDE DEF Arm
  <2> QED BY <2>1, <2>3
<1>5. CASE gate.kind = "singleton"
  <2> DEFINE asked == FALSE
             Arm(f) == StaffArm(role, gate.resource, perms, asked, f)
  <2>1. \A f : Decide(gate, action, role, f) = Arm(f)
    BY <1>5 DEF Decide, CheckStaff
  <2>2. Arm(facts).answer \in {"allowed", "denied"}
    <3> HIDE DEF Arm
    <3> QED BY <2>1
  <2>3. Arm(read) = Arm(facts)
    <3> HIDE DEF perms, asked
    <3> QED BY <2>2, StaffArmAgrees
  <2> HIDE DEF Arm
  <2> QED BY <2>1, <2>3
<1>6. CASE gate.kind = "classroom"
  <2>1. \A f : Decide(gate, action, role, f)
                 = CheckOffering(role, gate.resource, action, f)
    BY <1>6 DEF Decide
  <2> QED BY <2>1, CheckOfferingAgrees
<1>7. CASE gate.kind = "post"
  <2>1. \A f : Decide(gate, action, role, f) = CheckPost(role, action, f)
    BY <1>7 DEF Decide
  <2> QED BY <2>1, CheckPostAgrees
<1> QED BY <1>1, <1>2, <1>3, <1>4, <1>5, <1>6, <1>7 DEF GateKinds

(* A request at the gate is for a route and finds facts of its kind; behind  *)
(* the gate it is one the gate allowed.                                      *)
Vetted ==
    /\ phase \in {"arrived", "handling", "served"} =>
          request.route \in Router /\ request.facts \in FactsOf(request.route)
    /\ phase \in {"handling", "served"} =>
          Decide(Route.gate, access.action, request.role, Facts).answer
              = "allowed"

LEMMA VettedStep ==
    ASSUME Vetted, [Next]_(vars)
    PROVE  Vetted'
<1>1. ASSUME UNCHANGED <<request, access>>,
             phase' = phase \/ (phase = "handling" /\ phase' = "served")
      PROVE  Vetted'
  <2>1. Route' = Route /\ Facts' = Facts
    BY <1>1 DEF Route, Facts
  <2>2. Decide(Route.gate, access.action, request.role, Facts)'
          = Decide(Route.gate, access.action, request.role, Facts)
    BY <1>1 DEF Decide, Route, Facts
  <2> QED BY <1>1, <2>1, <2>2 DEF Vetted
<1>2. ASSUME phase' \in {"listening", "refused"} PROVE Vetted'
  BY <1>2 DEF Vetted
<1>3. CASE UNCHANGED vars
  BY <1>1, <1>3 DEF vars
<1>4. CASE Boot \/ TurnedAway \/ Respond
  BY <1>2, <1>4 DEF Boot, TurnedAway, Refuse, Respond
<1>5. ASSUME NEW r \in Router, Arrive(r) PROVE Vetted'
  <2>1. request'.route = r /\ request'.facts \in FactsOf(r) /\ phase' = "arrived"
    BY <1>5 DEF Arrive
  <2> QED BY <2>1 DEF Vetted
<1>6. CASE PassGate
  <2> DEFINE action == Attribute
             decision == Decide(Route.gate, action, request.role, request.facts)
  <2>1. /\ phase = "arrived" /\ decision.answer = "allowed" /\ request' = request
        /\ access' = [action |-> action, decision |-> decision]
    BY <1>6 DEF PassGate
  <2>2. access'.action = action
    <3> HIDE DEF action, decision
    <3> QED BY <2>1
  <2>3. Decide(Route.gate, access.action, request.role, Facts)' = decision
    BY <2>1, <2>2 DEF Decide, Route, Facts
  <2> HIDE DEF decision
  <2> QED BY <2>1, <2>3 DEF Vetted
<1>7. CASE Handle
  <2>1. CASE InputMalformed \/ CheckRefuses
    BY <1>2, <2>1 DEF InputMalformed, CheckRefuses, Refuse
  <2>2. CASE InputParses \/ CheckPasses
    BY <1>1, <2>2 DEF InputParses, CheckPasses, Proceed
  <2>3. CASE GatherStanding
    BY <1>1, <2>3 DEF GatherStanding, Stand
  <2>4. CASE CallService
    BY <1>1, <1>7, <2>4 DEF CallService, Handle
  <2> QED BY <1>7, <2>1, <2>2, <2>3, <2>4 DEF Handle
<1> QED BY <1>3, <1>4, <1>5, <1>6, <1>7 DEF Next

(* Nothing is allowed on a fact nobody could read, on any tree of units,     *)
(* with any roles and any readers failing: every answer the failed reader    *)
(* could have given would have let the request pass the gate as well         *)
(* (authz/http/gate.go: decide; authz/staff.go, offerings.go, posts.go).     *)
THEOREM AlwaysFailsClosed == Spec => []FailsClosed
<1>1. Init => Vetted
  BY DEF Init, Vetted
<1>2. Vetted /\ [Next]_(vars) => Vetted'
  BY VettedStep
<1>3. Vetted => FailsClosed
  <2> SUFFICES ASSUME Vetted, Served, NEW home, NEW seat
               PROVE  Decide(Route.gate, access.action, request.role,
                                    Answered(Facts, home, seat)).answer = "allowed"
    BY Zenon DEF FailsClosed, Answered
  <2>1. /\ Route \in Router /\ Facts \in FactsOf(Route)
        /\ Decide(Route.gate, access.action, request.role, Facts).answer
              = "allowed"
    BY DEF Vetted, Served, Route, Facts
  <2>2. Route.gate.kind \in GateKinds
    BY <2>1, RouterGates
  <2>3. Agrees(Answered(Facts, home, seat), Facts)
    BY <2>1, AnsweredAgrees
  <2> QED BY <2>1, <2>2, <2>3, DecideAgrees
<1> QED BY <1>1, <1>2, <1>3, PTL DEF Spec

(* A path that serves nobody without a teaching seat, unless the call is cut  *)
(* to the caller.                                                             *)
IsPath(path) == \E S : path \in Seq(S)

Cut(path) ==
    /\ IsPath(path)
    /\ Len(path) > 0 /\ path[Len(path)].do = "serve"
    /\ \A i \in 1 .. Len(path) : path[i].do = "serve" =>
          "caller" \in path[i].others \/ \E j \in 1 .. i : path[j].do = "teach"

LEMMA Tuples ==
    ASSUME NEW S
    PROVE  /\ \A s \in S : <<s>> \in Seq(S)
           /\ \A t, s \in S : <<t, s>> \in Seq(S)
           /\ \A a, t, b, s \in S : <<a, t, b, s>> \in Seq(S)
<1>1. \A s \in S : <<s>> \in Seq(S)
  OBVIOUS
<1>2. \A t, s \in S : <<t, s>> \in Seq(S)
  OBVIOUS
<1>3. \A a, t, b, s \in S : <<a, t, b, s>> \in Seq(S)
  OBVIOUS
<1> QED BY <1>1, <1>2, <1>3

LEMMA Fields ==
    /\ \A s : Len(<<s>>) = 1 /\ <<s>>[1] = s
    /\ \A t, s : Len(<<t, s>>) = 2 /\ <<t, s>>[1] = t /\ <<t, s>>[2] = s
    /\ \A a, t, b, s : /\ Len(<<a, t, b, s>>) = 4
                       /\ <<a, t, b, s>>[1] = a /\ <<a, t, b, s>>[2] = t
                       /\ <<a, t, b, s>>[3] = b /\ <<a, t, b, s>>[4] = s
OBVIOUS

LEMMA SequencesArePaths == \A S : \A path \in Seq(S) : IsPath(path)
BY DEF IsPath

(* Paths of three shapes that are cut. *)
LEMMA CutShort ==
    ASSUME NEW S, NEW path \in Seq(S), Len(path) \in {1, 2, 4},
           path[Len(path)].do = "serve",
           "caller" \in path[Len(path)].others \/ path[1].do = "teach",
           \A i \in 1 .. Len(path) - 1 : path[i].do # "serve"
    PROVE  Cut(path)
<1>1. ASSUME NEW i \in 1 .. Len(path), path[i].do = "serve"
      PROVE  "caller" \in path[i].others \/ \E j \in 1 .. i : path[j].do = "teach"
  <2>1. i = Len(path)
    BY <1>1
  <2>2. 1 \in 1 .. i
    OBVIOUS
  <2> QED BY <2>1, <2>2
<1>2. IsPath(path)
  BY SequencesArePaths
<1>3. Len(path) > 0
  <2>1. \A n \in {1, 2, 4} : n > 0
    OBVIOUS
  <2> QED BY <2>1, Zenon
<1> QED BY <1>1, <1>2, <1>3 DEF Cut

LEMMA CutOne ==
    ASSUME NEW s, s.do = "serve", "caller" \in s.others
    PROVE  Cut(<<s>>)
<1> DEFINE path == <<s>>
<1>1. path \in Seq({s})
  BY Tuples
<1>2. Len(path) = 1 /\ path[1] = s
  BY Fields
<1> HIDE DEF path
<1>3. Cut(path)
  BY <1>1, <1>2, CutShort
<1> QED BY <1>3 DEF path

LEMMA CutTwo ==
    ASSUME NEW t, NEW s, s.do = "serve", t.do # "serve",
           "caller" \in s.others \/ t.do = "teach"
    PROVE  Cut(<<t, s>>)
<1> DEFINE path == <<t, s>>
<1>1. path \in Seq({t, s})
  BY Tuples
<1>2. Len(path) = 2 /\ path[1] = t /\ path[2] = s
  BY Fields
<1> HIDE DEF path
<1>3. Cut(path)
  BY <1>1, <1>2, CutShort
<1> QED BY <1>3 DEF path

LEMMA CutFour ==
    ASSUME NEW a, NEW t, NEW b, NEW s, s.do = "serve", "caller" \in s.others,
           a.do # "serve", t.do # "serve", b.do # "serve"
    PROVE  Cut(<<a, t, b, s>>)
<1> DEFINE path == <<a, t, b, s>>
<1>1. path \in Seq({a, t, b, s})
  BY Tuples
<1>2. Len(path) = 4 /\ path[1] = a /\ path[2] = t /\ path[3] = b /\ path[4] = s
  BY Fields
<1> HIDE DEF path
<1>3. Cut(path)
  BY <1>1, <1>2, CutShort
<1> QED BY <1>3 DEF path

(* A step that is neither the service call nor the teachers' check leaves the *)
(* rest of the path cut.                                                      *)
LEMMA TailIsCut ==
    ASSUME NEW path, Cut(path), Head(path).do \notin {"serve", "teach"}
    PROVE  Cut(Tail(path))
<1>1. PICK S : path \in Seq(S)
  BY DEF Cut, IsPath
<1>2. Len(path) > 1 /\ Len(path) \in Nat /\ Head(path) = path[1]
  <2>1. Len(path) \in Nat /\ Len(path) > 0 /\ path[Len(path)].do = "serve"
    BY <1>1 DEF Cut
  <2>2. Head(path) = path[1]
    BY <1>1, <2>1
  <2> QED BY <2>1, <2>2
<1> DEFINE rest == Tail(path)
<1>3. /\ rest \in Seq(S) /\ Len(rest) = Len(path) - 1
      /\ \A i \in 1 .. Len(path) - 1 : rest[i] = path[i + 1]
  BY <1>1, <1>2
<1> HIDE DEF rest
<1>4. ASSUME NEW i \in 1 .. Len(rest), rest[i].do = "serve", "caller" \notin rest[i].others
      PROVE  \E j \in 1 .. i : rest[j].do = "teach"
  <2>1. i + 1 \in 1 .. Len(path) /\ rest[i] = path[i + 1]
    BY <1>2, <1>3
  <2>2. PICK j \in 1 .. (i + 1) : path[j].do = "teach"
    BY <1>4, <2>1 DEF Cut
  <2>3. j # 1 /\ j - 1 \in 1 .. i /\ j - 1 \in 1 .. Len(path) - 1 /\ j - 1 + 1 = j
    BY <1>2, <1>3, <2>1, <2>2
  <2>4. rest[j - 1] = path[j]
    BY <1>3, <2>3
  <2> QED BY <2>2, <2>3, <2>4
<1>5. Len(rest) > 0 /\ rest[Len(rest)].do = "serve"
  <2>1. path[Len(path)].do = "serve"
    BY DEF Cut
  <2>2. Len(rest) \in 1 .. Len(path) - 1 /\ Len(rest) + 1 = Len(path)
    BY <1>2, <1>3
  <2> QED BY <1>2, <1>3, <2>1, <2>2
<1>6. IsPath(rest)
  BY <1>3, SequencesArePaths
<1>7. Cut(rest)
  BY <1>4, <1>5, <1>6 DEF Cut
<1> QED BY <1>7 DEF rest

(* The service call at the head of a cut path is cut. *)
LEMMA HeadIsCut ==
    ASSUME NEW path, Cut(path), Head(path).do = "serve"
    PROVE  "caller" \in Head(path).others
<1>1. PICK S : path \in Seq(S)
  BY DEF Cut, IsPath
<1>2. Len(path) \in Nat /\ Len(path) > 0
  BY <1>1 DEF Cut
<1>3. Head(path) = path[1]
  BY <1>1, <1>2
<1>4. \A j \in 1 .. 1 : j = 1
  OBVIOUS
<1>5. 1 \in 1 .. Len(path)
  BY <1>2
<1> QED BY <1>3, <1>4, <1>5 DEF Cut

(* The steps that matter to it. *)
LEMMA StepsOfOthersWork ==
    /\ Teach.do = "teach" /\ TeachOrOwn.do = "teach or own"
    /\ Input.do = "input"
    /\ \A teaching, others : /\ ServeBy(teaching, others).do = "serve"
                             /\ ServeBy(teaching, others).others = others
    /\ \A all : Serve(all).do = "serve"
    /\ "caller" \in Caller
BY DEF Teach, TeachOrOwn, Input, ServeBy, Serve, Caller

(* The paths of three kinds of handlers that serve anyone. *)
LEMMA CutServes ==
    ASSUME NEW all, NEW some
    PROVE  /\ Cut(<<ServeBy(all, some \cup Caller)>>)
           /\ Cut(<<TeachOrOwn, ServeBy(all, some \cup Caller)>>)
           /\ Cut(<<Input, TeachOrOwn, Input,
                    ServeBy(all, some \cup Caller)>>)
<1> DEFINE s == ServeBy(all, some \cup Caller)
<1>1. s.do = "serve" /\ "caller" \in s.others
  BY DEF ServeBy, Caller
<1> HIDE DEF s
<1>2. Cut(<<s>>)
  BY <1>1, CutOne
<1>3. TeachOrOwn.do = "teach or own" /\ Input.do = "input"
  BY StepsOfOthersWork
<1>4. Cut(<<TeachOrOwn, s>>)
  BY <1>1, <1>3, CutTwo
<1>5. Cut(<<Input, TeachOrOwn, Input, s>>)
  BY <1>1, <1>3, CutFour
<1> QED BY <1>2, <1>4, <1>5 DEF s

(* A table gives the handlers of others' work paths that are cut.           *)
CutTable(rows) ==
    \A way \in rows : way.handlers \cap OthersWork # {} => \A path \in way.paths : Cut(path)

LEMMA OthersWorkIsCut == CutTable(HandlerRows)
<1>1. CutTable(CollegeHandlers)
  BY DEF CutTable, CollegeHandlers, Each, OthersWork
<1>2. CutTable(DepartmentHandlers)
  BY DEF CutTable, DepartmentHandlers, Each, OthersWork
<1>3. CutTable(ProgramHandlers)
  BY DEF CutTable, ProgramHandlers, Each, OthersWork
<1>4. CutTable(CourseHandlers)
  BY DEF CutTable, CourseHandlers, Each, OthersWork
<1>5. CutTable(CurriculumHandlers)
  BY DEF CutTable, CurriculumHandlers, Each, OthersWork
<1>6. CutTable(AcademicYearHandlers)
  BY DEF CutTable, AcademicYearHandlers, Each, OthersWork
<1>7. CutTable(SemesterHandlers)
  BY DEF CutTable, SemesterHandlers, Each, OthersWork
<1>8. CutTable(SettingsHandlers)
  BY DEF CutTable, SettingsHandlers, Each, OthersWork
<1>9. CutTable(OfferingHandlers)
  BY DEF CutTable, OfferingHandlers, Each, OthersWork
<1>10. CutTable(CohortGroupHandlers)
  BY DEF CutTable, CohortGroupHandlers, Each, OthersWork
<1>11. CutTable(StudentHandlers)
  BY DEF CutTable, StudentHandlers, Each, OthersWork
<1>12. CutTable(TranscriptHandlers)
  BY DEF CutTable, TranscriptHandlers, Each, OthersWork
<1>13. CutTable(ApplicationHandlers)
  BY DEF CutTable, ApplicationHandlers, Each, OthersWork
<1>14. CutTable(ReviewHandlers)
  BY DEF CutTable, ReviewHandlers, Each, OthersWork
<1>15. CutTable(TeacherHandlers)
  BY DEF CutTable, TeacherHandlers, Each, OthersWork
<1>16. CutTable(EnrollmentHandlers)
  BY DEF CutTable, EnrollmentHandlers, Each, OthersWork
<1>17. CutTable(EnrollmentRequestHandlers)
  BY DEF CutTable, EnrollmentRequestHandlers, Each, OthersWork
<1>18. CutTable(LeaveHandlers)
  BY DEF CutTable, LeaveHandlers, Each, OthersWork
<1>19. CutTable(SectionHandlers)
  BY DEF CutTable, SectionHandlers, Each, OthersWork
<1>20. CutTable(LessonHandlers)
  BY DEF CutTable, LessonHandlers, Each, OthersWork
<1>21. CutTable(AssignmentHandlers)
  BY DEF CutTable, AssignmentHandlers, Each, OthersWork
<1>22. CutTable(SubmissionHandlers)
  <2> DEFINE list == <<Teach, Serve(Offering \cup Row)>>
             file == <<Input, TeachOrOwn, Input,
                       ServeBy(Offering \cup Row,
                           Offering \cup Row \cup Caller)>>
  <2>1. Cut(list)
    BY CutTwo, StepsOfOthersWork
  <2>2. Cut(file)
    BY CutServes
  <2>3. \A handlers, paths : Each(handlers, paths).handlers = handlers
                            /\ Each(handlers, paths).paths = paths
    BY DEF Each
  <2>4. \A way \in SubmissionHandlers : \/ way.handlers \cap OthersWork = {}
                                        \/ way = Each({"ListSubmissions"}, {list})
                                        \/ way = Each({"DownloadSubmissionFile"}, {file})
    <3>1. /\ {"submitWork", "discardDraft", "MySubmission"} \cap OthersWork = {}
          /\ {"DownloadAssignmentAttachment"} \cap OthersWork = {}
      BY DEF OthersWork
    <3> QED BY <2>3, <3>1, ZenonT(60) DEF SubmissionHandlers
  <2> HIDE DEF list, file
  <2> QED BY <2>1, <2>2, <2>3, <2>4 DEF CutTable
<1>23. CutTable(ExamHandlers)
  BY DEF CutTable, ExamHandlers, Each, OthersWork
<1>24. CutTable(AttemptHandlers)
  <2>1. Cut(<<Teach, Serve(Offering \cup Row)>>)
    BY CutTwo, StepsOfOthersWork
  <2> QED BY <2>1 DEF CutTable, AttemptHandlers, Each, OthersWork
<1>25. CutTable(QuestionBankHandlers)
  <2>1. Cut(<<Teach, Serve(Offering \cup Row)>>)
    BY CutTwo, StepsOfOthersWork
  <2>2. Cut(<<Teach, Serve(Offering)>>)
    BY CutTwo, StepsOfOthersWork
  <2> QED BY <2>1, <2>2 DEF CutTable, QuestionBankHandlers, Each, OthersWork
<1>26. CutTable(AttendanceHandlers)
  <2>1. Cut(<<ServeBy(Offering, Offering \cup Caller)>>)
    BY CutServes
  <2>2. Cut(<<Teach, Serve(Offering)>>)
    BY CutTwo, StepsOfOthersWork
  <2>3. Cut(<<Teach, Serve(Offering \cup Row)>>)
    BY CutTwo, StepsOfOthersWork
  <2> QED BY <2>1, <2>2, <2>3 DEF CutTable, AttendanceHandlers, Each, OthersWork
<1>27. CutTable(ExcuseHandlers)
  <2>1. Cut(<<ServeBy(Offering, Offering \cup Caller)>>)
    BY CutServes
  <2> QED BY <2>1 DEF CutTable, ExcuseHandlers, Each, OthersWork
<1>28. CutTable(GradingHandlers)
  <2> DEFINE listed == <<ServeBy(Offering, Offering \cup Caller)>>
             preview == <<TeachOrOwn, ServeBy(Offering \cup Row, Offering \cup Row \cup Caller)>>
  <2>1. Cut(listed) /\ Cut(preview)
    BY CutServes
  <2>2. \A handlers, paths : Each(handlers, paths).handlers = handlers
                            /\ Each(handlers, paths).paths = paths
    BY DEF Each
  <2>3. \A way \in GradingHandlers : \/ way.handlers \cap OthersWork = {}
                                     \/ way = Each({"ListGrades"}, {listed})
                                     \/ way = Each({"PreviewGrade"}, {preview})
    <3>1. /\ {"SaveRules"} \cap OthersWork = {} /\ {"OverrideGrade"} \cap OthersWork = {}
          /\ {"GetRules", "FinalizeGrades", "DefinalizeGrades"} \cap OthersWork = {}
      BY DEF OthersWork
    <3>2. ASSUME NEW way \in GradingHandlers
          PROVE  \/ way = Each({"SaveRules"}, way.paths)
                 \/ way = Each({"GetRules", "FinalizeGrades", "DefinalizeGrades"}, way.paths)
                 \/ way = Each({"OverrideGrade"}, way.paths)
                 \/ way = Each({"ListGrades"}, {listed})
                 \/ way = Each({"PreviewGrade"}, {preview})
      BY <2>2, ZenonT(60) DEF GradingHandlers
    <3>3. ASSUME NEW way, NEW handlers, handlers \cap OthersWork = {},
                 way = Each(handlers, way.paths)
          PROVE  way.handlers \cap OthersWork = {}
      BY <2>2, <3>3, Zenon
    <3> HIDE DEF listed, preview
    <3> QED BY <3>1, <3>2, <3>3, Zenon
  <2> HIDE DEF listed, preview
  <2> QED BY <2>1, <2>2, <2>3 DEF CutTable
<1>29. CutTable(QAHandlers)
  BY DEF CutTable, QAHandlers, Each, OthersWork
<1>30. CutTable(PostWriters)
  BY DEF CutTable, PostWriters, Each, OthersWork
<1>31. CutTable(PostReaders)
  BY DEF CutTable, PostReaders, Each, OthersWork
<1>32. CutTable(ActivityReaders)
  BY DEF CutTable, ActivityReaders, Each, OthersWork
<1>33. CutTable(ActivityWriters)
  BY DEF CutTable, ActivityWriters, Each, OthersWork
<1>34. CutTable(MuteHandlers)
  BY DEF CutTable, MuteHandlers, Each, OthersWork
<1>35. CutTable(NotificationHandlers)
  BY DEF CutTable, NotificationHandlers, Each, OthersWork
<1>36. CutTable(TokenHandlers)
  BY DEF CutTable, TokenHandlers, Each, OthersWork
<1>37. CutTable(ProfileHandlers)
  BY DEF CutTable, ProfileHandlers, Each, OthersWork
<1>38. CutTable(PreferenceHandlers)
  BY DEF CutTable, PreferenceHandlers, Each, OthersWork
<1>39. CutTable(DirectoryHandlers)
  BY DEF CutTable, DirectoryHandlers, Each, OthersWork
<1>40. CutTable(AccountHandlers)
  BY DEF CutTable, AccountHandlers, Each, OthersWork
<1>41. CutTable(SubscriptionHandlers)
  BY DEF CutTable, SubscriptionHandlers, Each, OthersWork
<1>42. CutTable(PolicyHandlers)
  BY DEF CutTable, PolicyHandlers, Each, OthersWork
<1>43. CutTable(UploadHandlers)
  BY DEF CutTable, UploadHandlers, Each, OthersWork
<1> QED BY <1>1, <1>2, <1>3, <1>4, <1>5, <1>6, <1>7, <1>8, <1>9, <1>10, <1>11,
       <1>12, <1>13, <1>14, <1>15, <1>16, <1>17, <1>18, <1>19, <1>20, <1>21, <1>22,
       <1>23, <1>24, <1>25, <1>26, <1>27, <1>28, <1>29, <1>30, <1>31, <1>32, <1>33,
       <1>34, <1>35, <1>36, <1>37, <1>38, <1>39, <1>40, <1>41, <1>42, <1>43
       DEF CutTable, HandlerRows

(* Each of these handlers is in some table. *)
LEMMA OthersWorkHasRows ==
    \A h \in OthersWork : \E way \in HandlerRows : h \in way.handlers
<1>1. \A h \in {"ListSubmissions", "DownloadSubmissionFile"} :
          \E way \in SubmissionHandlers : h \in way.handlers
  BY DEF SubmissionHandlers, Each
<1>2. \A h \in {"ListAttempts", "GetAttempt"} :
          \E way \in AttemptHandlers : h \in way.handlers
  BY DEF AttemptHandlers, Each
<1>3. \A h \in {"ListQuestions", "GetQuestion", "SampleQuestions"} :
          \E way \in QuestionBankHandlers : h \in way.handlers
  BY DEF QuestionBankHandlers, Each
<1>4. \A h \in {"OfferingAttendance", "AttendanceSummaries", "LessonAttendance"} :
          \E way \in AttendanceHandlers : h \in way.handlers
  BY DEF AttendanceHandlers, Each
<1>5. \A h \in {"ListExcuses"} :
          \E way \in ExcuseHandlers : h \in way.handlers
  BY DEF ExcuseHandlers, Each
<1>6. \A h \in {"ListGrades", "PreviewGrade"} :
          \E way \in GradingHandlers : h \in way.handlers
  BY DEF GradingHandlers, Each
<1> QED BY <1>1, <1>2, <1>3, <1>4, <1>5, <1>6 DEF OthersWork, HandlerRows

LEMMA PathsOfOthersWork ==
    ASSUME NEW h \in OthersWork, NEW path \in Handler[h]
    PROVE  Cut(path)
<1>1. Handler[h]
        = UNION {way.paths : way \in {r \in HandlerRows : h \in r.handlers}}
  BY OthersWorkHasRows DEF Handler
<1>2. PICK way \in HandlerRows : h \in way.handlers /\ path \in way.paths
  BY <1>1
<1> QED BY <1>2, OthersWorkIsCut DEF CutTable

(* A route with colon suffixes runs none of them by its own name. *)
Plain(r) == r.handler \in OthersWork => r.custom = {}

LEMMA GroupMembers ==
    \A gate, routes : \A r \in Group(gate, routes) :
        \E q \in routes : Plain(q) => Plain(r)
<1> TAKE gate, routes
<1> TAKE r \in Group(gate, routes)
<1>1. PICK q \in routes : r = [method |-> q.method, path |-> gate.base \o q.path, gate |-> gate,
                               handler |-> q.handler, custom |-> q.custom]
  BY DEF Group
<1> QED BY <1>1 DEF Plain

LEMMA PlainRoutes ==
    \A path, handler : /\ Plain(GET(path, handler)) /\ Plain(POST(path, handler))
                       /\ Plain(PUT(path, handler)) /\ Plain(PATCH(path, handler))
                       /\ Plain(DELETE(path, handler))
                       /\ Plain(Custom(path, handler))
BY DEF Plain, GET, POST, PUT, PATCH, DELETE, Custom,
       OthersWork

LEMMA RouterPlain == \A r \in Router : Plain(r)
<1>1. \A r \in DirectoryRoutes : Plain(r)
  BY GroupMembers, PlainRoutes DEF DirectoryRoutes
<1>2. \A r \in OwnRecordRoutes : Plain(r)
  BY GroupMembers, PlainRoutes DEF OwnRecordRoutes
<1>3. \A r \in StructureRoutes : Plain(r)
  BY GroupMembers, PlainRoutes DEF StructureRoutes
<1>4. \A r \in CalendarRoutes : Plain(r)
  BY GroupMembers, PlainRoutes DEF CalendarRoutes
<1>5. \A r \in OfferingRoutes : Plain(r)
  BY GroupMembers, PlainRoutes DEF OfferingRoutes
<1>6. \A r \in StudentRoutes : Plain(r)
  BY GroupMembers, PlainRoutes DEF StudentRoutes
<1>7. \A r \in ContentRoutes : Plain(r)
  BY GroupMembers, PlainRoutes DEF ContentRoutes
<1>8. \A r \in CourseworkRoutes : Plain(r)
  BY GroupMembers, PlainRoutes DEF CourseworkRoutes
<1>9. \A r \in ExamRoutes : Plain(r)
  BY GroupMembers, PlainRoutes DEF ExamRoutes
<1>10. \A r \in RecordRoutes : Plain(r)
  BY GroupMembers, PlainRoutes DEF RecordRoutes
<1>11. \A r \in PostRoutes : Plain(r)
  BY GroupMembers, PlainRoutes DEF PostRoutes
<1>12. \A r \in ActivityRoutes : Plain(r)
  BY GroupMembers, PlainRoutes DEF ActivityRoutes
<1>13. \A r \in CommunicationRoutes : Plain(r)
  BY GroupMembers, PlainRoutes DEF CommunicationRoutes
<1>14. \A r \in IdentityRoutes : Plain(r)
  BY GroupMembers, PlainRoutes DEF IdentityRoutes
<1>15. \A r \in SubscriptionRoutes : Plain(r)
  BY GroupMembers, PlainRoutes DEF SubscriptionRoutes
<1>16. \A r \in PolicyRoutes : Plain(r)
  BY GroupMembers, PlainRoutes DEF PolicyRoutes
<1>17. \A r \in UploadRoutes : Plain(r)
  BY GroupMembers, PlainRoutes DEF UploadRoutes
<1> QED BY <1>1, <1>2, <1>3, <1>4, <1>5, <1>6, <1>7, <1>8, <1>9, <1>10, <1>11,
       <1>12, <1>13, <1>14, <1>15, <1>16, <1>17
       DEF Router

(* A handler of others' work that a seat without authority entered has only  *)
(* steps ahead that serve him his own.                                       *)
WorkIsCut ==
    phase = "handling" /\ Route.handler \in OthersWork
        /\ access.decision.relation \in {"student", "observer"} => Cut(todo)

LEMMA WorkStep ==
    ASSUME Vetted, WorkIsCut, OthersWorkNeedsTeaching, [Next]_(vars)
    PROVE  WorkIsCut' /\ OthersWorkNeedsTeaching'
<1> USE DEF Served, Route
<1>1. ASSUME phase' \in {"listening", "arrived", "refused"}
      PROVE  WorkIsCut' /\ OthersWorkNeedsTeaching'
  BY <1>1 DEF WorkIsCut, OthersWorkNeedsTeaching
<1>2. CASE UNCHANGED vars
  BY <1>2 DEF vars, WorkIsCut, OthersWorkNeedsTeaching
<1>3. CASE Boot \/ TurnedAway \/ Respond
  BY <1>1, <1>3 DEF Boot, TurnedAway, Refuse, Respond
<1>4. ASSUME NEW r \in Router, Arrive(r)
      PROVE  WorkIsCut' /\ OthersWorkNeedsTeaching'
  BY <1>1, <1>4 DEF Arrive
<1>5. CASE PassGate
  <2>1. /\ phase = "arrived" /\ phase' = "handling" /\ request' = request
        /\ \E h \in HandlersOf(request.route, Attribute) :
              todo' \in Handler[h]
    BY <1>5 DEF PassGate
  <2>2. ASSUME request.route.handler \in OthersWork PROVE Cut(todo)'
    <3>1. request.route.custom = {}
      BY <2>1, <2>2, RouterPlain DEF Vetted, Plain
    <3>2. HandlersOf(request.route, Attribute) = {request.route.handler}
      BY <3>1 DEF HandlersOf
    <3> QED BY <2>1, <2>2, <3>2, PathsOfOthersWork
  <2> QED BY <2>1, <2>2 DEF WorkIsCut, OthersWorkNeedsTeaching
<1>6. CASE Handle
  <2>1. CASE InputMalformed \/ CheckRefuses
    BY <1>1, <2>1 DEF InputMalformed, CheckRefuses, Refuse
  <2>2. ASSUME todo' = Tail(todo), UNCHANGED <<phase, request, access>>,
               Step.do # "serve", Step.do = "teach" => Teaching
        PROVE  WorkIsCut' /\ OthersWorkNeedsTeaching'
    <3>1. phase' = "handling"
      BY <1>6, <2>2 DEF Handle
    <3>2. ASSUME access.decision.relation \in {"student", "observer"}, Cut(todo) PROVE Cut(todo')
      <4>1. Step.do # "teach"
        BY <2>2, <3>2 DEF Teaching, TeachingSeats
      <4> QED BY <2>2, <3>2, <4>1, TailIsCut DEF Step
    <3> QED BY <1>6, <2>2, <3>1, <3>2 DEF WorkIsCut, OthersWorkNeedsTeaching, Handle
  <2>3. CASE InputParses
    BY <2>2, <2>3 DEF InputParses, Proceed
  <2>4. CASE CheckPasses
    <3>1. Step.do = "teach" => Teaching
      BY <2>4, Zenon DEF CheckPasses, Passes
    <3>2. Step.do # "serve"
      BY <2>4 DEF CheckPasses, Checks
    <3> QED BY <2>2, <2>4, <3>1, <3>2 DEF CheckPasses, Proceed
  <2>5. CASE GatherStanding
    BY <2>2, <2>5 DEF GatherStanding, Stand
  <2>6. CASE CallService
    <3>1. /\ phase = "handling" /\ phase' = "served" /\ UNCHANGED <<request, access>>
          /\ given' = IF Teaching THEN Step.teaching ELSE Step.others
      BY <1>6, <2>6 DEF Handle, CallService
    <3>2. ASSUME Route.handler \in OthersWork,
                 access.decision.relation \in {"student", "observer"}
          PROVE  "caller" \in given'
      <4>1. Cut(todo) /\ Head(todo).do = "serve"
        BY <2>6, <3>1, <3>2 DEF WorkIsCut, CallService, Step
      <4>2. ~Teaching
        BY <3>2 DEF Teaching, TeachingSeats
      <4>3. "caller" \in Head(todo).others
        BY <4>1, HeadIsCut
      <4> QED BY <3>1, <4>2, <4>3 DEF Step
    <3> QED BY <3>1, <3>2 DEF WorkIsCut, OthersWorkNeedsTeaching
  <2> QED BY <1>6, <2>1, <2>3, <2>4, <2>5, <2>6 DEF Handle
<1> QED BY <1>2, <1>3, <1>4, <1>5, <1>6 DEF Next

(* No seat without authority is served what other students handed in,        *)
(* answered or earned, nor the question bank, whatever the roles, the tree   *)
(* of units and the readers that fail: on every path of every such handler   *)
(* the teachers' check comes first or the call is cut to the caller          *)
(* (classroom/http: requireTeaching, teaching).                              *)
THEOREM OthersWorkAlwaysNeedsTeaching == Spec => []OthersWorkNeedsTeaching
<1>1. Init => Vetted /\ WorkIsCut /\ OthersWorkNeedsTeaching
  BY DEF Init, Vetted, WorkIsCut, OthersWorkNeedsTeaching, Served
<1>2. Vetted /\ WorkIsCut /\ OthersWorkNeedsTeaching /\ [Next]_(vars)
        => Vetted' /\ WorkIsCut' /\ OthersWorkNeedsTeaching'
  BY VettedStep, WorkStep
<1> QED BY <1>1, <1>2, PTL DEF Spec

-----------------------------------------------------------------------------
(* Narrow roles: what a role may reach, by itself and in its own unit.       *)

(* The roles that ask hold a unit exactly if their scope is one. *)
LEMMA RolesAre ==
    ASSUME NEW role \in Roles, role # NoRole
    PROVE  /\ role.scope \in UnitScopes \cup Institution
           /\ role.scope \in Institution => role.unit = NoUnit
<1>1. role \in RoleClaims(DOMAIN LevelRank)
  BY RolesAssumption
<1>2. PICK s \in DOMAIN ScopeRank :
        role \in [level : DOMAIN LevelRank, scope : {s}, unit : UnitsAt(s), domain : {"administration"}]
  BY <1>1 DEF RoleClaims
<1>3. role.scope = s /\ role.unit \in UnitsAt(s)
  BY <1>2
<1>4. s \in UnitScopes \cup Institution
  BY DEF ScopeRank, UnitScopes, Institution
<1> QED BY <1>3, <1>4 DEF UnitsAt, Institution

LEMMA ScopeRanks ==
    /\ \A s \in UnitScopes \cup Institution : ScopeRank[s] \in Nat
    /\ ScopeRank["program"] = 1 /\ ScopeRank["department"] = 2 /\ ScopeRank["college"] = 3
    /\ ScopeRank["university"] = 4 /\ ScopeRank["platform"] = 5
BY DEF ScopeRank, UnitScopes, Institution

(* Where the target's unit decides, it is the role's. *)
LEMMA SameUnitIsHome ==
    ASSUME NEW role \in Roles, role # NoRole, NEW resource, NEW perms, NEW facts,
           MatchSameUnit(role, perms, LineageFor(resource, facts).unit)
    PROVE  /\ role.scope \in UnitScopes /\ role.unit = UnitOf(facts.home, role.scope)
           /\ resource \in DOMAIN LineageQueries /\ role.scope \in LineageQueries[resource]
           /\ \E p \in perms : p.scope = role.scope
<1>1. PICK p \in perms : /\ role.scope = p.scope /\ role.unit # NoUnit
                         /\ role.unit = LineageFor(resource, facts).unit[p.scope]
  BY DEF MatchSameUnit
<1>2. role.scope \in UnitScopes
  BY <1>1, RolesAre
<1>3. LineageFor(resource, facts).unit =
        [s \in UnitScopes |-> IF resource \in DOMAIN LineageQueries /\ s \in LineageQueries[resource]
                              THEN UnitOf(facts.home, s) ELSE NoUnit]
  BY DEF LineageFor
<1> QED BY <1>1, <1>2, <1>3

(* A staff arm that allows does so by the role alone or in its own unit. *)
LEMMA ArmAllows ==
    ASSUME NEW role, NEW resource, NEW perms, NEW targeted, NEW facts,
           StaffArm(role, resource, perms, targeted, facts).answer = "allowed"
    PROVE  /\ role # NoRole
           /\ \/ MatchByRoleAlone(role, perms)
              \/ CouldMatchSameUnit(role, perms) /\ ~targeted
              \/ MatchSameUnit(role, perms, LineageFor(resource, facts).unit)
           /\ StaffArm(role, resource, perms, targeted, facts).matched = "staff"
<1>1. Denied.answer # "allowed" /\ StaffAllowed(role).matched = "staff"
  BY DEF Denied, Refusal, StaffAllowed, Allowed
<1>2. \A a : Refusal(a).answer = a
  BY DEF Refusal
<1>3. LineageFor(resource, facts).answer \in {"found", "failed", "missing"}
  BY Zenon DEF LineageFor
<1>4. role # NoRole
  BY <1>1, Zenon DEF StaffArm
<1>5. CASE MatchByRoleAlone(role, perms)
  <2>1. StaffArm(role, resource, perms, targeted, facts) = StaffAllowed(role)
    BY <1>4, <1>5, Zenon DEF StaffArm
  <2> QED BY <1>1, <1>4, <1>5, <2>1
<1>6. CASE ~MatchByRoleAlone(role, perms)
  <2>1. CouldMatchSameUnit(role, perms)
    BY <1>1, <1>4, <1>6, Zenon DEF StaffArm
  <2>2. StaffArm(role, resource, perms, targeted, facts) =
          IF ~targeted THEN StaffAllowed(role)
          ELSE IF LineageFor(resource, facts).answer # "found"
               THEN Refusal(LineageFor(resource, facts).answer)
          ELSE IF MatchSameUnit(role, perms, LineageFor(resource, facts).unit)
               THEN StaffAllowed(role) ELSE Denied
    BY <1>4, <1>6, <2>1, Zenon DEF StaffArm
  <2> QED BY <1>1, <1>2, <1>3, <1>4, <2>1, <2>2
<1> QED BY <1>5, <1>6

(* Permissions of the whole institution are held by the role alone. *)
LEMMA InstitutionAlone ==
    ASSUME NEW role \in Roles, role # NoRole, NEW perms,
           \A p \in perms : p.scope \in Institution
    PROVE  ~CouldMatchSameUnit(role, perms)
BY RolesAre DEF CouldMatchSameUnit

(* A role that reaches a scope is at least as wide. *)
LEMMA ReachIsWide ==
    ASSUME NEW role \in Roles, NEW perms, NEW min \in UnitScopes \cup Institution,
           NEW resource, NEW targeted, NEW facts,
           \A p \in perms : p.scope \in UnitScopes \cup Institution,
           StaffArm(role, resource, PermsReaching(perms, min), targeted, facts).answer = "allowed"
    PROVE  role # NoRole /\ ScopeRank[role.scope] >= ScopeRank[min]
<1>1. role # NoRole /\ \E p \in PermsReaching(perms, min) :
                          role.scope = p.scope \/ WiderThan(role.scope, p.scope)
  <2> DEFINE reach == PermsReaching(perms, min)
  <2>1. MatchByRoleAlone(role, reach) => \E p \in reach : role.scope = p.scope \/ WiderThan(role.scope, p.scope)
    BY DEF MatchByRoleAlone
  <2>2. CouldMatchSameUnit(role, reach) => \E p \in reach : role.scope = p.scope
    BY DEF CouldMatchSameUnit
  <2>3. \A unit : MatchSameUnit(role, reach, unit) => \E p \in reach : role.scope = p.scope
    BY DEF MatchSameUnit
  <2>4. /\ role # NoRole
        /\ \/ MatchByRoleAlone(role, reach) \/ CouldMatchSameUnit(role, reach)
           \/ MatchSameUnit(role, reach, LineageFor(resource, facts).unit)
    BY ArmAllows
  <2>5. \E p \in reach : role.scope = p.scope \/ WiderThan(role.scope, p.scope)
    <3> HIDE DEF reach
    <3> QED BY <2>1, <2>2, <2>3, <2>4
  <2> QED BY <2>4, <2>5
<1>2. PICK p \in perms : /\ p.scope = min \/ WiderThan(p.scope, min)
                         /\ role.scope = p.scope \/ WiderThan(role.scope, p.scope)
  BY <1>1 DEF PermsReaching
<1>3. role.scope \in UnitScopes \cup Institution /\ p.scope \in UnitScopes \cup Institution
  BY <1>1, RolesAre
<1> QED BY <1>1, <1>2, <1>3, ScopeRanks DEF WiderThan

(* What the rules on creation, posts and activities ask for.                *)
Institutional == {"college", "academic_year", "semester", "cohort_group", "user"}

Grounded(e) ==
    /\ e.resource \in Institutional /\ e.action = "create" => \A p \in e.staff : p.scope \in Institution
    /\ e.resource = "post" =>
          /\ e.offering \subseteq TeachingSeats
          /\ \A p \in e.staff : p.scope \in UnitScopes \cup Institution
    /\ e.resource = "activity" => \A p \in e.staff : p.scope \in {"department", "college", "university"}

LEMMA Rules ==
    /\ \A resource, actions, staff, offering : \A e \in Entry(resource, actions, staff, offering) :
          /\ e.resource = resource /\ e.action \in actions
          /\ e.staff = staff /\ e.offering = offering
    /\ \A resource, actions, staff : \A e \in Staff(resource, actions, staff) :
          /\ e.resource = resource /\ e.action \in actions /\ e.staff = staff /\ e.offering = {}
    /\ \A resource, actions, allowedSeats : \A e \in Seats(resource, actions, allowedSeats) :
          e.resource = resource /\ e.action \in actions /\ e.staff = {} /\ e.offering = allowedSeats
BY DEF Entry, Staff, Seats

LEMMA LevelScopes ==
    /\ \A level, scopes : \A p \in AtLevel(level, scopes) : p.scope \in scopes
    /\ \A scopes : \A p \in Admin(scopes) : p.scope \in scopes
    /\ \A p \in PostStaff : p.scope \in UnitScopes \cup Institution
BY DEF AtLevel, Admin, PostStaff, UnitScopes, Institution

LEMMA RulesAreGrounded == \A e \in DefaultPolicies : Grounded(e)
<1> USE DEF Grounded, Institutional
<1>1. \A e \in StructurePolicies : Grounded(e)
  BY Rules, LevelScopes DEF StructurePolicies
<1>2. \A e \in CalendarPolicies : Grounded(e)
  BY Rules, LevelScopes DEF CalendarPolicies
<1>3. \A e \in CataloguePolicies : Grounded(e)
  BY Rules, LevelScopes DEF CataloguePolicies
<1>4. \A e \in EnrollmentPolicies : Grounded(e)
  BY Rules, LevelScopes DEF EnrollmentPolicies
<1>5. \A e \in StudentPolicies : Grounded(e)
  BY Rules, LevelScopes DEF StudentPolicies
<1>6. \A e \in AnnouncementPolicies : Grounded(e)
  BY Rules, LevelScopes DEF AnnouncementPolicies, UnitScopes, Institution
<1>7. \A e \in ClassroomPolicies : Grounded(e)
  BY Rules DEF ClassroomPolicies
<1>8. \A e \in MutePolicies : Grounded(e)
  BY Rules DEF MutePolicies
<1>9. \A e \in AdministrationPolicies : Grounded(e)
  BY Rules DEF AdministrationPolicies
<1> QED BY <1>1, <1>2, <1>3, <1>4, <1>5, <1>6, <1>7, <1>8, <1>9 DEF DefaultPolicies

LEMMA PoliciesAreGrounded ==
    /\ \A resource \in Institutional : \A p \in PolicyFor(resource, "create").staff : p.scope \in Institution
    /\ \A action : /\ PolicyFor("post", action).offering \subseteq TeachingSeats
                   /\ \A p \in PolicyFor("post", action).staff : p.scope \in UnitScopes \cup Institution
    /\ \A action : \A p \in PolicyFor("activity", action).staff : p.scope \in {"department", "college", "university"}
<1>1. \A resource, action :
        /\ \A p \in PolicyFor(resource, action).staff :
              \E e \in DefaultPolicies : e.resource = resource /\ e.action = action /\ p \in e.staff
        /\ \A s \in PolicyFor(resource, action).offering :
              \E e \in DefaultPolicies : e.resource = resource /\ e.action = action /\ s \in e.offering
  BY DEF PolicyFor
<1>2. ASSUME NEW resource \in Institutional, NEW p \in PolicyFor(resource, "create").staff
      PROVE  p.scope \in Institution
  BY <1>1, RulesAreGrounded DEF Grounded
<1>3. ASSUME NEW action PROVE PolicyFor("post", action).offering \subseteq TeachingSeats
  BY <1>1, RulesAreGrounded DEF Grounded
<1>4. ASSUME NEW action, NEW p \in PolicyFor("post", action).staff PROVE p.scope \in UnitScopes \cup Institution
  BY <1>1, RulesAreGrounded DEF Grounded
<1>5. ASSUME NEW action, NEW p \in PolicyFor("activity", action).staff
      PROVE  p.scope \in {"department", "college", "university"}
  BY <1>1, RulesAreGrounded DEF Grounded
<1> QED BY <1>2, <1>3, <1>4, <1>5

(* The handlers whose service call is confined by the body of the request.   *)
BodyServing ==
    {"CreateCollege", "CreateDepartment", "CreateProgram", "CreateCourse", "CreateAcademicYear",
     "CreateSemester", "CreateOffering", "CreateCohortGroup", "CreateStudent", "CreateUser",
     "UpdateTierLimits", "CreatePermission", "DeactivatePermission"}

(* What a POST on a collection of the management runs, by resource.          *)
Creations ==
    {<<"college", "CreateCollege">>, <<"department", "CreateDepartment">>,
     <<"program", "CreateProgram">>, <<"course", "CreateCourse">>,
     <<"academic_year", "CreateAcademicYear">>, <<"semester", "CreateSemester">>,
     <<"offering", "CreateOffering">>, <<"cohort_group", "CreateCohortGroup">>,
     <<"student", "CreateStudent">>, <<"user", "CreateUser">>, <<"user", "MuteUniversityWide">>}

ActivityDispatch == {"pinActivity", "attachToActivity"}

PostRows == {"UpdatePost", "DeletePost"}

(* Where the routes of a gate may run what: a row of a table under the gate. *)
Placed(gate, q) ==
    /\ gate.kind \in {"under", "classroom"} =>
          IF q.custom = {} THEN q.handler \notin BodyServing
          ELSE \A d \in q.custom : d[2] \notin BodyServing
    /\ gate.kind = "under" => q.method \in {"GET", "POST", "PUT", "PATCH", "DELETE"}
    /\ gate.kind = "staff" =>
          IF q.custom # {} THEN \A d \in q.custom : d[2] \notin BodyServing
          ELSE IF q.method = "POST" THEN <<gate.resource, q.handler>> \in Creations
          ELSE q.handler \notin BodyServing

Published(gate, q) ==
    /\ q.handler \in PostRows =>
          gate.kind = "post" /\ q.custom = {} /\ q.method \in {"PUT", "DELETE"}
    /\ q.handler \in PublishingOps \ PostRows => gate.kind = "none" /\ q.custom = {}
    /\ q.custom # {} =>
          \/ gate.kind = "staff" /\ \A d \in q.custom : d[1] \notin PublishingActions
          \/ gate.kind = "classroom" \/ gate.kind = "post"
          \/ gate.kind = "none" /\ \A d \in q.custom : d[2] \in ActivityDispatch

(* What a route's colon suffixes run.                                        *)
Clean(d) == d # {} /\ \A e \in d : e[2] \notin BodyServing

Unpublished(d) == \A e \in d : e[1] \notin PublishingActions

OfActivities(d) == \A e \in d : e[2] \in ActivityDispatch

(* Where its path leads: to a row when it has colon suffixes, and never from  *)
(* a classroom to what is published.                                         *)
Led(r) ==
    /\ r.gate.kind = "staff" /\ r.custom # {} => HasParam(r.path, r.gate.param)
    /\ r.gate.kind = "classroom" => ~IsPublishing(r)

Proper(r) == Placed(r.gate, r) /\ Published(r.gate, r) /\ Led(r)

LEMMA GateFields ==
    /\ \A base : Open(base).kind = "none"
    /\ \A base, resource :
          /\ StaffGate(base, resource).kind = "staff" /\ StaffGate(base, resource).resource = resource
          /\ StaffGate(base, resource).param = ":id" /\ StaffGate(base, resource).base = base
          /\ StaffSingleton(base, resource).kind = "singleton"
          /\ InOffering(base, resource).kind = "classroom"
          /\ InOffering(base, resource).base = <<"offerings", ":offeringId", base>>
    /\ \A base, resource, param :
          /\ StaffAtGate(base, resource, param).kind = "staff"
          /\ StaffAtGate(base, resource, param).resource = resource
    /\ \A base, resource, on, param : StaffUnder(base, resource, on, param).kind = "under"
    /\ \A base : PostGate(base).kind = "post" /\ SuperAdminGate(base).kind = "superadmin"
BY DEF Open, StaffGate, StaffSingleton, Classroom, InOffering, StaffAtGate, StaffUnder,
   PostGate,
       SuperAdminGate, Gate

LEMMA RowFields ==
    /\ \A path, h :
          /\ GET(path, h).method = "GET" /\ GET(path, h).path = path
          /\ GET(path, h).handler = h /\ GET(path, h).custom = {}
          /\ POST(path, h).method = "POST" /\ POST(path, h).path = path
          /\ POST(path, h).handler = h /\ POST(path, h).custom = {}
          /\ PUT(path, h).method = "PUT" /\ PUT(path, h).path = path
          /\ PUT(path, h).handler = h /\ PUT(path, h).custom = {}
          /\ PATCH(path, h).method = "PATCH" /\ PATCH(path, h).path = path
          /\ PATCH(path, h).handler = h /\ PATCH(path, h).custom = {}
          /\ DELETE(path, h).method = "DELETE" /\ DELETE(path, h).path = path
          /\ DELETE(path, h).handler = h /\ DELETE(path, h).custom = {}
    /\ \A path, d : /\ Custom(path, d).method = "POST" /\ Custom(path, d).path = path
                    /\ Custom(path, d).handler = "custom" /\ Custom(path, d).custom = d
BY DEF GET, POST, PUT, PATCH, DELETE, Custom

(* Which rows fit under which gates.                                         *)
LEMMA PlacedRows ==
    /\ \A gate, path, h : h \notin BodyServing =>
          /\ Placed(gate, GET(path, h)) /\ Placed(gate, PUT(path, h))
          /\ Placed(gate, PATCH(path, h)) /\ Placed(gate, DELETE(path, h))
    /\ \A gate, path, h : gate.kind \in {"under", "classroom"} /\ h \notin BodyServing =>
          Placed(gate, POST(path, h))
    /\ \A gate, path, h : gate.kind = "staff" /\ <<gate.resource, h>> \in Creations =>
          Placed(gate, POST(path, h))
    /\ \A gate, path, d : Clean(d) => Placed(gate, Custom(path, d))
    /\ \A gate, q : gate.kind \in {"none", "superadmin", "singleton", "post"} => Placed(gate, q)
<1> USE RowFields DEF Placed
<1>1. ASSUME NEW gate, NEW path, NEW h, h \notin BodyServing
      PROVE  /\ Placed(gate, GET(path, h)) /\ Placed(gate, PUT(path, h))
             /\ Placed(gate, PATCH(path, h)) /\ Placed(gate, DELETE(path, h))
  BY <1>1
<1>2. ASSUME NEW gate, NEW path, NEW h, gate.kind \in {"under", "classroom"}, h \notin BodyServing
      PROVE  Placed(gate, POST(path, h))
  BY <1>2
<1>3. ASSUME NEW gate, NEW path, NEW h, gate.kind = "staff", <<gate.resource, h>> \in Creations
      PROVE  Placed(gate, POST(path, h))
  BY <1>3
<1>4. ASSUME NEW gate, NEW path, NEW d, Clean(d) PROVE Placed(gate, Custom(path, d))
  BY <1>4 DEF Clean
<1>5. ASSUME NEW gate, NEW q, gate.kind \in {"none", "superadmin", "singleton", "post"}
      PROVE  Placed(gate, q)
  BY <1>5
<1> HIDE DEF Placed
<1> QED BY <1>1, <1>2, <1>3, <1>4, <1>5

LEMMA PublishedRows ==
    /\ \A gate, path, h : h \notin PublishingOps =>
          /\ Published(gate, GET(path, h)) /\ Published(gate, POST(path, h))
          /\ Published(gate, PUT(path, h)) /\ Published(gate, PATCH(path, h))
          /\ Published(gate, DELETE(path, h))
    /\ \A gate, path, h : gate.kind = "post" /\ h \in PostRows =>
          Published(gate, PUT(path, h)) /\ Published(gate, DELETE(path, h))
    /\ \A gate, path, h : gate.kind = "none" /\ h \notin PostRows =>
          /\ Published(gate, GET(path, h)) /\ Published(gate, POST(path, h))
          /\ Published(gate, PUT(path, h)) /\ Published(gate, DELETE(path, h))
    /\ \A gate, path, d : gate.kind \in {"classroom", "post"} => Published(gate, Custom(path, d))
    /\ \A gate, path, d : gate.kind = "staff" /\ Unpublished(d) =>
          Published(gate, Custom(path, d))
    /\ \A gate, path, d : gate.kind = "none" /\ OfActivities(d) =>
          Published(gate, Custom(path, d))
<1> USE RowFields DEF Published, PublishingOps, PostRows
<1>1. ASSUME NEW gate, NEW path, NEW h, h \notin PublishingOps
      PROVE  /\ Published(gate, GET(path, h)) /\ Published(gate, POST(path, h))
             /\ Published(gate, PUT(path, h)) /\ Published(gate, PATCH(path, h))
             /\ Published(gate, DELETE(path, h))
  BY <1>1
<1>2. ASSUME NEW gate, NEW path, NEW h, gate.kind = "post", h \in PostRows
      PROVE  Published(gate, PUT(path, h)) /\ Published(gate, DELETE(path, h))
  BY <1>2
<1>3. ASSUME NEW gate, NEW path, NEW h, gate.kind = "none", h \notin PostRows
      PROVE  /\ Published(gate, GET(path, h)) /\ Published(gate, POST(path, h))
             /\ Published(gate, PUT(path, h)) /\ Published(gate, DELETE(path, h))
  BY <1>3
<1>4. ASSUME NEW gate, NEW path, NEW d, gate.kind \in {"classroom", "post"}
      PROVE  Published(gate, Custom(path, d))
  BY <1>4
<1>5. ASSUME NEW gate, NEW path, NEW d, gate.kind = "staff", Unpublished(d)
      PROVE  Published(gate, Custom(path, d))
  BY <1>5 DEF Unpublished
<1>6. ASSUME NEW gate, NEW path, NEW d, gate.kind = "none", OfActivities(d)
      PROVE  Published(gate, Custom(path, d))
  BY <1>6 DEF OfActivities
<1> HIDE DEF Published
<1> QED BY <1>1, <1>2, <1>3, <1>4, <1>5, <1>6

(* The colon suffixes of every route.                                       *)
LEMMA Dispatches ==
    /\ Clean({<<"activate", "transitionSemester">>,
              <<"startGrading", "transitionSemester">>,
              <<"finalize", "transitionSemester">>,
              <<"definalize", "definalizeSemester">>,
              <<"generateOfferings", "generateOfferings">>,
              <<"bulkEnroll", "bulkEnroll">>, <<"end", "endSemester">>})
    /\ Clean({<<"review", "reviewApplication">>})
    /\ Clean({<<"approve", "approveEnrollmentRequest">>,
              <<"reject", "rejectEnrollmentRequest">>})
    /\ Clean({<<"requestLeave", "requestLeave">>})
    /\ Clean({<<"approve", "approveLeave">>, <<"end", "endLeave">>})
    /\ Clean({<<"attach", "attachToLesson">>, <<"schedule", "scheduleLesson">>,
              <<"unschedule", "unscheduleLesson">>})
    /\ Clean({<<"attach", "attachToAssignment">>, <<"save", "saveDraft">>,
              <<"submit", "submitWork">>, <<"discard", "discardDraft">>,
              <<"grade", "gradeSubmission">>})
    /\ Clean({<<"publish", "publishExam">>, <<"close", "closeExam">>,
              <<"start", "startAttempt">>, <<"record", "recordResults">>})
    /\ Clean({<<"save", "saveAnswers">>, <<"submit", "submitAttempt">>,
              <<"grade", "gradeAttempt">>, <<"review", "reviewAttempt">>})
    /\ Clean({<<"initialize", "initializeSheet">>, <<"mark", "markSheet">>,
              <<"excuse", "requestExcuse">>})
    /\ Clean({<<"review", "reviewExcuse">>})
    /\ Clean({<<"answer", "answerQuestion">>, <<"reject", "rejectQuestion">>})
    /\ Clean({<<"pin", "pinPost">>, <<"attach", "attachToPost">>})
    /\ Clean({<<"pin", "pinActivity">>, <<"attach", "attachToActivity">>})
    /\ Unpublished({<<"activate", "transitionSemester">>,
                    <<"startGrading", "transitionSemester">>,
                    <<"finalize", "transitionSemester">>,
                    <<"definalize", "definalizeSemester">>,
                    <<"generateOfferings", "generateOfferings">>,
                    <<"bulkEnroll", "bulkEnroll">>, <<"end", "endSemester">>})
    /\ Unpublished({<<"review", "reviewApplication">>})
    /\ Unpublished({<<"approve", "approveEnrollmentRequest">>,
                    <<"reject", "rejectEnrollmentRequest">>})
    /\ Unpublished({<<"requestLeave", "requestLeave">>})
    /\ Unpublished({<<"approve", "approveLeave">>, <<"end", "endLeave">>})
    /\ OfActivities({<<"pin", "pinActivity">>, <<"attach", "attachToActivity">>})
BY DEF Clean, Unpublished, OfActivities, BodyServing, PublishingActions, ActivityDispatch

(* A route runs what its row runs, under the gate of its group.              *)
LEMMA RowPlaced ==
    \A gate, routes : \A r \in Group(gate, routes) : \E q \in routes :
        Placed(gate, q) => Placed(r.gate, r)
<1> TAKE gate, routes
<1> TAKE r \in Group(gate, routes)
<1>1. PICK q \in routes : r = [method |-> q.method, path |-> gate.base \o q.path, gate |-> gate,
                               handler |-> q.handler, custom |-> q.custom]
  BY DEF Group
<1> QED BY <1>1 DEF Placed

LEMMA RowPublished ==
    \A gate, routes : \A r \in Group(gate, routes) : \E q \in routes :
        Published(gate, q) => Published(r.gate, r)
<1> TAKE gate, routes
<1> TAKE r \in Group(gate, routes)
<1>1. PICK q \in routes : r = [method |-> q.method, path |-> gate.base \o q.path, gate |-> gate,
                               handler |-> q.handler, custom |-> q.custom]
  BY DEF Group
<1> QED BY <1>1 DEF Published

LEMMA PlacedRoutes == \A r \in Router : Placed(r.gate, r)
<1> USE RowPlaced, PlacedRows, GateFields, Dispatches DEF BodyServing, Creations
<1>1. \A r \in DirectoryRoutes : Placed(r.gate, r)
  BY DEF DirectoryRoutes
<1>2. \A r \in OwnRecordRoutes : Placed(r.gate, r)
  BY DEF OwnRecordRoutes
<1>3. \A r \in StructureRoutes : Placed(r.gate, r)
  BY SMTT(60) DEF StructureRoutes
<1>4. \A r \in CalendarRoutes : Placed(r.gate, r)
  BY DEF CalendarRoutes
<1>5. \A r \in OfferingRoutes : Placed(r.gate, r)
  BY DEF OfferingRoutes
<1>6. \A r \in StudentRoutes : Placed(r.gate, r)
  BY SMTT(60) DEF StudentRoutes
<1>7. \A r \in ContentRoutes : Placed(r.gate, r)
  BY DEF ContentRoutes
<1>8. \A r \in CourseworkRoutes : Placed(r.gate, r)
  BY SMTT(60) DEF CourseworkRoutes
<1>9. \A r \in ExamRoutes : Placed(r.gate, r)
  BY SMTT(60) DEF ExamRoutes
<1>10. \A r \in RecordRoutes : Placed(r.gate, r)
  BY SMTT(60) DEF RecordRoutes
<1>11. \A r \in PostRoutes : Placed(r.gate, r)
  BY DEF PostRoutes
<1>12. \A r \in ActivityRoutes : Placed(r.gate, r)
  BY DEF ActivityRoutes
<1>13. \A r \in CommunicationRoutes : Placed(r.gate, r)
  BY SMTT(60) DEF CommunicationRoutes
<1>14. \A r \in IdentityRoutes : Placed(r.gate, r)
  BY SMTT(60) DEF IdentityRoutes
<1>15. \A r \in SubscriptionRoutes : Placed(r.gate, r)
  BY DEF SubscriptionRoutes
<1>16. \A r \in PolicyRoutes : Placed(r.gate, r)
  BY DEF PolicyRoutes
<1>17. \A r \in UploadRoutes : Placed(r.gate, r)
  BY DEF UploadRoutes
<1> QED BY <1>1, <1>2, <1>3, <1>4, <1>5, <1>6, <1>7, <1>8, <1>9, <1>10, <1>11,
       <1>12, <1>13, <1>14, <1>15, <1>16, <1>17
       DEF Router

(* Nothing is published among what everyone may read and ask for himself.    *)
LEMMA OwnRecordsUnpublished == \A r \in OwnRecordRoutes : Published(r.gate, r)
<1>1. \A gate, path, h : h \notin PublishingOps =>
         /\ Published(gate, GET(path, h)) /\ Published(gate, POST(path, h)) /\ Published(gate, PUT(path, h))
  BY PublishedRows
<1> QED BY <1>1, RowPublished DEF OwnRecordRoutes, PublishingOps

LEMMA PublishedRoutes == \A r \in Router : Published(r.gate, r)
<1> USE RowPublished, PublishedRows, GateFields, Dispatches DEF PublishingOps, PostRows
<1>1. \A r \in DirectoryRoutes : Published(r.gate, r)
  BY DEF DirectoryRoutes
<1>2. \A r \in OwnRecordRoutes : Published(r.gate, r)
  BY OwnRecordsUnpublished
<1>3. \A r \in StructureRoutes : Published(r.gate, r)
  BY DEF StructureRoutes
<1>4. \A r \in CalendarRoutes : Published(r.gate, r)
  BY DEF CalendarRoutes
<1>5. \A r \in OfferingRoutes : Published(r.gate, r)
  BY DEF OfferingRoutes
<1>6. \A r \in StudentRoutes : Published(r.gate, r)
  BY DEF StudentRoutes
<1>7. \A r \in ContentRoutes : Published(r.gate, r)
  BY DEF ContentRoutes
<1>8. \A r \in CourseworkRoutes : Published(r.gate, r)
  BY SMTT(60) DEF CourseworkRoutes
<1>9. \A r \in ExamRoutes : Published(r.gate, r)
  BY DEF ExamRoutes
<1>10. \A r \in RecordRoutes : Published(r.gate, r)
  BY SMTT(60) DEF RecordRoutes
<1>11. \A r \in PostRoutes : Published(r.gate, r)
  BY DEF PostRoutes
<1>12. \A r \in ActivityRoutes : Published(r.gate, r)
  BY DEF ActivityRoutes
<1>13. \A r \in CommunicationRoutes : Published(r.gate, r)
  BY DEF CommunicationRoutes
<1>14. \A r \in IdentityRoutes : Published(r.gate, r)
  BY SMTT(60) DEF IdentityRoutes
<1>15. \A r \in SubscriptionRoutes : Published(r.gate, r)
  BY DEF SubscriptionRoutes
<1>16. \A r \in PolicyRoutes : Published(r.gate, r)
  BY DEF PolicyRoutes
<1>17. \A r \in UploadRoutes : Published(r.gate, r)
  BY DEF UploadRoutes
<1> QED BY <1>1, <1>2, <1>3, <1>4, <1>5, <1>6, <1>7, <1>8, <1>9, <1>10, <1>11,
       <1>12, <1>13, <1>14, <1>15, <1>16, <1>17
       DEF Router

(* Where a row's path leads, below the base of its gate.                     *)
LedRow(gate, q) ==
    /\ gate.kind = "staff" /\ q.custom # {} => HasParam(gate.base \o q.path, gate.param)
    /\ gate.kind = "classroom" => (gate.base \o q.path)[1] = "offerings"

LEMMA RowLed ==
    \A gate, routes : \A r \in Group(gate, routes) : \E q \in routes : LedRow(gate, q) => Led(r)
<1> TAKE gate, routes
<1> TAKE r \in Group(gate, routes)
<1>1. PICK q \in routes : r = [method |-> q.method, path |-> gate.base \o q.path, gate |-> gate,
                               handler |-> q.handler, custom |-> q.custom]
  BY DEF Group
<1>2. r.gate = gate /\ r.path = gate.base \o q.path /\ r.custom = q.custom
  BY <1>1
<1> QED BY <1>2 DEF LedRow, Led, IsPublishing

LEMMA ShortPaths ==
    /\ IsPath(<<>>)
    /\ \A a : IsPath(<<a>>)
    /\ \A a, b : IsPath(<<a, b>>)
    /\ \A a, b, c : IsPath(<<a, b, c>>)
    /\ \A a, b, c, d, e : IsPath(<<a, b, c, d, e>>)
<1>1. <<>> \in Seq({1})
  OBVIOUS
<1>2. ASSUME NEW a PROVE <<a>> \in Seq({a})
  OBVIOUS
<1>3. ASSUME NEW a, NEW b PROVE <<a, b>> \in Seq({a, b})
  OBVIOUS
<1>4. ASSUME NEW a, NEW b, NEW c PROVE <<a, b, c>> \in Seq({a, b, c})
  OBVIOUS
<1>5. ASSUME NEW a, NEW b, NEW c, NEW d, NEW e PROVE <<a, b, c, d, e>> \in Seq({a, b, c, d, e})
  OBVIOUS
<1> QED BY <1>1, <1>2, <1>3, <1>4, <1>5, Zenon DEF IsPath

LEMMA BaseFirst ==
    ASSUME NEW name, NEW path, IsPath(path)
    PROVE  (<<"offerings", ":offeringId", name>> \o path)[1] = "offerings"
<1>1. PICK S : path \in Seq(S)
  BY DEF IsPath
<1> DEFINE T == S \cup {"offerings", ":offeringId", name}
           base == <<"offerings", ":offeringId", name>>
<1>2. base \in Seq(T) /\ path \in Seq(T) /\ Len(base) = 3 /\ base[1] = "offerings"
  BY <1>1
<1> HIDE DEF base
<1>3. (base \o path)[1] = base[1]
  <2>1. 1 \in 1 .. Len(base) + Len(path)
    BY <1>2
  <2> QED BY <1>2, <2>1, ConcatProperties
<1> QED BY <1>2, <1>3 DEF base

LEMMA IdBelow == \A x : HasParam(<<x>> \o <<":id">>, ":id")
<1> TAKE x
<1> DEFINE base == <<x>>
           rest == <<":id">>
           S == {x, ":id"}
<1>1. base \in Seq(S) /\ rest \in Seq(S) /\ Len(base) = 1 /\ Len(rest) = 1 /\ rest[1] = ":id"
  OBVIOUS
<1> HIDE DEF base, rest, S
<1>2. Len(base \o rest) = 2 /\ (base \o rest)[2] = rest[1] /\ base \o rest \in Seq(S)
  BY <1>1, ConcatProperties
<1>3. 2 \in DOMAIN (base \o rest)
  BY <1>2
<1>4. HasParam(base \o rest, ":id")
  BY <1>1, <1>2, <1>3 DEF HasParam
<1> QED BY <1>4 DEF base, rest

LEMMA LedRows ==
    /\ \A gate, path, h : gate.kind # "classroom" =>
          /\ LedRow(gate, GET(path, h)) /\ LedRow(gate, POST(path, h)) /\ LedRow(gate, PUT(path, h))
          /\ LedRow(gate, PATCH(path, h)) /\ LedRow(gate, DELETE(path, h))
    /\ \A x, resource, d : LedRow(StaffGate(<<x>>, resource), Custom(<<":id">>, d))
    /\ \A name, resource, path, h : IsPath(path) =>
          /\ LedRow(InOffering(name, resource), GET(path, h))
          /\ LedRow(InOffering(name, resource), POST(path, h))
          /\ LedRow(InOffering(name, resource), PATCH(path, h))
          /\ LedRow(InOffering(name, resource), DELETE(path, h))
          /\ LedRow(InOffering(name, resource), Custom(path, h))
    /\ \A gate, q : gate.kind \in {"none", "superadmin", "under", "singleton", "post"} =>
          LedRow(gate, q)
<1>1. ASSUME NEW gate, NEW path, NEW h, gate.kind # "classroom"
      PROVE  /\ LedRow(gate, GET(path, h)) /\ LedRow(gate, POST(path, h))
             /\ LedRow(gate, PUT(path, h)) /\ LedRow(gate, PATCH(path, h))
             /\ LedRow(gate, DELETE(path, h))
  BY <1>1, RowFields DEF LedRow
<1>2. ASSUME NEW x, NEW resource, NEW d
      PROVE  LedRow(StaffGate(<<x>>, resource), Custom(<<":id">>, d))
  <2>1. /\ StaffGate(<<x>>, resource).base = <<x>> /\ StaffGate(<<x>>, resource).param = ":id"
        /\ StaffGate(<<x>>, resource).kind = "staff" /\ Custom(<<":id">>, d).path = <<":id">>
    BY GateFields, RowFields
  <2>2. HasParam(<<x>> \o <<":id">>, ":id")
    BY IdBelow
  <2> QED BY <2>1, <2>2 DEF LedRow
<1>3. ASSUME NEW name, NEW resource, NEW path, NEW h, IsPath(path)
      PROVE  /\ LedRow(InOffering(name, resource), GET(path, h))
             /\ LedRow(InOffering(name, resource), POST(path, h))
             /\ LedRow(InOffering(name, resource), PATCH(path, h))
             /\ LedRow(InOffering(name, resource), DELETE(path, h))
             /\ LedRow(InOffering(name, resource), Custom(path, h))
  <2>1. /\ InOffering(name, resource).base = <<"offerings", ":offeringId", name>>
        /\ InOffering(name, resource).kind = "classroom"
    BY GateFields
  <2>2. (<<"offerings", ":offeringId", name>> \o path)[1] = "offerings"
    BY <1>3, BaseFirst
  <2>3. /\ GET(path, h).path = path /\ POST(path, h).path = path /\ PATCH(path, h).path = path
        /\ DELETE(path, h).path = path /\ Custom(path, h).path = path
    BY RowFields
  <2> HIDE DEF InOffering
  <2> QED BY <2>1, <2>2, <2>3 DEF LedRow
<1>4. ASSUME NEW gate, NEW q, gate.kind \in {"none", "superadmin", "under", "singleton", "post"}
      PROVE  LedRow(gate, q)
  BY <1>4 DEF LedRow
<1> QED BY <1>1, <1>2, <1>3, <1>4

LEMMA LedRoutes == \A r \in Router : Led(r)
<1> USE RowLed, LedRows, ShortPaths, GateFields
<1>1. \A r \in DirectoryRoutes : Led(r)
  BY DEF DirectoryRoutes
<1>2. \A r \in OwnRecordRoutes : Led(r)
  BY DEF OwnRecordRoutes
<1>3. \A r \in StructureRoutes : Led(r)
  BY DEF StructureRoutes
<1>4. \A r \in CalendarRoutes : Led(r)
  BY DEF CalendarRoutes
<1>5. \A r \in OfferingRoutes : Led(r)
  BY DEF OfferingRoutes
<1>6. \A r \in StudentRoutes : Led(r)
  BY DEF StudentRoutes
<1>7. \A r \in ContentRoutes : Led(r)
  BY DEF ContentRoutes
<1>8. \A r \in CourseworkRoutes : Led(r)
  BY DEF CourseworkRoutes
<1>9. \A r \in ExamRoutes : Led(r)
  BY DEF ExamRoutes
<1>10. \A r \in RecordRoutes : Led(r)
  BY DEF RecordRoutes
<1>11. \A r \in PostRoutes : Led(r)
  BY DEF PostRoutes
<1>12. \A r \in ActivityRoutes : Led(r)
  BY DEF ActivityRoutes
<1>13. \A r \in CommunicationRoutes : Led(r)
  BY DEF CommunicationRoutes
<1>14. \A r \in IdentityRoutes : Led(r)
  BY DEF IdentityRoutes
<1>15. \A r \in SubscriptionRoutes : Led(r)
  BY DEF SubscriptionRoutes
<1>16. \A r \in PolicyRoutes : Led(r)
  BY DEF PolicyRoutes
<1>17. \A r \in UploadRoutes : Led(r)
  BY DEF UploadRoutes
<1> QED BY <1>1, <1>2, <1>3, <1>4, <1>5, <1>6, <1>7, <1>8, <1>9, <1>10, <1>11,
       <1>12, <1>13, <1>14, <1>15, <1>16, <1>17
       DEF Router

(* A path on which no call is confined by the body of the request alone.     *)
Harmless(s) == s.do = "serve" => "body" \notin s.teaching /\ "body" \notin s.others

Bodiless(path) ==
    /\ \E S : path \in Seq(S) /\ \A s \in S : Harmless(s)
    /\ Len(path) > 0 /\ path[Len(path)].do = "serve"

LEMMA BodilessPaths ==
    /\ \A s : s.do = "serve" /\ Harmless(s) => Bodiless(<<s>>)
    /\ \A a, s : s.do = "serve" /\ Harmless(a) /\ Harmless(s) => Bodiless(<<a, s>>)
    /\ \A a, b, s : s.do = "serve" /\ Harmless(a) /\ Harmless(b) /\ Harmless(s) =>
          Bodiless(<<a, b, s>>)
    /\ \A a, b, c, s : s.do = "serve" /\ Harmless(a) /\ Harmless(b) /\ Harmless(c) /\ Harmless(s) =>
          Bodiless(<<a, b, c, s>>)
    /\ \A a, b, c, d, s : s.do = "serve" /\ Harmless(a) /\ Harmless(b) /\ Harmless(c) /\ Harmless(d)
                              /\ Harmless(s) => Bodiless(<<a, b, c, d, s>>)
    /\ \A a, b, c, d, e, s : s.do = "serve" /\ Harmless(a) /\ Harmless(b) /\ Harmless(c)
                                 /\ Harmless(d) /\ Harmless(e) /\ Harmless(s) =>
          Bodiless(<<a, b, c, d, e, s>>)
<1>1. ASSUME NEW S, NEW path \in Seq(S), \A s \in S : Harmless(s), Len(path) > 0,
             path[Len(path)].do = "serve"
      PROVE  Bodiless(path)
  BY <1>1, Zenon DEF Bodiless
<1>2. ASSUME NEW s, s.do = "serve", Harmless(s)
      PROVE  Bodiless(<<s>>)
  <2> DEFINE path == <<s>>
             S == {s}
  <2>1. path \in Seq(S) /\ Len(path) = 1 /\ path[1] = s
    OBVIOUS
  <2>2. \A x \in S : Harmless(x)
    BY <1>2
  <2> HIDE DEF path, S
  <2>3. Len(path) > 0 /\ path[Len(path)].do = "serve"
    <3>1. s.do = "serve"
      BY <1>2
    <3> QED BY <2>1, <3>1
  <2>4. Bodiless(path)
    BY <1>1, <2>1, <2>2, <2>3
  <2> QED BY <2>4 DEF path
<1>3. ASSUME NEW a, NEW s, s.do = "serve", Harmless(a), Harmless(s)
      PROVE  Bodiless(<<a, s>>)
  <2> DEFINE path == <<a, s>>
             S == {a, s}
  <2>1. path \in Seq(S) /\ Len(path) = 2 /\ path[2] = s
    OBVIOUS
  <2>2. \A x \in S : Harmless(x)
    BY <1>3
  <2> HIDE DEF path, S
  <2>3. Len(path) > 0 /\ path[Len(path)].do = "serve"
    <3>1. s.do = "serve"
      BY <1>3
    <3> QED BY <2>1, <3>1
  <2>4. Bodiless(path)
    BY <1>1, <2>1, <2>2, <2>3
  <2> QED BY <2>4 DEF path
<1>4. ASSUME NEW a, NEW b, NEW s, s.do = "serve", Harmless(a), Harmless(b), Harmless(s)
      PROVE  Bodiless(<<a, b, s>>)
  <2> DEFINE path == <<a, b, s>>
             S == {a, b, s}
  <2>1. path \in Seq(S) /\ Len(path) = 3 /\ path[3] = s
    OBVIOUS
  <2>2. \A x \in S : Harmless(x)
    BY <1>4
  <2> HIDE DEF path, S
  <2>3. Len(path) > 0 /\ path[Len(path)].do = "serve"
    <3>1. s.do = "serve"
      BY <1>4
    <3> QED BY <2>1, <3>1
  <2>4. Bodiless(path)
    BY <1>1, <2>1, <2>2, <2>3
  <2> QED BY <2>4 DEF path
<1>5. ASSUME NEW a, NEW b, NEW c, NEW s, s.do = "serve", Harmless(a), Harmless(b), Harmless(c), Harmless(s)
      PROVE  Bodiless(<<a, b, c, s>>)
  <2> DEFINE path == <<a, b, c, s>>
             S == {a, b, c, s}
  <2>1. path \in Seq(S) /\ Len(path) = 4 /\ path[4] = s
    OBVIOUS
  <2>2. \A x \in S : Harmless(x)
    BY <1>5
  <2> HIDE DEF path, S
  <2>3. Len(path) > 0 /\ path[Len(path)].do = "serve"
    <3>1. s.do = "serve"
      BY <1>5
    <3> QED BY <2>1, <3>1
  <2>4. Bodiless(path)
    BY <1>1, <2>1, <2>2, <2>3
  <2> QED BY <2>4 DEF path
<1>6. ASSUME NEW a, NEW b, NEW c, NEW d, NEW s,
             s.do = "serve", Harmless(a), Harmless(b), Harmless(c), Harmless(d), Harmless(s)
      PROVE  Bodiless(<<a, b, c, d, s>>)
  <2> DEFINE path == <<a, b, c, d, s>>
             S == {a, b, c, d, s}
  <2>1. path \in Seq(S) /\ Len(path) = 5 /\ path[5] = s
    OBVIOUS
  <2>2. \A x \in S : Harmless(x)
    BY <1>6
  <2> HIDE DEF path, S
  <2>3. Len(path) > 0 /\ path[Len(path)].do = "serve"
    <3>1. s.do = "serve"
      BY <1>6
    <3> QED BY <2>1, <3>1
  <2>4. Bodiless(path)
    BY <1>1, <2>1, <2>2, <2>3
  <2> QED BY <2>4 DEF path
<1>7. ASSUME NEW a, NEW b, NEW c, NEW d, NEW e, NEW s,
             s.do = "serve", Harmless(a), Harmless(b), Harmless(c), Harmless(d), Harmless(e),
             Harmless(s)
      PROVE  Bodiless(<<a, b, c, d, e, s>>)
  <2> DEFINE path == <<a, b, c, d, e, s>>
             S == {a, b, c, d, e, s}
  <2>1. path \in Seq(S) /\ Len(path) = 6 /\ path[6] = s
    OBVIOUS
  <2>2. \A x \in S : Harmless(x)
    BY <1>7
  <2> HIDE DEF path, S
  <2>3. Len(path) > 0 /\ path[Len(path)].do = "serve"
    <3>1. s.do = "serve"
      BY <1>7
    <3> QED BY <2>1, <3>1
  <2>4. Bodiless(path)
    BY <1>1, <2>1, <2>2, <2>3
  <2> QED BY <2>4 DEF path
<1> QED BY <1>2, <1>3, <1>4, <1>5, <1>6, <1>7

LEMMA HarmlessSteps ==
    /\ Harmless(Input) /\ Harmless(Teach) /\ Harmless(TeachOrOwn) /\ Harmless(OwnRow)
    /\ Harmless(NotSelf) /\ Harmless(SameUnit) /\ Harmless(ScopeAuthority) /\ Harmless(CanPublish)
    /\ Harmless(OrReader) /\ Harmless(OrMember) /\ Harmless(OrAuthor) /\ Harmless(OrVisible)
    /\ Harmless(Demand) /\ Harmless(PostCheck)
    /\ \A level, scopes : Harmless(Rank(level, scopes))
    /\ \A x, y : "body" \notin x /\ "body" \notin y => Harmless(ServeBy(x, y)) /\ ServeBy(x, y).do = "serve"
    /\ \A x : "body" \notin x => Harmless(Serve(x)) /\ Serve(x).do = "serve"
BY DEF Harmless, Input, Teach, TeachOrOwn, OwnRow, NotSelf, SameUnit, ScopeAuthority,
   CanPublish,
       OrReader, OrMember, OrAuthor, OrVisible, Demand, PostCheck, Rank, ServeBy, Serve

(* A row of a table is for handlers that serve the body, or bodiless.        *)
BodilessRow(tableRow) == tableRow.handlers \subseteq BodyServing \/ \A path \in tableRow.paths : Bodiless(path)

LEMMA BodilessRows ==
    /\ \A handlers, path : Bodiless(path) => BodilessRow(Each(handlers, {path}))
    /\ \A handlers, path, other : Bodiless(path) /\ Bodiless(other) =>
          BodilessRow(Each(handlers, {path, other}))
    /\ \A handlers, paths : handlers \subseteq BodyServing => BodilessRow(Each(handlers, paths))
BY DEF BodilessRow, Each

LEMMA HandlersAreBodiless == \A tableRow \in HandlerRows : BodilessRow(tableRow)
<1> USE BodilessRows, BodilessPaths, HarmlessSteps DEF Offering, Row, Caller, BodyServing
<1>1. \A tableRow \in CollegeHandlers : BodilessRow(tableRow)
  BY DEF CollegeHandlers
<1>2. \A tableRow \in DepartmentHandlers : BodilessRow(tableRow)
  BY DEF DepartmentHandlers
<1>3. \A tableRow \in ProgramHandlers : BodilessRow(tableRow)
  BY DEF ProgramHandlers
<1>4. \A tableRow \in CourseHandlers : BodilessRow(tableRow)
  BY DEF CourseHandlers
<1>5. \A tableRow \in CurriculumHandlers : BodilessRow(tableRow)
  BY DEF CurriculumHandlers
<1>6. \A tableRow \in AcademicYearHandlers : BodilessRow(tableRow)
  BY DEF AcademicYearHandlers
<1>7. \A tableRow \in SemesterHandlers : BodilessRow(tableRow)
  BY DEF SemesterHandlers
<1>8. \A tableRow \in SettingsHandlers : BodilessRow(tableRow)
  BY DEF SettingsHandlers
<1>9. \A tableRow \in OfferingHandlers : BodilessRow(tableRow)
  BY DEF OfferingHandlers
<1>10. \A tableRow \in CohortGroupHandlers : BodilessRow(tableRow)
  BY DEF CohortGroupHandlers
<1>11. \A tableRow \in StudentHandlers : BodilessRow(tableRow)
  BY DEF StudentHandlers
<1>12. \A tableRow \in TranscriptHandlers : BodilessRow(tableRow)
  BY DEF TranscriptHandlers
<1>13. \A tableRow \in ApplicationHandlers : BodilessRow(tableRow)
  BY DEF ApplicationHandlers
<1>14. \A tableRow \in ReviewHandlers : BodilessRow(tableRow)
  BY DEF ReviewHandlers
<1>15. \A tableRow \in TeacherHandlers : BodilessRow(tableRow)
  BY DEF TeacherHandlers
<1>16. \A tableRow \in EnrollmentHandlers : BodilessRow(tableRow)
  BY DEF EnrollmentHandlers
<1>17. \A tableRow \in EnrollmentRequestHandlers : BodilessRow(tableRow)
  BY DEF EnrollmentRequestHandlers
<1>18. \A tableRow \in LeaveHandlers : BodilessRow(tableRow)
  BY DEF LeaveHandlers
<1>19. \A tableRow \in SectionHandlers : BodilessRow(tableRow)
  BY DEF SectionHandlers
<1>20. \A tableRow \in LessonHandlers : BodilessRow(tableRow)
  BY DEF LessonHandlers
<1>21. \A tableRow \in AssignmentHandlers : BodilessRow(tableRow)
  BY DEF AssignmentHandlers
<1>22. \A tableRow \in SubmissionHandlers : BodilessRow(tableRow)
  BY DEF SubmissionHandlers
<1>23. \A tableRow \in ExamHandlers : BodilessRow(tableRow)
  BY DEF ExamHandlers
<1>24. \A tableRow \in AttemptHandlers : BodilessRow(tableRow)
  BY DEF AttemptHandlers
<1>25. \A tableRow \in QuestionBankHandlers : BodilessRow(tableRow)
  BY DEF QuestionBankHandlers
<1>26. \A tableRow \in AttendanceHandlers : BodilessRow(tableRow)
  BY DEF AttendanceHandlers
<1>27. \A tableRow \in ExcuseHandlers : BodilessRow(tableRow)
  BY DEF ExcuseHandlers
<1>28. \A tableRow \in GradingHandlers : BodilessRow(tableRow)
  BY DEF GradingHandlers
<1>29. \A tableRow \in QAHandlers : BodilessRow(tableRow)
  <2>1. BodilessRow(Each({"ListQAQuestions"}, {<<Serve(Offering)>>, <<ServeBy(Offering, Offering \cup Caller)>>}))
    OBVIOUS
  <2>2. BodilessRow(Each({"AskQuestion"}, {<<Input, Serve(Offering \cup Caller)>>,
           <<Input, Teach, Serve(Offering \cup Caller \cup {"answer"})>>}))
    OBVIOUS
  <2> QED BY <2>1, <2>2 DEF QAHandlers
<1>30. \A tableRow \in PostWriters : BodilessRow(tableRow)
  BY DEF PostWriters
<1>31. \A tableRow \in PostReaders : BodilessRow(tableRow)
  BY DEF PostReaders
<1>32. \A tableRow \in ActivityReaders : BodilessRow(tableRow)
  BY DEF ActivityReaders
<1>33. \A tableRow \in ActivityWriters : BodilessRow(tableRow)
  BY DEF ActivityWriters
<1>34. \A tableRow \in MuteHandlers : BodilessRow(tableRow)
  BY DEF MuteHandlers
<1>35. \A tableRow \in NotificationHandlers : BodilessRow(tableRow)
  BY DEF NotificationHandlers
<1>36. \A tableRow \in TokenHandlers : BodilessRow(tableRow)
  BY DEF TokenHandlers
<1>37. \A tableRow \in ProfileHandlers : BodilessRow(tableRow)
  BY DEF ProfileHandlers
<1>38. \A tableRow \in PreferenceHandlers : BodilessRow(tableRow)
  BY DEF PreferenceHandlers
<1>39. \A tableRow \in DirectoryHandlers : BodilessRow(tableRow)
  BY DEF DirectoryHandlers
<1>40. \A tableRow \in AccountHandlers : BodilessRow(tableRow)
  BY DEF AccountHandlers
<1>41. \A tableRow \in SubscriptionHandlers : BodilessRow(tableRow)
  BY DEF SubscriptionHandlers
<1>42. \A tableRow \in PolicyHandlers : BodilessRow(tableRow)
  BY DEF PolicyHandlers
<1>43. \A tableRow \in UploadHandlers : BodilessRow(tableRow)
  BY DEF UploadHandlers
<1> QED BY <1>1, <1>2, <1>3, <1>4, <1>5, <1>6, <1>7, <1>8, <1>9, <1>10, <1>11, <1>12, <1>13,
     <1>14, <1>15, <1>16, <1>17, <1>18, <1>19, <1>20, <1>21, <1>22, <1>23, <1>24, <1>25,
     <1>26, <1>27, <1>28, <1>29, <1>30, <1>31, <1>32, <1>33, <1>34, <1>35, <1>36, <1>37,
     <1>38, <1>39, <1>40, <1>41, <1>42, <1>43 DEF HandlerRows

(* The handlers that check for themselves, and their paths.                  *)
NarrowedCreations ==
    {<<"department", "CreateDepartment">>, <<"program", "CreateProgram">>,
     <<"course", "CreateCourse">>, <<"offering", "CreateOffering">>,
     <<"student", "CreateStudent">>}

ActivityOps ==
    {"CreateActivity", "UpdateActivity", "DeleteActivity", "RemoveActivityAttachment"} \cup ActivityDispatch

SelfChecking ==
    {"CreateDepartment", "CreateProgram", "CreateCourse", "CreateOffering", "CreateStudent",
     "RemovePostAttachment"} \cup ActivityOps

NarrowPath(resource, on) == <<Input, Narrow(resource, "create", on), Serve({"body"})>>

ActivityPaths(all) ==
    {<<Input, CanPublish, Demand, Serve(all)>>, <<Input, CanPublish, OrAuthor, Demand, Serve(all)>>}

PathFits(h, path) ==
    /\ \A resource : <<resource, h>> \in NarrowedCreations => \E on : path = NarrowPath(resource, on)
    /\ h = "RemovePostAttachment" => \E all : path = <<Input, PostCheck, Serve(all)>>
    /\ h \in ActivityOps => \E all : path \in ActivityPaths(all)

SelfCheckingRow(tableRow) == \A h \in tableRow.handlers, path \in tableRow.paths : PathFits(h, path)

LEMMA SelfCheckingRows ==
    /\ \A handlers, paths : handlers \cap SelfChecking = {} => SelfCheckingRow(Each(handlers, paths))
    /\ \A on :
          /\ SelfCheckingRow(Each({"CreateDepartment"},
                {<<Input, Narrow("department", "create", on), Serve({"body"})>>}))
          /\ SelfCheckingRow(Each({"CreateProgram"},
                {<<Input, Narrow("program", "create", on), Serve({"body"})>>}))
          /\ SelfCheckingRow(Each({"CreateCourse"},
                {<<Input, Narrow("course", "create", on), Serve({"body"})>>}))
          /\ SelfCheckingRow(Each({"CreateOffering"},
                {<<Input, Narrow("offering", "create", on), Serve({"body"})>>}))
          /\ SelfCheckingRow(Each({"CreateStudent"},
                {<<Input, Narrow("student", "create", on), Serve({"body"})>>}))
    /\ \A all : SelfCheckingRow(Each({"RemovePostAttachment"}, {<<Input, PostCheck, Serve(all)>>}))
    /\ \A handlers, all : handlers \subseteq ActivityOps =>
          /\ SelfCheckingRow(Each(handlers, {<<Input, CanPublish, Demand, Serve(all)>>}))
          /\ SelfCheckingRow(Each(handlers, {<<Input, CanPublish, OrAuthor, Demand, Serve(all)>>}))
<1>1. \A handlers, paths : Each(handlers, paths).handlers = handlers /\ Each(handlers, paths).paths = paths
  BY DEF Each
<1>10. \A handlers, paths : (\A h \in handlers, path \in paths : PathFits(h, path))
                                => SelfCheckingRow(Each(handlers, paths))
  BY <1>1 DEF SelfCheckingRow
<1>2. ASSUME NEW h, NEW path, h \notin SelfChecking PROVE PathFits(h, path)
  BY <1>2 DEF PathFits, SelfChecking, NarrowedCreations
<1>3. ASSUME NEW resource, NEW h, NEW on, <<resource, h>> \in NarrowedCreations
      PROVE  PathFits(h, NarrowPath(resource, on))
  <2>1. h \notin ActivityOps \cup {"RemovePostAttachment"}
    BY <1>3 DEF NarrowedCreations, ActivityOps, ActivityDispatch
  <2>2. \A other : <<other, h>> \in NarrowedCreations => other = resource
    BY <1>3 DEF NarrowedCreations
  <2> QED BY <2>1, <2>2, Zenon DEF PathFits
<1>4. ASSUME NEW all PROVE PathFits("RemovePostAttachment", <<Input, PostCheck, Serve(all)>>)
  <2>1. /\ "RemovePostAttachment" \notin ActivityOps
        /\ \A resource : <<resource, "RemovePostAttachment">> \notin NarrowedCreations
    BY DEF NarrowedCreations, ActivityOps, ActivityDispatch
  <2> QED BY <2>1, Zenon DEF PathFits
<1>5. ASSUME NEW all, NEW h \in ActivityOps, NEW path \in ActivityPaths(all) PROVE PathFits(h, path)
  <2>1. h # "RemovePostAttachment" /\ \A resource : <<resource, h>> \notin NarrowedCreations
    BY DEF NarrowedCreations, ActivityOps, ActivityDispatch
  <2> QED BY <2>1, Zenon DEF PathFits
<1>6. ASSUME NEW handlers, NEW paths, handlers \cap SelfChecking = {}
      PROVE  SelfCheckingRow(Each(handlers, paths))
  BY <1>1, <1>2, <1>6 DEF SelfCheckingRow
<1>7. ASSUME NEW resource, NEW h, NEW on, <<resource, h>> \in NarrowedCreations
      PROVE  SelfCheckingRow(Each({h}, {<<Input, Narrow(resource, "create", on), Serve({"body"})>>}))
  <2>1. PathFits(h, <<Input, Narrow(resource, "create", on), Serve({"body"})>>)
    BY <1>3, <1>7 DEF NarrowPath
  <2> QED BY <1>10, <2>1
<1>8. ASSUME NEW all
      PROVE  SelfCheckingRow(Each({"RemovePostAttachment"}, {<<Input, PostCheck, Serve(all)>>}))
  BY <1>4, <1>10
<1>9. ASSUME NEW handlers, NEW all, handlers \subseteq ActivityOps
      PROVE  /\ SelfCheckingRow(Each(handlers, {<<Input, CanPublish, Demand, Serve(all)>>}))
             /\ SelfCheckingRow(Each(handlers, {<<Input, CanPublish, OrAuthor, Demand, Serve(all)>>}))
  <2>1. \A h \in handlers : /\ PathFits(h, <<Input, CanPublish, Demand, Serve(all)>>)
                            /\ PathFits(h, <<Input, CanPublish, OrAuthor, Demand, Serve(all)>>)
    BY <1>5, <1>9, Zenon DEF ActivityPaths
  <2> QED BY <1>10, <2>1
<1>11. ASSUME NEW on
       PROVE  /\ SelfCheckingRow(Each({"CreateDepartment"},
                 {<<Input, Narrow("department", "create", on), Serve({"body"})>>}))
              /\ SelfCheckingRow(Each({"CreateProgram"},
                 {<<Input, Narrow("program", "create", on), Serve({"body"})>>}))
              /\ SelfCheckingRow(Each({"CreateCourse"},
                 {<<Input, Narrow("course", "create", on), Serve({"body"})>>}))
              /\ SelfCheckingRow(Each({"CreateOffering"},
                 {<<Input, Narrow("offering", "create", on), Serve({"body"})>>}))
              /\ SelfCheckingRow(Each({"CreateStudent"},
                 {<<Input, Narrow("student", "create", on), Serve({"body"})>>}))
  <2>1. /\ <<"department", "CreateDepartment">> \in NarrowedCreations
        /\ <<"program", "CreateProgram">> \in NarrowedCreations
        /\ <<"course", "CreateCourse">> \in NarrowedCreations
        /\ <<"offering", "CreateOffering">> \in NarrowedCreations
        /\ <<"student", "CreateStudent">> \in NarrowedCreations
    BY DEF NarrowedCreations
  <2> QED BY <1>7, <2>1
<1> QED BY <1>6, <1>8, <1>9, <1>11

LEMMA HandlersCheck == \A tableRow \in HandlerRows : SelfCheckingRow(tableRow)
<1> USE SelfCheckingRows DEF SelfChecking, NarrowedCreations, ActivityOps, ActivityDispatch
<1>1. \A tableRow \in CollegeHandlers : SelfCheckingRow(tableRow)
  BY DEF CollegeHandlers
<1>2. \A tableRow \in DepartmentHandlers : SelfCheckingRow(tableRow)
  BY DEF DepartmentHandlers
<1>3. \A tableRow \in ProgramHandlers : SelfCheckingRow(tableRow)
  BY DEF ProgramHandlers
<1>4. \A tableRow \in CourseHandlers : SelfCheckingRow(tableRow)
  BY DEF CourseHandlers
<1>5. \A tableRow \in CurriculumHandlers : SelfCheckingRow(tableRow)
  BY DEF CurriculumHandlers
<1>6. \A tableRow \in AcademicYearHandlers : SelfCheckingRow(tableRow)
  BY DEF AcademicYearHandlers
<1>7. \A tableRow \in SemesterHandlers : SelfCheckingRow(tableRow)
  BY DEF SemesterHandlers
<1>8. \A tableRow \in SettingsHandlers : SelfCheckingRow(tableRow)
  BY DEF SettingsHandlers
<1>9. \A tableRow \in OfferingHandlers : SelfCheckingRow(tableRow)
  BY DEF OfferingHandlers
<1>10. \A tableRow \in CohortGroupHandlers : SelfCheckingRow(tableRow)
  BY DEF CohortGroupHandlers
<1>11. \A tableRow \in StudentHandlers : SelfCheckingRow(tableRow)
  BY DEF StudentHandlers
<1>12. \A tableRow \in TranscriptHandlers : SelfCheckingRow(tableRow)
  BY DEF TranscriptHandlers
<1>13. \A tableRow \in ApplicationHandlers : SelfCheckingRow(tableRow)
  BY DEF ApplicationHandlers
<1>14. \A tableRow \in ReviewHandlers : SelfCheckingRow(tableRow)
  BY DEF ReviewHandlers
<1>15. \A tableRow \in TeacherHandlers : SelfCheckingRow(tableRow)
  BY DEF TeacherHandlers
<1>16. \A tableRow \in EnrollmentHandlers : SelfCheckingRow(tableRow)
  BY DEF EnrollmentHandlers
<1>17. \A tableRow \in EnrollmentRequestHandlers : SelfCheckingRow(tableRow)
  BY DEF EnrollmentRequestHandlers
<1>18. \A tableRow \in LeaveHandlers : SelfCheckingRow(tableRow)
  BY DEF LeaveHandlers
<1>19. \A tableRow \in SectionHandlers : SelfCheckingRow(tableRow)
  BY DEF SectionHandlers
<1>20. \A tableRow \in LessonHandlers : SelfCheckingRow(tableRow)
  BY DEF LessonHandlers
<1>21. \A tableRow \in AssignmentHandlers : SelfCheckingRow(tableRow)
  BY DEF AssignmentHandlers
<1>22. \A tableRow \in SubmissionHandlers : SelfCheckingRow(tableRow)
  BY DEF SubmissionHandlers
<1>23. \A tableRow \in ExamHandlers : SelfCheckingRow(tableRow)
  BY DEF ExamHandlers
<1>24. \A tableRow \in AttemptHandlers : SelfCheckingRow(tableRow)
  BY DEF AttemptHandlers
<1>25. \A tableRow \in QuestionBankHandlers : SelfCheckingRow(tableRow)
  BY DEF QuestionBankHandlers
<1>26. \A tableRow \in AttendanceHandlers : SelfCheckingRow(tableRow)
  BY DEF AttendanceHandlers
<1>27. \A tableRow \in ExcuseHandlers : SelfCheckingRow(tableRow)
  BY DEF ExcuseHandlers
<1>28. \A tableRow \in GradingHandlers : SelfCheckingRow(tableRow)
  BY DEF GradingHandlers
<1>29. \A tableRow \in QAHandlers : SelfCheckingRow(tableRow)
  BY DEF QAHandlers
<1>30. \A tableRow \in PostWriters : SelfCheckingRow(tableRow)
  BY DEF PostWriters
<1>31. \A tableRow \in PostReaders : SelfCheckingRow(tableRow)
  BY DEF PostReaders
<1>32. \A tableRow \in ActivityReaders : SelfCheckingRow(tableRow)
  BY DEF ActivityReaders
<1>33. \A tableRow \in ActivityWriters : SelfCheckingRow(tableRow)
  BY DEF ActivityWriters
<1>34. \A tableRow \in MuteHandlers : SelfCheckingRow(tableRow)
  BY DEF MuteHandlers
<1>35. \A tableRow \in NotificationHandlers : SelfCheckingRow(tableRow)
  BY DEF NotificationHandlers
<1>36. \A tableRow \in TokenHandlers : SelfCheckingRow(tableRow)
  BY DEF TokenHandlers
<1>37. \A tableRow \in ProfileHandlers : SelfCheckingRow(tableRow)
  BY DEF ProfileHandlers
<1>38. \A tableRow \in PreferenceHandlers : SelfCheckingRow(tableRow)
  BY DEF PreferenceHandlers
<1>39. \A tableRow \in DirectoryHandlers : SelfCheckingRow(tableRow)
  BY DEF DirectoryHandlers
<1>40. \A tableRow \in AccountHandlers : SelfCheckingRow(tableRow)
  BY DEF AccountHandlers
<1>41. \A tableRow \in SubscriptionHandlers : SelfCheckingRow(tableRow)
  BY DEF SubscriptionHandlers
<1>42. \A tableRow \in PolicyHandlers : SelfCheckingRow(tableRow)
  BY DEF PolicyHandlers
<1>43. \A tableRow \in UploadHandlers : SelfCheckingRow(tableRow)
  BY DEF UploadHandlers
<1> QED BY <1>1, <1>2, <1>3, <1>4, <1>5, <1>6, <1>7, <1>8, <1>9, <1>10, <1>11, <1>12, <1>13,
     <1>14, <1>15, <1>16, <1>17, <1>18, <1>19, <1>20, <1>21, <1>22, <1>23, <1>24, <1>25,
     <1>26, <1>27, <1>28, <1>29, <1>30, <1>31, <1>32, <1>33, <1>34, <1>35, <1>36, <1>37,
     <1>38, <1>39, <1>40, <1>41, <1>42, <1>43 DEF HandlerRows

LEMMA ProperRoutes == \A r \in Router : Proper(r)
BY PlacedRoutes, PublishedRoutes, LedRoutes DEF Proper

(* What a path of a routed handler is.                                       *)
LEMMA RoutedPaths ==
    ASSUME NEW r \in Router, NEW action, NEW h \in HandlersOf(r, action), NEW path \in Handler[h]
    PROVE  /\ h \notin BodyServing => Bodiless(path)
           /\ PathFits(h, path)
<1>1. h \in DOMAIN Handler
  <2>1. r.custom = {} => h = r.handler
    BY DEF HandlersOf
  <2>2. r.custom # {} => \E d \in r.custom : h = d[2]
    BY DEF HandlersOf
  <2> QED BY <2>1, <2>2, HandlersAssumption
<1>2. h \in UNION {tableRow.handlers : tableRow \in HandlerRows}
  BY <1>1 DEF Handler
<1>3. Handler[h] = UNION {tableRow.paths : tableRow \in {q \in HandlerRows : h \in q.handlers}}
  BY <1>2 DEF Handler
<1>4. PICK tableRow \in HandlerRows : h \in tableRow.handlers /\ path \in tableRow.paths
  BY <1>3
<1>5. h \notin BodyServing => Bodiless(path)
  BY <1>4, HandlersAreBodiless DEF BodilessRow
<1>6. PathFits(h, path)
  BY <1>4, HandlersCheck DEF SelfCheckingRow
<1> QED BY <1>5, <1>6

(* A request behind the gate has the action its route attributes and the     *)
(* decision its gate took.                                                   *)
Attributed ==
    /\ phase \in {"arrived", "handling", "served"} =>
          request.role \in Roles /\ request.suffix \in ColonSuffixes(Route)
    /\ phase \in {"handling", "served"} =>
          /\ access.action = Attribute /\ access.action # "none"
          /\ access.decision = Decide(Route.gate, access.action, request.role, Facts)

Disembodied == \A h \in HandlersOf(Route, Attribute) : h \notin BodyServing

(* The unit in the body has been checked.                                    *)
Named(resource, on) ==
    CheckStaffOn(request.role, resource, "create", on, [Facts EXCEPT !.home = request.body]).answer
        = "allowed"

PostAllowed == CheckPost(request.role, "update", Facts).answer = "allowed"

Entitled == Facts.author \/ Governs("activity", {"university", "college", "department"})

LEMMA SameRequest ==
    ASSUME request' = request
    PROVE  /\ Route' = Route /\ Facts' = Facts /\ Attribute' = Attribute
           /\ \A resource, on : Named(resource, on)' = Named(resource, on)
           /\ PostAllowed' = PostAllowed /\ Entitled' = Entitled
           /\ Disembodied' = Disembodied
<1>1. Route' = Route /\ Facts' = Facts
  BY DEF Route, Facts
<1>2. Attribute' = Attribute
  BY <1>1 DEF Attribute
<1>3. ASSUME NEW resource, NEW on PROVE Named(resource, on)' = Named(resource, on)
  BY <1>1 DEF Named
<1>4. PostAllowed' = PostAllowed
  BY <1>1 DEF PostAllowed
<1>5. Entitled' = Entitled
  BY <1>1 DEF Entitled, Governs
<1>6. Disembodied' = Disembodied
  BY <1>1, <1>2 DEF Disembodied
<1> QED BY <1>1, <1>2, <1>3, <1>4, <1>5, <1>6

(* Four kinds of steps, of which two matter behind the gate.                 *)
LEMMA KindsOfSteps ==
    ASSUME [Next]_vars, phase' \in {"handling", "served"}
    PROVE  \/ UNCHANGED vars
           \/ PassGate
           \/ Handle /\ UNCHANGED <<request, access>>
<1>1. CASE Boot \/ TurnedAway \/ Respond
  BY <1>1 DEF Boot, TurnedAway, Refuse, Respond
<1>2. ASSUME NEW r \in Router, Arrive(r) PROVE FALSE
  BY <1>2 DEF Arrive
<1>3. CASE Handle
  BY <1>3 DEF Handle, InputMalformed, CheckRefuses, Refuse, InputParses, CheckPasses, Proceed,
              GatherStanding, Stand, CallService
<1> QED BY <1>1, <1>2, <1>3 DEF Next

LEMMA AttributedStep ==
    ASSUME Attributed, [Next]_vars
    PROVE  Attributed'
<1>1. ASSUME NEW r \in Router, Arrive(r) PROVE Attributed'
  <2>1. phase' = "arrived" /\ request'.role \in Roles /\ request'.route = r
        /\ request'.suffix \in ColonSuffixes(r)
    BY <1>1 DEF Arrive
  <2> QED BY <2>1 DEF Attributed, Route
<1>2. CASE phase' \notin {"arrived", "handling", "served"}
  BY <1>2 DEF Attributed
<1>3. CASE PassGate
  <2> DEFINE action == Attribute
             decision == Decide(Route.gate, action, request.role, request.facts)
  <2>1. /\ phase = "arrived" /\ request' = request /\ action # "none"
        /\ access' = [action |-> action, decision |-> decision]
    BY <1>3 DEF PassGate
  <2>2. access'.action = action /\ access'.decision = decision
    <3> HIDE DEF action, decision
    <3> QED BY <2>1
  <2>3. Decide(Route.gate, access.action, request.role, Facts)' = decision
    BY <2>1, <2>2 DEF Decide, Route, Facts
  <2>4. Route' = Route /\ Attribute' = Attribute
    BY <2>1, SameRequest
  <2> HIDE DEF decision
  <2> QED BY <2>1, <2>2, <2>3, <2>4 DEF Attributed
<1>4. CASE phase \in {"arrived", "handling", "served"} /\ UNCHANGED <<request, access>>
           /\ (phase' \in {"handling", "served"} => phase \in {"handling", "served"})
  <2>1. Route' = Route /\ Attribute' = Attribute
    BY <1>4, SameRequest
  <2>2. Decide(Route.gate, access.action, request.role, Facts)'
          = Decide(Route.gate, access.action, request.role, Facts)
    BY <1>4 DEF Decide, Route, Facts
  <2> QED BY <1>4, <2>1, <2>2 DEF Attributed
<1>5. CASE UNCHANGED vars
  BY <1>2, <1>4, <1>5 DEF vars
<1>6. CASE Boot \/ TurnedAway \/ Respond
  BY <1>2, <1>6 DEF Boot, TurnedAway, Refuse, Respond
<1>7. CASE Handle
  <2>1. phase = "handling"
    BY <1>7 DEF Handle
  <2>2. phase' = "refused" \/ UNCHANGED <<request, access>>
    BY <1>7 DEF Handle, InputMalformed, CheckRefuses, Refuse, InputParses, CheckPasses, Proceed,
                GatherStanding, Stand, CallService
  <2> QED BY <1>2, <1>4, <2>1, <2>2
<1> QED BY <1>1, <1>3, <1>5, <1>6, <1>7 DEF Next

(* What a step of a handler does.                                            *)
LEMMA HandleSteps ==
    ASSUME Handle
    PROVE  /\ phase = "handling"
           /\ \/ phase' = "refused"
              \/ /\ phase' = "handling" /\ todo' = Tail(todo) /\ Head(todo).do # "serve"
                 /\ Head(todo).do \in Checks => Passes(Head(todo))
                 /\ Head(todo).do \in Checks \cup {"input"} => standing' = standing
                 /\ Head(todo).do = "can publish" =>
                       standing' = (standing \/ Governs("activity", {"university", "college", "department"}))
                 /\ Head(todo).do = "or author" => standing' = (standing \/ Facts.author)
              \/ /\ phase' = "served" /\ Head(todo).do = "serve"
                 /\ given' = IF Teaching THEN Head(todo).teaching ELSE Head(todo).others
<1>1. phase = "handling"
  BY DEF Handle
<1>2. CASE InputMalformed \/ CheckRefuses
  BY <1>1, <1>2 DEF InputMalformed, CheckRefuses, Refuse
<1>3. CASE InputParses
  BY <1>1, <1>3 DEF InputParses, Proceed, Step, Checks
<1>4. CASE CheckPasses
  <2>1. Head(todo).do \in Checks /\ Passes(Head(todo)) /\ Proceed
    BY <1>4 DEF CheckPasses, Step
  <2> QED BY <1>1, <2>1 DEF Proceed, Checks
<1>5. CASE GatherStanding
  <2> DEFINE govern == Governs("activity", {"university", "college", "department"})
  <2>1. \/ Head(todo).do \in {"scope authority", "or reader", "or member", "or visible"}
           /\ \E more : Stand(more)
        \/ Head(todo).do = "can publish" /\ Stand(govern)
        \/ Head(todo).do = "or author" /\ Stand(Facts.author)
    BY <1>5, Zenon DEF GatherStanding, Step
  <2> HIDE DEF govern
  <2>2. Head(todo).do \notin Checks \cup {"input", "serve"}
    BY <2>1 DEF Checks
  <2>3. phase' = "handling" /\ todo' = Tail(todo)
    BY <1>1, <2>1 DEF Stand
  <2>4. Head(todo).do = "can publish" => standing' = (standing \/ govern)
    BY <2>1 DEF Stand
  <2>5. Head(todo).do = "or author" => standing' = (standing \/ Facts.author)
    BY <2>1 DEF Stand
  <2> QED BY <1>1, <2>2, <2>3, <2>4, <2>5 DEF govern
<1>6. CASE CallService
  BY <1>1, <1>6 DEF CallService, Step
<1> QED BY <1>2, <1>3, <1>4, <1>5, <1>6 DEF Handle

LEMMA CheckMeans ==
    /\ \A resource, action, on : LET n == Narrow(resource, action, on)
                                 IN  Passes(n) => CheckStaffOn(request.role, resource, action, on,
                                        [Facts EXCEPT !.home = request.body]).answer = "allowed"
    /\ Passes(PostCheck) => PostAllowed
    /\ Passes(Demand) => standing
<1>1. ASSUME NEW resource, NEW action, NEW on, Passes(Narrow(resource, action, on))
      PROVE  CheckStaffOn(request.role, resource, action, on,
                [Facts EXCEPT !.home = request.body]).answer = "allowed"
  <2> DEFINE n == Narrow(resource, action, on)
  <2>1. n.do = "narrow" /\ n.resource = resource /\ n.action = action /\ n.on = on
    BY DEF Narrow
  <2>2. Passes(n)
    BY <1>1
  <2> HIDE DEF n
  <2>3. CheckStaffOn(request.role, n.resource, n.action, n.on,
           [Facts EXCEPT !.home = request.body]).answer = "allowed"
    BY <2>1, <2>2, Zenon DEF Passes
  <2> QED BY <2>1, <2>3
<1>2. ASSUME Passes(PostCheck) PROVE PostAllowed
  <2>1. PostCheck.do = "post check"
    BY DEF PostCheck
  <2> QED BY <1>2, <2>1, Zenon DEF Passes, PostAllowed
<1>3. ASSUME Passes(Demand) PROVE standing
  <2>1. Demand.do = "demand"
    BY DEF Demand
  <2> QED BY <1>3, <2>1, Zenon DEF Passes
<1> QED BY <1>1, <1>2, <1>3

(* A call that no check confines to the body is not confined by it.          *)
WithoutBody ==
    Disembodied =>
        /\ phase = "handling" => Bodiless(todo)
        /\ phase = "served" => "body" \notin given

LEMMA TailIsBodiless ==
    ASSUME NEW path, Bodiless(path), Head(path).do # "serve"
    PROVE  Bodiless(Tail(path))
<1>1. PICK S : path \in Seq(S) /\ \A s \in S : Harmless(s)
  BY DEF Bodiless
<1>2. Len(path) > 1 /\ Len(path) \in Nat
  <2>1. Len(path) \in Nat /\ Len(path) > 0 /\ path[Len(path)].do = "serve"
    BY <1>1 DEF Bodiless
  <2>2. Head(path) = path[1]
    BY <1>1, <2>1
  <2> QED BY <2>1, <2>2
<1> DEFINE rest == Tail(path)
<1>3. /\ rest \in Seq(S) /\ Len(rest) = Len(path) - 1
      /\ \A i \in 1 .. Len(path) - 1 : rest[i] = path[i + 1]
  BY <1>1, <1>2
<1> HIDE DEF rest
<1>4. Len(rest) > 0 /\ rest[Len(rest)] = path[Len(path)]
  <2>1. Len(rest) \in 1 .. Len(path) - 1 /\ Len(rest) + 1 = Len(path)
    BY <1>2, <1>3
  <2> QED BY <1>3, <2>1
<1>5. Bodiless(rest)
  BY <1>1, <1>3, <1>4 DEF Bodiless
<1> QED BY <1>5 DEF rest

LEMMA HeadIsBodiless ==
    ASSUME NEW path, Bodiless(path), Head(path).do = "serve"
    PROVE  "body" \notin Head(path).teaching /\ "body" \notin Head(path).others
<1>1. PICK S : path \in Seq(S) /\ \A s \in S : Harmless(s)
  BY DEF Bodiless
<1>2. Head(path) \in S
  BY <1>1 DEF Bodiless
<1> QED BY <1>1, <1>2 DEF Harmless

(* What the gate hands on to the handler.                                    *)
LEMMA Handed ==
    ASSUME PassGate, Vetted
    PROVE  /\ phase' = "handling" /\ request' = request
           /\ standing' = (Route.gate.kind = "post"
                              /\ Decide(Route.gate, Attribute, request.role, request.facts).matched # "nothing")
           /\ Route \in Router
           /\ \E h \in HandlersOf(Route, Attribute) : todo' \in Handler[h]
BY DEF PassGate, Vetted, Route

LEMMA WithoutBodyStep ==
    ASSUME Vetted, WithoutBody, [Next]_vars
    PROVE  WithoutBody'
<1>1. CASE phase' \notin {"handling", "served"}
  BY <1>1 DEF WithoutBody
<1>2. CASE UNCHANGED vars
  <2>1. Disembodied' = Disembodied
    BY <1>2, SameRequest DEF vars
  <2> QED BY <1>2, <2>1 DEF vars, WithoutBody
<1>3. CASE PassGate
  <2>1. Disembodied' = Disembodied
    BY <1>3, Handed, SameRequest
  <2>2. ASSUME Disembodied PROVE Bodiless(todo')
    <3>1. PICK h \in HandlersOf(Route, Attribute) : todo' \in Handler[h]
      BY <1>3, Handed
    <3>2. h \notin BodyServing /\ Route \in Router
      BY <1>3, <2>2, Handed DEF Disembodied
    <3> QED BY <3>1, <3>2, RoutedPaths
  <2> QED BY <1>3, <2>1, <2>2, Handed DEF WithoutBody
<1>4. CASE Handle /\ UNCHANGED <<request, access>> /\ phase' \in {"handling", "served"}
  <2>1. Disembodied' = Disembodied
    BY <1>4, SameRequest
  <2>2. phase = "handling"
    BY <1>4, HandleSteps
  <2>3. ASSUME Disembodied, phase' = "handling" PROVE Bodiless(todo')
    <3>1. todo' = Tail(todo) /\ Head(todo).do # "serve"
      BY <1>4, <2>3, HandleSteps
    <3> QED BY <2>2, <2>3, <3>1, TailIsBodiless DEF WithoutBody
  <2>4. ASSUME Disembodied, phase' = "served" PROVE "body" \notin given'
    <3>1. /\ Head(todo).do = "serve"
          /\ given' = IF Teaching THEN Head(todo).teaching ELSE Head(todo).others
      BY <1>4, <2>4, HandleSteps
    <3> QED BY <2>2, <2>4, <3>1, HeadIsBodiless DEF WithoutBody
  <2> QED BY <2>1, <2>3, <2>4 DEF WithoutBody
<1> QED BY <1>1, <1>2, <1>3, <1>4, KindsOfSteps

(* Steps of short paths.                                                     *)
LEMMA ShortTails ==
    /\ \A a, s : Head(<<a, s>>) = a /\ Tail(<<a, s>>) = <<s>>
    /\ \A a, b, s : Head(<<a, b, s>>) = a /\ Tail(<<a, b, s>>) = <<b, s>>
    /\ \A a, b, c, s : Head(<<a, b, c, s>>) = a /\ Tail(<<a, b, c, s>>) = <<b, c, s>>
    /\ \A a, b, c, d, s : Head(<<a, b, c, d, s>>) = a /\ Tail(<<a, b, c, d, s>>) = <<b, c, d, s>>
    /\ \A s : Head(<<s>>) = s
OBVIOUS

LEMMA StepNames ==
    /\ Input.do = "input" /\ CanPublish.do = "can publish" /\ OrAuthor.do = "or author"
    /\ Demand.do = "demand" /\ PostCheck.do = "post check"
    /\ \A resource, action, on : Narrow(resource, action, on).do = "narrow"
    /\ \A all : /\ Serve(all).do = "serve"
                /\ Serve(all).teaching = all /\ Serve(all).others = all
    /\ {"narrow", "demand", "post check"} \subseteq Checks
    /\ {"serve", "input", "can publish", "or author"} \cap Checks = {}
BY DEF Input, CanPublish, OrAuthor, Demand, PostCheck, Narrow, Serve, ServeBy, Checks

LEMMA NarrowIsCheck == \A resource, action, on : Narrow(resource, action, on).do \in Checks
BY DEF Narrow, Checks

(* A handler with one check.                                                 *)
LEMMA CheckedSteps ==
    ASSUME NEW check, check.do \in Checks, NEW all, Handle,
           todo \in {<<Input, check, Serve(all)>>, <<check, Serve(all)>>, <<Serve(all)>>}
    PROVE  \/ phase' = "refused"
           \/ phase' = "handling" /\ todo' = <<check, Serve(all)>>
           \/ phase' = "handling" /\ todo' = <<Serve(all)>> /\ Passes(check)
           \/ phase' = "served" /\ todo = <<Serve(all)>> /\ given' = all
<1> DEFINE s == Serve(all)
<1>1. s.do = "serve" /\ s.teaching = all /\ s.others = all /\ check.do # "serve" /\ Input.do # "serve"
  BY StepNames
<1> HIDE DEF s
<1>2. CASE todo = <<Input, check, s>>
  <2>1. Head(todo) = Input /\ Tail(todo) = <<check, s>>
    BY <1>2, ShortTails
  <2> QED BY <1>1, <2>1, HandleSteps DEF s
<1>3. CASE todo = <<check, s>>
  <2>1. Head(todo) = check /\ Tail(todo) = <<s>>
    BY <1>3, ShortTails
  <2> QED BY <1>1, <2>1, HandleSteps DEF s
<1>4. CASE todo = <<s>>
  <2>1. Head(todo) = s
    BY <1>4, ShortTails
  <2>2. phase' = "refused" \/ (phase' = "served" /\ given' = all)
    BY <1>1, <2>1, HandleSteps
  <2> QED BY <1>4, <2>2 DEF s
<1> QED BY <1>2, <1>3, <1>4 DEF s

(* A row is created under a unit that was checked.                           *)
AheadNarrow(resource, on) ==
    \/ todo \in {NarrowPath(resource, on), <<Narrow(resource, "create", on), Serve({"body"})>>}
    \/ todo = <<Serve({"body"})>> /\ Named(resource, on)

CreatesAtHome ==
    (Route.custom = {} /\ <<Route.gate.resource, Route.handler>> \in NarrowedCreations) =>
        /\ phase = "handling" => \E on : AheadNarrow(Route.gate.resource, on)
        /\ phase = "served" => given = {"body"} /\ \E on : Named(Route.gate.resource, on)

LEMMA CreatesAtHomeStep ==
    ASSUME Vetted, CreatesAtHome, [Next]_vars
    PROVE  CreatesAtHome'
<1>1. CASE phase' \notin {"handling", "served"}
  BY <1>1 DEF CreatesAtHome
<1>2. CASE UNCHANGED vars
  <2>1. Route' = Route /\ \A resource, on : Named(resource, on)' = Named(resource, on)
    BY <1>2, SameRequest DEF vars
  <2> QED BY <1>2, <2>1 DEF vars, CreatesAtHome, AheadNarrow
<1> DEFINE resource == Route.gate.resource
           cond == Route.custom = {} /\ <<resource, Route.handler>> \in NarrowedCreations
<1>3. CASE PassGate
  <2>1. Route' = Route
    BY <1>3, Handed, SameRequest
  <2>2. ASSUME cond PROVE \E on : todo' = NarrowPath(resource, on)
    <3>1. HandlersOf(Route, Attribute) = {Route.handler}
      BY <2>2 DEF HandlersOf
    <3>2. todo' \in Handler[Route.handler] /\ Route \in Router
      BY <1>3, <3>1, Handed
    <3>3. PathFits(Route.handler, todo')
      BY <3>1, <3>2, RoutedPaths
    <3> QED BY <2>2, <3>3 DEF PathFits
  <2> QED BY <1>3, <2>1, <2>2, Handed DEF CreatesAtHome, AheadNarrow
<1>4. CASE Handle /\ UNCHANGED <<request, access>> /\ phase' \in {"handling", "served"}
  <2>1. Route' = Route /\ \A r, on : Named(r, on)' = Named(r, on)
    BY <1>4, SameRequest
  <2>2. phase = "handling"
    BY <1>4, HandleSteps
  <2>3. ASSUME cond
        PROVE  /\ phase' = "handling" => \E on : AheadNarrow(resource, on)'
               /\ phase' = "served" => given' = {"body"} /\ \E on : Named(resource, on)
    <3>1. PICK on : AheadNarrow(resource, on)
      BY <2>2, <2>3 DEF CreatesAtHome
    <3> DEFINE check == Narrow(resource, "create", on)
    <3>2. \/ phase' = "handling" /\ todo' = <<check, Serve({"body"})>>
          \/ phase' = "handling" /\ todo' = <<Serve({"body"})>> /\ Passes(check)
          \/ phase' = "served" /\ todo = <<Serve({"body"})>> /\ given' = {"body"}
      <4>1. todo \in {<<Input, check, Serve({"body"})>>, <<check, Serve({"body"})>>, <<Serve({"body"})>>}
        BY <3>1 DEF AheadNarrow, NarrowPath
      <4>2. check.do \in Checks
        BY NarrowIsCheck
      <4> HIDE DEF check
      <4> QED BY <1>4, <4>1, <4>2, CheckedSteps
    <3>3. Passes(check) => Named(resource, on)
      BY CheckMeans DEF Named
    <3>4. todo = <<Serve({"body"})>> => Named(resource, on)
      <4>1. <<Serve({"body"})>> # <<check, Serve({"body"})>>
        OBVIOUS
      <4>2. <<Serve({"body"})>> # <<Input, check, Serve({"body"})>>
        OBVIOUS
      <4> QED BY <3>1, <4>1, <4>2 DEF AheadNarrow, NarrowPath
    <3>5. CASE phase' = "handling" /\ todo' = <<check, Serve({"body"})>>
      BY <2>1, <3>5 DEF AheadNarrow
    <3>6. CASE phase' = "handling" /\ todo' = <<Serve({"body"})>> /\ Passes(check)
      <4>1. Named(resource, on)'
        BY <2>1, <3>3, <3>6
      <4> HIDE DEF check
      <4>2. AheadNarrow(resource, on)'
        BY <3>6, <4>1, <2>1 DEF AheadNarrow
      <4> QED BY <3>6, <4>2
    <3> HIDE DEF check
    <3> QED BY <3>2, <3>4, <3>5, <3>6
  <2> QED BY <2>1, <2>3 DEF CreatesAtHome
<1> QED BY <1>1, <1>2, <1>3, <1>4, KindsOfSteps

(* An attachment is removed by whoever may update its post.                  *)
AheadDetach(all) ==
    \/ todo \in {<<Input, PostCheck, Serve(all)>>, <<PostCheck, Serve(all)>>}
    \/ todo = <<Serve(all)>> /\ PostAllowed

DetachesAllowed ==
    Route.handler = "RemovePostAttachment" =>
        /\ phase = "handling" => \E all : AheadDetach(all)
        /\ phase = "served" => PostAllowed

LEMMA ServesAlone ==
    /\ \A a, s, t : <<s>> # <<a, t>>
    /\ \A a, b, s, t : <<s>> # <<a, b, t>>
    /\ \A a, b, c, s, t : <<s>> # <<a, b, c, t>>
    /\ \A a, b, c, d, s, t : <<s>> # <<a, b, c, d, t>>
OBVIOUS

LEMMA DetachesAllowedStep ==
    ASSUME Vetted, DetachesAllowed, [Next]_vars
    PROVE  DetachesAllowed'
<1>1. CASE phase' \notin {"handling", "served"}
  BY <1>1 DEF DetachesAllowed
<1>2. CASE UNCHANGED vars
  <2>1. Route' = Route /\ PostAllowed' = PostAllowed
    BY <1>2, SameRequest DEF vars
  <2> QED BY <1>2, <2>1 DEF vars, DetachesAllowed, AheadDetach
<1>3. CASE PassGate
  <2>1. Route' = Route
    BY <1>3, Handed, SameRequest
  <2>2. ASSUME Route.handler = "RemovePostAttachment"
        PROVE  \E all : todo' = <<Input, PostCheck, Serve(all)>>
    <3>1. Route \in Router /\ Route.custom = {}
      BY <1>3, <2>2, Handed, ProperRoutes DEF Proper, Published, PublishingOps, PostRows
    <3>2. HandlersOf(Route, Attribute) = {Route.handler}
      BY <3>1 DEF HandlersOf
    <3>3. todo' \in Handler[Route.handler]
      BY <1>3, <3>2, Handed
    <3>4. PathFits(Route.handler, todo')
      BY <3>1, <3>2, <3>3, RoutedPaths
    <3> QED BY <2>2, <3>4 DEF PathFits
  <2> QED BY <1>3, <2>1, <2>2, Handed DEF DetachesAllowed, AheadDetach
<1>4. CASE Handle /\ UNCHANGED <<request, access>> /\ phase' \in {"handling", "served"}
  <2>1. Route' = Route /\ PostAllowed' = PostAllowed
    BY <1>4, SameRequest
  <2>2. phase = "handling"
    BY <1>4, HandleSteps
  <2>3. ASSUME Route.handler = "RemovePostAttachment"
        PROVE  /\ phase' = "handling" => \E all : AheadDetach(all)'
               /\ phase' = "served" => PostAllowed
    <3>1. PICK all : AheadDetach(all)
      BY <2>2, <2>3 DEF DetachesAllowed
    <3>2. PostCheck.do \in Checks
      <4>1. PostCheck.do = "post check"
        BY StepNames
      <4> QED BY <4>1 DEF Checks
    <3>3. \/ phase' = "handling" /\ todo' = <<PostCheck, Serve(all)>>
          \/ phase' = "handling" /\ todo' = <<Serve(all)>> /\ Passes(PostCheck)
          \/ phase' = "served" /\ todo = <<Serve(all)>>
      BY <1>4, <3>1, <3>2, CheckedSteps DEF AheadDetach
    <3>4. todo = <<Serve(all)>> => PostAllowed
      BY <3>1, ServesAlone DEF AheadDetach
    <3> QED BY <2>1, <3>3, <3>4, CheckMeans DEF AheadDetach
  <2> QED BY <2>1, <2>3 DEF DetachesAllowed
<1> QED BY <1>1, <1>2, <1>3, <1>4, KindsOfSteps

(* An activity is changed on its author's or a sufficient role's standing.   *)
OnActivity ==
    Route.gate.kind = "none" /\ \A h \in HandlersOf(Route, Attribute) : h \in ActivityOps

AheadActivity(all) ==
    \/ todo \in ActivityPaths(all)
    \/ todo \in {<<CanPublish, Demand, Serve(all)>>, <<CanPublish, OrAuthor, Demand, Serve(all)>>,
                 <<OrAuthor, Demand, Serve(all)>>, <<Demand, Serve(all)>>}
    \/ todo = <<Serve(all)>> /\ standing

ActivitiesEntitled ==
    OnActivity =>
        /\ phase = "handling" => (standing => Entitled) /\ \E all : AheadActivity(all)
        /\ phase = "served" => Entitled

LEMMA ActivitySteps ==
    ASSUME NEW all, Handle, AheadActivity(all), standing => Entitled, phase' \in {"handling", "served"}
    PROVE  /\ phase' = "handling" => (standing' => Entitled) /\ AheadActivity(all)'
           /\ phase' = "served" => Entitled
<1> DEFINE s == Serve(all)
<1>1. s.do = "serve"
  BY StepNames
<1> HIDE DEF s
<1>2. ASSUME NEW first, NEW rest, Head(todo) = first, Tail(todo) = rest,
             first.do \in {"input", "can publish", "or author", "demand"}
      PROVE  /\ phase' = "handling" /\ todo' = rest /\ (standing' => Entitled)
             /\ first.do = "demand" => standing'
  <2>1. phase' = "handling" /\ todo' = rest
    BY <1>2, HandleSteps
  <2>2. CASE first.do \in {"input", "demand"}
    <3>1. standing' = standing
      BY <1>2, <2>1, <2>2, HandleSteps DEF Checks
    <3>2. first.do = "demand" => Passes(first)
      BY <1>2, <2>1, HandleSteps DEF Checks
    <3>3. first.do = "demand" => standing
      BY <3>2, Zenon DEF Passes
    <3> QED BY <2>1, <3>1, <3>3
  <2>3. CASE first.do = "can publish"
    BY <1>2, <2>1, <2>3, HandleSteps DEF Entitled
  <2>4. CASE first.do = "or author"
    BY <1>2, <2>1, <2>4, HandleSteps DEF Entitled
  <2> QED BY <1>2, <2>2, <2>3, <2>4
<1>3. CASE todo = <<s>>
  <2>1. Head(todo) = s /\ standing
    BY <1>3, ShortTails, ServesAlone DEF AheadActivity, ActivityPaths, s
  <2> QED BY <1>1, <2>1, HandleSteps
<1>4. CASE todo = <<Demand, s>>
  <2>1. Head(todo) = Demand /\ Tail(todo) = <<s>> /\ Demand.do = "demand"
    BY <1>4, ShortTails, StepNames, ZenonT(60)
  <2>2. phase' = "handling" /\ todo' = <<s>> /\ (standing' => Entitled) /\ standing'
    BY <1>2, <2>1
  <2> QED BY <2>2 DEF AheadActivity, s
<1>5. CASE todo = <<OrAuthor, Demand, s>>
  <2>1. Head(todo) = OrAuthor /\ Tail(todo) = <<Demand, s>>
    <3>1. Head(<<OrAuthor, Demand, s>>) = OrAuthor /\ Tail(<<OrAuthor, Demand, s>>) = <<Demand, s>>
      BY ShortTails
    <3> QED BY <1>5, <3>1
  <2>2. OrAuthor.do \in {"input", "can publish", "or author", "demand"}
    BY StepNames
  <2>3. phase' = "handling" /\ todo' = <<Demand, s>> /\ (standing' => Entitled)
    BY <1>2, <2>1, <2>2
  <2> QED BY <2>3 DEF AheadActivity, s
<1>6. CASE todo = <<CanPublish, Demand, s>>
  <2>1. Head(todo) = CanPublish /\ Tail(todo) = <<Demand, s>>
    <3>1. Head(<<CanPublish, Demand, s>>) = CanPublish /\ Tail(<<CanPublish, Demand, s>>) = <<Demand, s>>
      BY ShortTails
    <3> QED BY <1>6, <3>1
  <2>2. CanPublish.do \in {"input", "can publish", "or author", "demand"}
    BY StepNames
  <2>3. phase' = "handling" /\ todo' = <<Demand, s>> /\ (standing' => Entitled)
    BY <1>2, <2>1, <2>2
  <2> QED BY <2>3 DEF AheadActivity, s
<1>7. CASE todo = <<CanPublish, OrAuthor, Demand, s>>
  <2>1. Head(todo) = CanPublish /\ Tail(todo) = <<OrAuthor, Demand, s>>
    <3>1. Head(<<CanPublish, OrAuthor, Demand, s>>) = CanPublish /\ Tail(<<CanPublish, OrAuthor, Demand, s>>) = <<OrAuthor, Demand, s>>
      BY ShortTails
    <3> QED BY <1>7, <3>1
  <2>2. CanPublish.do \in {"input", "can publish", "or author", "demand"}
    BY StepNames
  <2>3. phase' = "handling" /\ todo' = <<OrAuthor, Demand, s>> /\ (standing' => Entitled)
    BY <1>2, <2>1, <2>2
  <2> QED BY <2>3 DEF AheadActivity, s
<1>8. CASE todo = <<Input, CanPublish, Demand, s>>
  <2>1. Head(todo) = Input /\ Tail(todo) = <<CanPublish, Demand, s>>
    <3>1. Head(<<Input, CanPublish, Demand, s>>) = Input /\ Tail(<<Input, CanPublish, Demand, s>>) = <<CanPublish, Demand, s>>
      BY ShortTails
    <3> QED BY <1>8, <3>1
  <2>2. Input.do \in {"input", "can publish", "or author", "demand"}
    BY StepNames
  <2>3. phase' = "handling" /\ todo' = <<CanPublish, Demand, s>> /\ (standing' => Entitled)
    BY <1>2, <2>1, <2>2
  <2> QED BY <2>3 DEF AheadActivity, s
<1>9. CASE todo = <<Input, CanPublish, OrAuthor, Demand, s>>
  <2>1. Head(todo) = Input /\ Tail(todo) = <<CanPublish, OrAuthor, Demand, s>>
    <3>1. Head(<<Input, CanPublish, OrAuthor, Demand, s>>) = Input /\ Tail(<<Input, CanPublish, OrAuthor, Demand, s>>) = <<CanPublish, OrAuthor, Demand, s>>
      BY ShortTails
    <3> QED BY <1>9, <3>1
  <2>2. Input.do \in {"input", "can publish", "or author", "demand"}
    BY StepNames
  <2>3. phase' = "handling" /\ todo' = <<CanPublish, OrAuthor, Demand, s>> /\ (standing' => Entitled)
    BY <1>2, <2>1, <2>2
  <2> QED BY <2>3 DEF AheadActivity, s
<1> QED BY <1>3, <1>4, <1>5, <1>6, <1>7, <1>8, <1>9 DEF AheadActivity, ActivityPaths, s

LEMMA ActivitiesEntitledStep ==
    ASSUME Vetted, ActivitiesEntitled, [Next]_vars
    PROVE  ActivitiesEntitled'
<1>1. CASE phase' \notin {"handling", "served"}
  BY <1>1 DEF ActivitiesEntitled
<1>2. ASSUME request' = request PROVE OnActivity' = OnActivity /\ Entitled' = Entitled
  <2>1. Route' = Route /\ Attribute' = Attribute /\ Entitled' = Entitled
    BY <1>2, SameRequest
  <2> QED BY <2>1 DEF OnActivity
<1>3. CASE UNCHANGED vars
  <2>1. OnActivity' = OnActivity /\ Entitled' = Entitled
    BY <1>2, <1>3 DEF vars
  <2> QED BY <1>3, <2>1 DEF vars, ActivitiesEntitled, AheadActivity, ActivityPaths
<1>4. CASE PassGate
  <2>1. ASSUME OnActivity PROVE ~standing' /\ \E all : todo' \in ActivityPaths(all)
    <3>1. PICK h \in HandlersOf(Route, Attribute) : todo' \in Handler[h]
      BY <1>4, Handed
    <3>2. h \in ActivityOps /\ Route \in Router
      BY <1>4, <2>1, <3>1, Handed DEF OnActivity
    <3>3. PathFits(h, todo')
      BY <3>1, <3>2, RoutedPaths
    <3>4. \E all : todo' \in ActivityPaths(all)
      BY <3>2, <3>3 DEF PathFits
    <3>5. ~standing'
      BY <1>4, <2>1, Handed DEF OnActivity
    <3> QED BY <3>4, <3>5
  <2>2. OnActivity' = OnActivity /\ phase' = "handling"
    BY <1>2, <1>4, Handed
  <2> QED BY <2>1, <2>2 DEF ActivitiesEntitled, AheadActivity, ActivityPaths
<1>5. CASE Handle /\ UNCHANGED <<request, access>> /\ phase' \in {"handling", "served"}
  <2>1. phase = "handling"
    BY <1>5, HandleSteps
  <2>2. OnActivity' = OnActivity /\ Entitled' = Entitled
    BY <1>2, <1>5
  <2>3. ASSUME OnActivity
        PROVE  /\ phase' = "handling" => (standing' => Entitled) /\ \E all : AheadActivity(all)'
               /\ phase' = "served" => Entitled
    <3>1. PICK all : AheadActivity(all)
      BY <2>1, <2>3 DEF ActivitiesEntitled
    <3>2. standing => Entitled
      BY <2>1, <2>3 DEF ActivitiesEntitled
    <3>3. /\ phase' = "handling" => (standing' => Entitled) /\ AheadActivity(all)'
          /\ phase' = "served" => Entitled
      BY <1>5, <3>1, <3>2, ActivitySteps
    <3> QED BY <3>3
  <2> QED BY <2>2, <2>3 DEF ActivitiesEntitled
<1> QED BY <1>1, <1>3, <1>4, <1>5, KindsOfSteps

(* Where a request goes that no body confines.                               *)
LEMMA WhereBodiesServe ==
    ASSUME Route \in Router, Attributed, phase = "served",
           Route.gate.kind \in {"staff", "under", "classroom"},
           Route.gate.kind = "staff" => HasParam(Route.path, Route.gate.param)
    PROVE  Disembodied
<1>1. Placed(Route.gate, Route)
  BY ProperRoutes DEF Proper
<1>2. CASE Route.custom # {}
  <2>1. \A d \in Route.custom : d[2] \notin BodyServing
    BY <1>1, <1>2 DEF Placed
  <2> QED BY <1>2, <2>1 DEF Disembodied, HandlersOf
<1>3. CASE Route.custom = {}
  <2>1. Route.handler \notin BodyServing
    <3>1. CASE Route.gate.kind \in {"under", "classroom"}
      BY <1>1, <1>3, <3>1 DEF Placed
    <3>2. CASE Route.gate.kind = "staff"
      <4>1. Attribute = ActionOf(Route.gate, Route.method, Route.path) /\ Attribute # "none"
        BY <1>3, <3>2 DEF Attributed, Attribute, ColonSuffixes
      <4>2. Attribute = VerbAction(Route.method, HasParam(Route.path, Route.gate.param))
        BY <3>2, <4>1, Zenon DEF ActionOf
      <4>3. Route.method # "POST"
        <5>1. ASSUME Route.method = "POST" PROVE FALSE
          <6>1. VerbAction("POST", TRUE) = "none"
            BY DEF VerbAction
          <6> QED BY <3>2, <4>1, <4>2, <5>1, <6>1
        <5> QED BY <5>1
      <4> QED BY <1>1, <1>3, <3>2, <4>3 DEF Placed
    <3> QED BY <3>1, <3>2
  <2> QED BY <1>3, <2>1 DEF Disembodied, HandlersOf
<1> QED BY <1>2, <1>3

(* A row created without a target is created under the unit in the body, or  *)
(* by a role of the whole institution.                                       *)
LEMMA CreatedAtHome ==
    ASSUME Route \in Router, Attributed, CreatesAtHome, phase = "served", ~IsRead,
           Facts \in FactsOf(Route),
           Route.gate.kind = "staff", ~HasParam(Route.path, Route.gate.param), request.role # NoRole,
           CouldMatchSameUnit(request.role, PolicyFor(Route.gate.resource, access.action).staff),
           ~MatchByRoleAlone(request.role, PolicyFor(Route.gate.resource, access.action).staff)
    PROVE  "body" \in given /\ request.role.unit = UnitOf(request.body, request.role.scope)
<1>1. Placed(Route.gate, Route) /\ Led(Route)
  BY ProperRoutes DEF Proper
<1>2. Route.custom = {}
  BY <1>1 DEF Led
<1>3. access.action = VerbAction(Route.method, FALSE) /\ access.action # "none"
  <2>1. Attribute = ActionOf(Route.gate, Route.method, Route.path)
    BY <1>2 DEF Attributed, Attribute, ColonSuffixes
  <2>2. Attribute = VerbAction(Route.method, HasParam(Route.path, Route.gate.param))
    BY <2>1, Zenon DEF ActionOf
  <2>3. access.action = Attribute /\ access.action # "none"
    BY DEF Attributed
  <2>4. HasParam(Route.path, Route.gate.param) = FALSE
    BY DEF HasParam
  <2> QED BY <2>2, <2>3, <2>4
<1>4. Route.method = "POST" /\ access.action = "create"
  BY <1>3 DEF VerbAction, IsRead
<1>5. <<Route.gate.resource, Route.handler>> \in Creations
  BY <1>1, <1>2, <1>4 DEF Placed
<1> DEFINE resource == Route.gate.resource
           perms == PolicyFor(resource, "create").staff
<1>6. resource \notin Institutional
  <2>1. ASSUME resource \in Institutional PROVE FALSE
    <3>1. \A p \in perms : p.scope \in Institution
      BY <2>1, PoliciesAreGrounded
    <3>2. request.role \in Roles
      BY DEF Attributed
    <3>3. CouldMatchSameUnit(request.role, perms)
      BY <1>4
    <3> HIDE DEF perms
    <3> QED BY <3>1, <3>2, <3>3, InstitutionAlone
  <2> QED BY <2>1
<1>7. <<resource, Route.handler>> \in NarrowedCreations
  BY <1>5, <1>6 DEF Creations, NarrowedCreations, Institutional
<1>8. given = {"body"} /\ \E on : Named(resource, on)
  BY <1>2, <1>7 DEF CreatesAtHome
<1>9. PICK on : Named(resource, on)
  BY <1>8
<1> DEFINE asked == TRUE
           there == [Facts EXCEPT !.home = request.body]
<1>10. StaffArm(request.role, on, perms, asked, there).answer = "allowed"
  BY <1>9 DEF Named, CheckStaffOn
<1>11. there.home = request.body
  BY DEF FactsOf
<1>12. request.role \in Roles /\ ~MatchByRoleAlone(request.role, perms) /\ asked
  BY <1>4 DEF Attributed
<1> HIDE DEF perms, there, asked
<1>13. MatchSameUnit(request.role, perms, LineageFor(on, there).unit)
  BY <1>10, <1>12, ArmAllows
<1>14. request.role.unit = UnitOf(there.home, request.role.scope)
  BY <1>12, <1>13, SameUnitIsHome, ZenonT(60)
<1> QED BY <1>8, <1>11, <1>14

LEMMA StaffStayHome ==
    ASSUME Vetted, Attributed, WithoutBody, CreatesAtHome
    PROVE  NarrowStaffStayHome
<1> SUFFICES ASSUME Served, ~IsRead, access.decision.matched = "staff",
                    Route.gate.kind \in {"staff", "under", "classroom"},
                    ~MatchByRoleAlone(request.role, PolicyFor(Route.gate.resource, access.action).staff)
             PROVE  request.role.unit =
                       UnitOf(IF "body" \in given THEN request.body ELSE Facts.home, request.role.scope)
  BY Zenon DEF NarrowStaffStayHome
<1> DEFINE perms == PolicyFor(Route.gate.resource, access.action).staff
           decision == Decide(Route.gate, access.action, request.role, Facts)
<1>1. /\ Route \in Router /\ Facts \in FactsOf(Route) /\ phase = "served"
      /\ request.role \in Roles /\ decision.answer = "allowed" /\ decision.matched = "staff"
  BY DEF Vetted, Attributed, Served, Route, Facts
<1>2. \A kind : MatchSameUnit(request.role, perms, kind) => CouldMatchSameUnit(request.role, perms)
  BY DEF MatchSameUnit, CouldMatchSameUnit
<1>3. ASSUME NEW on, request.role # NoRole, MatchSameUnit(request.role, perms, LineageFor(on, Facts).unit),
             Route.gate.kind = "staff" => HasParam(Route.path, Route.gate.param)
      PROVE  /\ request.role.unit = UnitOf(Facts.home, request.role.scope)
             /\ "body" \notin given
  <2>1. Disembodied
    BY <1>1, <1>3, WhereBodiesServe
  <2>2. "body" \notin given
    BY <1>1, <2>1 DEF WithoutBody
  <2>3. request.role \in Roles /\ request.role # NoRole
    BY <1>1, <1>3
  <2>4. MatchSameUnit(request.role, perms, LineageFor(on, Facts).unit)
    BY <1>3
  <2> HIDE DEF perms
  <2>5. request.role.unit = UnitOf(Facts.home, request.role.scope)
    BY <2>3, <2>4, SameUnitIsHome
  <2> QED BY <2>2, <2>5
<1>4. CASE Route.gate.kind = "staff"
  <2> DEFINE targeted == HasParam(Route.path, Route.gate.param)
  <2>1. decision = StaffArm(request.role, Route.gate.resource, perms, targeted, Facts)
    BY <1>4 DEF Decide, CheckStaff
  <2>2. /\ request.role # NoRole
        /\ \/ CouldMatchSameUnit(request.role, perms) /\ ~targeted
           \/ MatchSameUnit(request.role, perms, LineageFor(Route.gate.resource, Facts).unit)
    <3>1. StaffArm(request.role, Route.gate.resource, perms, targeted, Facts).answer = "allowed"
      BY <1>1, <2>1
    <3>2. ~MatchByRoleAlone(request.role, perms)
      OBVIOUS
    <3> HIDE DEF perms, targeted
    <3> QED BY <3>1, <3>2, ArmAllows
  <2>3. CASE targeted
    BY <1>3, <2>2, <2>3
  <2>4. CASE ~targeted
    <3>1. CouldMatchSameUnit(request.role, perms)
      <4> HIDE DEF perms
      <4> QED BY <1>2, <2>2, <2>4
    <3> QED BY <1>1, <1>4, <2>2, <2>4, <3>1, CreatedAtHome
  <2> QED BY <2>3, <2>4
<1>5. CASE Route.gate.kind = "under"
  <2> DEFINE asked == TRUE
  <2>1. decision = StaffArm(request.role, Route.gate.on, perms, asked, Facts)
    BY <1>5 DEF Decide, CheckStaffOn
  <2>2. /\ request.role # NoRole
        /\ MatchSameUnit(request.role, perms, LineageFor(Route.gate.on, Facts).unit)
    <3>1. StaffArm(request.role, Route.gate.on, perms, asked, Facts).answer = "allowed"
      BY <1>1, <2>1
    <3>2. ~MatchByRoleAlone(request.role, perms) /\ asked
      OBVIOUS
    <3> HIDE DEF perms, asked
    <3> QED BY <3>1, <3>2, ArmAllows
  <2> QED BY <1>3, <1>5, <2>2
<1>6. CASE Route.gate.kind = "classroom"
  <2> DEFINE asked == TRUE
             allowedSeats == PolicyFor(Route.gate.resource, access.action).offering
  <2>1. decision = CheckOffering(request.role, Route.gate.resource, access.action, Facts)
    BY <1>6 DEF Decide
  <2>2. decision = StaffArm(request.role, "offering", perms, asked, Facts)
    <3>1. \/ decision = Refusal("failed")
          \/ decision = Allowed("offering", Facts.seat, NoFilter)
          \/ decision = StaffArm(request.role, "offering", perms, asked, Facts)
      BY <2>1, Zenon DEF CheckOffering
    <3>2. Refusal("failed").answer # "allowed" /\ Allowed("offering", Facts.seat, NoFilter).matched # "staff"
      BY DEF Refusal, Allowed
    <3> QED BY <1>1, <3>1, <3>2
  <2>3. /\ request.role # NoRole
        /\ MatchSameUnit(request.role, perms, LineageFor("offering", Facts).unit)
    <3>1. StaffArm(request.role, "offering", perms, asked, Facts).answer = "allowed"
      BY <1>1, <2>2
    <3>2. ~MatchByRoleAlone(request.role, perms) /\ asked
      OBVIOUS
    <3> HIDE DEF perms, asked
    <3> QED BY <3>1, <3>2, ArmAllows
  <2> QED BY <1>3, <1>6, <2>3
<1> QED BY <1>4, <1>5, <1>6

(* What governs a post of someone else's.                                    *)
Governed(facts, role) ==
    IF facts.postScope = "offering" THEN facts.seat \in TeachingSeats \/ role # NoRole
    ELSE role # NoRole /\ ScopeRank[role.scope] >= ScopeRank[facts.postScope]

LEMMA PostsAreGoverned ==
    ASSUME NEW role \in Roles, NEW action, action \notin {"get", "list"}, NEW facts,
           facts.postScope \in PostScopeUnit \cup {"offering"}, ~facts.author,
           CheckPost(role, action, facts).answer = "allowed"
    PROVE  Governed(facts, role)
<1> DEFINE perms == PolicyFor("post", action).staff
           allowedSeats == PolicyFor("post", action).offering
<1>1. allowedSeats \subseteq TeachingSeats /\ \A p \in perms : p.scope \in UnitScopes \cup Institution
  BY PoliciesAreGrounded
<1>2. \A a : Refusal(a).answer = a
  BY DEF Refusal
<1>3. /\ facts.fault \notin {"post", "missing"}
      /\ IF facts.postScope = "offering" THEN CheckOfferingPost(role, action, facts).answer = "allowed"
         ELSE CheckUnitPost(role, action, facts).answer = "allowed"
  <2>1. facts.fault # "post" /\ facts.fault # "missing"
    BY <1>2, Zenon DEF CheckPost
  <2> QED BY <2>1, Zenon DEF CheckPost
<1>4. CASE facts.postScope = "offering"
  <2> DEFINE asked == TRUE
             governed == CheckOffering(role, "post", action, facts)
  <2>1. governed.answer = "allowed"
    BY <1>3, <1>4, Zenon DEF CheckOfferingPost
  <2>2. \/ governed = Refusal("failed") \/ facts.seat \in allowedSeats
        \/ governed = StaffArm(role, "offering", perms, asked, facts)
    BY Zenon DEF CheckOffering
  <2> HIDE DEF governed, perms, asked, allowedSeats
  <2>3. facts.seat \in allowedSeats \/ role # NoRole
    BY <1>2, <2>1, <2>2, ArmAllows
  <2> QED BY <1>1, <1>4, <2>3 DEF Governed
<1>5. CASE facts.postScope # "offering"
  <2> DEFINE min == facts.postScope
             targeted == min # "university"
             arm == StaffArm(role, min, PermsReaching(perms, min), targeted, facts)
  <2>1. CheckUnitPost(role, action, facts) = arm
    BY Zenon DEF CheckUnitPost
  <2>2. arm.answer = "allowed"
    BY <1>3, <1>5, <2>1
  <2>3. min \in UnitScopes \cup Institution
    BY <1>5 DEF PostScopeUnit, Institution
  <2> HIDE DEF perms, min, targeted
  <2>4. role # NoRole /\ ScopeRank[role.scope] >= ScopeRank[min]
    BY <1>1, <2>2, <2>3, ReachIsWide
  <2> QED BY <1>5, <2>4 DEF Governed, min
<1> QED BY <1>4, <1>5

LEMMA ActivitiesAreGoverned ==
    ASSUME request.role \in Roles, Governs("activity", {"university", "college", "department"})
    PROVE  Governed(Facts, request.role)
<1> DEFINE role == request.role
           scope == Facts.postScope
           perms == PolicyFor("activity", "create").staff
<1>1. scope \in {"university", "college", "department"}
  BY DEF Governs
<1>2. \A p \in perms : p.scope \in {"department", "college", "university"}
  BY PoliciesAreGrounded
<1>3. role # NoRole /\ ScopeRank[role.scope] >= ScopeRank[scope]
  <2>1. CASE scope = "university"
    <3> DEFINE targeted == FALSE
               min == "university"
    <3>1. CheckStaffAtLeast(role, "activity", "create", "university", Facts).answer = "allowed"
      BY <2>1, Zenon DEF Governs
    <3>2. StaffArm(role, "activity", PermsReaching(perms, min), targeted, Facts).answer = "allowed"
      BY <3>1 DEF CheckStaffAtLeast
    <3>3. /\ min \in UnitScopes \cup Institution
          /\ \A p \in perms : p.scope \in UnitScopes \cup Institution
      BY <1>2 DEF UnitScopes, Institution
    <3> HIDE DEF perms, targeted, min
    <3>4. role # NoRole /\ ScopeRank[role.scope] >= ScopeRank[min]
      BY <3>2, <3>3, ReachIsWide
    <3> QED BY <2>1, <3>4 DEF min
  <2>2. CASE scope # "university"
    <3> DEFINE asked == TRUE
    <3>1. CheckStaffOn(role, "activity", "create", scope, Facts).answer = "allowed"
      BY <2>2, Zenon DEF Governs
    <3>2. StaffArm(role, scope, perms, asked, Facts).answer = "allowed"
      BY <3>1 DEF CheckStaffOn
    <3>3. scope \in {"college", "department"}
      BY <1>1, <2>2
    <3> HIDE DEF perms, scope
    <3>4. role # NoRole /\ (MatchByRoleAlone(role, perms) \/ MatchSameUnit(role, perms, LineageFor(scope, Facts).unit))
      BY <3>2, ArmAllows
    <3>5. role.scope \in UnitScopes \cup Institution
      BY <3>4, RolesAre
    <3>6. CASE MatchByRoleAlone(role, perms)
      <4>1. ScopeRank[role.scope] >= 3
        BY <1>2, <3>5, <3>6, ScopeRanks DEF MatchByRoleAlone, WiderThan, Institution, UnitScopes
      <4> QED BY <3>3, <3>4, <4>1, <3>5, ScopeRanks
    <3>7. CASE MatchSameUnit(role, perms, LineageFor(scope, Facts).unit)
      <4>1. role.scope \in LineageQueries[scope]
        BY <3>4, <3>7, SameUnitIsHome
      <4>2. LineageQueries["college"] = {"college"} /\ LineageQueries["department"] = {"department", "college"}
        BY DEF LineageQueries
      <4> QED BY <3>3, <3>4, <4>1, <4>2, ScopeRanks
    <3> QED BY <3>4, <3>6, <3>7
  <2> QED BY <2>1, <2>2
<1> QED BY <1>1, <1>3 DEF Governed

LEMMA NeverGovern ==
    ASSUME Vetted, Attributed, DetachesAllowed, ActivitiesEntitled
    PROVE  NarrowRolesNeverGovern
<1> SUFFICES ASSUME Served, ~Facts.author, IsPublishing(Route),
                    Route.handler \in PublishingOps \/ access.action \in PublishingActions
             PROVE  Governed(Facts, request.role)
  BY Zenon DEF NarrowRolesNeverGovern, Governed
<1>1. /\ Route \in Router /\ Facts \in FactsOf(Route) /\ phase = "served"
      /\ request.role \in Roles /\ access.action = Attribute /\ access.action # "none"
      /\ request.suffix \in ColonSuffixes(Route)
      /\ Decide(Route.gate, access.action, request.role, Facts).answer = "allowed"
  BY DEF Vetted, Attributed, Served, Route, Facts
<1>2. Facts.postScope \in PostScopeUnit \cup {"offering"}
  BY <1>1 DEF FactsOf
<1>3. Published(Route.gate, Route) /\ Led(Route)
  BY <1>1, ProperRoutes DEF Proper
<1>4. ASSUME Route.gate.kind = "post", access.action \notin {"get", "list"}
      PROVE  Governed(Facts, request.role)
  <2>1. CheckPost(request.role, access.action, Facts).answer = "allowed"
    BY <1>1, <1>4, Zenon DEF Decide
  <2> QED BY <1>1, <1>2, <1>4, <2>1, PostsAreGoverned
<1>5. ASSUME OnActivity PROVE Governed(Facts, request.role)
  <2>1. Governs("activity", {"university", "college", "department"})
    BY <1>1, <1>5 DEF ActivitiesEntitled, Entitled
  <2> QED BY <1>1, <2>1, ActivitiesAreGoverned
<1>6. CASE Route.handler \in PostRows
  <2>1. Route.gate.kind = "post" /\ Route.custom = {} /\ Route.method \in {"PUT", "DELETE"}
    BY <1>3, <1>6 DEF Published
  <2>2. access.action = ActionOf(Route.gate, Route.method, Route.path)
    BY <1>1, <2>1 DEF Attribute, ColonSuffixes
  <2>3. access.action = VerbAction(Route.method, HasParam(Route.path, Route.gate.param))
    BY <2>1, <2>2, Zenon DEF ActionOf
  <2>4. access.action \notin {"get", "list"}
    BY <2>1, <2>3 DEF VerbAction
  <2> QED BY <1>4, <2>1, <2>4
<1>7. CASE Route.handler = "RemovePostAttachment"
  <2>1. CheckPost(request.role, "update", Facts).answer = "allowed"
    BY <1>1, <1>7 DEF DetachesAllowed, PostAllowed
  <2> QED BY <1>1, <1>2, <2>1, PostsAreGoverned
<1>8. CASE Route.handler \in PublishingOps \ (PostRows \cup {"RemovePostAttachment"})
  <2>1. Route.gate.kind = "none" /\ Route.custom = {}
    BY <1>3, <1>8 DEF Published
  <2>2. Route.handler \in ActivityOps
    BY <1>8 DEF PublishingOps, PostRows, ActivityOps
  <2>3. OnActivity
    BY <2>1, <2>2 DEF OnActivity, HandlersOf
  <2> QED BY <1>5, <2>3
<1>9. CASE access.action \in PublishingActions
  <2>1. Route.custom # {} /\ access.action = request.suffix /\ \E d \in Route.custom : d[1] = access.action
    <3>1. ActionOf(Route.gate, Route.method, Route.path) \notin PublishingActions
      <4>1. \A method, has : VerbAction(method, has) \notin PublishingActions
        BY DEF VerbAction, PublishingActions
      <4>2. \A method : SingletonAction(method) \notin PublishingActions
        BY DEF SingletonAction, PublishingActions
      <4>3. ASSUME Route.gate.kind = "under" PROVE UnderAction(Route.method) \notin PublishingActions
        <5>1. Route.method \in {"GET", "POST", "PUT", "PATCH", "DELETE"}
          BY <1>1, <4>3, ProperRoutes DEF Proper, Placed
        <5> QED BY <5>1 DEF UnderAction, PublishingActions
      <4> QED BY <4>1, <4>2, <4>3 DEF ActionOf
    <3>2. request.suffix # "none"
      BY <1>1, <1>9, <3>1 DEF Attribute, PublishingActions
    <3>3. access.action = request.suffix /\ request.suffix # "unknown"
      BY <1>1, <1>9, <3>2 DEF Attribute, PublishingActions
    <3> QED BY <1>1, <3>2, <3>3 DEF ColonSuffixes
  <2>2. CASE Route.gate.kind = "staff"
    BY <1>3, <1>9, <2>1, <2>2 DEF Published
  <2>3. CASE Route.gate.kind = "classroom"
    BY <1>3, <2>3 DEF Led
  <2>4. CASE Route.gate.kind = "post"
    BY <1>4, <1>9, <2>4 DEF PublishingActions
  <2>5. CASE Route.gate.kind = "none" /\ \A d \in Route.custom : d[2] \in ActivityDispatch
    <3>1. OnActivity
      BY <2>1, <2>5 DEF OnActivity, HandlersOf, ActivityOps
    <3> QED BY <1>5, <3>1
  <2> QED BY <1>3, <2>1, <2>2, <2>3, <2>4, <2>5 DEF Published
<1> QED BY <1>6, <1>7, <1>8, <1>9

(* A narrow role stays narrow, with any roles, tree of units and readers     *)
(* that fail: a management call with a target or a unit in its body is       *)
(* served to a role of the whole institution or of that unit, and someone    *)
(* else's post or activity is changed by a role at least as wide as its      *)
(* scope, or from a teaching seat (authz/staff.go: matchSameUnit,            *)
(* CheckStaffOn; authz/posts.go: CheckPost; announcements/http: canPublish). *)
THEOREM NarrowRolesAlwaysStayNarrow == Spec => []NarrowRolesStayNarrow
<1> DEFINE Inv == Vetted /\ Attributed /\ WithoutBody /\ CreatesAtHome /\ DetachesAllowed /\ ActivitiesEntitled
<1>1. Init => Inv
  BY DEF Init, Vetted, Attributed, WithoutBody, CreatesAtHome, DetachesAllowed,
     ActivitiesEntitled
<1>2. Inv /\ [Next]_vars => Inv'
  BY VettedStep, AttributedStep, WithoutBodyStep, CreatesAtHomeStep, DetachesAllowedStep,
     ActivitiesEntitledStep
<1>3. Inv => NarrowRolesStayNarrow
  BY StaffStayHome, NeverGovern DEF NarrowRolesStayNarrow
<1> QED BY <1>1, <1>2, <1>3, PTL DEF Spec

-----------------------------------------------------------------------------
(* The roles administrators give each other (RoleGrants), for any tree of   *)
(* units, any users, starting roles and requests, and any number of calls.  *)

Held == Grants!RoleClaims(DOMAIN Grants!LevelRank)

(* A role a chain of grants may lead to. *)
Derived(r) == \E root \in Grants!RootRoles : Grants!Below(r, root)

(* The role a call is about to store was below its giver's when it was checked. *)
CallDerived(c) == calls[c].pc \in {"set", "create"} /\ calls[c].role # NoRole => Derived(calls[c].role)

GrantsInv ==
    /\ Grants!TypeOK /\ Grants!AuthorityNeverGrows
    /\ \A c \in Calls : CallDerived(c)

(* Levels and scopes have ranks. *)
LEMMA Ranks ==
    /\ DOMAIN Grants!LevelRank = {"viewer", "operator", "admin", "super_admin"}
    /\ DOMAIN Grants!ScopeRank = {"program", "department", "college", "university", "platform"}
    /\ \A l \in DOMAIN Grants!LevelRank : Grants!LevelRank[l] \in Nat
    /\ \A s \in DOMAIN Grants!ScopeRank : Grants!ScopeRank[s] \in Nat
    /\ \A l, m \in DOMAIN Grants!LevelRank : Grants!LevelRank[l] = Grants!LevelRank[m] => l = m
    /\ \A s, t \in DOMAIN Grants!ScopeRank : Grants!ScopeRank[s] = Grants!ScopeRank[t] => s = t
BY DEF Grants!LevelRank, Grants!ScopeRank

(* A role has the unit its scope asks for. *)
LEMMA RoleFields ==
    ASSUME NEW r
    PROVE  r \in Held <=>
              /\ r = [level |-> r.level, scope |-> r.scope, unit |-> r.unit, domain |-> "administration"]
              /\ r.level \in DOMAIN Grants!LevelRank /\ r.scope \in DOMAIN Grants!ScopeRank
              /\ r.unit \in Grants!UnitsAt(r.scope)
BY DEF Held, Grants!RoleClaims

(* A scope at least as wide as the university is of no unit. *)
LEMMA InstitutionScopes ==
    ASSUME NEW s \in DOMAIN Grants!ScopeRank,
           Grants!ScopeRank[s] >= Grants!ScopeRank["university"]
    PROVE  s \in {"university", "platform"} /\ Grants!UnitsAt(s) = {NoUnit}
BY DEF Grants!ScopeRank, Grants!UnitsAt

(* Being below another role is transitive through a role of no unit. *)
LEMMA BelowTransitive ==
    ASSUME NEW r \in Held, NEW s \in Held, NEW t \in Held,
           s.scope \in {"university", "platform"},
           Grants!Below(r, s), Grants!Below(s, t)
    PROVE  Grants!Below(r, t)
<1>1. /\ r.level \in DOMAIN Grants!LevelRank /\ r.scope \in DOMAIN Grants!ScopeRank
      /\ s.level \in DOMAIN Grants!LevelRank /\ s.scope \in DOMAIN Grants!ScopeRank
      /\ t.level \in DOMAIN Grants!LevelRank /\ t.scope \in DOMAIN Grants!ScopeRank
      /\ t.unit \in Grants!UnitsAt(t.scope)
  BY RoleFields
<1>2. /\ Grants!ScopeRank[r.scope] <= Grants!ScopeRank[s.scope]
      /\ Grants!ScopeRank[s.scope] <= Grants!ScopeRank[t.scope]
      /\ Grants!LevelRank[r.level] <= Grants!LevelRank[s.level]
      /\ Grants!LevelRank[s.level] <= Grants!LevelRank[t.level]
      /\ <<r.scope, r.level>> # <<s.scope, s.level>>
  BY DEF Grants!Below
<1>3. Grants!ScopeRank[s.scope] >= Grants!ScopeRank["university"]
  BY DEF Grants!ScopeRank
<1>4. t.unit = NoUnit
  <2>1. Grants!ScopeRank[t.scope] >= Grants!ScopeRank["university"]
    BY <1>1, <1>2, <1>3, Ranks
  <2> QED BY <2>1, <1>1, InstitutionScopes
<1>5. /\ Grants!ScopeRank[r.scope] <= Grants!ScopeRank[t.scope]
      /\ Grants!LevelRank[r.level] <= Grants!LevelRank[t.level]
  BY <1>1, <1>2, Ranks
<1>6. <<r.scope, r.level>> # <<t.scope, t.level>>
  <2> SUFFICES ASSUME r.scope = t.scope, r.level = t.level PROVE FALSE
    OBVIOUS
  <2>1. Grants!ScopeRank[r.scope] = Grants!ScopeRank[s.scope]
        /\ Grants!LevelRank[r.level] = Grants!LevelRank[s.level]
    BY <1>1, <1>2, Ranks
  <2> QED BY <2>1, <1>1, <1>2, Ranks
<1> QED BY <1>4, <1>5, <1>6 DEF Grants!Below

(* Every rule is about the resource it was made for. *)
LEMMA EntryResource ==
    \A resource, actions, staff, offering :
        \A e \in Grants!Entry(resource, actions, staff, offering) : e.resource = resource
BY DEF Grants!Entry

LEMMA StaffResource ==
    \A resource, actions, staff :
        \A e \in Grants!Staff(resource, actions, staff) : e.resource = resource
BY DEF Grants!Staff, Grants!Entry

LEMMA SeatsResource ==
    \A resource, actions, offered :
        \A e \in Grants!Seats(resource, actions, offered) : e.resource = resource
BY DEF Grants!Seats, Grants!Entry

(* The users' routes let pass only roles of the whole institution. *)
LEMMA UsersPolicy ==
    ASSUME NEW action \in {"create", "update", "delete"}
    PROVE  Grants!PolicyFor("user", action).staff = Grants!Admin({"university", "platform"})
<1> DEFINE rows == Grants!Staff("user", {"get", "list", "create", "update", "delete"},
                       Grants!Admin(Grants!Institution))
<1>1. \A e \in Grants!StructurePolicies : e.resource # "user"
  BY EntryResource, StaffResource, SeatsResource DEF Grants!StructurePolicies
<1>2. \A e \in Grants!CalendarPolicies : e.resource # "user"
  BY EntryResource, StaffResource, SeatsResource DEF Grants!CalendarPolicies
<1>3. \A e \in Grants!CataloguePolicies : e.resource # "user"
  BY EntryResource, StaffResource, SeatsResource DEF Grants!CataloguePolicies
<1>4. \A e \in Grants!StudentPolicies : e.resource # "user"
  BY EntryResource, StaffResource, SeatsResource DEF Grants!StudentPolicies
<1>5. \A e \in Grants!AnnouncementPolicies : e.resource # "user"
  BY EntryResource, StaffResource, SeatsResource DEF Grants!AnnouncementPolicies
<1>6. \A e \in Grants!ClassroomPolicies : e.resource # "user"
  BY EntryResource, StaffResource, SeatsResource DEF Grants!ClassroomPolicies
<1>7. \A e \in Grants!MutePolicies : e.resource # "user"
  BY EntryResource, StaffResource, SeatsResource DEF Grants!MutePolicies
<1>8. \A e \in Grants!AdministrationPolicies : e.resource # "user"
  BY EntryResource, StaffResource, SeatsResource DEF Grants!AdministrationPolicies
<1>9. \A e \in Grants!EnrollmentPolicies : e.resource = "user" => e \in rows
  BY EntryResource, StaffResource, SeatsResource DEF Grants!EnrollmentPolicies
<1>10. rows \subseteq Grants!EnrollmentPolicies
  BY DEF Grants!EnrollmentPolicies
<1>11. \A e : e \in Grants!DefaultPolicies /\ e.resource = "user" <=> e \in rows
  <2>1. \A e \in rows : e.resource = "user"
    BY StaffResource
  <2> HIDE DEF rows
  <2> QED BY <2>1, <1>1, <1>2, <1>3, <1>4, <1>5, <1>6, <1>7, <1>8, <1>9, <1>10 DEF
       Grants!DefaultPolicies
<1> DEFINE of == {e \in Grants!DefaultPolicies : e.resource = "user" /\ e.action = action}
           rule == [resource |-> "user", action |-> action,
                     staff |-> Grants!Admin(Grants!Institution), offering |-> {}]
<1>12. of = {rule}
  <2>1. of = {e \in rows : e.action = action}
    BY <1>11
  <2>2. \A e : e \in rows <=> \E a \in {"get", "list", "create", "update", "delete"} :
            e = [resource |-> "user", action |-> a, staff |-> Grants!Admin(Grants!Institution),
                 offering |-> {}]
    BY DEF Grants!Staff, Grants!Entry
  <2> HIDE DEF rows
  <2> QED BY <2>1, <2>2
<1>13. Grants!PolicyFor("user", action).staff = UNION {e.staff : e \in of}
  BY DEF Grants!PolicyFor
<1> HIDE DEF of
<1>14. UNION {e.staff : e \in of} = Grants!Admin(Grants!Institution)
  BY <1>12
<1> QED BY <1>13, <1>14 DEF Grants!Institution

(* A token that passes the users' gate is a role of the whole institution:   *)
(* the gate knows no target unit, so a role of one unit never matches.       *)
LEMMA GateIsInstitution ==
    ASSUME NEW action \in {"create", "update", "delete"}, NEW r \in Grants!UsersGate[action]
    PROVE  r \in Held /\ r.scope \in {"university", "platform"} /\ r.unit = NoUnit
<1> DEFINE perms == Grants!Admin({"university", "platform"})
           facts == [fault |-> "none"]
           lineage == Grants!LineageFor("user", facts)
<1>1. r \in Held /\ Grants!CheckStaff(r, "user", action, TRUE, facts).answer = "allowed"
  BY DEF Grants!UsersGate, Held
<1>2. Grants!StaffArm(r, "user", perms, TRUE, facts).answer = "allowed"
  BY <1>1, UsersPolicy DEF Grants!CheckStaff
<1>3. Grants!Denied.answer # "allowed" 
  BY DEF Grants!Denied, Grants!Refusal
<1>a. \A p \in perms : p.scope \in {"university", "platform"}
  BY DEF Grants!Admin, Grants!AtLevel
<1> HIDE DEF perms
<1>4. Grants!MatchByRoleAlone(r, perms) \/ Grants!CouldMatchSameUnit(r, perms)
  BY <1>2, <1>3 DEF Grants!StaffArm
<1>5. PICK p \in perms : Grants!WiderThan(r.scope, p.scope) \/ r.scope = p.scope
  BY <1>4 DEF Grants!MatchByRoleAlone, Grants!CouldMatchSameUnit
<1>6. Grants!ScopeRank[r.scope] >= Grants!ScopeRank["university"] /\ r.scope \in DOMAIN Grants!ScopeRank
  BY <1>1, <1>5, <1>a, RoleFields DEF Grants!WiderThan, Grants!ScopeRank
<1>7. r.unit \in Grants!UnitsAt(r.scope)
  BY <1>1, RoleFields
<1> QED BY <1>1, <1>6, <1>7, InstitutionScopes

(* Whoever manages a role with a token that passes the users' gate, and     *)
(* whoever grants one, stands above it.                                     *)
LEMMA GivenIsBelow ==
    ASSUME NEW actor \in Held, NEW role \in Held, actor.unit = NoUnit,
           Grants!CanManageRole(actor, role, TRUE) \/ Grants!CanGrantRole(actor, role)
    PROVE  Grants!Below(role, actor)
<1>1. /\ actor.level \in DOMAIN Grants!LevelRank /\ actor.scope \in DOMAIN Grants!ScopeRank
      /\ role.level \in DOMAIN Grants!LevelRank /\ role.scope \in DOMAIN Grants!ScopeRank
  BY RoleFields
<1>2. \/ /\ Grants!ScopeRank[actor.scope] > Grants!ScopeRank[role.scope]
         /\ Grants!LevelRank[actor.level] >= Grants!LevelRank[role.level]
      \/ /\ actor.scope = role.scope
         /\ Grants!LevelRank[actor.level] > Grants!LevelRank[role.level]
  BY DEF Grants!CanManageRole, Grants!CanGrantRole, Grants!WiderThan, Grants!AtLeast
<1>3. /\ Grants!ScopeRank[role.scope] <= Grants!ScopeRank[actor.scope]
      /\ Grants!LevelRank[role.level] <= Grants!LevelRank[actor.level]
      /\ <<role.scope, role.level>> # <<actor.scope, actor.level>>
  BY <1>1, <1>2, Ranks
<1> QED BY <1>3 DEF Grants!Below

(* What someone gives with a token that passes the users' gate is below a   *)
(* role the server started with.                                            *)
LEMMA GivenIsDerived ==
    ASSUME Grants!GrantsAssumption, GrantsInv, NEW a \in Users,
           NEW action \in {"create", "update", "delete"}, token[a] \in Grants!UsersGate[action],
           NEW role \in Held,
           Grants!CanManageRole(token[a], role, TRUE) \/ Grants!CanGrantRole(token[a], role)
    PROVE  Derived(role)
<1>1. /\ token[a] \in Held /\ token[a].scope \in {"university", "platform"}
      /\ token[a].unit = NoUnit
  BY GateIsInstitution
<1>2. Grants!Below(role, token[a])
  BY <1>1, GivenIsBelow
<1>3. token[a] \notin {NoRole, NoToken}
  BY <1>1 DEF Grants!GrantsAssumption, Held
<1>4. token[a] = Starting[a] \/ Derived(token[a])
  BY <1>3 DEF GrantsInv, Grants!AuthorityNeverGrows, Derived
<1>5. CASE token[a] = Starting[a]
  <2>1. token[a] \in Grants!RootRoles
    BY <1>3, <1>5 DEF Grants!RootRoles
  <2> QED BY <2>1, <1>2 DEF Derived
<1>6. CASE Derived(token[a])
  <2>1. PICK root \in Grants!RootRoles : Grants!Below(token[a], root)
    BY <1>6 DEF Derived
  <2>2. root \in Held
    BY <2>1 DEF Grants!RootRoles, Grants!GrantsAssumption, Held
  <2>3. Grants!Below(role, root)
    BY <1>1, <1>2, <2>1, <2>2, BelowTransitive
  <2> QED BY <2>1, <2>3 DEF Derived
<1> QED BY <1>4, <1>5, <1>6

(* A role that requests name and that names a unit of its scope is one.     *)
LEMMA AskedIsHeld ==
    ASSUME Grants!GrantsAssumption, NEW role \in Asked, Grants!ValidRoleScope(role)
    PROVE  role \in Held
BY RoleFields DEF Grants!GrantsAssumption, Grants!ValidRoleScope

(* The rows of calls. *)
LEMMA CallRows ==
    ASSUME Grants!GrantsAssumption
    PROVE  /\ Grants!Idle \in Grants!CallRow /\ Grants!Idle.pc = "idle"
           /\ \A pc \in {"set", "delete", "create"}, actor \in Held, t \in Users, role \in Held \cup {NoRole} :
                 [pc |-> pc, actor |-> actor, target |-> t, role |-> role] \in Grants!CallRow
           /\ \A call \in Grants!CallRow : call.pc # "idle" =>
                 /\ call.target \in Users /\ call.role \in Held \cup {NoRole}
BY DEF Grants!CallRow, Grants!Idle, Held

LEMMA GrantsBegin == Grants!GrantsAssumption /\ Grants!Init => GrantsInv
<1> SUFFICES ASSUME Grants!GrantsAssumption, Grants!Init PROVE GrantsInv
  OBVIOUS
<1>1. Grants!TypeOK
  BY CallRows DEF Grants!Init, Grants!TypeOK, Grants!GrantsAssumption
<1>2. Grants!AuthorityNeverGrows
  BY DEF Grants!Init, Grants!AuthorityNeverGrows
<1>3. \A c \in Calls : CallDerived(c)
  BY CallRows DEF Grants!Init, CallDerived
<1> QED BY <1>1, <1>2, <1>3 DEF GrantsInv

(* A call that begins with a role that may be given keeps the invariant.    *)
LEMMA BeginKeeps ==
    ASSUME Grants!GrantsAssumption, GrantsInv, NEW c \in Calls, NEW a \in Users, NEW t \in Users,
           NEW pc \in {"set", "delete", "create"}, token[a] \in Held,
           NEW role \in Held \cup {NoRole}, pc # "delete" /\ role # NoRole => Derived(role),
           Grants!Begin(c, pc, a, t, role)
    PROVE  GrantsInv'
<1> DEFINE call == [pc |-> pc, actor |-> token[a], target |-> t, role |-> role]
<1>1. call \in Grants!CallRow /\ call.pc = pc /\ call.role = role
  BY CallRows
<1>2. calls' = [calls EXCEPT ![c] = call] /\ UNCHANGED <<accounts, roles, token>>
  BY DEF Grants!Begin
<1> HIDE DEF call
<1>3. Grants!TypeOK'
  BY <1>1, <1>2 DEF GrantsInv, Grants!TypeOK
<1>4. Grants!AuthorityNeverGrows'
  BY <1>2 DEF GrantsInv, Grants!AuthorityNeverGrows
<1>5. \A d \in Calls : CallDerived(d)'
  <2>1. calls'[c] = call /\ \A d \in Calls \ {c} : calls'[d] = calls[d]
    BY <1>2 DEF GrantsInv, Grants!TypeOK
  <2> QED BY <1>1, <2>1 DEF GrantsInv, CallDerived, Derived
<1> QED BY <1>3, <1>4, <1>5 DEF GrantsInv

(* So does one that ends, when what it wrote may be held.                   *)
LEMMA EndKeeps ==
    ASSUME Grants!GrantsAssumption, GrantsInv, NEW c \in Calls, Grants!End(c), token' = token,
           accounts' \subseteq Users, roles' \in [Users -> Held \cup {NoRole}],
           \A u \in Users : roles'[u] \in {roles[u], NoRole} \/ Derived(roles'[u])
    PROVE  GrantsInv'
<1>1. /\ calls'[c] = Grants!Idle /\ \A d \in Calls \ {c} : calls'[d] = calls[d]
      /\ calls' \in [Calls -> Grants!CallRow]
  BY CallRows DEF Grants!End, GrantsInv, Grants!TypeOK
<1>2. Grants!TypeOK'
  BY <1>1 DEF GrantsInv, Grants!TypeOK, Held
<1>3. Grants!AuthorityNeverGrows'
  BY DEF GrantsInv, Grants!AuthorityNeverGrows, Derived
<1>4. \A d \in Calls : CallDerived(d)'
  BY <1>1, CallRows DEF GrantsInv, CallDerived, Derived
<1> QED BY <1>2, <1>3, <1>4 DEF GrantsInv

LEMMA GrantsStep ==
    ASSUME Grants!GrantsAssumption, GrantsInv, [Grants!Next]_(Grants!vars)
    PROVE  GrantsInv'
<1>1. CASE UNCHANGED Grants!vars
  BY <1>1 DEF Grants!vars, GrantsInv, Grants!TypeOK, Grants!AuthorityNeverGrows,
     CallDerived, Derived
<1>2. ASSUME NEW u \in Users, Grants!Issue(u) \/ Grants!Expire(u) PROVE GrantsInv'
  <2>1. token' = [token EXCEPT ![u] = token'[u]] /\ token'[u] \in {roles[u], NoToken}
        /\ UNCHANGED <<accounts, roles, calls>>
    BY <1>2 DEF Grants!Issue, Grants!Expire, GrantsInv, Grants!TypeOK
  <2>2. Grants!TypeOK'
    BY <2>1 DEF GrantsInv, Grants!TypeOK
  <2>3. Grants!AuthorityNeverGrows'
    BY <2>1 DEF GrantsInv, Grants!AuthorityNeverGrows, Grants!TypeOK
  <2>4. \A d \in Calls : CallDerived(d)'
    BY <2>1 DEF GrantsInv, CallDerived, Derived
  <2> QED BY <2>2, <2>3, <2>4 DEF GrantsInv
<1>3. ASSUME NEW c \in Calls, Grants!SetRole(c) PROVE GrantsInv'
  <2>1. calls[c].role \in Held \cup {NoRole} /\ calls[c].target \in Users
    BY <1>3, CallRows DEF Grants!SetRole, GrantsInv, Grants!TypeOK
  <2>2. calls[c].role # NoRole => Derived(calls[c].role)
    BY <1>3 DEF Grants!SetRole, GrantsInv, CallDerived
  <2>3. /\ roles' = [roles EXCEPT ![calls[c].target] = calls[c].role]
        /\ roles' \in [Users -> Held \cup {NoRole}]
    BY <1>3, <2>1 DEF Grants!SetRole, GrantsInv, Grants!TypeOK, Held
  <2>4. \A u \in Users : roles'[u] \in {roles[u], calls[c].role}
    BY <2>1, <2>3 DEF GrantsInv, Grants!TypeOK
  <2>5. accounts' = accounts /\ token' = token /\ Grants!End(c) /\ accounts' \subseteq Users
    BY <1>3 DEF Grants!SetRole, GrantsInv, Grants!TypeOK
  <2> QED BY <2>2, <2>3, <2>4, <2>5, EndKeeps
<1>4. ASSUME NEW c \in Calls, Grants!DeleteRole(c) PROVE GrantsInv'
  <2>1. calls[c].target \in Users
    BY <1>4, CallRows DEF Grants!DeleteRole, GrantsInv, Grants!TypeOK
  <2>2. /\ roles' = [roles EXCEPT ![calls[c].target] = NoRole]
        /\ roles' \in [Users -> Held \cup {NoRole}]
    BY <1>4, <2>1 DEF Grants!DeleteRole, GrantsInv, Grants!TypeOK, Held
  <2>3. \A u \in Users : roles'[u] \in {roles[u], NoRole}
    BY <2>1, <2>2 DEF GrantsInv, Grants!TypeOK
  <2>4. accounts' = accounts /\ token' = token /\ Grants!End(c) /\ accounts' \subseteq Users
    BY <1>4 DEF Grants!DeleteRole, GrantsInv, Grants!TypeOK
  <2> QED BY <2>2, <2>3, <2>4, EndKeeps
<1>5. ASSUME NEW c \in Calls, Grants!CreateStaffUser(c) PROVE GrantsInv'
  <2>1. calls[c].role \in Held \cup {NoRole} /\ calls[c].target \in Users
    BY <1>5, CallRows DEF Grants!CreateStaffUser, GrantsInv, Grants!TypeOK
  <2>2. calls[c].role # NoRole => Derived(calls[c].role)
    BY <1>5 DEF Grants!CreateStaffUser, GrantsInv, CallDerived
  <2>3. /\ token' = token /\ Grants!End(c) /\ accounts' \subseteq Users
        /\ \/ roles' = roles
           \/ roles' = [roles EXCEPT ![calls[c].target] = calls[c].role]
    BY <1>5, <2>1 DEF Grants!CreateStaffUser, GrantsInv, Grants!TypeOK
  <2>4. /\ roles' \in [Users -> Held \cup {NoRole}]
        /\ \A u \in Users : roles'[u] \in {roles[u], calls[c].role}
    BY <2>1, <2>3 DEF GrantsInv, Grants!TypeOK, Held
  <2> QED BY <2>2, <2>3, <2>4, EndKeeps
<1>6. ASSUME NEW c \in Calls, NEW a \in Users, NEW t \in Users, Grants!BeginRemove(c, a, t)
      PROVE  GrantsInv'
  <2>1. token[a] \in Grants!UsersGate["delete"] /\ Grants!Begin(c, "delete", a, t, roles[t])
    BY <1>6 DEF Grants!BeginRemove
  <2>2. token[a] \in Held /\ roles[t] \in Held \cup {NoRole}
    BY <2>1, GateIsInstitution DEF GrantsInv, Grants!TypeOK, Held
  <2> QED BY <2>1, <2>2, BeginKeeps
<1>7. ASSUME NEW c \in Calls, NEW a \in Users, NEW t \in Users, NEW role \in Asked,
             Grants!BeginAssign(c, a, t, role)
      PROVE  GrantsInv'
  <2>1. /\ token[a] \in Grants!UsersGate["update"] /\ Grants!Begin(c, "set", a, t, role)
        /\ Grants!CanManageRole(token[a], role, TRUE) /\ Grants!ValidRoleScope(role)
    BY <1>7 DEF Grants!BeginAssign
  <2>2. token[a] \in Held /\ role \in Held
    BY <2>1, GateIsInstitution, AskedIsHeld
  <2>3. Derived(role)
    BY <2>1, <2>2, GivenIsDerived
  <2> QED BY <2>1, <2>2, <2>3, BeginKeeps
<1>8. ASSUME NEW c \in Calls, NEW a \in Users, NEW t \in Users, NEW role \in Asked \cup {NoRole},
             Grants!BeginCreateStaffUser(c, a, t, role)
      PROVE  GrantsInv'
  <2>1. /\ token[a] \in Grants!UsersGate["create"] /\ Grants!Begin(c, "create", a, t, role)
        /\ role # NoRole => Grants!CanGrantRole(token[a], role) /\ Grants!ValidRoleScope(role)
    BY <1>8 DEF Grants!BeginCreateStaffUser
  <2>2. token[a] \in Held /\ role \in Held \cup {NoRole}
    BY <2>1, GateIsInstitution, AskedIsHeld
  <2>3. role # NoRole => Derived(role)
    BY <2>1, <2>2, GivenIsDerived
  <2> QED BY <2>1, <2>2, <2>3, BeginKeeps
<1> QED BY <1>1, <1>2, <1>3, <1>4, <1>5, <1>6, <1>7, <1>8 DEF Grants!Next

(* Authority never grows, on any tree of units, with any users, starting     *)
(* roles, requests and any number of calls in flight: whatever anybody comes *)
(* to hold, or has in a token, is strictly below a role the server started   *)
(* with, unless he started with it (authz/staff.go: CanManageRole,           *)
(* CanGrantRole; identity/role.go, staff.go).                                *)
THEOREM AuthorityNeverGrowsAnywhere == Grants!Spec => []AuthorityNeverGrows
<1>1. Grants!Init => GrantsInv
  BY GrantsBegin, GrantsAssumption
<1>2. GrantsInv /\ [Grants!Next]_(Grants!vars) => GrantsInv'
  BY GrantsStep, GrantsAssumption
<1>3. GrantsInv => AuthorityNeverGrows
  BY DEF GrantsInv, AuthorityNeverGrows
<1> QED BY <1>1, <1>2, <1>3, PTL DEF Grants!Spec
=============================================================================
