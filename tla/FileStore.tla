------------------------------ MODULE FileStore ------------------------------
(***************************************************************************)
(* The files context (internal/files): a content-addressed store on two    *)
(* systems that share no transaction.  PostgreSQL holds one inode row per  *)
(* content with a count of the references to it, the upload receipts and   *)
(* the consumers' attachment rows; MinIO holds the bytes.                  *)
(*                                                                         *)
(* A request is a sequence of separate database and object-store calls, so *)
(* it is a process with a program counter; the janitor goroutine is        *)
(* another.  One SQL statement, or one transaction, is one step.           *)
(***************************************************************************)
EXTENDS Naturals, FiniteSets

CONSTANTS
    Content,      \* the distinct contents; a content stands for its sha256
    InodeId,      \* the uuids an inode row can get
    Receipt,      \* the uuids an upload receipt can get
    Attachment,   \* the uuids a consumer's attachment row can get
    BlindDetach,  \* the attachments of tables whose DELETE reports no row
                  \* (announcements); the others use DELETE .. RETURNING
    Legacy,       \* the inodes older than the content-addressed layout
    Request,      \* the requests in flight
    Batch,        \* the candidates one sweep takes
    MaxFaults,    \* bound on crashes, timeouts and lost calls
    None          \* no value

ASSUME BlindDetachAssumption == BlindDetach \subseteq Attachment
ASSUME LegacyAssumption == Legacy \subseteq InodeId
ASSUME NoneAssumption == None \notin Content \cup InodeId \cup Attachment
ASSUME FiniteAssumption ==
    IsFiniteSet(Receipt) /\ IsFiniteSet(Attachment) /\ IsFiniteSet(Request)
ASSUME BoundAssumption == Batch \in Nat \ {0} /\ MaxFaults \in Nat

VARIABLES
    inode,     \* table inodes
    receipt,   \* table uploads
    att,       \* the attachment tables of classroom and announcements
    objects,   \* the keys that exist in the bucket, tmp/ apart
    req,       \* the local state of each request
    jan,       \* the local state of the janitor goroutine
    faults     \* faults so far

vars == <<inode, receipt, att, objects, req, jan, faults>>

-----------------------------------------------------------------------------
(* Rows.  A uuid is used once: "unused" before the INSERT, "deleted" after *)
(* the DELETE, never inserted again.                                       *)

InodeState == {"unused", "live", "gc", "deleted"}

Inode == [state : InodeState, hash : Content \cup {None}, links : Nat, legacy : BOOLEAN]

Upload == [state : {"unused", "fresh", "old", "expired"}, inode : InodeId \cup {None}]

(* "missed" is history: a later DELETE found the row already removed, and  *)
(* its request could not tell.                                             *)
AttachmentRow ==
    [state : {"unused", "present", "removed", "missed"}, inode : InodeId \cup {None}]

Stored(i) == inode[i].state \in {"live", "gc"}

HeldReceipt(u) == receipt[u].state \in {"fresh", "old"}

ReceiptsOf(i) == {u \in Receipt : HeldReceipt(u) /\ receipt[u].inode = i}

OldReceiptsOf(i) == {u \in Receipt : receipt[u].state = "old" /\ receipt[u].inode = i}

AttachmentsOf(i) == {a \in Attachment : att[a].state = "present" /\ att[a].inode = i}

(* Object keys: sha256/<hash>, or the location from before the rebuild. *)
ObjectKeyFor(h) == <<"sha256", h>>

LegacyKey(i) == <<"legacy", i>>

ObjectKey(i) == IF inode[i].legacy THEN LegacyKey(i) ELSE ObjectKeyFor(inode[i].hash)

Key == ({"sha256"} \X Content) \cup ({"legacy"} \X InodeId)

Candidate == [id : InodeId, key : Key]

RequestPc == {"idle", "copy", "claim", "link", "insert", "delete", "unlink"}

RequestState ==
    [pc : RequestPc, hash : Content \cup {None}, inode : InodeId \cup {None},
     att : Attachment \cup {None}]

IdleRequest == [pc |-> "idle", hash |-> None, inode |-> None, att |-> None]

JanitorState ==
    [pc : {"expire", "list", "sweep", "restore", "remove"},
     todo : SUBSET Candidate, cur : Candidate \cup {None}]

IdleJanitor == [pc |-> "expire", todo |-> {}, cur |-> None]

TypeOK ==
    /\ inode \in [InodeId -> Inode]
    /\ receipt \in [Receipt -> Upload]
    /\ att \in [Attachment -> AttachmentRow]
    /\ objects \in SUBSET Key
    /\ req \in [Request -> RequestState]
    /\ jan \in JanitorState
    /\ faults \in Nat

(* Before the first request: the rows migration 000055 kept, each of a     *)
(* content of its own, at its legacy key, counting the attachments that    *)
(* already point at it - live even when there are none.                    *)
Init ==
    /\ \E h \in [Legacy -> Content], p \in [Attachment -> Legacy \cup {None}] :
        /\ \A i, j \in Legacy : h[i] = h[j] => i = j
        /\ inode = [i \in InodeId |->
              IF i \in Legacy
              THEN [state |-> "live", hash |-> h[i], legacy |-> TRUE,
                    links |-> Cardinality({a \in Attachment : p[a] = i})]
              ELSE [state |-> "unused", hash |-> None, legacy |-> FALSE, links |-> 0]]
        /\ att = [a \in Attachment |->
              [state |-> IF p[a] = None THEN "unused" ELSE "present", inode |-> p[a]]]
    /\ receipt = [u \in Receipt |-> [state |-> "unused", inode |-> None]]
    /\ objects = {LegacyKey(i) : i \in Legacy}
    /\ req = [r \in Request |-> IdleRequest]
    /\ jan = IdleJanitor
    /\ faults = 0

Goto(r, pc) == req' = [req EXCEPT ![r].pc = pc]

Finish(r) == req' = [req EXCEPT ![r] = IdleRequest]

-----------------------------------------------------------------------------
(* Bytes in. *)

(* Put streams the body to tmp/<uuid> and hashes it on the way; the tmp    *)
(* object belongs to this attempt alone and is not modelled.               *)
UploadPut(r, h) ==
    /\ req[r].pc = "idle"
    /\ req' = [req EXCEPT ![r] = [IdleRequest EXCEPT !.pc = "copy", !.hash = h]]
    /\ UNCHANGED <<inode, receipt, att, objects, jan, faults>>

ServerCopy(r) ==
    /\ req[r].pc = "copy"
    /\ objects' = objects \cup {ObjectKeyFor(req[r].hash)}
    /\ Goto(r, "claim")
    /\ UNCHANGED <<inode, receipt, att, jan, faults>>

(* Mutant: a dedup hit gains its link but stays in whatever state it was.  *)
UpsertKeepsState(i, h) ==
    \/ /\ Stored(i) /\ inode[i].hash = h
       /\ inode' = [inode EXCEPT ![i].links = @ + 1, ![i].legacy = FALSE]
    \/ /\ \A j \in InodeId : ~(Stored(j) /\ inode[j].hash = h)
       /\ inode[i].state = "unused"
       /\ inode' = [inode EXCEPT ![i] =
              [state |-> "live", hash |-> h, links |-> 1, legacy |-> FALSE]]

(* INSERT .. ON CONFLICT (content_hash): the row of this hash gains a link *)
(* and is live again, at its content address; a fresh hash starts at one.  *)
UpsertInode(i, h) ==
    \/ /\ Stored(i) /\ inode[i].hash = h
       /\ inode' = [inode EXCEPT ![i].links = @ + 1, ![i].state = "live",
                                 ![i].legacy = FALSE]
    \/ /\ \A j \in InodeId : ~(Stored(j) /\ inode[j].hash = h)
       /\ inode[i].state = "unused"
       /\ inode' = [inode EXCEPT ![i] =
              [state |-> "live", hash |-> h, links |-> 1, legacy |-> FALSE]]

CreateUpload(r, i, u) ==
    /\ req[r].pc = "claim"
    /\ receipt[u].state = "unused"
    /\ UpsertInode(i, req[r].hash)
    /\ receipt' = [receipt EXCEPT ![u] = [state |-> "fresh", inode |-> i]]
    /\ Finish(r)
    /\ UNCHANGED <<att, objects, jan, faults>>

-----------------------------------------------------------------------------
(* Attach: resolve the receipt, Link, insert the referrer row. *)

(* Mutant: the referrer row is inserted and nobody called Link. *)
ResolveWithoutLink(r, u) ==
    /\ req[r].pc = "idle"
    /\ HeldReceipt(u)
    /\ req' = [req EXCEPT ![r] =
          [IdleRequest EXCEPT !.pc = "insert", !.inode = receipt[u].inode]]
    /\ UNCHANGED <<inode, receipt, att, objects, jan, faults>>

ResolveUpload(r, u) ==
    /\ req[r].pc = "idle"
    /\ HeldReceipt(u)
    /\ req' = [req EXCEPT ![r] =
          [IdleRequest EXCEPT !.pc = "link", !.inode = receipt[u].inode]]
    /\ UNCHANGED <<inode, receipt, att, objects, jan, faults>>

(* One UPDATE guarded on the row being live; ErrFileGone or               *)
(* ErrInodeNotFound end the request.                                       *)
Link(r) ==
    /\ req[r].pc = "link"
    /\ \/ /\ inode[req[r].inode].state = "live"
          /\ inode' = [inode EXCEPT ![req[r].inode].links = @ + 1]
          /\ Goto(r, "insert")
       \/ /\ inode[req[r].inode].state # "live"
          /\ Finish(r)
          /\ UNCHANGED inode
    /\ UNCHANGED <<receipt, att, objects, jan, faults>>

CreateAttachment(r, a) ==
    /\ req[r].pc = "insert"
    /\ att[a].state = "unused"
    /\ Stored(req[r].inode)      \* the foreign key
    /\ att' = [att EXCEPT ![a] = [state |-> "present", inode |-> req[r].inode]]
    /\ Finish(r)
    /\ UNCHANGED <<inode, receipt, objects, jan, faults>>

(* The insert fails - its post or assignment is gone, or the foreign key - *)
(* and the caller takes the link back.                                     *)
CreateAttachmentFails(r) ==
    /\ req[r].pc = "insert"
    /\ Goto(r, "unlink")
    /\ UNCHANGED <<inode, receipt, att, objects, jan, faults>>

-----------------------------------------------------------------------------
(* Detach: delete the referrer row, then Unlink. *)

(* Announcements read the row first and learn nothing from the DELETE. *)
ReadAttachment(r, a) ==
    /\ req[r].pc = "idle"
    /\ a \in BlindDetach
    /\ att[a].state = "present"
    /\ req' = [req EXCEPT ![r] =
          [IdleRequest EXCEPT !.pc = "delete", !.inode = att[a].inode, !.att = a]]
    /\ UNCHANGED <<inode, receipt, att, objects, jan, faults>>

DeleteAttachment(r) ==
    /\ req[r].pc = "delete"
    /\ att' = [att EXCEPT ![req[r].att].state =
                  IF @ = "present" THEN "removed" ELSE "missed"]
    /\ Goto(r, "unlink")
    /\ UNCHANGED <<inode, receipt, objects, jan, faults>>

(* Classroom takes the inode from DELETE .. RETURNING: one request wins. *)
DeleteReturning(r, a) ==
    /\ req[r].pc = "idle"
    /\ a \notin BlindDetach
    /\ att[a].state = "present"
    /\ att' = [att EXCEPT ![a].state = "removed"]
    /\ req' = [req EXCEPT ![r] =
          [IdleRequest EXCEPT !.pc = "unlink", !.inode = att[a].inode]]
    /\ UNCHANGED <<inode, receipt, objects, jan, faults>>

(* Mutant: the UPDATE without its link_count guard. *)
UnlinkUnguarded(r) ==
    /\ req[r].pc = "unlink"
    /\ LET i == req[r].inode
       IN  inode' = IF Stored(i)
                    THEN [inode EXCEPT ![i].links = @ - 1,
                              ![i].state = IF inode[i].links = 1 THEN "gc" ELSE @]
                    ELSE inode
    /\ Finish(r)
    /\ UNCHANGED <<receipt, att, objects, jan, faults>>

(* One UPDATE guarded on link_count >= 1; zero marks the row for the       *)
(* sweeper.  ErrInodeNotFound is only logged.                              *)
Unlink(r) ==
    /\ req[r].pc = "unlink"
    /\ LET i == req[r].inode
       IN  inode' = IF Stored(i) /\ inode[i].links >= 1
                    THEN [inode EXCEPT ![i].links = @ - 1,
                              ![i].state = IF inode[i].links = 1 THEN "gc" ELSE @]
                    ELSE inode
    /\ Finish(r)
    /\ UNCHANGED <<receipt, att, objects, jan, faults>>

-----------------------------------------------------------------------------
(* The janitor: expire receipts, then reclaim the gc rows. *)

(* UploadTTL passes. *)
Age(u) ==
    /\ receipt[u].state = "fresh"
    /\ receipt' = [receipt EXCEPT ![u].state = "old"]
    /\ UNCHANGED <<inode, att, objects, req, jan, faults>>

(* CHECK (link_count >= 0) holds of every row the expiry would write. *)
ExpiryFits == \A i \in InodeId : Cardinality(OldReceiptsOf(i)) <= inode[i].links

(* One transaction over every old receipt; a failed round is only logged. *)
ExpireBefore ==
    /\ jan.pc = "expire"
    /\ jan' = [jan EXCEPT !.pc = "list"]
    /\ \/ /\ ExpiryFits
          /\ receipt' = [u \in Receipt |->
                IF receipt[u].state = "old" THEN [receipt[u] EXCEPT !.state = "expired"]
                ELSE receipt[u]]
          /\ inode' = [i \in InodeId |->
                LET n == Cardinality(OldReceiptsOf(i))
                IN  IF n = 0 THEN inode[i]
                    ELSE [inode[i] EXCEPT !.links = @ - n,
                              !.state = IF inode[i].links = n THEN "gc" ELSE @]]
       \/ /\ ~ExpiryFits
          /\ UNCHANGED <<inode, receipt>>
    /\ UNCHANGED <<att, objects, req, faults>>

GcRows == {i \in InodeId : inode[i].state = "gc"}

(* Mutant: the LIMIT is off by one. *)
GCCandidatesButOne ==
    /\ jan.pc = "list"
    /\ \E S \in SUBSET GcRows :
        /\ Cardinality(S) < Batch
        /\ Cardinality(S) < Batch - 1 => S = GcRows
        /\ jan' = [pc |-> "sweep", cur |-> None,
                   todo |-> {[id |-> i, key |-> ObjectKey(i)] : i \in S}]
    /\ UNCHANGED <<inode, receipt, att, objects, req, faults>>

(* SELECT .. WHERE state = 'gc' LIMIT n, in no order: whole rows, so the   *)
(* key of each candidate is the one it had then.                           *)
GCCandidates ==
    /\ jan.pc = "list"
    /\ \E S \in SUBSET GcRows :
        /\ Cardinality(S) <= Batch
        /\ Cardinality(S) < Batch => S = GcRows
        /\ jan' = [pc |-> "sweep", cur |-> None,
                   todo |-> {[id |-> i, key |-> ObjectKey(i)] : i \in S}]
    /\ UNCHANGED <<inode, receipt, att, objects, req, faults>>

Referenced(i) == ReceiptsOf(i) # {} \/ AttachmentsOf(i) # {}

NextCandidate(c) == jan' = [pc |-> "sweep", cur |-> None, todo |-> jan.todo \ {c}]

(* Mutant: no foreign key on the referrer tables. *)
ReclaimWithoutVeto(c) ==
    /\ jan.pc = "sweep"
    /\ c \in jan.todo
    /\ \/ /\ inode[c.id].state = "gc" /\ inode[c.id].links = 0
          /\ inode' = [inode EXCEPT ![c.id].state = "deleted"]
          /\ jan' = [jan EXCEPT !.pc = "remove", !.cur = c]
       \/ /\ ~(inode[c.id].state = "gc" /\ inode[c.id].links = 0)
          /\ NextCandidate(c)
          /\ UNCHANGED inode
    /\ UNCHANGED <<receipt, att, objects, req, faults>>

(* Mutant: the bytes go first, the row with the next sweep. *)
ReclaimBytesFirst(c) ==
    /\ jan.pc = "sweep"
    /\ c \in jan.todo
    /\ jan' = [jan EXCEPT !.pc = "remove", !.cur = c]
    /\ UNCHANGED <<inode, receipt, att, objects, req, faults>>

(* DELETE .. WHERE state = 'gc' AND link_count = 0 under the hash's lock:  *)
(* the row goes, or it was resurrected, or a foreign key vetoes.           *)
Reclaim(c) ==
    /\ jan.pc = "sweep"
    /\ c \in jan.todo
    /\ LET i == c.id
           dead == inode[i].state = "gc" /\ inode[i].links = 0
       IN  \/ /\ dead /\ ~Referenced(i)
              /\ inode' = [inode EXCEPT ![i].state = "deleted"]
              /\ jan' = [jan EXCEPT !.pc = "remove", !.cur = c]
           \/ /\ ~dead
              /\ NextCandidate(c)
              /\ UNCHANGED inode
           \/ /\ dead /\ Referenced(i)
              /\ jan' = [jan EXCEPT !.pc = "restore", !.cur = c]
              /\ UNCHANGED inode
    /\ UNCHANGED <<receipt, att, objects, req, faults>>

(* After the rollback, outside the lock. *)
RestoreVetoed ==
    /\ jan.pc = "restore"
    /\ inode' = [inode EXCEPT ![jan.cur.id].state = IF Stored(jan.cur.id) THEN "live" ELSE @]
    /\ NextCandidate(jan.cur)
    /\ UNCHANGED <<receipt, att, objects, req, faults>>

(* After the commit, outside the lock: the bytes go at the candidate's key. *)
RemoveObject ==
    /\ jan.pc = "remove"
    /\ objects' = objects \ {jan.cur.key}
    /\ NextCandidate(jan.cur)
    /\ UNCHANGED <<inode, receipt, att, req, faults>>

(* The sweep is over; the ticker starts the next round. *)
Tick ==
    /\ jan.pc = "sweep"
    /\ jan.todo = {}
    /\ jan' = IdleJanitor
    /\ UNCHANGED <<inode, receipt, att, objects, req, faults>>

-----------------------------------------------------------------------------
(* Faults: a store or database call fails, the context is cancelled, the   *)
(* process dies.  What committed stays; the rest of the flow never runs.   *)

RequestDies(r) ==
    /\ faults < MaxFaults
    /\ req[r].pc # "idle"
    /\ Finish(r)
    /\ faults' = faults + 1
    /\ UNCHANGED <<inode, receipt, att, objects, jan>>

JanitorDies ==
    /\ faults < MaxFaults
    /\ jan.pc # "expire"
    /\ jan' = IdleJanitor
    /\ faults' = faults + 1
    /\ UNCHANGED <<inode, receipt, att, objects, req>>

(* MinIO refuses the removal; the sweep logs it and goes on. *)
RemoveFails ==
    /\ faults < MaxFaults
    /\ jan.pc = "remove"
    /\ NextCandidate(jan.cur)
    /\ faults' = faults + 1
    /\ UNCHANGED <<inode, receipt, att, objects, req>>

-----------------------------------------------------------------------------
RequestStep(r) ==
    \/ \E h \in Content : UploadPut(r, h)
    \/ ServerCopy(r)
    \/ \E i \in InodeId, u \in Receipt : CreateUpload(r, i, u)
    \/ \E u \in Receipt : ResolveUpload(r, u)
    \/ Link(r)
    \/ \E a \in Attachment : CreateAttachment(r, a)
    \/ CreateAttachmentFails(r)
    \/ \E a \in Attachment : ReadAttachment(r, a)
    \/ DeleteAttachment(r)
    \/ \E a \in Attachment : DeleteReturning(r, a)
    \/ Unlink(r)

JanitorStep ==
    \/ ExpireBefore
    \/ GCCandidates
    \/ \E c \in jan.todo : Reclaim(c)
    \/ RestoreVetoed
    \/ RemoveObject
    \/ Tick

Next ==
    \/ \E r \in Request : RequestStep(r) \/ RequestDies(r)
    \/ \E u \in Receipt : Age(u)
    \/ JanitorStep
    \/ JanitorDies
    \/ RemoveFails

Spec == Init /\ [][Next]_vars

(* The janitor runs for as long as the process does: its ticker fires and  *)
(* its calls return.  Requests are owed nothing - a client may go away.    *)
FairSpec == Spec /\ WF_vars(JanitorStep)

-----------------------------------------------------------------------------
(* The requests that hold one counted link without a row yet, or owe an    *)
(* Unlink for a row already gone.                                          *)
OwedBy(i) == {r \in Request : req[r].pc \in {"insert", "unlink"} /\ req[r].inode = i}

(* So far no two requests removed the same attachment without noticing. *)
EachDetachCounts == \A a \in Attachment : att[a].state # "missed"

(* The count never drops below the references: "counts every reference     *)
(* pointing at it" (inode.go:14-18), every receipt and attachment row.     *)
(* Over-counts are allowed - a crash between Link and the insert leaves    *)
(* one - so this is the direction in which bytes could be lost.  Only two  *)
(* announcement requests that detach the same row may break it.            *)
LinksCoverReferences ==
    EachDetachCounts =>
        \A i \in InodeId :
            Cardinality(ReceiptsOf(i)) + Cardinality(AttachmentsOf(i)) <= inode[i].links

(* "no blob dies while anything still points at it" (doc.go): a receipt    *)
(* or an attachment always points at a stored row, and at a live one, so   *)
(* that the sweep never meets a referenced candidate.                      *)
ReferencedIsLive ==
    \A i \in InodeId : Referenced(i) => inode[i].state = "live"

(* Even when the count has drifted below the references, the foreign key   *)
(* keeps the row: no receipt and no attachment outlives its inode.         *)
NoDanglingReference == \A i \in InodeId : Referenced(i) => Stored(i)

(* A row still at its legacy location has its bytes there: the sweep       *)
(* removes a legacy object only once its row is gone for good.             *)
LegacyRowHasBytes ==
    \A i \in InodeId : Stored(i) /\ inode[i].legacy => LegacyKey(i) \in objects

(* What a row is trusted for: a referenced one is stored, whatever became  *)
(* of the count, and live as long as the count is right; one still at its  *)
(* legacy location has its bytes there (inode.go, postgres/inode.go).      *)
RowsCanBeTrusted ==
    /\ NoDanglingReference
    /\ LegacyRowHasBytes
    /\ EachDetachCounts => ReferencedIsLive

(* "a crash strands at worst an orphaned object, never a record pointing   *)
(* at missing bytes" (inode.go:16-18), for every row the store calls live. *)
NoRecordWithoutBytes ==
    \A i \in InodeId : inode[i].state = "live" => ObjectKey(i) \in objects

(* Every gc row is reclaimed or resurrected, whatever dies in between:     *)
(* "every crash reconciles on a later sweep" (inode.go:139).               *)
GcRowsAreReclaimed == \A i \in InodeId : inode[i].state = "gc" ~> inode[i].state # "gc"

(* A receipt past its TTL expires: "Both sweeps are idempotent, so a       *)
(* failed round just waits for the next tick" (janitor.go:8-9) - unless    *)
(* the count has drifted below what the expiry takes off.                  *)
OldReceiptsExpire ==
    \A u \in Receipt :
        receipt[u].state = "old" ~> receipt[u].state = "expired" \/ ~EachDetachCounts
=============================================================================
