--------------------------- MODULE FileStoreProofs ---------------------------
(* Proofs about FileStore, for any number of requests, contents and rows. *)
EXTENDS FileStore, FiniteSetTheorems, TLAPS

-----------------------------------------------------------------------------
(* Type correctness.  A program counter tells which local values are set,  *)
(* and a row that exists points at a row: without these the type of the    *)
(* link counts is not inductive.                                           *)

RowsPoint ==
    /\ \A i \in InodeId : Stored(i) => inode[i].hash \in Content
    /\ \A u \in Receipt :
          HeldReceipt(u) => receipt[u].inode \in InodeId /\ Stored(receipt[u].inode)
    /\ \A a \in Attachment :
          att[a].state = "present" => att[a].inode \in InodeId /\ Stored(att[a].inode)

RequestsPoint ==
    \A r \in Request :
        /\ req[r].pc \in {"copy", "claim"} => req[r].hash \in Content
        /\ req[r].pc \in {"link", "insert", "delete", "unlink"} => req[r].inode \in InodeId
        /\ req[r].pc = "delete" => req[r].att \in BlindDetach

JanitorPoints == jan.pc \in {"restore", "remove"} => jan.cur \in Candidate

TypeInv == TypeOK /\ RowsPoint /\ RequestsPoint /\ JanitorPoints

(* Sets of rows and requests are finite, so their counts are numbers. *)
LEMMA CountsAreNat ==
    \A i : /\ IsFiniteSet(ReceiptsOf(i)) /\ Cardinality(ReceiptsOf(i)) \in Nat
           /\ IsFiniteSet(OldReceiptsOf(i)) /\ Cardinality(OldReceiptsOf(i)) \in Nat
           /\ IsFiniteSet(AttachmentsOf(i)) /\ Cardinality(AttachmentsOf(i)) \in Nat
           /\ IsFiniteSet(OwedBy(i)) /\ Cardinality(OwedBy(i)) \in Nat
BY FiniteAssumption, FS_Subset, FS_CardinalityType
   DEF ReceiptsOf, OldReceiptsOf, AttachmentsOf, OwedBy

LEMMA InitTypeInv == Init => TypeInv
<1> SUFFICES ASSUME Init PROVE TypeInv
    OBVIOUS
<1>1. PICK h \in [Legacy -> Content], p \in [Attachment -> Legacy \cup {None}] :
        /\ inode = [i \in InodeId |->
              IF i \in Legacy
              THEN [state |-> "live", hash |-> h[i], legacy |-> TRUE,
                    links |-> Cardinality({a \in Attachment : p[a] = i})]
              ELSE [state |-> "unused", hash |-> None, legacy |-> FALSE, links |-> 0]]
        /\ att = [a \in Attachment |->
              [state |-> IF p[a] = None THEN "unused" ELSE "present", inode |-> p[a]]]
    BY DEF Init
<1>2. \A i : Cardinality({a \in Attachment : p[a] = i}) \in Nat
    BY FiniteAssumption, FS_Subset, FS_CardinalityType
<1>3. inode \in [InodeId -> Inode]
    BY <1>1, <1>2, LegacyAssumption DEF Inode, InodeState
<1>4. att \in [Attachment -> AttachmentRow]
    BY <1>1, LegacyAssumption DEF AttachmentRow
<1>5. /\ receipt \in [Receipt -> Upload]
      /\ objects \in SUBSET Key
      /\ req \in [Request -> RequestState]
      /\ jan \in JanitorState
      /\ faults \in Nat
    BY LegacyAssumption
    DEF Init, Upload, LegacyKey, Key, RequestState, RequestPc, IdleRequest,
        JanitorState, IdleJanitor
<1>6. RowsPoint
    BY <1>1, LegacyAssumption, NoneAssumption DEF Init, RowsPoint, Stored, HeldReceipt
<1>7. RequestsPoint /\ JanitorPoints
    BY DEF Init, RequestsPoint, JanitorPoints, IdleRequest, IdleJanitor
<1> QED
    BY <1>3, <1>4, <1>5, <1>6, <1>7 DEF TypeInv, TypeOK

(* Every step that writes inodes keeps the stored rows stored, except a    *)
(* reclaim, and a reclaim spares what is referenced.                       *)
LEMMA NextTypeInv == TypeInv /\ [Next]_vars => TypeInv'
<1> SUFFICES ASSUME TypeInv, [Next]_vars PROVE TypeInv'
    OBVIOUS
<1> USE DEF TypeInv, TypeOK
<1> DEFINE RequestTypes == req' \in [Request -> RequestState] /\ RequestsPoint'
           InodeTypes ==
             /\ inode' \in [InodeId -> Inode]
             /\ \A i \in InodeId : Stored(i)' => inode'[i].hash \in Content
           InodeKept ==
             InodeTypes /\ \A i \in InodeId : Stored(i) => Stored(i)'
<1>a. ASSUME InodeKept, UNCHANGED <<receipt, att>>
      PROVE  RowsPoint'
    BY <1>a DEF RowsPoint, Stored, HeldReceipt
<1>b. ASSUME UNCHANGED inode
      PROVE  InodeKept
    BY <1>b DEF RowsPoint, Stored
<1>c. ASSUME UNCHANGED jan PROVE jan' \in JanitorState /\ JanitorPoints'
    BY <1>c DEF JanitorPoints
<1>d. ASSUME UNCHANGED req PROVE RequestTypes
    BY <1>d DEF RequestsPoint
<1>1. ASSUME NEW r \in Request, NEW h \in Content, UploadPut(r, h) PROVE TypeInv'
    <2>1. RequestTypes
        BY <1>1 DEF UploadPut, IdleRequest, RequestState, RequestPc, RequestsPoint
    <2> QED
        BY <1>1, <1>a, <1>b, <1>c, <2>1 DEF UploadPut
<1>2. ASSUME NEW r \in Request, ServerCopy(r) PROVE TypeInv'
    <2>1. RequestTypes
        BY <1>2 DEF ServerCopy, Goto, RequestState, RequestPc, RequestsPoint
    <2>2. objects' \in SUBSET Key
        BY <1>2 DEF ServerCopy, Key, ObjectKeyFor, RequestsPoint
    <2> QED
        BY <1>2, <1>a, <1>b, <1>c, <2>1, <2>2 DEF ServerCopy
<1>3. ASSUME NEW r \in Request, NEW i \in InodeId, NEW u \in Receipt, CreateUpload(r, i, u)
      PROVE TypeInv'
    <2>1. RequestTypes
        BY <1>3 DEF CreateUpload, Finish, IdleRequest, RequestState, RequestPc, RequestsPoint
    <2>2. req[r].hash \in Content
        BY <1>3 DEF CreateUpload, RequestsPoint
    <2>3. InodeKept /\ Stored(i)'
        <3>1. CASE /\ Stored(i)
                   /\ inode' = [inode EXCEPT ![i].links = @ + 1, ![i].state = "live",
                                             ![i].legacy = FALSE]
            <4>1. inode'[i] = [inode[i] EXCEPT !.links = @ + 1, !.state = "live", !.legacy = FALSE]
                BY <3>1
            <4>2. inode'[i] \in Inode /\ inode'[i].hash = inode[i].hash /\ inode'[i].state = "live"
                <5> DEFINE n == inode[i].links + 1
                <5>1. inode[i] \in Inode /\ n \in Nat
                    BY DEF Inode
                <5>2. inode'[i] = [inode[i] EXCEPT !.links = n, !.state = "live", !.legacy = FALSE]
                    BY <4>1
                <5> HIDE DEF n
                <5> QED
                    BY <5>1, <5>2 DEF Inode, InodeState
            <4> QED
                BY <3>1, <4>2 DEF Stored, RowsPoint
        <3>2. CASE inode' = [inode EXCEPT ![i] =
                      [state |-> "live", hash |-> req[r].hash, links |-> 1, legacy |-> FALSE]]
            BY <3>2, <2>2 DEF Inode, InodeState, Stored, RowsPoint
        <3> QED
            BY <1>3, <3>1, <3>2 DEF CreateUpload, UpsertInode
    <2>4. receipt' \in [Receipt -> Upload]
        BY <1>3 DEF CreateUpload, Upload
    <2>5. RowsPoint'
        BY <1>3, <2>3 DEF CreateUpload, RowsPoint, HeldReceipt, Stored
    <2> QED
        BY <1>3, <1>c, <2>1, <2>3, <2>4, <2>5 DEF CreateUpload
<1>4. ASSUME NEW r \in Request, NEW u \in Receipt, ResolveUpload(r, u) PROVE TypeInv'
    <2>1. RequestTypes
        BY <1>4 DEF ResolveUpload, IdleRequest, RequestState, RequestPc, RequestsPoint, RowsPoint
    <2> QED
        BY <1>4, <1>a, <1>b, <1>c, <2>1 DEF ResolveUpload
<1>5. ASSUME NEW r \in Request, Link(r) PROVE TypeInv'
    <2>1. RequestTypes
        BY <1>5 DEF Link, Goto, Finish, IdleRequest, RequestState, RequestPc, RequestsPoint
    <2>2. InodeKept
        BY <1>5 DEF Link, Inode, InodeState, Stored, RowsPoint
    <2> QED
        BY <1>5, <1>a, <1>c, <2>1, <2>2 DEF Link
<1>6. ASSUME NEW r \in Request, NEW a \in Attachment, CreateAttachment(r, a) PROVE TypeInv'
    <2>1. RequestTypes
        BY <1>6 DEF CreateAttachment, Finish, IdleRequest, RequestState, RequestPc, RequestsPoint
    <2>2. att' \in [Attachment -> AttachmentRow] /\ RowsPoint'
        BY <1>6 DEF CreateAttachment, AttachmentRow, RowsPoint, RequestsPoint, Stored, HeldReceipt
    <2> QED
        BY <1>6, <1>b, <1>c, <2>1, <2>2 DEF CreateAttachment
<1>7. ASSUME NEW r \in Request, CreateAttachmentFails(r) PROVE TypeInv'
    <2>1. RequestTypes
        BY <1>7 DEF CreateAttachmentFails, Goto, RequestState, RequestPc, RequestsPoint
    <2> QED
        BY <1>7, <1>a, <1>b, <1>c, <2>1 DEF CreateAttachmentFails
<1>8. ASSUME NEW r \in Request, NEW a \in Attachment, ReadAttachment(r, a) PROVE TypeInv'
    <2>1. RequestTypes
        BY <1>8, BlindDetachAssumption
        DEF ReadAttachment, IdleRequest, RequestState, RequestPc, RequestsPoint, RowsPoint
    <2> QED
        BY <1>8, <1>a, <1>b, <1>c, <2>1 DEF ReadAttachment
<1>9. ASSUME NEW r \in Request, DeleteAttachment(r) PROVE TypeInv'
    <2>1. RequestTypes
        BY <1>9 DEF DeleteAttachment, Goto, RequestState, RequestPc, RequestsPoint
    <2>2. att' \in [Attachment -> AttachmentRow] /\ RowsPoint'
        BY <1>9, BlindDetachAssumption
        DEF DeleteAttachment, AttachmentRow, RowsPoint, RequestsPoint, Stored, HeldReceipt
    <2> QED
        BY <1>9, <1>b, <1>c, <2>1, <2>2 DEF DeleteAttachment
<1>10. ASSUME NEW r \in Request, NEW a \in Attachment, DeleteReturning(r, a) PROVE TypeInv'
    <2>1. RequestTypes
        BY <1>10 DEF DeleteReturning, IdleRequest, RequestState, RequestPc, RequestsPoint, RowsPoint
    <2>2. att' \in [Attachment -> AttachmentRow] /\ RowsPoint'
        BY <1>10 DEF DeleteReturning, AttachmentRow, RowsPoint, Stored, HeldReceipt
    <2> QED
        BY <1>10, <1>b, <1>c, <2>1, <2>2 DEF DeleteReturning
<1>11. ASSUME NEW r \in Request, Unlink(r) PROVE TypeInv'
    <2>1. RequestTypes
        BY <1>11 DEF Unlink, Finish, IdleRequest, RequestState, RequestPc, RequestsPoint
    <2>2. InodeKept
        <3> DEFINE i == req[r].inode
        <3>1. CASE UNCHANGED inode
            BY <3>1, <1>b
        <3>2. CASE /\ Stored(i) /\ inode[i].links >= 1
                   /\ inode' = [inode EXCEPT ![i].links = @ - 1,
                              ![i].state = IF inode[i].links = 1 THEN "gc" ELSE @]
            <4>1. i \in InodeId
                BY <1>11 DEF Unlink, RequestsPoint
            <4>2. inode'[i] = [inode[i] EXCEPT !.links = @ - 1,
                                  !.state = IF inode[i].links = 1 THEN "gc" ELSE @]
                BY <3>2, <4>1
            <4>3. inode'[i] \in Inode /\ inode'[i].hash = inode[i].hash
                  /\ inode'[i].state \in {"live", "gc"}
                <5> DEFINE n == inode[i].links - 1
                           s == IF inode[i].links = 1 THEN "gc" ELSE inode[i].state
                <5>1. inode[i] \in Inode /\ n \in Nat /\ s \in {"live", "gc"}
                    BY <3>2, <4>1 DEF Inode, Stored
                <5>2. inode'[i] = [inode[i] EXCEPT !.links = n, !.state = s]
                    BY <4>2
                <5> HIDE DEF n, s
                <5> QED
                    BY <5>1, <5>2 DEF Inode, InodeState
            <4> QED
                BY <3>2, <4>1, <4>3 DEF Stored, RowsPoint
        <3> QED
            BY <1>11, <3>1, <3>2 DEF Unlink
    <2> QED
        BY <1>11, <1>a, <1>c, <2>1, <2>2 DEF Unlink
<1>12. ASSUME NEW r \in Request, RequestDies(r) PROVE TypeInv'
    <2>1. RequestTypes
        BY <1>12 DEF RequestDies, Finish, IdleRequest, RequestState, RequestPc, RequestsPoint
    <2> QED
        BY <1>12, <1>a, <1>b, <1>c, <2>1 DEF RequestDies
<1>13. ASSUME NEW u \in Receipt, Age(u) PROVE TypeInv'
    <2>1. receipt' \in [Receipt -> Upload] /\ RowsPoint'
        BY <1>13 DEF Age, Upload, HeldReceipt, RowsPoint, Stored
    <2> QED
        BY <1>13, <1>b, <1>c, <1>d, <2>1 DEF Age
<1>14. CASE ExpireBefore
    <2>1. jan' \in JanitorState /\ JanitorPoints'
        BY <1>14 DEF ExpireBefore, JanitorState, JanitorPoints
    <2>2. /\ receipt' \in [Receipt -> Upload]
          /\ \A v \in Receipt : HeldReceipt(v)' => HeldReceipt(v) /\ receipt'[v] = receipt[v]
        <3>1. CASE UNCHANGED receipt
            BY <3>1 DEF HeldReceipt
        <3>2. CASE receipt' = [u \in Receipt |->
                IF receipt[u].state = "old" THEN [receipt[u] EXCEPT !.state = "expired"]
                ELSE receipt[u]]
            <4>1. ASSUME NEW v \in Receipt
                  PROVE  /\ receipt'[v] \in Upload
                         /\ receipt'[v] = receipt[v] \/ receipt'[v].state = "expired"
                BY <3>2 DEF Upload
            <4> QED
                BY <3>2, <4>1 DEF HeldReceipt
        <3> QED
            BY <1>14, <3>1, <3>2 DEF ExpireBefore
    <2>3. InodeKept
        <3>1. CASE UNCHANGED inode
            BY <3>1, <1>b
        <3>2. CASE ExpiryFits /\ inode' = [i \in InodeId |->
                LET n == Cardinality(OldReceiptsOf(i))
                IN  IF n = 0 THEN inode[i]
                    ELSE [inode[i] EXCEPT !.links = @ - n,
                              !.state = IF inode[i].links = n THEN "gc" ELSE @]]
            <4>1. ASSUME NEW i \in InodeId
                  PROVE  /\ inode'[i] \in Inode
                         /\ Stored(i)' => inode'[i].hash \in Content
                         /\ Stored(i) => Stored(i)'
                <5> DEFINE n == Cardinality(OldReceiptsOf(i))
                <5>1. n \in Nat /\ n <= inode[i].links /\ inode[i].links \in Nat
                    BY <3>2, CountsAreNat DEF ExpiryFits, Inode
                <5>2. CASE n = 0
                    BY <3>2, <5>2 DEF Stored, RowsPoint
                <5>3. CASE n # 0
                    <6>1. Stored(i)
                        BY <5>3, FS_EmptySet DEF OldReceiptsOf, HeldReceipt, RowsPoint
                    <6>2. inode'[i] = [inode[i] EXCEPT !.links = @ - n,
                              !.state = IF inode[i].links = n THEN "gc" ELSE @]
                        BY <3>2, <5>3
                    <6>3. /\ inode'[i] \in Inode /\ inode'[i].hash = inode[i].hash
                          /\ inode'[i].state \in {"live", "gc"}
                        <7> DEFINE m == inode[i].links - n
                                   s == IF inode[i].links = n THEN "gc" ELSE inode[i].state
                        <7>1. inode[i] \in Inode /\ m \in Nat /\ s \in {"live", "gc"}
                            BY <5>1, <6>1 DEF Stored
                        <7>2. inode'[i] = [inode[i] EXCEPT !.links = m, !.state = s]
                            BY <6>2
                        <7> HIDE DEF m, s
                        <7> QED
                            BY <7>1, <7>2 DEF Inode, InodeState
                    <6> QED
                        BY <6>1, <6>3 DEF Stored, RowsPoint
                <5> QED
                    BY <5>2, <5>3
            <4>2. inode' = [i \in InodeId |-> inode'[i]]
                BY <3>2
            <4> QED
                BY <4>1, <4>2
        <3> QED
            BY <1>14, <3>1, <3>2 DEF ExpireBefore
    <2>4. RowsPoint'
        BY <1>14, <2>2, <2>3 DEF ExpireBefore, RowsPoint
    <2> QED
        BY <1>14, <1>d, <2>1, <2>2, <2>3, <2>4 DEF ExpireBefore
<1>15. CASE GCCandidates
    <2>1. PICK S \in SUBSET GcRows :
            jan' = [pc |-> "sweep", cur |-> None,
                    todo |-> {[id |-> i, key |-> ObjectKey(i)] : i \in S}]
        BY <1>15 DEF GCCandidates
    <2>2. \A i \in S : ObjectKey(i) \in Key /\ i \in InodeId
        BY DEF GcRows, ObjectKey, ObjectKeyFor, LegacyKey, Key, RowsPoint, Stored
    <2>3. jan' \in JanitorState /\ JanitorPoints'
        BY <2>1, <2>2 DEF JanitorState, JanitorPoints, Candidate
    <2> QED
        BY <1>15, <1>a, <1>b, <1>d, <2>3 DEF GCCandidates
<1>16. ASSUME NEW c \in jan.todo, Reclaim(c) PROVE TypeInv'
    <2>1. c \in Candidate
        BY DEF JanitorState
    <2>2. jan' \in JanitorState /\ JanitorPoints'
        <3>1. CASE NextCandidate(c)
            BY <3>1 DEF NextCandidate, JanitorState, JanitorPoints
        <3>2. CASE \/ jan' = [jan EXCEPT !.pc = "remove", !.cur = c]
                   \/ jan' = [jan EXCEPT !.pc = "restore", !.cur = c]
            BY <3>2, <2>1 DEF JanitorState, JanitorPoints
        <3> QED
            BY <1>16, <3>1, <3>2 DEF Reclaim
    <2>3. InodeTypes
        BY <1>16, <2>1 DEF Reclaim, Candidate, Inode, InodeState, RowsPoint, Stored
    <2>4. RowsPoint'
        BY <1>16, <2>1, <2>3
        DEF Reclaim, Candidate, RowsPoint, Referenced, ReceiptsOf, AttachmentsOf, HeldReceipt, Stored
    <2> QED
        BY <1>16, <1>d, <2>2, <2>3, <2>4 DEF Reclaim
<1>17. CASE RestoreVetoed
    <2>1. jan' \in JanitorState /\ JanitorPoints'
        BY <1>17 DEF RestoreVetoed, NextCandidate, JanitorState, JanitorPoints
    <2>2. InodeKept
        BY <1>17 DEF RestoreVetoed, Inode, InodeState, Stored, RowsPoint
    <2> QED
        BY <1>17, <1>a, <1>d, <2>1, <2>2 DEF RestoreVetoed
<1>18. CASE RemoveObject \/ Tick \/ JanitorDies \/ RemoveFails
    <2>1. jan' \in JanitorState /\ JanitorPoints'
        BY <1>18 DEF RemoveObject, Tick, JanitorDies, RemoveFails, NextCandidate, IdleJanitor,
                     JanitorState, JanitorPoints
    <2>2. UNCHANGED <<inode, receipt, att, req>> /\ objects' \in SUBSET Key /\ faults' \in Nat
        BY <1>18 DEF RemoveObject, Tick, JanitorDies, RemoveFails
    <2> QED
        BY <1>a, <1>b, <1>d, <2>1, <2>2
<1>19. CASE UNCHANGED vars
    BY <1>19, <1>a, <1>b, <1>c, <1>d DEF vars
<1> QED
    BY <1>1, <1>2, <1>3, <1>4, <1>5, <1>6, <1>7, <1>8, <1>9, <1>10, <1>11, <1>12, <1>13,
       <1>14, <1>15, <1>16, <1>17, <1>18, <1>19
    DEF Next, RequestStep, JanitorStep

(* Every reachable state is well typed. *)
THEOREM TypeCorrect == Spec => []TypeOK
<1>1. TypeInv => TypeOK
    BY DEF TypeInv
<1> QED
    BY <1>1, InitTypeInv, NextTypeInv, PTL DEF Spec

(* The foreign key backstop, in general: whatever the count says, and      *)
(* even when detaches race, no receipt and no attachment row outlives the  *)
(* inode it points at.                                                     *)
THEOREM BackstopHolds == Spec => []NoDanglingReference
<1>1. TypeInv => NoDanglingReference
    BY DEF TypeInv, RowsPoint, NoDanglingReference, Referenced, ReceiptsOf, AttachmentsOf
<1> QED
    BY <1>1, InitTypeInv, NextTypeInv, PTL DEF Spec

-----------------------------------------------------------------------------
(* The count.  What makes it inductive is the links in flight: a request   *)
(* between Link and its insert, or between its delete and Unlink, owns one *)
(* count no row stands for.  A row that is not live counts nothing.        *)

Uses(i) ==
    Cardinality(ReceiptsOf(i)) + Cardinality(AttachmentsOf(i)) + Cardinality(OwedBy(i))

CountInv ==
    /\ \A i \in InodeId : Uses(i) <= inode[i].links
    /\ \A i \in InodeId : inode[i].state # "live" => inode[i].links = 0

(* Two finite sets that differ at most in x. *)
LEMMA OneMember ==
    ASSUME NEW S, NEW T, NEW x, IsFiniteSet(S), IsFiniteSet(T), S \ {x} = T \ {x}
    PROVE  /\ (x \in S <=> x \in T) => Cardinality(T) = Cardinality(S)
           /\ x \in S /\ x \notin T => Cardinality(S) = Cardinality(T) + 1
           /\ x \notin S /\ x \in T => Cardinality(T) = Cardinality(S) + 1
<1>1. CASE x \in S <=> x \in T
    <2>1. S = T
        BY <1>1
    <2> QED
        BY <2>1
<1>2. CASE x \in S /\ x \notin T
    <2>1. S = T \cup {x}
        BY <1>2
    <2> QED
        BY <1>2, <2>1, FS_AddElement
<1>3. CASE x \notin S /\ x \in T
    <2>1. T = S \cup {x}
        BY <1>3
    <2> QED
        BY <1>3, <2>1, FS_AddElement
<1> QED
    BY <1>1, <1>2, <1>3

(* The uses of an inode after a step that touches one request, one receipt *)
(* and one attachment.                                                     *)
LEMMA OwedAfter ==
    ASSUME NEW r \in Request, NEW i,
           \A q \in Request : q # r => req'[q] = req[q]
    PROVE  /\ (r \in OwedBy(i) <=> r \in OwedBy(i)')
                 => Cardinality(OwedBy(i)') = Cardinality(OwedBy(i))
           /\ r \in OwedBy(i) /\ r \notin OwedBy(i)'
                 => Cardinality(OwedBy(i)) = Cardinality(OwedBy(i)') + 1
           /\ r \notin OwedBy(i) /\ r \in OwedBy(i)'
                 => Cardinality(OwedBy(i)') = Cardinality(OwedBy(i)) + 1
<1>1. OwedBy(i) \ {r} = OwedBy(i)' \ {r}
    BY DEF OwedBy
<1>2. IsFiniteSet(OwedBy(i)) /\ IsFiniteSet(OwedBy(i)')
    BY FiniteAssumption, FS_Subset DEF OwedBy
<1> QED
    BY <1>1, <1>2, OneMember

LEMMA ReceiptsAfter ==
    ASSUME NEW u \in Receipt, NEW i,
           \A v \in Receipt : v # u => receipt'[v] = receipt[v]
    PROVE  /\ (u \in ReceiptsOf(i) <=> u \in ReceiptsOf(i)')
                 => Cardinality(ReceiptsOf(i)') = Cardinality(ReceiptsOf(i))
           /\ u \notin ReceiptsOf(i) /\ u \in ReceiptsOf(i)'
                 => Cardinality(ReceiptsOf(i)') = Cardinality(ReceiptsOf(i)) + 1
<1>1. ReceiptsOf(i) \ {u} = ReceiptsOf(i)' \ {u}
    BY DEF ReceiptsOf, HeldReceipt
<1>2. IsFiniteSet(ReceiptsOf(i)) /\ IsFiniteSet(ReceiptsOf(i)')
    BY FiniteAssumption, FS_Subset DEF ReceiptsOf
<1> QED
    BY <1>1, <1>2, OneMember

LEMMA AttachmentsAfter ==
    ASSUME NEW a \in Attachment, NEW i,
           \A b \in Attachment : b # a => att'[b] = att[b]
    PROVE  /\ (a \in AttachmentsOf(i) <=> a \in AttachmentsOf(i)')
                 => Cardinality(AttachmentsOf(i)') = Cardinality(AttachmentsOf(i))
           /\ a \in AttachmentsOf(i) /\ a \notin AttachmentsOf(i)'
                 => Cardinality(AttachmentsOf(i)) = Cardinality(AttachmentsOf(i)') + 1
           /\ a \notin AttachmentsOf(i) /\ a \in AttachmentsOf(i)'
                 => Cardinality(AttachmentsOf(i)') = Cardinality(AttachmentsOf(i)) + 1
<1>1. AttachmentsOf(i) \ {a} = AttachmentsOf(i)' \ {a}
    BY DEF AttachmentsOf
<1>2. IsFiniteSet(AttachmentsOf(i)) /\ IsFiniteSet(AttachmentsOf(i)')
    BY FiniteAssumption, FS_Subset DEF AttachmentsOf
<1> QED
    BY <1>1, <1>2, OneMember

(* The counts of the next state are numbers too. *)
LEMMA CountsAreNatNext ==
    \A i : /\ Cardinality(ReceiptsOf(i)') \in Nat
           /\ Cardinality(AttachmentsOf(i)') \in Nat
           /\ Cardinality(OwedBy(i)') \in Nat
BY FiniteAssumption, FS_Subset, FS_CardinalityType DEF ReceiptsOf, AttachmentsOf, OwedBy

LEMMA InitCountInv == Init => CountInv
<1> SUFFICES ASSUME Init, NEW i \in InodeId
             PROVE  /\ Uses(i) <= inode[i].links
                    /\ inode[i].state # "live" => inode[i].links = 0
    BY DEF CountInv
<1>1. PICK h \in [Legacy -> Content], p \in [Attachment -> Legacy \cup {None}] :
        /\ inode = [j \in InodeId |->
              IF j \in Legacy
              THEN [state |-> "live", hash |-> h[j], legacy |-> TRUE,
                    links |-> Cardinality({a \in Attachment : p[a] = j})]
              ELSE [state |-> "unused", hash |-> None, legacy |-> FALSE, links |-> 0]]
        /\ att = [a \in Attachment |->
              [state |-> IF p[a] = None THEN "unused" ELSE "present", inode |-> p[a]]]
    BY DEF Init
<1>2. Cardinality(ReceiptsOf(i)) = 0 /\ Cardinality(OwedBy(i)) = 0
    <2>1. ReceiptsOf(i) = {} /\ OwedBy(i) = {}
        BY DEF Init, ReceiptsOf, HeldReceipt, OwedBy, IdleRequest
    <2> QED
        BY <2>1, FS_EmptySet
<1>3. AttachmentsOf(i) = {a \in Attachment : p[a] = i}
    BY <1>1, NoneAssumption DEF AttachmentsOf
<1>4. CASE i \in Legacy
    BY <1>1, <1>2, <1>3, <1>4, CountsAreNat DEF Uses
<1>5. CASE i \notin Legacy
    <2>1. AttachmentsOf(i) = {}
        BY <1>3, <1>5, NoneAssumption
    <2> QED
        BY <1>1, <1>2, <1>5, <2>1, FS_EmptySet DEF Uses
<1> QED
    BY <1>4, <1>5

(* A request that read an attachment's row holds that row's inode: the     *)
(* column is never written again.                                          *)
DeletesPoint ==
    \A r \in Request :
        req[r].pc = "delete" =>
            att[req[r].att].state # "unused" /\ att[req[r].att].inode = req[r].inode

LEMMA InitDeletesPoint == Init => DeletesPoint
BY DEF Init, DeletesPoint, IdleRequest

LEMMA NextDeletesPoint ==
    ASSUME TypeInv, DeletesPoint, [Next]_vars
    PROVE  DeletesPoint'
<1> USE DEF TypeInv, TypeOK
<1>1. \A a \in Attachment : att[a].state # "unused" =>
          att'[a].state # "unused" /\ att'[a].inode = att[a].inode
    <2>1. ASSUME NEW r \in Request, NEW b \in Attachment, CreateAttachment(r, b)
          PROVE  \A a \in Attachment : att[a].state # "unused" => att'[a] = att[a]
        BY <2>1 DEF CreateAttachment
    <2>2. ASSUME NEW r \in Request, NEW b \in Attachment, DeleteReturning(r, b)
          PROVE  \A a \in Attachment : att[a].state # "unused" =>
                     att'[a].state # "unused" /\ att'[a].inode = att[a].inode
        BY <2>2 DEF DeleteReturning, AttachmentRow
    <2>3. ASSUME NEW r \in Request, DeleteAttachment(r)
          PROVE  \A a \in Attachment : att[a].state # "unused" =>
                     att'[a].state # "unused" /\ att'[a].inode = att[a].inode
        BY <2>3 DEF DeleteAttachment, AttachmentRow
    <2>4. CASE UNCHANGED att
        BY <2>4
    <2> QED
        BY <2>1, <2>2, <2>3, <2>4
        DEF Next, RequestStep, JanitorStep, UploadPut, ServerCopy, CreateUpload, ResolveUpload,
            Link, CreateAttachmentFails, ReadAttachment, Unlink, RequestDies, Age, ExpireBefore,
            GCCandidates, Reclaim, RestoreVetoed, RemoveObject, Tick, JanitorDies, RemoveFails,
            vars
<1>2. ASSUME NEW r \in Request, req'[r].pc = "delete"
      PROVE  att'[req'[r].att].state # "unused" /\ att'[req'[r].att].inode = req'[r].inode
    <2>1. CASE req'[r] = req[r]
        BY <1>1, <1>2, <2>1, BlindDetachAssumption DEF DeletesPoint, RequestsPoint
    <2>2. ASSUME NEW a \in Attachment, ReadAttachment(r, a)
          PROVE  att'[req'[r].att].state # "unused" /\ att'[req'[r].att].inode = req'[r].inode
        BY <2>2 DEF ReadAttachment, IdleRequest
    <2>3. ASSUME NEW q \in Request, RequestStep(q) \/ RequestDies(q)
          PROVE  req'[r] = req[r] \/ \E a \in Attachment : ReadAttachment(r, a)
        <3>1. CASE q # r
            BY <2>3, <3>1
            DEF RequestStep, UploadPut, ServerCopy, CreateUpload, ResolveUpload, Link,
                CreateAttachment, CreateAttachmentFails, ReadAttachment, DeleteAttachment,
                DeleteReturning, Unlink, RequestDies, Goto, Finish
        <3>2. CASE q = r
            <4> DEFINE Reads == \E a \in Attachment : ReadAttachment(r, a)
            <4>1. CASE \/ \E h \in Content : UploadPut(r, h)
                       \/ \E u \in Receipt : ResolveUpload(r, u)
                       \/ \E a \in Attachment : DeleteReturning(r, a)
                BY <1>2, <4>1 DEF UploadPut, ResolveUpload, DeleteReturning, IdleRequest
            <4>2. CASE ServerCopy(r) \/ CreateAttachmentFails(r) \/ DeleteAttachment(r)
                BY <1>2, <4>2
                DEF ServerCopy, CreateAttachmentFails, DeleteAttachment, Goto, RequestState
            <4>3. CASE \/ \E i \in InodeId, u \in Receipt : CreateUpload(r, i, u)
                       \/ \E a \in Attachment : CreateAttachment(r, a)
                       \/ Unlink(r) \/ RequestDies(r)
                BY <1>2, <4>3
                DEF CreateUpload, CreateAttachment, Unlink, RequestDies, Finish, IdleRequest
            <4>4. CASE Link(r)
                BY <1>2, <4>4 DEF Link, Goto, Finish, IdleRequest, RequestState
            <4>5. CASE Reads
                BY <4>5
            <4> HIDE DEF Reads
            <4> QED
                BY <2>3, <3>2, <4>1, <4>2, <4>3, <4>4, <4>5 DEF RequestStep, Reads
        <3> QED
            BY <3>1, <3>2
    <2>4. CASE UNCHANGED req
        BY <2>1, <2>4
    <2> QED
        BY <2>1, <2>2, <2>3, <2>4
        DEF Next, JanitorStep, Age, ExpireBefore, GCCandidates, Reclaim, RestoreVetoed,
            RemoveObject, Tick, JanitorDies, RemoveFails, vars
<1> QED
    BY <1>2 DEF DeletesPoint

\* A missed row stays missed.
LEMMA MissedStays ==
    ASSUME TypeInv, DeletesPoint, [Next]_vars, EachDetachCounts'
    PROVE  EachDetachCounts
<1> USE DEF TypeInv, TypeOK
<1>1. \A a \in Attachment : att[a].state = "missed" => att'[a].state = "missed"
    <2>1. ASSUME NEW r \in Request, NEW b \in Attachment,
                 CreateAttachment(r, b) \/ DeleteReturning(r, b)
          PROVE  \A a \in Attachment : att[a].state = "missed" => att'[a].state = "missed"
        BY <2>1 DEF CreateAttachment, DeleteReturning
    <2>2. ASSUME NEW r \in Request, DeleteAttachment(r)
          PROVE  \A a \in Attachment : att[a].state = "missed" => att'[a].state = "missed"
        BY <2>2 DEF DeleteAttachment, AttachmentRow
    <2>3. CASE UNCHANGED att
        BY <2>3
    <2> QED
        BY <2>1, <2>2, <2>3
        DEF Next, RequestStep, JanitorStep, UploadPut, ServerCopy, CreateUpload, ResolveUpload,
            Link, CreateAttachmentFails, ReadAttachment, Unlink, RequestDies, Age, ExpireBefore,
            GCCandidates, Reclaim, RestoreVetoed, RemoveObject, Tick, JanitorDies, RemoveFails,
            vars
<1> QED
    BY <1>1 DEF EachDetachCounts

(* One step per action.  Steps that write no count and move no link are    *)
(* together: <1>6 for requests, <1>9 for the janitor.                      *)
LEMMA NextCountInv ==
    ASSUME TypeInv, DeletesPoint, CountInv, [Next]_vars, EachDetachCounts'
    PROVE  CountInv'
<1> USE DEF TypeInv, TypeOK
<1> DEFINE Kept(i) ==
             /\ Uses(i)' <= inode'[i].links
             /\ inode'[i].state # "live" => inode'[i].links = 0
<1>n. \A i \in InodeId : inode[i].links \in Nat
    BY DEF Inode
<1>o. ASSUME NEW i \in InodeId
      PROVE  /\ Uses(i) <= inode[i].links
             /\ inode[i].state # "live" => inode[i].links = 0
             /\ Cardinality(ReceiptsOf(i)) \in Nat
             /\ Cardinality(AttachmentsOf(i)) \in Nat
             /\ Cardinality(OwedBy(i)) \in Nat
             /\ Cardinality(ReceiptsOf(i)') \in Nat
             /\ Cardinality(AttachmentsOf(i)') \in Nat
             /\ Cardinality(OwedBy(i)') \in Nat
    BY CountsAreNat, CountsAreNatNext DEF CountInv
<1>r. ASSUME UNCHANGED receipt PROVE \A i : ReceiptsOf(i)' = ReceiptsOf(i)
    BY <1>r DEF ReceiptsOf, HeldReceipt
<1>a. ASSUME UNCHANGED att PROVE \A i : AttachmentsOf(i)' = AttachmentsOf(i)
    BY <1>a DEF AttachmentsOf
<1>q. ASSUME UNCHANGED req PROVE \A i : OwedBy(i)' = OwedBy(i)
    BY <1>q DEF OwedBy
<1>1. ASSUME NEW r \in Request, NEW j \in InodeId, NEW u \in Receipt, CreateUpload(r, j, u),
             NEW i \in InodeId
      PROVE  Kept(i)
    <2>1. Cardinality(OwedBy(i)') = Cardinality(OwedBy(i))
        <3>1. r \notin OwedBy(i) /\ r \notin OwedBy(i)'
            BY <1>1 DEF CreateUpload, Finish, IdleRequest, OwedBy
        <3>2. \A q \in Request : q # r => req'[q] = req[q]
            BY <1>1 DEF CreateUpload, Finish
        <3> QED
            BY <3>1, <3>2, OwedAfter
    <2>2. Cardinality(AttachmentsOf(i)') = Cardinality(AttachmentsOf(i))
        BY <1>1, <1>a DEF CreateUpload
    <2>3. Cardinality(ReceiptsOf(i)') =
              IF i = j THEN Cardinality(ReceiptsOf(i)) + 1 ELSE Cardinality(ReceiptsOf(i))
        <3>1. u \notin ReceiptsOf(i) /\ (u \in ReceiptsOf(i)' <=> i = j)
            BY <1>1 DEF CreateUpload, ReceiptsOf, HeldReceipt
        <3>2. \A v \in Receipt : v # u => receipt'[v] = receipt[v]
            BY <1>1 DEF CreateUpload
        <3> QED
            BY <3>1, <3>2, ReceiptsAfter
    <2>4. CASE i # j
        <3>1. inode'[i] = inode[i]
            BY <1>1, <2>4 DEF CreateUpload, UpsertInode
        <3> QED
            BY <1>o, <2>1, <2>2, <2>3, <2>4, <3>1 DEF Uses
    <2>5. CASE i = j
        <3>1. inode'[i].state = "live" /\ inode'[i].links = inode[i].links + 1
            <4>1. CASE inode[j].state = "unused"
                  /\ inode' = [inode EXCEPT ![j] = [state |-> "live", hash |-> req[r].hash,
                                                    links |-> 1, legacy |-> FALSE]]
                BY <4>1, <1>o, <2>5
            <4>2. CASE inode' = [inode EXCEPT ![j].links = @ + 1, ![j].state = "live",
                                              ![j].legacy = FALSE]
                BY <4>2, <2>5 DEF Inode
            <4> QED
                BY <1>1, <4>1, <4>2 DEF CreateUpload, UpsertInode
        <3> QED
            BY <1>o, <1>n, <2>1, <2>2, <2>3, <2>5, <3>1 DEF Uses
    <2> QED
        BY <2>4, <2>5
<1>2. ASSUME NEW r \in Request, Link(r), NEW i \in InodeId
      PROVE  Kept(i)
    <2> DEFINE j == req[r].inode
    <2>0. j \in InodeId /\ r \notin OwedBy(i)
        BY <1>2 DEF Link, RequestsPoint, OwedBy
    <2>1. \A q \in Request : q # r => req'[q] = req[q]
        BY <1>2 DEF Link, Goto, Finish
    <2>2. Cardinality(AttachmentsOf(i)') = Cardinality(AttachmentsOf(i))
          /\ Cardinality(ReceiptsOf(i)') = Cardinality(ReceiptsOf(i))
        BY <1>2, <1>a, <1>r DEF Link
    <2>3. CASE inode[j].state = "live" /\ Goto(r, "insert")
               /\ inode' = [inode EXCEPT ![j].links = @ + 1]
        <3>1. r \in OwedBy(i)' <=> i = j
            BY <2>3 DEF Goto, OwedBy, RequestState
        <3>2. Cardinality(OwedBy(i)') =
                  IF i = j THEN Cardinality(OwedBy(i)) + 1 ELSE Cardinality(OwedBy(i))
            BY <2>0, <2>1, <3>1, OwedAfter
        <3>3. inode'[i].state = inode[i].state
              /\ inode'[i].links = IF i = j THEN inode[i].links + 1 ELSE inode[i].links
            BY <2>0, <2>3 DEF Inode
        <3> QED
            BY <1>o, <1>n, <2>2, <2>3, <3>2, <3>3 DEF Uses
    <2>4. CASE Finish(r) /\ UNCHANGED inode
        <3>1. r \notin OwedBy(i)'
            BY <2>4 DEF Finish, IdleRequest, OwedBy
        <3>2. Cardinality(OwedBy(i)') = Cardinality(OwedBy(i))
            BY <2>0, <2>1, <3>1, OwedAfter
        <3> QED
            BY <1>o, <2>2, <2>4, <3>2 DEF Uses
    <2> QED
        BY <1>2, <2>3, <2>4 DEF Link
<1>3. ASSUME NEW r \in Request, NEW a \in Attachment, CreateAttachment(r, a), NEW i \in InodeId
      PROVE  Kept(i)
    <2>1. Cardinality(ReceiptsOf(i)') = Cardinality(ReceiptsOf(i)) /\ inode'[i] = inode[i]
        BY <1>3, <1>r DEF CreateAttachment
    <2>2. /\ \A q \in Request : q # r => req'[q] = req[q]
          /\ \A b \in Attachment : b # a => att'[b] = att[b]
        BY <1>3 DEF CreateAttachment, Finish
    <2>3. /\ r \notin OwedBy(i)' /\ a \notin AttachmentsOf(i)
          /\ r \in OwedBy(i) <=> a \in AttachmentsOf(i)'
        BY <1>3 DEF CreateAttachment, Finish, IdleRequest, OwedBy, AttachmentsOf
    <2>4. CASE r \in OwedBy(i)
        <3>1. Cardinality(OwedBy(i)) = Cardinality(OwedBy(i)') + 1
            BY <2>2, <2>3, <2>4, OwedAfter
        <3>2. Cardinality(AttachmentsOf(i)') = Cardinality(AttachmentsOf(i)) + 1
            BY <2>2, <2>3, <2>4, AttachmentsAfter
        <3> QED
            BY <1>o, <1>n, <2>1, <3>1, <3>2 DEF Uses
    <2>5. CASE r \notin OwedBy(i)
        <3>1. Cardinality(OwedBy(i)) = Cardinality(OwedBy(i)')
            BY <2>2, <2>3, <2>5, OwedAfter
        <3>2. Cardinality(AttachmentsOf(i)') = Cardinality(AttachmentsOf(i))
            BY <2>2, <2>3, <2>5, AttachmentsAfter
        <3> QED
            BY <1>o, <2>1, <3>1, <3>2 DEF Uses
    <2> QED
        BY <2>4, <2>5
<1>4. ASSUME NEW r \in Request, NEW a \in Attachment, DeleteReturning(r, a), NEW i \in InodeId
      PROVE  Kept(i)
    <2>1. Cardinality(ReceiptsOf(i)') = Cardinality(ReceiptsOf(i)) /\ inode'[i] = inode[i]
        BY <1>4, <1>r DEF DeleteReturning
    <2>2. /\ \A q \in Request : q # r => req'[q] = req[q]
          /\ \A b \in Attachment : b # a => att'[b] = att[b]
        BY <1>4 DEF DeleteReturning
    <2>3. /\ r \notin OwedBy(i) /\ a \notin AttachmentsOf(i)'
          /\ r \in OwedBy(i)' <=> a \in AttachmentsOf(i)
        BY <1>4 DEF DeleteReturning, IdleRequest, OwedBy, AttachmentsOf, AttachmentRow
    <2>4. CASE a \in AttachmentsOf(i)
        <3>1. Cardinality(OwedBy(i)') = Cardinality(OwedBy(i)) + 1
            BY <2>2, <2>3, <2>4, OwedAfter
        <3>2. Cardinality(AttachmentsOf(i)) = Cardinality(AttachmentsOf(i)') + 1
            BY <2>2, <2>3, <2>4, AttachmentsAfter
        <3> QED
            BY <1>o, <1>n, <2>1, <3>1, <3>2 DEF Uses
    <2>5. CASE a \notin AttachmentsOf(i)
        <3>1. Cardinality(OwedBy(i)) = Cardinality(OwedBy(i)')
            BY <2>2, <2>3, <2>5, OwedAfter
        <3>2. Cardinality(AttachmentsOf(i)') = Cardinality(AttachmentsOf(i))
            BY <2>2, <2>3, <2>5, AttachmentsAfter
        <3> QED
            BY <1>o, <2>1, <3>1, <3>2 DEF Uses
    <2> QED
        BY <2>4, <2>5
<1>5. ASSUME NEW r \in Request, Unlink(r), NEW i \in InodeId
      PROVE  Kept(i)
    <2> DEFINE j == req[r].inode
    <2>1. j \in InodeId
        BY <1>5 DEF Unlink, RequestsPoint
    <2>2. /\ Cardinality(ReceiptsOf(i)') = Cardinality(ReceiptsOf(i))
          /\ Cardinality(AttachmentsOf(i)') = Cardinality(AttachmentsOf(i))
        BY <1>5, <1>a, <1>r DEF Unlink
    <2>3. \A q \in Request : q # r => req'[q] = req[q]
        BY <1>5 DEF Unlink, Finish
    <2>4. r \notin OwedBy(i)' /\ (r \in OwedBy(i) <=> i = j)
        BY <1>5 DEF Unlink, Finish, IdleRequest, OwedBy
    <2>5. CASE i # j
        <3>1. Cardinality(OwedBy(i)') = Cardinality(OwedBy(i)) /\ inode'[i] = inode[i]
            BY <1>5, <2>3, <2>4, <2>5, OwedAfter DEF Unlink
        <3> QED
            BY <1>o, <2>2, <3>1 DEF Uses
    <2>6. CASE i = j
        <3>1. Cardinality(OwedBy(i)) = Cardinality(OwedBy(i)') + 1
            BY <2>3, <2>4, <2>6, OwedAfter
        <3>2. inode[i].links >= 1 /\ inode[i].state = "live"
            BY <1>o, <1>n, <3>1 DEF Uses
        <3>3. inode' = [inode EXCEPT ![j].links = @ - 1,
                              ![j].state = IF inode[j].links = 1 THEN "gc" ELSE @]
            BY <1>5, <2>6, <3>2 DEF Unlink, Stored
        <3>4. inode'[i].links = inode[i].links - 1
              /\ (inode[i].links # 1 => inode'[i].state = "live")
            BY <2>6, <3>2, <3>3 DEF Inode
        <3> QED
            BY <1>o, <1>n, <2>2, <3>1, <3>2, <3>4 DEF Uses
    <2> QED
        BY <2>5, <2>6
<1>6. ASSUME NEW r \in Request, NEW i \in InodeId,
             \/ \E h \in Content : UploadPut(r, h)
             \/ ServerCopy(r)
             \/ \E u \in Receipt : ResolveUpload(r, u)
             \/ CreateAttachmentFails(r)
             \/ \E a \in Attachment : ReadAttachment(r, a)
             \/ RequestDies(r)
      PROVE  Kept(i)
    <2>1. UNCHANGED <<inode, receipt, att>>
        BY <1>6
        DEF UploadPut, ServerCopy, ResolveUpload, CreateAttachmentFails, ReadAttachment,
            RequestDies
    <2>2. \A q \in Request : q # r => req'[q] = req[q]
        BY <1>6
        DEF UploadPut, ServerCopy, ResolveUpload, CreateAttachmentFails, ReadAttachment,
            RequestDies, Goto, Finish
    <2>3. r \in OwedBy(i)' => r \in OwedBy(i)
        <3>1. CASE CreateAttachmentFails(r)
            BY <3>1 DEF CreateAttachmentFails, Goto, OwedBy, RequestState
        <3>2. CASE ServerCopy(r)
            BY <3>2 DEF ServerCopy, Goto, OwedBy, RequestState
        <3>3. CASE RequestDies(r)
            BY <3>3 DEF RequestDies, Finish, IdleRequest, OwedBy
        <3>4. CASE (\E h \in Content : UploadPut(r, h)) \/ (\E u \in Receipt : ResolveUpload(r, u))
                    \/ (\E a \in Attachment : ReadAttachment(r, a))
            <4>1. req'[r].pc \in {"copy", "link", "delete"}
                BY <3>4 DEF UploadPut, ResolveUpload, ReadAttachment, IdleRequest
            <4> QED
                BY <4>1 DEF OwedBy
        <3> QED
            BY <1>6, <3>1, <3>2, <3>3, <3>4
    <2>4. Cardinality(OwedBy(i)') <= Cardinality(OwedBy(i))
        BY <1>o, <2>2, <2>3, OwedAfter
    <2> QED
        BY <1>a, <1>r, <1>o, <1>n, <2>1, <2>4 DEF Uses
<1>7. ASSUME NEW u \in Receipt, Age(u), NEW i \in InodeId
      PROVE  Kept(i)
    <2>1. ReceiptsOf(i)' = ReceiptsOf(i)
        BY <1>7 DEF Age, ReceiptsOf, HeldReceipt, Upload
    <2> QED
        BY <1>7, <1>a, <1>q, <1>o, <2>1 DEF Age, Uses
<1>8. ASSUME ExpireBefore, NEW i \in InodeId
      PROVE  Kept(i)
    <2> DEFINE n == Cardinality(OldReceiptsOf(i))
    <2>1. CASE UNCHANGED <<inode, receipt>>
        BY <1>8, <2>1, <1>r, <1>a, <1>q, <1>o DEF ExpireBefore, Uses
    <2>2. CASE /\ ExpiryFits
               /\ receipt' = [u \in Receipt |->
                    IF receipt[u].state = "old" THEN [receipt[u] EXCEPT !.state = "expired"]
                    ELSE receipt[u]]
               /\ inode' = [k \in InodeId |->
                    LET m == Cardinality(OldReceiptsOf(k))
                    IN  IF m = 0 THEN inode[k]
                        ELSE [inode[k] EXCEPT !.links = @ - m,
                                  !.state = IF inode[k].links = m THEN "gc" ELSE @]]
        <3>1. ReceiptsOf(i)' = ReceiptsOf(i) \ OldReceiptsOf(i)
            BY <2>2 DEF ReceiptsOf, OldReceiptsOf, HeldReceipt, Upload
        <3>2. Cardinality(ReceiptsOf(i)') = Cardinality(ReceiptsOf(i)) - n
            <4>1. OldReceiptsOf(i) \subseteq ReceiptsOf(i)
                BY DEF ReceiptsOf, OldReceiptsOf, HeldReceipt
            <4>2. ReceiptsOf(i) \cap OldReceiptsOf(i) = OldReceiptsOf(i)
                BY <4>1
            <4> QED
                BY <3>1, <4>2, CountsAreNat, FS_Difference
        <3>3. n \in Nat /\ n <= inode[i].links
            BY <2>2, CountsAreNat DEF ExpiryFits
        <3>4. inode'[i].links = inode[i].links - n
              /\ (inode'[i].state = inode[i].state \/ inode'[i].links = 0)
            <4>1. CASE n = 0
                <5>1. inode'[i] = inode[i]
                    BY <2>2, <4>1
                <5> HIDE DEF n
                <5> QED
                    BY <1>n, <4>1, <5>1
            <4>2. CASE n # 0
                <5>1. inode'[i] = [inode[i] EXCEPT !.links = @ - n,
                                     !.state = IF inode[i].links = n THEN "gc" ELSE @]
                    BY <2>2, <4>2
                <5>2. inode[i] \in Inode
                    OBVIOUS
                <5> HIDE DEF n
                <5> QED
                    BY <3>3, <5>1, <5>2 DEF Inode
            <4> QED
                BY <4>1, <4>2
        <3>5. /\ Cardinality(AttachmentsOf(i)') = Cardinality(AttachmentsOf(i))
              /\ Cardinality(OwedBy(i)') = Cardinality(OwedBy(i))
            BY <1>8, <1>a, <1>q DEF ExpireBefore
        <3> HIDE DEF n
        <3> QED
            BY <1>o, <1>n, <3>2, <3>3, <3>4, <3>5 DEF Uses
    <2> QED
        BY <1>8, <2>1, <2>2 DEF ExpireBefore
<1>9. ASSUME NEW i \in InodeId,
             GCCandidates \/ (\E c \in jan.todo : Reclaim(c)) \/ RestoreVetoed
               \/ RemoveObject \/ Tick \/ JanitorDies \/ RemoveFails \/ UNCHANGED vars
      PROVE  Kept(i)
    <2>1. UNCHANGED <<receipt, att, req>>
        BY <1>9 DEF GCCandidates, Reclaim, RestoreVetoed, RemoveObject, Tick, JanitorDies,
                    RemoveFails, vars
    <2>2. /\ inode'[i].links = inode[i].links
          /\ inode'[i].state = "live" \/ inode'[i].state = inode[i].state \/ inode[i].links = 0
        <3>1. CASE UNCHANGED inode
            BY <3>1
        <3>2. ASSUME NEW c \in jan.todo, Reclaim(c)
              PROVE  /\ inode'[i].links = inode[i].links
                     /\ inode'[i].state = inode[i].state \/ inode[i].links = 0
            BY <3>2 DEF Reclaim, Inode
        <3>3. CASE RestoreVetoed
            BY <3>3 DEF RestoreVetoed, Inode
        <3> QED
            BY <1>9, <3>1, <3>2, <3>3
            DEF GCCandidates, RemoveObject, Tick, JanitorDies, RemoveFails, vars
    <2> QED
        BY <1>a, <1>r, <1>q, <1>o, <2>1, <2>2 DEF Uses
<1>10. ASSUME NEW r \in Request, DeleteAttachment(r), NEW i \in InodeId
       PROVE  Kept(i)
    <2> DEFINE a == req[r].att
    <2>0. a \in Attachment /\ att[a].inode = req[r].inode /\ att[a] \in AttachmentRow
        BY <1>10, BlindDetachAssumption DEF DeleteAttachment, RequestsPoint, DeletesPoint
    <2>1. Cardinality(ReceiptsOf(i)') = Cardinality(ReceiptsOf(i)) /\ inode'[i] = inode[i]
        BY <1>10, <1>r DEF DeleteAttachment
    <2>2. /\ \A q \in Request : q # r => req'[q] = req[q]
          /\ \A b \in Attachment : b # a => att'[b] = att[b]
        BY <1>10 DEF DeleteAttachment, Goto
    <2>3. att'[a].state = IF att[a].state = "present" THEN "removed" ELSE "missed"
        BY <1>10, <2>0 DEF DeleteAttachment, AttachmentRow
    <2>4. att[a].state = "present" /\ att'[a].state = "removed"
        BY <2>0, <2>3 DEF EachDetachCounts
    <2>5. /\ r \notin OwedBy(i) /\ a \notin AttachmentsOf(i)'
          /\ r \in OwedBy(i)' <=> a \in AttachmentsOf(i)
        BY <1>10, <2>0, <2>4 DEF DeleteAttachment, Goto, OwedBy, AttachmentsOf, RequestState
    <2> HIDE DEF a
    <2>6. CASE a \in AttachmentsOf(i)
        <3>1. Cardinality(OwedBy(i)') = Cardinality(OwedBy(i)) + 1
            BY <2>2, <2>5, <2>6, OwedAfter
        <3>2. Cardinality(AttachmentsOf(i)) = Cardinality(AttachmentsOf(i)') + 1
            BY <2>0, <2>2, <2>5, <2>6, AttachmentsAfter
        <3> QED
            BY <1>o, <1>n, <2>1, <3>1, <3>2 DEF Uses
    <2>7. CASE a \notin AttachmentsOf(i)
        <3>1. Cardinality(OwedBy(i)) = Cardinality(OwedBy(i)')
            BY <2>2, <2>5, <2>7, OwedAfter
        <3>2. Cardinality(AttachmentsOf(i)') = Cardinality(AttachmentsOf(i))
            BY <2>0, <2>2, <2>5, <2>7, AttachmentsAfter
        <3> QED
            BY <1>o, <2>1, <3>1, <3>2 DEF Uses
    <2> QED
        BY <2>6, <2>7
<1>11. \A i \in InodeId : Kept(i)
    BY <1>1, <1>2, <1>3, <1>4, <1>5, <1>6, <1>7, <1>8, <1>9, <1>10
    DEF Next, RequestStep, JanitorStep
<1> QED
    BY <1>11 DEF CountInv

LEMMA CountInvariant ==
    Spec => [](TypeInv /\ (EachDetachCounts => CountInv))
<1>1. Init => TypeInv /\ DeletesPoint /\ (EachDetachCounts => CountInv)
    BY InitTypeInv, InitDeletesPoint, InitCountInv
<1>2. TypeInv /\ DeletesPoint /\ (EachDetachCounts => CountInv) /\ [Next]_vars
        => (TypeInv /\ DeletesPoint /\ (EachDetachCounts => CountInv))'
    BY NextTypeInv, NextDeletesPoint, NextCountInv, MissedStays
<1> QED
    BY <1>1, <1>2, PTL DEF Spec

(* Unless two announcement requests detach the same row, the count covers  *)
(* the references in every interleaving of any number of requests, deaths  *)
(* of requests and of the janitor included.                                *)
THEOREM CountCovers == Spec => []LinksCoverReferences
<1>1. TypeInv /\ (EachDetachCounts => CountInv) => LinksCoverReferences
    <2> SUFFICES ASSUME TypeInv, CountInv, NEW i \in InodeId
                 PROVE  Cardinality(ReceiptsOf(i)) + Cardinality(AttachmentsOf(i))
                           <= inode[i].links
        BY DEF LinksCoverReferences
    <2>1. inode[i].links \in Nat /\ Uses(i) <= inode[i].links
        BY DEF TypeInv, TypeOK, Inode, CountInv
    <2> QED
        BY <2>1, CountsAreNat DEF Uses
<1> QED
    BY <1>1, CountInvariant, PTL

(* Then nothing a reference points at is ever a candidate of the sweep.    *)
THEOREM ReferencedStaysLive == Spec => [](EachDetachCounts => ReferencedIsLive)
<1>1. TypeInv /\ (EachDetachCounts => CountInv) => (EachDetachCounts => ReferencedIsLive)
    <2> SUFFICES ASSUME TypeInv, CountInv, NEW i \in InodeId, Referenced(i)
                 PROVE  inode[i].state = "live"
        BY DEF ReferencedIsLive
    <2>1. Cardinality(ReceiptsOf(i)) # 0 \/ Cardinality(AttachmentsOf(i)) # 0
        BY CountsAreNat, FS_EmptySet DEF Referenced
    <2>2. Uses(i) <= inode[i].links /\ inode[i].links \in Nat
        BY DEF CountInv, TypeInv, TypeOK, Inode
    <2>3. inode[i].links # 0
        BY <2>1, <2>2, CountsAreNat DEF Uses
    <2> QED
        BY <2>3 DEF CountInv
<1> QED
    BY <1>1, CountInvariant, PTL

-----------------------------------------------------------------------------
(* Bytes at a legacy key.  The sweep removes them with a candidate listed  *)
(* earlier, so the argument is about the candidate: a legacy key leads to  *)
(* one row only, and while that object waits to be removed the row is      *)
(* deleted, a state no step leaves.                                        *)

CandidateOfItsKey(c) == \A i \in InodeId : c.key = LegacyKey(i) => i = c.id

LegacyInv ==
    /\ LegacyRowHasBytes
    /\ \A c \in jan.todo : CandidateOfItsKey(c)
    /\ jan.pc \in {"remove", "restore"} => CandidateOfItsKey(jan.cur)
    /\ jan.pc = "remove" => inode[jan.cur.id].state = "deleted"

LEMMA InitLegacyInv == Init => LegacyInv
BY LegacyAssumption
DEF Init, LegacyInv, LegacyRowHasBytes, Stored, IdleJanitor

LEMMA NextLegacyInv ==
    ASSUME TypeInv, LegacyInv, [Next]_vars
    PROVE  LegacyInv'
<1> USE DEF TypeInv, TypeOK
(* No step makes a row legacy, brings a row back, or stores a legacy row.  *)
<1>1. ASSUME NEW i \in InodeId
      PROVE  /\ Stored(i)' /\ inode'[i].legacy => Stored(i) /\ inode[i].legacy
             /\ inode[i].state = "deleted" => inode'[i].state = "deleted"
    <2>1. ASSUME NEW r \in Request, NEW j \in InodeId, NEW u \in Receipt, CreateUpload(r, j, u)
          PROVE  /\ Stored(i)' /\ inode'[i].legacy => Stored(i) /\ inode[i].legacy
                 /\ inode[i].state = "deleted" => inode'[i].state = "deleted"
        BY <2>1 DEF CreateUpload, UpsertInode, Inode, Stored
    <2>2. ASSUME NEW r \in Request, Link(r) \/ Unlink(r)
          PROVE  /\ Stored(i)' /\ inode'[i].legacy => Stored(i) /\ inode[i].legacy
                 /\ inode[i].state = "deleted" => inode'[i].state = "deleted"
        BY <2>2 DEF Link, Unlink, Inode, Stored
    <2>3. CASE ExpireBefore
        <3>1. CASE Cardinality(OldReceiptsOf(i)) = 0
            BY <2>3, <3>1 DEF ExpireBefore, Stored
        <3>2. CASE Cardinality(OldReceiptsOf(i)) # 0
            <4>1. Stored(i)
                BY <3>2, FS_EmptySet DEF OldReceiptsOf, HeldReceipt, RowsPoint
            <4>2. inode'[i].legacy = inode[i].legacy
                BY <2>3 DEF ExpireBefore, Inode
            <4> QED
                BY <4>1, <4>2 DEF Stored
        <3> QED
            BY <3>1, <3>2
    <2>4. ASSUME NEW c \in jan.todo, Reclaim(c)
          PROVE  /\ Stored(i)' /\ inode'[i].legacy => Stored(i) /\ inode[i].legacy
                 /\ inode[i].state = "deleted" => inode'[i].state = "deleted"
        BY <2>4 DEF Reclaim, Inode, Stored
    <2>5. CASE RestoreVetoed
        BY <2>5 DEF RestoreVetoed, Inode, Stored
    <2>6. CASE UNCHANGED inode
        BY <2>6 DEF Stored
    <2> QED
        BY <2>1, <2>2, <2>3, <2>4, <2>5, <2>6
        DEF Next, RequestStep, JanitorStep, UploadPut, ServerCopy, ResolveUpload, CreateAttachment,
            CreateAttachmentFails, ReadAttachment, DeleteAttachment, DeleteReturning, RequestDies,
            Age, GCCandidates, RemoveObject, Tick, JanitorDies, RemoveFails, vars
<1>2. CASE RemoveObject
    <2>1. ASSUME NEW i \in InodeId, Stored(i)', inode'[i].legacy
          PROVE  LegacyKey(i) \in objects'
        <3>1. Stored(i) /\ LegacyKey(i) \in objects
            BY <1>1, <2>1 DEF LegacyInv, LegacyRowHasBytes
        <3>2. jan.cur.key # LegacyKey(i)
            BY <1>2, <3>1 DEF RemoveObject, LegacyInv, CandidateOfItsKey, Stored
        <3> QED
            BY <1>2, <3>1, <3>2 DEF RemoveObject
    <2> QED
        BY <1>2, <2>1
        DEF RemoveObject, NextCandidate, LegacyInv, LegacyRowHasBytes, CandidateOfItsKey
<1>3. CASE ~RemoveObject
    <2>1. objects \subseteq objects'
        BY <1>3
        DEF Next, RequestStep, JanitorStep, UploadPut, ServerCopy, CreateUpload, ResolveUpload, Link,
            CreateAttachment, CreateAttachmentFails, ReadAttachment, DeleteAttachment,
            DeleteReturning, Unlink, RequestDies, Age, ExpireBefore, GCCandidates, Reclaim,
            RestoreVetoed, Tick, JanitorDies, RemoveFails, vars
    <2>2. LegacyRowHasBytes'
        BY <1>1, <2>1 DEF LegacyInv, LegacyRowHasBytes, LegacyKey
    <2>3. CASE UNCHANGED jan
        <3>1. jan.pc = "remove" => jan.cur.id \in InodeId
            BY DEF JanitorPoints, Candidate
        <3> QED
            BY <1>1, <2>2, <2>3, <3>1 DEF LegacyInv, CandidateOfItsKey
    <2>4. CASE ExpireBefore
        BY <2>2, <2>4 DEF ExpireBefore, LegacyInv, CandidateOfItsKey, JanitorState
    <2>5. CASE GCCandidates
        <3>1. PICK S \in SUBSET GcRows :
                jan' = [pc |-> "sweep", cur |-> None,
                        todo |-> {[id |-> i, key |-> ObjectKey(i)] : i \in S}]
            BY <2>5 DEF GCCandidates
        <3>2. \A c \in jan'.todo : CandidateOfItsKey(c)
            BY <3>1 DEF CandidateOfItsKey, ObjectKey, ObjectKeyFor, LegacyKey
        <3> QED
            BY <2>2, <3>1, <3>2 DEF LegacyInv, CandidateOfItsKey
    <2>6. ASSUME NEW c \in jan.todo, Reclaim(c)
          PROVE  LegacyInv'
        <3>1. c \in Candidate /\ CandidateOfItsKey(c)
            BY DEF JanitorState, LegacyInv
        <3>2. CASE NextCandidate(c)
            BY <2>2, <3>2 DEF NextCandidate, LegacyInv, CandidateOfItsKey
        <3>3. CASE inode' = [inode EXCEPT ![c.id].state = "deleted"]
                   /\ jan' = [jan EXCEPT !.pc = "remove", !.cur = c]
            BY <2>2, <3>1, <3>3
            DEF LegacyInv, CandidateOfItsKey, JanitorState, Candidate, Inode
        <3>4. CASE jan' = [jan EXCEPT !.pc = "restore", !.cur = c]
            BY <2>2, <3>1, <3>4 DEF LegacyInv, CandidateOfItsKey, JanitorState
        <3> QED
            BY <2>6, <3>2, <3>3, <3>4 DEF Reclaim
    <2>7. CASE RestoreVetoed \/ Tick \/ JanitorDies \/ RemoveFails
        BY <2>2, <2>7
        DEF RestoreVetoed, Tick, JanitorDies, RemoveFails, NextCandidate, IdleJanitor, LegacyInv,
            CandidateOfItsKey
    <2> QED
        BY <1>3, <2>3, <2>4, <2>5, <2>6, <2>7
        DEF Next, RequestStep, JanitorStep, UploadPut, ServerCopy, CreateUpload, ResolveUpload, Link,
            CreateAttachment, CreateAttachmentFails, ReadAttachment, DeleteAttachment,
            DeleteReturning, Unlink, RequestDies, Age, vars
<1> QED
    BY <1>2, <1>3

(* A legacy row keeps its bytes, though the sweep removes objects outside  *)
(* every lock: a legacy key is never used again, unlike a hash.            *)
THEOREM LegacyBytesKept == Spec => []LegacyRowHasBytes
<1>1. Spec => [](TypeInv /\ LegacyInv)
    BY InitTypeInv, NextTypeInv, InitLegacyInv, NextLegacyInv, PTL DEF Spec
<1>2. LegacyInv => LegacyRowHasBytes
    BY DEF LegacyInv
<1> QED
    BY <1>1, <1>2, PTL

\* Rows hold what they are trusted for, and a miscounted one is still stored.
THEOREM RowsAreTrustworthy == Spec => []RowsCanBeTrusted
<1>1. /\ NoDanglingReference
      /\ LegacyRowHasBytes
      /\ EachDetachCounts => ReferencedIsLive
      => RowsCanBeTrusted
    BY DEF RowsCanBeTrusted
<1> QED
    BY <1>1, BackstopHolds, ReferencedStaysLive, LegacyBytesKept, PTL
=============================================================================
