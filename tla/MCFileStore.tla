----------------------------- MODULE MCFileStore -----------------------------
(* FileStore for TLC: receipts and requests are interchangeable while      *)
(* unused or idle, so one of each goes first.                              *)
EXTENDS FileStore

FirstReceipt == CHOOSE u \in Receipt : TRUE

FirstRequest == CHOOSE r \in Request : TRUE

\* Bound: an unused receipt is claimed, an idle request begins, in this order.
InOrder ==
    /\ receipt[FirstReceipt].state = "unused" =>
           \A u \in Receipt \ {FirstReceipt} : receipt'[u].state = "unused"
    /\ req[FirstRequest].pc = "idle" =>
           \A r \in Request : req[r].pc = "idle" /\ req'[r].pc # "idle" => r = FirstRequest

MCSpec == Init /\ [][Next /\ InOrder]_vars /\ WF_vars(JanitorStep)

(* Whatever dies in between, the sweeps get everywhere: a gc row is         *)
(* reclaimed or comes back, and an old receipt expires unless the count has *)
(* drifted below it (FileStore, of files/inode.go:139, janitor.go:8-9).     *)
StorageIsReclaimed == GcRowsAreReclaimed /\ OldReceiptsExpire
=============================================================================
