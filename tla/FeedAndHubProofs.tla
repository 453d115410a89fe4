---------------------------- MODULE FeedAndHubProofs ----------------------------
(* Proofs about the announcements (the threads and edits of Feed, the list   *)
(* of FeedPages, the covers of Activities, each for any number of posts,     *)
(* users, calls, entries and covers) and about NotificationHub, for any      *)
(* number of users, connections, senders and notifications.                  *)
EXTENDS MCFeed, NotificationHub, FiniteSetTheorems, TLAPS

-----------------------------------------------------------------------------
(* What the constants of Feed are. *)
LEMMA FeedFacts ==
    /\ MaxUpdateRetries \in Nat \ {0} /\ MaxVersion \in Nat
    /\ MentionedBy \in [Bodies -> SUBSET Users]
    /\ NoParent \notin Posts
    /\ NotYet # Gone /\ {NotYet, Gone} \cap Threads!PostRow = {}
BY PartsAssumption DEF Threads!FeedAssumption

(* The numbers of an instance are those of the theorems about finite sets. *)
LEMMA ThreadCounts == \A S : Threads!Cardinality(S) = Cardinality(S)
BY DEF Threads!Cardinality, Cardinality

(* A post, and the root of the thread an entry is in. *)
IsPost(p) == p \in Posts /\ Threads!Present(p) /\ ~Threads!IsComment(rows[p])

RootOf(p) == IF Threads!IsComment(rows[p]) THEN rows[p].root ELSE p

(* A comment hangs on an entry that is there, in the thread of a post.      *)
Rooted(q) ==
    Threads!Present(q) =>
        IF Threads!IsComment(rows[q])
        THEN /\ rows[q].parent \in Posts /\ Threads!Present(rows[q].parent)
             /\ IsPost(rows[q].root) /\ rows[q].root = RootOf(rows[q].parent)
        ELSE rows[q].root = NoParent

Living == {p \in Posts : Threads!Present(p)}

LikesHavePosts == \A l \in likes : Threads!Present(l[1])

(* What a call has read is true unless the entry is gone: its place in the   *)
(* thread never changes, and its columns only with its version.              *)
CallKnows(c) ==
    LET call == calls[c]
    IN  /\ call.pc \in {"write", "again"} =>
              /\ rows[call.post] # NotYet
              /\ Threads!Present(call.post) =>
                    /\ call.seen.version <= rows[call.post].version
                    /\ call.seen.version = rows[call.post].version =>
                          call.seen = Threads!ColumnsOf(rows[call.post])
        /\ call.pc = "again" => call.tries < MaxUpdateRetries
        /\ call.pc \in {"comment", "remove"} => rows[call.post] # NotYet
        /\ call.pc = "comment" =>
              IsPost(call.root) /\ (Threads!Present(call.post) => call.root = RootOf(call.post))
        /\ call.pc = "remove" =>
              /\ Threads!Present(call.post) => call.root = rows[call.post].root
              /\ IF call.root = NoParent THEN IsPost(call.post) ELSE IsPost(call.root)

ThreadsInv ==
    /\ Threads!TypeOK
    /\ \A q \in Posts : Rooted(q)
    /\ IsFiniteSet(Living) /\ IsFiniteSet(likes)
    /\ LikesHavePosts
    /\ \A c \in Calls : CallKnows(c)

(* An entry is there as long as it has a row. *)
LEMMA RowsAre ==
    ASSUME Threads!TypeOK, NEW p \in Posts
    PROVE  Threads!Present(p) <=> rows[p] \in Threads!PostRow
BY FeedFacts DEF Threads!TypeOK, Threads!Present

LEMMA RowFields ==
    ASSUME NEW r \in Threads!PostRow
    PROVE  /\ r.parent \in Posts \cup {NoParent} /\ r.root \in Posts \cup {NoParent}
           /\ r.body \in Bodies /\ r.schedule \in Threads!Schedules /\ r.pinned \in BOOLEAN
           /\ r.deleted \in BOOLEAN /\ r.likeCount \in Nat /\ r.commentCount \in Nat
           /\ r.version \in 0 .. MaxVersion
BY DEF Threads!PostRow

(* What a step may do to an entry that has had a row. *)
Later(p) ==
    /\ rows'[p] # NotYet
    /\ Threads!Present(p)' =>
          /\ Threads!Present(p) /\ rows'[p].parent = rows[p].parent /\ rows'[p].root = rows[p].root
          /\ rows[p].version <= rows'[p].version
          /\ rows[p].version = rows'[p].version => Threads!ColumnsOf(rows'[p]) = Threads!ColumnsOf(rows[p])
    /\ IsPost(p) => Threads!Present(p)'

Evolves == \A p \in Posts : rows[p] # NotYet => Later(p)

LEMMA StillAPost ==
    ASSUME Threads!TypeOK, Evolves, NEW p, IsPost(p)
    PROVE  IsPost(p)'
<1>1. p \in Posts /\ rows[p] # NotYet
  BY DEF IsPost, Threads!Present
<1> QED BY <1>1 DEF Evolves, Later, IsPost, Threads!IsComment

LEMMA SameRoot ==
    ASSUME Threads!TypeOK, Evolves, NEW p \in Posts, Threads!Present(p), Threads!Present(p)'
    PROVE  RootOf(p)' = RootOf(p)
<1>1. rows[p] # NotYet
  BY DEF Threads!Present
<1> QED BY <1>1 DEF Evolves, Later, RootOf, Threads!IsComment

(* The rows of a call's record. *)
LEMMA CallFields ==
    ASSUME Threads!TypeOK, NEW c \in Calls
    PROVE  /\ calls[c].pc \in {"idle", "write", "again", "like", "comment", "remove"}
           /\ calls[c].pc = "idle" <=> calls[c] = Threads!Idle
           /\ calls[c].pc # "idle" => calls[c].post \in Posts
           /\ calls[c].pc \in {"write", "again"} =>
                 calls[c] \in [pc : {"write", "again"}, post : Posts, seen : Threads!Columns,
                               change : Threads!Edits \cup Threads!Pins, tries : 1..MaxUpdateRetries]
           /\ calls[c].pc = "like" => calls[c] \in [pc : {"like"}, post : Posts, user : Users]
           /\ calls[c].pc = "comment" =>
                 calls[c] \in [pc : {"comment"}, post : Posts, root : Posts, body : Bodies]
           /\ calls[c].pc = "remove" =>
                 calls[c] \in [pc : {"remove"}, post : Posts, root : Posts \cup {NoParent}]
<1>1. calls[c] \in Threads!CallRow
  BY DEF Threads!TypeOK
<1> QED BY <1>1 DEF Threads!CallRow, Threads!Idle

LEMMA CallKept ==
    ASSUME Threads!TypeOK, Threads!TypeOK', Evolves, NEW c \in Calls, CallKnows(c), calls'[c] = calls[c]
    PROVE  CallKnows(c)'
<1> DEFINE call == calls[c]
<1>1. call.pc # "idle" => call.post \in Posts
  BY CallFields
<1>2. CASE call.pc \in {"write", "again"}
  <2>1. call.post \in Posts /\ rows[call.post] # NotYet /\ call.seen \in Threads!Columns
    BY <1>1, <1>2, CallFields DEF CallKnows
  <2>2. Later(call.post)
    BY <2>1 DEF Evolves
  <2>3. call.seen.version \in Nat
    BY <2>1, FeedFacts DEF Threads!Columns
  <2>4. ASSUME Threads!Present(call.post)'
        PROVE  /\ call.seen.version <= rows'[call.post].version
               /\ call.seen.version = rows'[call.post].version =>
                     call.seen = Threads!ColumnsOf(rows'[call.post])
    <3>1. /\ Threads!Present(call.post) /\ rows[call.post].version <= rows'[call.post].version
          /\ rows[call.post].version = rows'[call.post].version =>
                Threads!ColumnsOf(rows'[call.post]) = Threads!ColumnsOf(rows[call.post])
      BY <2>2, <2>4 DEF Later
    <3>2. rows[call.post].version \in Nat
      BY <2>1, <3>1, RowsAre, RowFields, FeedFacts
    <3>3. /\ call.seen.version <= rows[call.post].version
          /\ call.seen.version = rows[call.post].version => call.seen = Threads!ColumnsOf(rows[call.post])
      BY <1>2, <3>1 DEF CallKnows
    <3>4. rows'[call.post] \in Threads!PostRow
      BY <2>1, <2>4 DEF Threads!TypeOK, Threads!Present
    <3>5. rows'[call.post].version \in Nat
      BY <3>4, RowFields, FeedFacts
    <3> QED BY <2>3, <3>1, <3>2, <3>3, <3>5
  <2> QED BY <1>2, <2>2, <2>4 DEF CallKnows, Later
<1>3. CASE call.pc = "comment"
  <2>1. call.post \in Posts /\ rows[call.post] # NotYet /\ IsPost(call.root)
    BY <1>1, <1>3 DEF CallKnows
  <2>2. Later(call.post) /\ IsPost(call.root)'
    BY <2>1, <1>3, StillAPost DEF Evolves
  <2>3. Threads!Present(call.post)' => Threads!Present(call.post) /\ RootOf(call.post)' = RootOf(call.post)
    BY <2>1, <2>2, SameRoot DEF Later
  <2> QED BY <1>3, <2>2, <2>3 DEF CallKnows, Later
<1>4. CASE call.pc = "remove"
  <2>1. call.post \in Posts /\ rows[call.post] # NotYet
    BY <1>1, <1>4 DEF CallKnows
  <2>2. Later(call.post)
    BY <2>1 DEF Evolves
  <2>3. IF call.root = NoParent THEN IsPost(call.post)' ELSE IsPost(call.root)'
    BY <1>4, StillAPost DEF CallKnows
  <2> QED BY <1>4, <2>2, <2>3 DEF CallKnows, Later
<1>5. CASE call.pc \in {"idle", "like"}
  BY <1>5 DEF CallKnows
<1> QED BY <1>2, <1>3, <1>4, <1>5, CallFields

-----------------------------------------------------------------------------
(* Steps that leave every entry where it is. *)

SameTree ==
    \A p \in Posts :
        /\ rows'[p] \in Threads!PostRow \cup {NotYet, Gone}
        /\ rows[p] = NotYet <=> rows'[p] = NotYet
        /\ Threads!Present(p)' <=> Threads!Present(p)
        /\ Threads!Present(p) => rows'[p].parent = rows[p].parent /\ rows'[p].root = rows[p].root

LEMMA TreeKept ==
    ASSUME Threads!TypeOK, \A q \in Posts : Rooted(q), SameTree
    PROVE  /\ \A q \in Posts : Rooted(q)'
           /\ Living' = Living
           /\ \A q \in Posts : Threads!Thread(q)' = Threads!Thread(q)
           /\ \A q \in Posts : Threads!Present(q) => Threads!IsComment(rows[q])' = Threads!IsComment(rows[q])
<1>1. \A q \in Posts : Threads!Present(q) => Threads!IsComment(rows[q])' = Threads!IsComment(rows[q])
  BY DEF SameTree, Threads!IsComment
<1>2. Living' = Living
  BY DEF SameTree, Living
<1>3. \A q \in Posts : Threads!Thread(q)' = Threads!Thread(q)
  BY DEF SameTree, Threads!Thread
<1>4. ASSUME NEW q \in Posts, Threads!Present(q)'
      PROVE  Rooted(q)'
  <2>1. Threads!Present(q) /\ rows'[q].parent = rows[q].parent /\ rows'[q].root = rows[q].root
    BY <1>4 DEF SameTree
  <2>2. CASE ~Threads!IsComment(rows[q])
    BY <2>1, <2>2 DEF Rooted, Threads!IsComment
  <2>3. CASE Threads!IsComment(rows[q])
    <3>1. /\ rows[q].parent \in Posts /\ Threads!Present(rows[q].parent)
          /\ IsPost(rows[q].root) /\ rows[q].root = RootOf(rows[q].parent)
      BY <2>1, <2>3 DEF Rooted
    <3>2. Threads!Present(rows[q].parent)'
      <4>1. rows[q].parent \in Posts /\ Threads!Present(rows[q].parent)
        BY <3>1
      <4>2. rows'[q].parent = rows[q].parent
        BY <2>1
      <4>3. \A e \in Posts : Threads!Present(e) => rows'[e] \notin {NotYet, Gone}
        BY DEF SameTree, Threads!Present
      <4> QED BY <4>1, <4>2, <4>3 DEF Threads!Present
    <3>3. IsPost(rows[q].root)'
      <4>1. \A e : IsPost(e) => e \in Posts /\ rows'[e] \notin {NotYet, Gone} /\ rows'[e].parent = NoParent
        BY DEF SameTree, IsPost, Threads!IsComment, Threads!Present
      <4> QED BY <2>1, <3>1, <4>1 DEF IsPost, Threads!IsComment, Threads!Present
    <3>4. rows'[rows[q].parent].parent = rows[rows[q].parent].parent
          /\ rows'[rows[q].parent].root = rows[rows[q].parent].root
      BY <3>1 DEF SameTree
    <3> QED BY <2>1, <2>3, <3>1, <3>2, <3>3, <3>4 DEF Rooted, RootOf, Threads!IsComment
  <2> QED BY <2>2, <2>3
<1>5. \A q \in Posts : Rooted(q)'
  BY <1>4 DEF Rooted
<1> QED BY <1>1, <1>2, <1>3, <1>5

(* One row is written back with its place in the thread as it was. *)
LEMMA Touched ==
    ASSUME Threads!TypeOK, NEW p \in Posts, Threads!Present(p), NEW r \in Threads!PostRow,
           r.parent = rows[p].parent, r.root = rows[p].root, rows[p].version <= r.version,
           rows[p].version = r.version => Threads!ColumnsOf(r) = Threads!ColumnsOf(rows[p]),
           rows' = [rows EXCEPT ![p] = r]
    PROVE  /\ rows' \in [Posts -> Threads!PostRow \cup {NotYet, Gone}]
           /\ SameTree /\ Evolves
           /\ rows'[p] = r /\ \A q \in Posts \ {p} : rows'[q] = rows[q]
<1>1. rows \in [Posts -> Threads!PostRow \cup {NotYet, Gone}]
  BY DEF Threads!TypeOK
<1>2. rows' \in [Posts -> Threads!PostRow \cup {NotYet, Gone}]
  BY <1>1
<1>3. rows'[p] = r /\ \A q \in Posts \ {p} : rows'[q] = rows[q]
  BY <1>1
<1>4. r \notin {NotYet, Gone} /\ rows[p] # NotYet
  BY FeedFacts DEF Threads!Present
<1>5. SameTree
  BY <1>2, <1>3, <1>4 DEF SameTree, Threads!Present
<1>6. \A q \in Posts : Threads!Present(q) => rows[q].version \in Nat
  BY RowsAre, RowFields, FeedFacts
<1>7. \A q \in Posts : rows[q] # NotYet => Later(q)
  BY <1>3, <1>4, <1>6 DEF Later, IsPost, Threads!Present
<1> QED BY <1>2, <1>3, <1>5, <1>7 DEF Evolves

LEMMA NothingTouched ==
    ASSUME Threads!TypeOK, rows' = rows
    PROVE  SameTree /\ Evolves
<1>1. \A q \in Posts : Threads!Present(q) => rows[q].version \in Nat
  BY RowsAre, RowFields, FeedFacts
<1>2. \A q \in Posts : rows[q] # NotYet => Later(q)
  BY <1>1 DEF Later, IsPost, Threads!Present
<1> QED BY <1>2 DEF SameTree, Evolves, Threads!TypeOK, Threads!Present

(* A call that is set to a good record leaves the others as they were. *)
LEMMA SetOK ==
    ASSUME Threads!TypeOK, NEW c \in Calls, NEW call \in Threads!CallRow, Threads!Set(c, call)
    PROVE  /\ calls' \in [Calls -> Threads!CallRow]
           /\ calls'[c] = call /\ \A d \in Calls \ {c} : calls'[d] = calls[d]
BY DEF Threads!TypeOK, Threads!Set

LEMMA IdleOK == Threads!Idle \in Threads!CallRow /\ Threads!Idle.pc = "idle"
BY DEF Threads!CallRow, Threads!Idle

LEMMA OthersKnow ==
    ASSUME Threads!TypeOK, Threads!TypeOK', Evolves, NEW c \in Calls, \A d \in Calls : CallKnows(d),
           \A d \in Calls \ {c} : calls'[d] = calls[d], CallKnows(c)'
    PROVE  \A d \in Calls : CallKnows(d)'
BY CallKept

LEMMA IdleKnows == ASSUME NEW c \in Calls, calls'[c] = Threads!Idle PROVE CallKnows(c)'
BY IdleOK DEF CallKnows

-----------------------------------------------------------------------------
(* The invariant, action by action. *)

(* A step of a call that leaves the tables alone. *)
LEMMA Quietly ==
    ASSUME ThreadsInv, NEW c \in Calls, NEW call \in Threads!CallRow, Threads!Set(c, call), CallKnows(c)',
           UNCHANGED <<rows, likes, mentions, phase, miscounted>>
    PROVE  ThreadsInv'
<1>1. Threads!TypeOK'
  BY SetOK DEF ThreadsInv, Threads!TypeOK
<1>2. SameTree /\ Evolves
  BY NothingTouched DEF ThreadsInv
<1>3. \A d \in Calls : CallKnows(d)'
  BY <1>1, <1>2, SetOK, OthersKnow DEF ThreadsInv
<1>4. (\A q \in Posts : Rooted(q))' /\ Living' = Living
  BY <1>2, TreeKept DEF ThreadsInv
<1>5. LikesHavePosts'
  BY DEF ThreadsInv, LikesHavePosts, Threads!Present
<1> QED BY <1>1, <1>3, <1>4, <1>5 DEF ThreadsInv

(* A step that writes a row back where it is; its call, if any, is done. *)
LEMMA InPlace ==
    ASSUME ThreadsInv, SameTree, Evolves, rows' \in [Posts -> Threads!PostRow \cup {NotYet, Gone}],
           IsFiniteSet(likes'), likes' \subseteq Posts \X Users, LikesHavePosts',
           mentions' \subseteq Posts \X Users, UNCHANGED <<phase, miscounted>>,
           calls' = calls \/ \E c \in Calls : Threads!Set(c, Threads!Idle)
    PROVE  ThreadsInv'
<1>1. calls' \in [Calls -> Threads!CallRow]
  BY SetOK, IdleOK DEF ThreadsInv, Threads!TypeOK
<1>2. Threads!TypeOK'
  BY <1>1 DEF ThreadsInv, Threads!TypeOK
<1>3. \A d \in Calls : CallKnows(d)'
  <2>1. CASE calls' = calls
    BY <1>2, <2>1, CallKept DEF ThreadsInv
  <2>2. ASSUME NEW c \in Calls, Threads!Set(c, Threads!Idle)
        PROVE  \A d \in Calls : CallKnows(d)'
    <3>1. calls'[c] = Threads!Idle /\ \A d \in Calls \ {c} : calls'[d] = calls[d]
      BY <2>2, SetOK, IdleOK DEF ThreadsInv
    <3> QED BY <1>2, <3>1, IdleKnows, OthersKnow DEF ThreadsInv
  <2> QED BY <2>1, <2>2
<1>4. (\A q \in Posts : Rooted(q))' /\ Living' = Living
  BY TreeKept DEF ThreadsInv
<1> QED BY <1>2, <1>3, <1>4 DEF ThreadsInv

LEMMA BeginsOK ==
    ASSUME ThreadsInv, NEW c \in Calls, NEW p \in Posts
    PROVE  /\ \A b \in Bodies : Threads!BeginComment(c, p, b) => ThreadsInv'
           /\ Threads!BeginDelete(c, p) => ThreadsInv'
           /\ \A change \in Threads!Edits \cup Threads!Pins : Threads!BeginUpdate(c, p, change) => ThreadsInv'
           /\ \A u \in Users : Threads!BeginLike(c, p, u) => ThreadsInv'
<1>1. Threads!Present(p) => rows[p] \in Threads!PostRow
  BY RowsAre DEF ThreadsInv
<1>2. ASSUME NEW b \in Bodies, Threads!BeginComment(c, p, b) PROVE ThreadsInv'
  <2> DEFINE call == [pc |-> "comment", post |-> p, body |-> b, root |-> RootOf(p)]
  <2>1. Threads!Set(c, call) /\ Threads!Present(p) /\ UNCHANGED <<rows, likes, mentions, phase, miscounted>>
    BY <1>2 DEF Threads!BeginComment, RootOf
  <2>2. IsPost(RootOf(p))
    BY <2>1 DEF ThreadsInv, Rooted, RootOf, IsPost
  <2>3. call \in Threads!CallRow
    BY <2>2 DEF Threads!CallRow, IsPost
  <2>4. calls'[c] = call
    BY <2>1, <2>3, SetOK DEF ThreadsInv
  <2>5. IsPost(RootOf(p))' /\ RootOf(p)' = RootOf(p) /\ rows'[p] # NotYet
    BY <2>1, <2>2 DEF IsPost, RootOf, Threads!IsComment, Threads!Present
  <2>6. CallKnows(c)'
    BY <2>4, <2>5 DEF CallKnows
  <2> QED BY <2>1, <2>3, <2>6, Quietly
<1>3. ASSUME Threads!BeginDelete(c, p) PROVE ThreadsInv'
  <2> DEFINE call == [pc |-> "remove", post |-> p, root |-> rows[p].root]
  <2>1. Threads!Set(c, call) /\ Threads!Present(p) /\ UNCHANGED <<rows, likes, mentions, phase, miscounted>>
    BY <1>3 DEF Threads!BeginDelete
  <2>2. call \in Threads!CallRow
    BY <1>1, <2>1, RowFields DEF Threads!CallRow
  <2>3. calls'[c] = call
    BY <2>1, <2>2, SetOK DEF ThreadsInv
  <2>4. IF rows[p].root = NoParent THEN IsPost(p) ELSE IsPost(rows[p].root)
    BY <2>1, FeedFacts DEF ThreadsInv, Rooted, IsPost
  <2>5. IF rows[p].root = NoParent THEN IsPost(p)' ELSE IsPost(rows[p].root)'
    BY <2>1, <2>4 DEF IsPost, Threads!IsComment, Threads!Present
  <2>6. CallKnows(c)'
    BY <2>1, <2>3, <2>5 DEF CallKnows, Threads!Present
  <2> QED BY <2>1, <2>2, <2>6, Quietly
<1>4. ASSUME NEW change \in Threads!Edits \cup Threads!Pins, Threads!BeginUpdate(c, p, change) PROVE ThreadsInv'
  <2> DEFINE call == [pc |-> "write", post |-> p, seen |-> Threads!ColumnsOf(rows[p]),
                      change |-> change, tries |-> 1]
  <2>1. Threads!Set(c, call) /\ Threads!Present(p) /\ UNCHANGED <<rows, likes, mentions, phase, miscounted>>
    BY <1>4 DEF Threads!BeginUpdate
  <2>2. Threads!ColumnsOf(rows[p]) \in Threads!Columns /\ rows[p].version \in Nat
    BY <1>1, <2>1, RowFields, FeedFacts DEF Threads!ColumnsOf, Threads!Columns
  <2>3. call \in Threads!CallRow
    BY <2>2, FeedFacts DEF Threads!CallRow
  <2>4. calls'[c] = call
    BY <2>1, <2>3, SetOK DEF ThreadsInv
  <2>5. CallKnows(c)'
    BY <2>1, <2>2, <2>4 DEF CallKnows, Threads!Present, Threads!ColumnsOf
  <2> QED BY <2>1, <2>3, <2>5, Quietly
<1>5. ASSUME NEW u \in Users, Threads!BeginLike(c, p, u) PROVE ThreadsInv'
  <2> DEFINE call == [pc |-> "like", post |-> p, user |-> u]
  <2>1. Threads!Set(c, call) /\ UNCHANGED <<rows, likes, mentions, phase, miscounted>>
    BY <1>5 DEF Threads!BeginLike
  <2>2. call \in Threads!CallRow
    BY DEF Threads!CallRow
  <2>3. CallKnows(c)'
    BY <2>1, <2>2, SetOK DEF CallKnows, ThreadsInv
  <2> QED BY <2>1, <2>2, <2>3, Quietly
<1> QED BY <1>2, <1>3, <1>4, <1>5

LEMMA PhasesOK == Threads!Elapse => /\ phase' \in {"during", "after"}
                            /\ UNCHANGED <<rows, likes, mentions, calls, miscounted>>
BY DEF Threads!Elapse

LEMMA ElapseOK == ASSUME ThreadsInv, Threads!Elapse PROVE ThreadsInv'
<1>1. Threads!TypeOK'
  BY PhasesOK DEF ThreadsInv, Threads!TypeOK
<1>2. SameTree /\ Evolves
  BY PhasesOK, NothingTouched DEF ThreadsInv
<1>3. \A d \in Calls : CallKnows(d)'
  BY <1>1, <1>2, PhasesOK, CallKept DEF ThreadsInv
<1>4. (\A q \in Posts : Rooted(q))' /\ Living' = Living
  BY <1>2, TreeKept DEF ThreadsInv
<1> QED BY <1>1, <1>3, <1>4, PhasesOK DEF ThreadsInv, LikesHavePosts, Threads!Present

(* What an edit or a pin leaves of the row. *)
LEMMA UpdateTouches ==
    ASSUME ThreadsInv, NEW c \in Calls, Threads!UpdatePost(c)
    PROVE  LET call == calls[c]
               p == call.post
               r == Threads!Written(call)
           IN  /\ p \in Posts /\ Threads!Present(p) /\ call.seen = Threads!ColumnsOf(rows[p])
               /\ call.change \in Threads!Edits \cup Threads!Pins
               /\ r \in Threads!PostRow /\ rows' = [rows EXCEPT ![p] = r]
               /\ r.parent = rows[p].parent /\ r.root = rows[p].root
               /\ r.version = rows[p].version + 1 /\ rows[p].version \in Nat
               /\ r.likeCount = rows[p].likeCount /\ r.commentCount = rows[p].commentCount
               /\ r.body = Threads!Wanted(call, "body") /\ r.schedule = Threads!Wanted(call, "schedule")
               /\ r.pinned = Threads!Wanted(call, "pinned")
<1> DEFINE call == calls[c]
           p == call.post
           r == Threads!Written(call)
<1>1. /\ call.pc = "write" /\ Threads!Present(p) /\ rows[p].version = call.seen.version
      /\ rows[p].version < MaxVersion /\ rows' = [rows EXCEPT ![p] = r]
  BY DEF Threads!UpdatePost, Threads!VersionHolds
<1>2. call.seen \in Threads!Columns /\ call.change \in Threads!Edits \cup Threads!Pins /\ p \in Posts
  BY <1>1, CallFields DEF ThreadsInv
<1>3. call.seen = Threads!ColumnsOf(rows[p])
  BY <1>1 DEF ThreadsInv, CallKnows
<1>4. rows[p] \in Threads!PostRow
  BY <1>1, <1>2, RowsAre DEF ThreadsInv
<1>5. /\ Threads!Wanted(call, "body") \in Bodies /\ Threads!Wanted(call, "schedule") \in Threads!Schedules
      /\ Threads!Wanted(call, "pinned") \in BOOLEAN
  BY <1>2 DEF Threads!Wanted, Threads!Edits, Threads!Pins, Threads!Columns
<1>6. rows[p].version \in Nat /\ rows[p].version + 1 \in 0 .. MaxVersion
  BY <1>1, <1>4, RowFields, FeedFacts
<1>7. r \in Threads!PostRow
  BY <1>4, <1>5, <1>6 DEF Threads!PostRow, Threads!Written
<1>8. /\ r.parent = rows[p].parent /\ r.root = rows[p].root /\ r.version = rows[p].version + 1
      /\ r.likeCount = rows[p].likeCount /\ r.commentCount = rows[p].commentCount
      /\ r.body = Threads!Wanted(call, "body") /\ r.schedule = Threads!Wanted(call, "schedule")
      /\ r.pinned = Threads!Wanted(call, "pinned")
  BY <1>4 DEF Threads!PostRow, Threads!Written
<1> HIDE DEF r
<1>9. /\ p \in Posts /\ Threads!Present(p) /\ call.seen = Threads!ColumnsOf(rows[p])
      /\ call.change \in Threads!Edits \cup Threads!Pins
      /\ r \in Threads!PostRow /\ rows' = [rows EXCEPT ![p] = r]
      /\ r.parent = rows[p].parent /\ r.root = rows[p].root
      /\ r.version = rows[p].version + 1 /\ rows[p].version \in Nat
      /\ r.likeCount = rows[p].likeCount /\ r.commentCount = rows[p].commentCount
      /\ r.body = Threads!Wanted(call, "body") /\ r.schedule = Threads!Wanted(call, "schedule")
      /\ r.pinned = Threads!Wanted(call, "pinned")
  BY <1>1, <1>2, <1>3, <1>6, <1>7, <1>8
<1> QED BY <1>9 DEF r

LEMMA UpdateOK ==
    ASSUME ThreadsInv, NEW c \in Calls, Threads!UpdatePost(c)
    PROVE  ThreadsInv' /\ SameTree
<1> DEFINE call == calls[c]
           p == call.post
           r == Threads!Written(call)
<1>1. /\ p \in Posts /\ Threads!Present(p) /\ call.change \in Threads!Edits \cup Threads!Pins
      /\ r \in Threads!PostRow /\ rows' = [rows EXCEPT ![p] = r]
      /\ r.parent = rows[p].parent /\ r.root = rows[p].root
      /\ r.version = rows[p].version + 1 /\ rows[p].version \in Nat
  BY UpdateTouches
<1> HIDE DEF r
<1>2. rows' \in [Posts -> Threads!PostRow \cup {NotYet, Gone}] /\ SameTree /\ Evolves
  <2>1. rows[p].version <= r.version /\ rows[p].version # r.version
    BY <1>1
  <2> QED BY <1>1, <2>1, Touched DEF ThreadsInv
<1>3. mentions' \subseteq Posts \X Users
  <2>1. "body" \in DOMAIN call.change => call.change.body \in Bodies
    BY <1>1 DEF Threads!Edits, Threads!Pins
  <2>2. \A b \in Bodies : Threads!Mentions(p, b) \subseteq Posts \X Users
    BY <1>1, FeedFacts DEF Threads!Mentions
  <2>3. mentions \subseteq Posts \X Users
    BY DEF ThreadsInv, Threads!TypeOK
  <2>4. IF "body" \in DOMAIN call.change
        THEN mentions' = {m \in mentions : m[1] # p} \cup Threads!Mentions(p, call.change.body)
        ELSE mentions' = mentions
    BY DEF Threads!UpdatePost
  <2> QED BY <2>1, <2>2, <2>3, <2>4
<1>4. Threads!Set(c, Threads!Idle) /\ UNCHANGED <<likes, phase, miscounted>>
  BY DEF Threads!UpdatePost
<1>5. IsFiniteSet(likes') /\ likes' \subseteq Posts \X Users
  BY <1>4 DEF ThreadsInv, Threads!TypeOK
<1>6. LikesHavePosts'
  BY <1>2, <1>4, <1>5 DEF ThreadsInv, LikesHavePosts, SameTree, Threads!TypeOK
<1> QED BY <1>2, <1>3, <1>4, <1>5, <1>6, InPlace

LEMMA LosesOK == ASSUME ThreadsInv, NEW c \in Calls, Threads!LoseTheRace(c) PROVE ThreadsInv'
<1> DEFINE call == calls[c]
           next == IF call.tries = MaxUpdateRetries THEN Threads!Idle ELSE [call EXCEPT !.pc = "again"]
<1>1. /\ call.pc = "write" /\ Threads!Set(c, next)
      /\ UNCHANGED <<rows, likes, mentions, phase, miscounted>>
  BY DEF Threads!LoseTheRace
<1>2. call \in [pc : {"write", "again"}, post : Posts, seen : Threads!Columns,
                change : Threads!Edits \cup Threads!Pins, tries : 1..MaxUpdateRetries]
  BY <1>1, CallFields DEF ThreadsInv
<1>3. CASE call.tries = MaxUpdateRetries
  BY <1>1, <1>3, IdleOK, SetOK, IdleKnows, Quietly DEF ThreadsInv
<1>4. CASE call.tries # MaxUpdateRetries
  <2> DEFINE again == [call EXCEPT !.pc = "again"]
  <2>1. again \in Threads!CallRow /\ again.pc = "again" /\ again.post = call.post
        /\ again.seen = call.seen /\ again.tries = call.tries /\ call.tries < MaxUpdateRetries
    BY <1>2, <1>4, FeedFacts DEF Threads!CallRow
  <2>2. Threads!Set(c, again)
    BY <1>1, <1>4
  <2> HIDE DEF again
  <2>3. calls'[c] = again
    BY <2>1, <2>2, SetOK DEF ThreadsInv
  <2>4. CallKnows(c)
    BY DEF ThreadsInv
  <2>5. CallKnows(c)'
    BY <1>1, <2>1, <2>3, <2>4 DEF CallKnows, Threads!Present
  <2> QED BY <1>1, <2>1, <2>2, <2>5, Quietly
<1> QED BY <1>3, <1>4

LEMMA ReadsOK == ASSUME ThreadsInv, NEW c \in Calls, Threads!ReadAgain(c) PROVE ThreadsInv'
<1> DEFINE call == calls[c]
           p == call.post
<1>1. call.pc = "again" /\ UNCHANGED <<rows, likes, mentions, phase, miscounted>>
  BY DEF Threads!ReadAgain
<1>2. call \in [pc : {"write", "again"}, post : Posts, seen : Threads!Columns,
                change : Threads!Edits \cup Threads!Pins, tries : 1..MaxUpdateRetries]
  BY <1>1, CallFields DEF ThreadsInv
<1>3. CASE ~Threads!Present(p)
  <2>1. Threads!Set(c, Threads!Idle)
    BY <1>3 DEF Threads!ReadAgain
  <2> QED BY <1>1, <2>1, IdleOK, SetOK, IdleKnows, Quietly DEF ThreadsInv
<1>4. CASE Threads!Present(p)
  <2> DEFINE seen == Threads!ColumnsOf(rows[p])
             write == [call EXCEPT !.pc = "write", !.seen = seen, !.tries = @ + 1]
  <2>1. Threads!Set(c, write)
    BY <1>4 DEF Threads!ReadAgain
  <2>2. rows[p] \in Threads!PostRow
    BY <1>2, <1>4, RowsAre DEF ThreadsInv
  <2>3. seen \in Threads!Columns /\ seen.version = rows[p].version /\ rows[p].version \in Nat
    BY <2>2, RowFields, FeedFacts DEF Threads!ColumnsOf, Threads!Columns
  <2>4. call.tries \in 1 .. MaxUpdateRetries /\ call.tries < MaxUpdateRetries
    BY <1>1, <1>2 DEF ThreadsInv, CallKnows
  <2> HIDE DEF seen
  <2>5. write \in Threads!CallRow /\ write.pc = "write" /\ write.post = p /\ write.seen = seen
    <3>1. call.tries + 1 \in 1 .. MaxUpdateRetries
      BY <2>4, FeedFacts
    <3>2. write \in [pc : {"write", "again"}, post : Posts, seen : Threads!Columns,
                     change : Threads!Edits \cup Threads!Pins, tries : 1..MaxUpdateRetries]
      BY <1>2, <2>3, <3>1
    <3> QED BY <1>2, <3>2 DEF Threads!CallRow
  <2> HIDE DEF write
  <2>6. calls'[c] = write
    BY <2>1, <2>5, SetOK DEF ThreadsInv
  <2>7. CallKnows(c)'
    BY <1>1, <1>4, <2>3, <2>5, <2>6 DEF CallKnows, Threads!Present, seen
  <2> QED BY <1>1, <2>1, <2>5, <2>7, Quietly
<1> QED BY <1>3, <1>4

(* A post that is deleted keeps its row. *)
LEMMA SoftDeleteTouches ==
    ASSUME ThreadsInv, NEW c \in Calls, Threads!SoftDeletePost(c)
    PROVE  LET p == calls[c].post
               r == [rows[p] EXCEPT !.deleted = TRUE]
           IN  /\ p \in Posts /\ Threads!Present(p) /\ r \in Threads!PostRow /\ rows' = [rows EXCEPT ![p] = r]
               /\ r.parent = rows[p].parent /\ r.root = rows[p].root
               /\ Threads!ColumnsOf(r) = Threads!ColumnsOf(rows[p])
               /\ r.version = rows[p].version /\ rows[p].version \in Nat
               /\ r.likeCount = rows[p].likeCount /\ r.commentCount = rows[p].commentCount
<1> DEFINE p == calls[c].post
           r == [rows[p] EXCEPT !.deleted = TRUE]
<1>1. calls[c].pc = "remove" /\ calls[c].root = NoParent
  BY DEF Threads!SoftDeletePost
<1>2. IsPost(p)
  BY <1>1 DEF ThreadsInv, CallKnows
<1>3. p \in Posts /\ Threads!Present(p) /\ rows[p] \in Threads!PostRow
  BY <1>2, RowsAre DEF ThreadsInv, IsPost
<1>4. /\ r \in Threads!PostRow /\ r.parent = rows[p].parent /\ r.root = rows[p].root
      /\ r.body = rows[p].body /\ r.schedule = rows[p].schedule /\ r.pinned = rows[p].pinned
      /\ r.version = rows[p].version
      /\ r.likeCount = rows[p].likeCount /\ r.commentCount = rows[p].commentCount
  BY <1>3 DEF Threads!PostRow
<1>5. rows' = [rows EXCEPT ![p] = r]
  BY DEF Threads!SoftDeletePost
<1>6. rows[p].version \in Nat
  BY <1>3, RowFields, FeedFacts
<1> QED BY <1>3, <1>4, <1>5, <1>6 DEF Threads!ColumnsOf

LEMMA SoftDeleteOK ==
    ASSUME ThreadsInv, NEW c \in Calls, Threads!SoftDeletePost(c)
    PROVE  ThreadsInv' /\ SameTree
<1> DEFINE p == calls[c].post
           r == [rows[p] EXCEPT !.deleted = TRUE]
<1>1. /\ p \in Posts /\ Threads!Present(p) /\ r \in Threads!PostRow /\ rows' = [rows EXCEPT ![p] = r]
      /\ r.parent = rows[p].parent /\ r.root = rows[p].root
      /\ Threads!ColumnsOf(r) = Threads!ColumnsOf(rows[p])
      /\ r.version = rows[p].version /\ rows[p].version \in Nat
  BY SoftDeleteTouches
<1> HIDE DEF r
<1>2. rows' \in [Posts -> Threads!PostRow \cup {NotYet, Gone}] /\ SameTree /\ Evolves
  <2>1. rows[p].version <= r.version
    BY <1>1
  <2> QED BY <1>1, <2>1, Touched DEF ThreadsInv
<1>3. Threads!Set(c, Threads!Idle) /\ UNCHANGED <<likes, mentions, phase, miscounted>>
  BY DEF Threads!SoftDeletePost
<1>4. IsFiniteSet(likes') /\ likes' \subseteq Posts \X Users /\ mentions' \subseteq Posts \X Users
  BY <1>3 DEF ThreadsInv, Threads!TypeOK
<1>5. LikesHavePosts'
  BY <1>2, <1>3, <1>4 DEF ThreadsInv, LikesHavePosts, SameTree
<1> QED BY <1>2, <1>3, <1>4, <1>5, InPlace

(* A like counts one, an unlike one less. *)
LEMMA Counted ==
    ASSUME ThreadsInv, NEW p \in Posts, Threads!Present(p), NEW n \in Nat,
           rows' = [rows EXCEPT ![p].likeCount = n]
    PROVE  /\ rows' \in [Posts -> Threads!PostRow \cup {NotYet, Gone}] /\ SameTree /\ Evolves
           /\ rows'[p].likeCount = n /\ rows'[p].commentCount = rows[p].commentCount
           /\ Threads!ColumnsOf(rows'[p]) = Threads!ColumnsOf(rows[p])
           /\ \A q \in Posts \ {p} : rows'[q] = rows[q]
<1> DEFINE r == [rows[p] EXCEPT !.likeCount = n]
<1>1. rows[p] \in Threads!PostRow
  BY RowsAre DEF ThreadsInv
<1>2. /\ r \in Threads!PostRow /\ r.parent = rows[p].parent /\ r.root = rows[p].root
      /\ r.body = rows[p].body /\ r.schedule = rows[p].schedule /\ r.pinned = rows[p].pinned
      /\ r.version = rows[p].version
      /\ r.likeCount = n /\ r.commentCount = rows[p].commentCount
  BY <1>1 DEF Threads!PostRow
<1>3. Threads!ColumnsOf(r) = Threads!ColumnsOf(rows[p])
  BY <1>2 DEF Threads!ColumnsOf
<1>4. rows[p].version \in Nat
  BY <1>1, RowFields, FeedFacts
<1>5. rows' = [rows EXCEPT ![p] = r]
  BY <1>2
<1> HIDE DEF r
<1>6. rows[p].version <= r.version
  BY <1>2, <1>4
<1>7. /\ rows' \in [Posts -> Threads!PostRow \cup {NotYet, Gone}] /\ SameTree /\ Evolves
      /\ rows'[p] = r /\ \A q \in Posts \ {p} : rows'[q] = rows[q]
  BY <1>2, <1>3, <1>5, <1>6, Touched DEF ThreadsInv
<1> QED BY <1>2, <1>3, <1>7

LEMMA LikeOK == ASSUME ThreadsInv, NEW c \in Calls, Threads!Like(c) PROVE ThreadsInv' /\ SameTree
<1> DEFINE p == calls[c].post
           like == <<calls[c].post, calls[c].user>>
<1>1. calls[c].pc = "like" /\ Threads!Set(c, Threads!Idle) /\ UNCHANGED <<mentions, phase, miscounted>>
  BY DEF Threads!Like
<1>2. like \in Posts \X Users /\ p \in Posts /\ like[1] = p
  BY <1>1, CallFields DEF ThreadsInv
<1>3. mentions' \subseteq Posts \X Users
  BY <1>1 DEF ThreadsInv, Threads!TypeOK
<1>4. CASE Threads!Present(p) /\ like \notin likes
  <2>1. likes' = likes \cup {like} /\ rows' = [rows EXCEPT ![p].likeCount = @ + 1]
    BY <1>4 DEF Threads!Like
  <2>2. rows[p].likeCount + 1 \in Nat
    BY <1>2, <1>4, RowsAre, RowFields DEF ThreadsInv
  <2>3. rows' = [rows EXCEPT ![p].likeCount = rows[p].likeCount + 1]
    BY <2>1, SMTT(60)
  <2>4. rows' \in [Posts -> Threads!PostRow \cup {NotYet, Gone}] /\ SameTree /\ Evolves
    BY <1>2, <1>4, <2>2, <2>3, Counted
  <2>5. IsFiniteSet(likes') /\ likes' \subseteq Posts \X Users
    BY <1>2, <2>1, FS_AddElement DEF ThreadsInv, Threads!TypeOK
  <2>6. LikesHavePosts'
    BY <1>2, <1>4, <2>1, <2>4, <2>5 DEF ThreadsInv, LikesHavePosts, SameTree, Threads!TypeOK
  <2> QED BY <1>1, <1>3, <2>4, <2>5, <2>6, InPlace
<1>5. CASE ~(Threads!Present(p) /\ like \notin likes)
  <2>1. UNCHANGED <<likes, rows>>
    BY <1>5 DEF Threads!Like
  <2>2. SameTree /\ Evolves
    BY <2>1, NothingTouched DEF ThreadsInv
  <2>3. /\ rows' \in [Posts -> Threads!PostRow \cup {NotYet, Gone}]
        /\ IsFiniteSet(likes') /\ likes' \subseteq Posts \X Users /\ LikesHavePosts'
    BY <2>1 DEF ThreadsInv, Threads!TypeOK, LikesHavePosts, Threads!Present
  <2> QED BY <1>1, <1>3, <2>2, <2>3, InPlace
<1> QED BY <1>4, <1>5

LEMMA UnlikeOK ==
    ASSUME ThreadsInv, NEW p \in Posts, NEW w \in Users, Threads!Unlike(p, w)
    PROVE  ThreadsInv' /\ SameTree
<1>1. /\ <<p, w>> \in likes /\ likes' = likes \ {<<p, w>>}
      /\ rows' = [rows EXCEPT ![p].likeCount = Threads!CountDown(@)]
      /\ UNCHANGED <<mentions, phase, calls, miscounted>>
  BY DEF Threads!Unlike
<1>2. Threads!Present(p)
  <2>1. <<p, w>>[1] = p
    OBVIOUS
  <2> QED BY <1>1, <2>1 DEF ThreadsInv, LikesHavePosts
<1>3. Threads!CountDown(rows[p].likeCount) \in Nat
  BY <1>2, RowsAre, RowFields DEF ThreadsInv, Threads!CountDown
<1>4. rows' = [rows EXCEPT ![p].likeCount = Threads!CountDown(rows[p].likeCount)]
  BY <1>1
<1>5. rows' \in [Posts -> Threads!PostRow \cup {NotYet, Gone}] /\ SameTree /\ Evolves
  BY <1>2, <1>3, <1>4, Counted
<1>6. IsFiniteSet(likes') /\ likes' \subseteq Posts \X Users /\ mentions' \subseteq Posts \X Users
  BY <1>1, FS_RemoveElement DEF ThreadsInv, Threads!TypeOK
<1>7. LikesHavePosts'
  BY <1>1, <1>5, <1>6 DEF ThreadsInv, LikesHavePosts, SameTree, Threads!TypeOK
<1> QED BY <1>1, <1>5, <1>6, <1>7, InPlace

-----------------------------------------------------------------------------
(* A new entry. *)

GrownBy(p) ==
    /\ p \in Posts /\ rows[p] = NotYet
    /\ rows' \in [Posts -> Threads!PostRow \cup {NotYet, Gone}]
    /\ rows'[p] \in Threads!PostRow
    /\ \A q \in Posts \ {p} :
          /\ rows[q] = NotYet <=> rows'[q] = NotYet
          /\ Threads!Present(q)' <=> Threads!Present(q)
          /\ Threads!Present(q) => /\ rows'[q].parent = rows[q].parent /\ rows'[q].root = rows[q].root
                            /\ Threads!ColumnsOf(rows'[q]) = Threads!ColumnsOf(rows[q])

LEMMA Grows ==
    ASSUME ThreadsInv, NEW p, GrownBy(p)
    PROVE  /\ Evolves /\ Living' = Living \cup {p} /\ Threads!Present(p)' /\ ~Threads!Present(p)
           /\ \A q \in Posts \ {p} : Rooted(q)'
<1>1. p \in Posts /\ Threads!Present(p)' /\ ~Threads!Present(p)
  BY FeedFacts DEF GrownBy, Threads!Present
<1>2. Living' = Living \cup {p}
  BY <1>1 DEF Living, GrownBy
<1>3. \A q \in Posts \ {p} : Threads!Present(q) => rows[q].version \in Nat /\ rows'[q].version = rows[q].version
  <2> TAKE q \in Posts \ {p}
  <2> HAVE Threads!Present(q)
  <2>1. Threads!ColumnsOf(rows'[q]) = Threads!ColumnsOf(rows[q])
    BY DEF GrownBy
  <2>2. \A r : Threads!ColumnsOf(r).version = r.version
    BY DEF Threads!ColumnsOf
  <2>3. rows[q].version \in Nat
    BY RowsAre, RowFields, FeedFacts DEF ThreadsInv
  <2> QED BY <2>1, <2>2, <2>3
<1>4. Evolves
  <2> SUFFICES ASSUME NEW q \in Posts, rows[q] # NotYet PROVE Later(q)
    BY DEF Evolves
  <2>1. q # p
    BY DEF GrownBy
  <2> QED BY <1>3, <2>1 DEF GrownBy, Later, IsPost
<1>5. ASSUME NEW q \in Posts \ {p}, Threads!Present(q)' PROVE Rooted(q)'
  <2>1. Threads!Present(q) /\ rows'[q].parent = rows[q].parent /\ rows'[q].root = rows[q].root
    BY <1>5 DEF GrownBy
  <2>2. CASE ~Threads!IsComment(rows[q])
    BY <2>1, <2>2 DEF ThreadsInv, Rooted, Threads!IsComment
  <2>3. CASE Threads!IsComment(rows[q])
    <3> PICK up, root : up = rows[q].parent /\ root = rows[q].root
      OBVIOUS
    <3>1. up \in Posts /\ Threads!Present(up) /\ IsPost(root) /\ root = RootOf(up)
      BY <2>1, <2>3 DEF ThreadsInv, Rooted
    <3>2. IsPost(root)'
      BY <1>4, <3>1, StillAPost DEF ThreadsInv
    <3>3. up # p
      BY <1>1, <3>1
    <3>4. Threads!Present(up)'
      BY <3>1, <3>3 DEF GrownBy
    <3>5. RootOf(up)' = root
      BY <1>4, <3>1, <3>4, SameRoot DEF ThreadsInv
    <3>6. rows'[q].parent = up /\ rows'[q].root = root
      BY <2>1
    <3>7. Threads!IsComment(rows[q])'
      BY <3>1, <3>6, FeedFacts DEF Threads!IsComment
    <3> QED BY <3>1, <3>2, <3>4, <3>5, <3>6, <3>7 DEF Rooted, RootOf
  <2> QED BY <2>2, <2>3
<1>6. \A q \in Posts \ {p} : Rooted(q)'
  BY <1>5 DEF Rooted
<1> QED BY <1>1, <1>2, <1>4, <1>6

LEMMA NewRows ==
    ASSUME NEW parent \in Posts \cup {NoParent}, NEW root \in Posts \cup {NoParent},
           NEW b \in Bodies, NEW s \in Threads!Schedules
    PROVE  LET r == Threads!NewRow(parent, root, b, s)
           IN  /\ r \in Threads!PostRow /\ r.parent = parent /\ r.root = root /\ r.body = b
               /\ r.likeCount = 0 /\ r.commentCount = 0
BY FeedFacts DEF Threads!NewRow, Threads!PostRow

LEMMA CreatePostOK ==
    ASSUME ThreadsInv, NEW p \in Posts, NEW b \in Bodies, NEW s \in Threads!Schedules, Threads!CreatePost(p, b, s)
    PROVE  ThreadsInv' /\ GrownBy(p)
<1> DEFINE r == Threads!NewRow(NoParent, NoParent, b, s)
<1>1. /\ rows[p] = NotYet /\ rows' = [rows EXCEPT ![p] = r]
      /\ mentions' = mentions \cup Threads!Mentions(p, b)
      /\ UNCHANGED <<likes, phase, calls, miscounted>>
  BY DEF Threads!CreatePost
<1>2. r \in Threads!PostRow /\ r.parent = NoParent /\ r.root = NoParent
  BY FeedFacts DEF Threads!NewRow, Threads!PostRow
<1> HIDE DEF r
<1>3. rows \in [Posts -> Threads!PostRow \cup {NotYet, Gone}]
  BY DEF ThreadsInv, Threads!TypeOK
<1>4. rows'[p] = r /\ \A q \in Posts \ {p} : rows'[q] = rows[q]
  BY <1>1, <1>3
<1>5. GrownBy(p)
  BY <1>1, <1>2, <1>3, <1>4 DEF GrownBy, Threads!Present
<1>6. /\ Evolves /\ Living' = Living \cup {p} /\ Threads!Present(p)' /\ ~Threads!Present(p)
      /\ \A q \in Posts \ {p} : Rooted(q)'
  BY <1>5, Grows
<1>7. Rooted(p)'
  BY <1>2, <1>4 DEF Rooted, Threads!IsComment
<1>8. Threads!TypeOK'
  <2>1. mentions' \subseteq Posts \X Users
    BY <1>1, FeedFacts DEF Threads!Mentions, ThreadsInv, Threads!TypeOK
  <2> QED BY <1>1, <1>5, <2>1 DEF GrownBy, ThreadsInv, Threads!TypeOK
<1>9. IsFiniteSet(Living') /\ IsFiniteSet(likes')
  BY <1>1, <1>6, FS_AddElement DEF ThreadsInv
<1>10. LikesHavePosts'
  BY <1>1, <1>4, <1>6 DEF ThreadsInv, LikesHavePosts, Threads!TypeOK, Threads!Present
<1>11. \A d \in Calls : CallKnows(d)'
  BY <1>1, <1>6, <1>8, CallKept, SMTT(60) DEF ThreadsInv
<1> QED BY <1>5, <1>6, <1>7, <1>8, <1>9, <1>10, <1>11 DEF ThreadsInv

(* The comment, and its post with one more to count. *)
LEMMA CommentGrows ==
    ASSUME ThreadsInv, NEW c \in Calls, NEW q \in Posts, Threads!CreateComment(c, q), Threads!Present(calls[c].post)
    PROVE  LET call == calls[c]
           IN  /\ GrownBy(q) /\ call.pc = "comment"
               /\ call.post \in Posts /\ call.post # q /\ call.body \in Bodies
               /\ IsPost(call.root) /\ call.root # q /\ call.root = RootOf(call.post)
               /\ rows'[q] = Threads!NewRow(call.post, call.root, call.body, "always")
               /\ rows'[call.root].commentCount = rows[call.root].commentCount + 1
               /\ rows'[call.root].likeCount = rows[call.root].likeCount
               /\ rows'[call.root].body = rows[call.root].body
               /\ \A p \in Posts \ {q, call.root} : rows'[p] = rows[p]
               /\ mentions' = mentions \cup Threads!Mentions(q, call.body)
               /\ Threads!Set(c, Threads!Idle) /\ UNCHANGED <<likes, phase, miscounted>>
<1> DEFINE call == calls[c]
           r == Threads!NewRow(call.post, call.root, call.body, "always")
           old == rows[call.root]
           s == [old EXCEPT !.commentCount = @ + 1]
<1>1. /\ call.pc = "comment" /\ rows[q] = NotYet
      /\ rows' = [rows EXCEPT ![q] = r, ![call.root].commentCount = @ + 1]
      /\ mentions' = mentions \cup Threads!Mentions(q, call.body)
      /\ Threads!Set(c, Threads!Idle) /\ UNCHANGED <<likes, phase, miscounted>>
  BY DEF Threads!CreateComment
<1>2. call.post \in Posts /\ call.body \in Bodies
  BY <1>1, CallFields DEF ThreadsInv
<1>3. IsPost(call.root) /\ call.root = RootOf(call.post)
  BY <1>1 DEF ThreadsInv, CallKnows
<1>4. call.root \in Posts /\ call.root # q /\ call.post # q /\ Threads!Present(call.root)
  BY <1>1, <1>3 DEF IsPost, Threads!Present
<1>5. old \in Threads!PostRow
  BY <1>4, RowsAre DEF ThreadsInv
<1>6. /\ s \in Threads!PostRow /\ s.commentCount = old.commentCount + 1 /\ s.likeCount = old.likeCount
      /\ s.parent = old.parent /\ s.root = old.root /\ s.body = old.body
      /\ s.schedule = old.schedule /\ s.pinned = old.pinned /\ s.version = old.version
  BY <1>5 DEF Threads!PostRow
<1>7. Threads!ColumnsOf(s) = Threads!ColumnsOf(old)
  BY <1>6 DEF Threads!ColumnsOf
<1>8. r \in Threads!PostRow
  BY <1>2, <1>4, NewRows DEF Threads!Schedules
<1> HIDE DEF r
<1>9. rows \in [Posts -> Threads!PostRow \cup {NotYet, Gone}]
  BY DEF ThreadsInv, Threads!TypeOK
<1>10. rows'[q] = r /\ rows'[call.root] = s /\ \A p \in Posts \ {q, call.root} : rows'[p] = rows[p]
  BY <1>1, <1>4, <1>9, SMTT(60)
<1> HIDE DEF s
<1>11. rows' \in [Posts -> Threads!PostRow \cup {NotYet, Gone}]
  BY <1>1, <1>6, <1>8, <1>9, <1>10
<1>12. s \notin {NotYet, Gone}
  BY <1>6, FeedFacts
<1>13. GrownBy(q)
  BY <1>1, <1>4, <1>6, <1>7, <1>8, <1>10, <1>11, <1>12 DEF GrownBy, Threads!Present
<1> QED BY <1>1, <1>2, <1>3, <1>4, <1>6, <1>10, <1>13 DEF r

LEMMA CreateCommentOK ==
    ASSUME ThreadsInv, NEW c \in Calls, NEW q \in Posts, Threads!CreateComment(c, q)
    PROVE  ThreadsInv'
<1> DEFINE call == calls[c]
<1>1. CASE Threads!Present(call.post)
  <2>1. /\ GrownBy(q) /\ call.post \in Posts /\ call.post # q /\ call.body \in Bodies
        /\ IsPost(call.root) /\ call.root = RootOf(call.post)
        /\ rows'[q] = Threads!NewRow(call.post, call.root, call.body, "always")
        /\ mentions' = mentions \cup Threads!Mentions(q, call.body)
        /\ Threads!Set(c, Threads!Idle) /\ UNCHANGED <<likes, phase, miscounted>>
    BY <1>1, CommentGrows
  <2>2. /\ Evolves /\ Living' = Living \cup {q} /\ Threads!Present(q)'
        /\ \A p \in Posts \ {q} : Rooted(p)'
    BY <2>1, Grows
  <2>3. Rooted(q)'
    <3> PICK up, root : up = call.post /\ root = call.root
      OBVIOUS
    <3>1. rows'[q].parent = up /\ rows'[q].root = root
      BY <2>1 DEF Threads!NewRow
    <3>2. up \in Posts /\ Threads!Present(up) /\ up # q /\ IsPost(root) /\ root = RootOf(up)
      BY <1>1, <2>1
    <3>3. Threads!Present(up)'
      BY <2>1, <3>2 DEF GrownBy
    <3>4. RootOf(up)' = root /\ IsPost(root)'
      BY <2>2, <3>2, <3>3, SameRoot, StillAPost DEF ThreadsInv
    <3>5. Threads!IsComment(rows[q])'
      BY <3>1, <3>2, FeedFacts DEF Threads!IsComment
    <3> QED BY <3>1, <3>2, <3>3, <3>4, <3>5 DEF Rooted, RootOf
  <2>4. Threads!TypeOK'
    <3>1. mentions' \subseteq Posts \X Users
      BY <2>1, FeedFacts DEF Threads!Mentions, ThreadsInv, Threads!TypeOK
    <3>2. calls' \in [Calls -> Threads!CallRow]
      BY <2>1, SetOK, IdleOK DEF ThreadsInv
    <3> QED BY <2>1, <3>1, <3>2 DEF GrownBy, ThreadsInv, Threads!TypeOK
  <2>5. IsFiniteSet(Living') /\ IsFiniteSet(likes')
    BY <2>1, <2>2, FS_AddElement DEF ThreadsInv
  <2>6. LikesHavePosts'
    <3>1. \A p \in Posts : Threads!Present(p) => Threads!Present(p)'
      BY <2>2 DEF Living
    <3> QED BY <2>1, <3>1 DEF ThreadsInv, LikesHavePosts, Threads!TypeOK
  <2>7. \A d \in Calls : CallKnows(d)'
    <3>1. calls'[c] = Threads!Idle /\ \A d \in Calls \ {c} : calls'[d] = calls[d]
      BY <2>1, SetOK, IdleOK DEF ThreadsInv
    <3> QED BY <2>2, <2>4, <3>1, IdleKnows, OthersKnow DEF ThreadsInv
  <2> QED BY <2>2, <2>3, <2>4, <2>5, <2>6, <2>7 DEF ThreadsInv
<1>2. CASE ~Threads!Present(call.post)
  <2>1. Threads!Set(c, Threads!Idle) /\ UNCHANGED <<rows, likes, mentions, phase, miscounted>>
    BY <1>2 DEF Threads!CreateComment
  <2> QED BY <2>1, IdleOK, SetOK, IdleKnows, Quietly DEF ThreadsInv
<1> QED BY <1>1, <1>2

-----------------------------------------------------------------------------
(* A comment goes with the replies that hang on it. *)

(* The replies are in its thread, and no entry that stays hangs on one. *)
LEMMA CascadeIs ==
    ASSUME ThreadsInv, NEW p \in Posts, Threads!Present(p), NEW root \in Posts, rows[p].root = root
    PROVE  /\ p \in Threads!Cascade(p) /\ Threads!Cascade(p) \subseteq Threads!Thread(root)
           /\ Threads!HoldsReplies(Threads!Cascade(p))
<1>1. Threads!Thread(root) \in SUBSET Posts /\ p \in Threads!Thread(root)
  BY DEF Threads!Thread
<1>2. Threads!HoldsReplies(Threads!Thread(root))
  <2> SUFFICES ASSUME NEW r \in Threads!Thread(root), NEW q \in Posts, Threads!Under(r, q) PROVE q \in Threads!Thread(root)
    BY DEF Threads!HoldsReplies
  <2>1. r \in Posts /\ Threads!Present(r) /\ rows[r].root = root /\ Threads!Present(q) /\ rows[q].parent = r
    BY DEF Threads!Thread, Threads!Under
  <2>2. Threads!IsComment(rows[r]) /\ Threads!IsComment(rows[q])
    BY <2>1, FeedFacts DEF ThreadsInv, Rooted, Threads!IsComment
  <2>3. rows[q].root = root
    BY <2>1, <2>2 DEF ThreadsInv, Rooted, RootOf
  <2> QED BY <2>1, <2>3 DEF Threads!Thread
<1>3. Threads!Cascade(p) \subseteq Threads!Thread(root)
  BY <1>1, <1>2 DEF Threads!Cascade
<1>4. p \in Threads!Cascade(p)
  BY DEF Threads!Cascade
<1>5. Threads!HoldsReplies(Threads!Cascade(p))
  BY DEF Threads!HoldsReplies, Threads!Cascade
<1> QED BY <1>3, <1>4, <1>5

(* What a deletion takes along, and what it leaves. *)
Lost(c) == IF Threads!Present(calls[c].post) THEN Threads!Cascade(calls[c].post) ELSE {}

LEMMA DeleteIs ==
    ASSUME ThreadsInv, NEW c \in Calls, Threads!DeleteComment(c)
    PROVE  LET root == calls[c].root
           IN  /\ calls[c].post \in Posts /\ IsPost(root)
               /\ Lost(c) \subseteq Threads!Thread(root) /\ root \notin Lost(c)
               /\ Threads!HoldsReplies(Lost(c))
               /\ Threads!Present(calls[c].post) => calls[c].post \in Lost(c)
               /\ ~Threads!Present(calls[c].post) => Lost(c) = {}
               /\ \A q \in Lost(c) : rows'[q] = Gone
               /\ rows'[root] \in Threads!PostRow
               /\ rows'[root].commentCount = Threads!CountDown(rows[root].commentCount)
               /\ rows'[root].likeCount = rows[root].likeCount
               /\ rows'[root].parent = rows[root].parent /\ rows'[root].root = rows[root].root
               /\ Threads!ColumnsOf(rows'[root]) = Threads!ColumnsOf(rows[root])
               /\ \A q \in Posts : q \notin Lost(c) /\ q # root => rows'[q] = rows[q]
               /\ rows' \in [Posts -> Threads!PostRow \cup {NotYet, Gone}]
               /\ likes' = {l \in likes : l[1] \notin Lost(c)}
               /\ mentions' = {m \in mentions : m[1] \notin Lost(c) \cup {calls[c].post}}
               /\ miscounted' = IF Cardinality(Lost(c)) = 1 THEN miscounted ELSE miscounted \cup {root}
               /\ Threads!Set(c, Threads!Idle) /\ phase' = phase
<1> PICK p, root, lost : p = calls[c].post /\ root = calls[c].root /\ lost = Lost(c)
  OBVIOUS
<1>1. /\ calls[c].pc = "remove" /\ root # NoParent
      /\ likes' = {l \in likes : l[1] \notin lost}
      /\ mentions' = {m \in mentions : m[1] \notin lost \cup {p}}
      /\ miscounted' = IF Cardinality(lost) = 1 THEN miscounted ELSE miscounted \cup {root}
      /\ Threads!Set(c, Threads!Idle) /\ phase' = phase
  BY ThreadCounts DEF Threads!DeleteComment, Lost
<1> DEFINE down == [rows[root] EXCEPT !.commentCount = Threads!CountDown(@)]
<1>2. rows' = [q \in Posts |-> CASE q \in lost -> Gone [] q = root -> down [] OTHER -> rows[q]]
  BY ThreadCounts DEF Threads!DeleteComment, Lost
<1>3. p \in Posts
  BY <1>1, CallFields DEF ThreadsInv
<1>4. IsPost(root) /\ (Threads!Present(p) => root = rows[p].root)
  BY <1>1 DEF ThreadsInv, CallKnows
<1>5. root \in Posts /\ Threads!Present(root) /\ ~Threads!IsComment(rows[root])
  BY <1>4 DEF IsPost
<1>6. rows[root].root = NoParent /\ rows[root] \in Threads!PostRow
  BY <1>5, RowsAre DEF ThreadsInv, Rooted
<1>7. /\ lost \subseteq Threads!Thread(root) /\ Threads!HoldsReplies(lost)
      /\ Threads!Present(p) => p \in lost
      /\ ~Threads!Present(p) => lost = {}
  <2>1. CASE Threads!Present(p)
    BY <1>3, <1>4, <1>5, <2>1, CascadeIs DEF Lost
  <2>2. CASE ~Threads!Present(p)
    BY <2>2 DEF Lost, Threads!HoldsReplies
  <2> QED BY <2>1, <2>2
<1>8. root \notin lost
  BY <1>1, <1>6, <1>7 DEF Threads!Thread
<1>9. /\ down \in Threads!PostRow /\ down.commentCount = Threads!CountDown(rows[root].commentCount)
      /\ down.likeCount = rows[root].likeCount
      /\ down.parent = rows[root].parent /\ down.root = rows[root].root
      /\ down.body = rows[root].body /\ down.schedule = rows[root].schedule
      /\ down.pinned = rows[root].pinned /\ down.version = rows[root].version
  <2>1. Threads!CountDown(rows[root].commentCount) \in Nat
    BY <1>6, RowFields DEF Threads!CountDown
  <2> QED BY <1>6, <2>1 DEF Threads!PostRow
<1>10. Threads!ColumnsOf(down) = Threads!ColumnsOf(rows[root])
  BY <1>9 DEF Threads!ColumnsOf
<1> HIDE DEF down
<1>11. /\ \A q \in Posts : q \in lost => rows'[q] = Gone
       /\ rows'[root] = down
       /\ \A q \in Posts : q \notin lost /\ q # root => rows'[q] = rows[q]
  BY <1>2, <1>5, <1>8
<1>12. rows' \in [Posts -> Threads!PostRow \cup {NotYet, Gone}]
  <2>1. \A q \in Posts : rows'[q] \in Threads!PostRow \cup {NotYet, Gone}
    BY <1>9, <1>11 DEF ThreadsInv, Threads!TypeOK
  <2>2. rows' = [q \in Posts |-> rows'[q]]
    BY <1>2
  <2> QED BY <2>1, <2>2
<1>13. lost \subseteq Posts
  BY <1>7 DEF Threads!Thread
<1> QED BY <1>1, <1>3, <1>4, <1>7, <1>8, <1>9, <1>10, <1>11, <1>12, <1>13

LEMMA DeleteOK == ASSUME ThreadsInv, NEW c \in Calls, Threads!DeleteComment(c) PROVE ThreadsInv'
<1> PICK p, root, lost : p = calls[c].post /\ root = calls[c].root /\ lost = Lost(c)
  OBVIOUS
<1>1. /\ p \in Posts /\ IsPost(root)
      /\ lost \subseteq Threads!Thread(root) /\ root \notin lost /\ Threads!HoldsReplies(lost)
      /\ \A q \in lost : rows'[q] = Gone
      /\ rows'[root] \in Threads!PostRow
      /\ rows'[root].parent = rows[root].parent /\ rows'[root].root = rows[root].root
      /\ Threads!ColumnsOf(rows'[root]) = Threads!ColumnsOf(rows[root])
      /\ \A q \in Posts : q \notin lost /\ q # root => rows'[q] = rows[q]
      /\ rows' \in [Posts -> Threads!PostRow \cup {NotYet, Gone}]
      /\ likes' = {l \in likes : l[1] \notin lost}
      /\ mentions' = {m \in mentions : m[1] \notin lost \cup {p}}
      /\ miscounted' = IF Cardinality(lost) = 1 THEN miscounted ELSE miscounted \cup {root}
      /\ Threads!Set(c, Threads!Idle) /\ phase' = phase
  BY DeleteIs
<1>2. root \in Posts /\ Threads!Present(root) /\ ~Threads!IsComment(rows[root])
  BY <1>1 DEF IsPost
<1>3. \A q \in lost : q \in Posts /\ Threads!Present(q) /\ rows[q].root = root
  BY <1>1 DEF Threads!Thread
<1>4. \A q \in lost : Threads!IsComment(rows[q]) /\ ~Threads!Present(q)' /\ rows'[q] # NotYet
  BY <1>1, <1>2, <1>3, FeedFacts DEF ThreadsInv, Rooted, Threads!Present
<1>5. Threads!ColumnsOf(rows'[root]).version = rows'[root].version /\ Threads!ColumnsOf(rows[root]).version = rows[root].version
  BY DEF Threads!ColumnsOf
<1>6. Threads!Present(root)' /\ rows'[root].version = rows[root].version
  BY <1>1, <1>5, FeedFacts DEF Threads!Present
<1>7. Evolves
  <2> SUFFICES ASSUME NEW q \in Posts, rows[q] # NotYet PROVE Later(q)
    BY DEF Evolves
  <2>1. CASE q \in lost
    BY <1>4, <2>1 DEF Later, IsPost
  <2>2. Threads!Present(q) => rows[q].version \in Nat
    BY RowsAre, RowFields, FeedFacts DEF ThreadsInv
  <2>3. CASE q = root
    <3>1. rows'[q] # NotYet /\ Threads!Present(q)' /\ Threads!Present(q)
      BY <1>2, <1>6, <2>3 DEF Threads!Present
    <3> QED BY <1>1, <1>6, <2>2, <2>3, <3>1 DEF Later
  <2>4. CASE q \notin lost /\ q # root
    <3>1. rows'[q] = rows[q]
      BY <1>1, <2>4
    <3> QED BY <2>2, <3>1 DEF Later, Threads!Present, IsPost
  <2> QED BY <2>1, <2>3, <2>4
<1>8. \A q \in Posts : Threads!Present(q)' => Threads!Present(q) /\ q \notin lost
                         /\ rows'[q].parent = rows[q].parent /\ rows'[q].root = rows[q].root
  <2> TAKE q \in Posts
  <2> HAVE Threads!Present(q)'
  <2>1. rows[q] # NotYet
    BY <1>1, <1>2 DEF Threads!Present
  <2> QED BY <1>4, <1>7, <2>1 DEF Evolves, Later
<1>9. \A q \in Posts : Threads!Present(q) /\ q \notin lost => Threads!Present(q)'
  BY <1>1, <1>6 DEF Threads!Present
<1>10. ASSUME NEW q \in Posts, Threads!Present(q)' PROVE Rooted(q)'
  <2>1. Threads!Present(q) /\ q \notin lost /\ rows'[q].parent = rows[q].parent /\ rows'[q].root = rows[q].root
    BY <1>8, <1>10
  <2>2. CASE ~Threads!IsComment(rows[q])
    BY <2>1, <2>2 DEF ThreadsInv, Rooted, Threads!IsComment
  <2>3. CASE Threads!IsComment(rows[q])
    <3> PICK up, top : up = rows[q].parent /\ top = rows[q].root
      OBVIOUS
    <3>1. up \in Posts /\ Threads!Present(up) /\ IsPost(top) /\ top = RootOf(up)
      BY <2>1, <2>3 DEF ThreadsInv, Rooted
    <3>2. IsPost(top)'
      BY <1>7, <3>1, StillAPost DEF ThreadsInv
    <3>3. up \notin lost
      BY <1>1, <2>1, <3>1 DEF Threads!HoldsReplies, Threads!Under
    <3>4. Threads!Present(up)'
      BY <1>9, <3>1, <3>3
    <3>5. RootOf(up)' = top
      BY <1>7, <3>1, <3>4, SameRoot DEF ThreadsInv
    <3>6. rows'[q].parent = up /\ rows'[q].root = top
      BY <2>1
    <3>7. Threads!IsComment(rows[q])'
      BY <3>1, <3>6, FeedFacts DEF Threads!IsComment
    <3> QED BY <3>1, <3>2, <3>4, <3>5, <3>6, <3>7 DEF Rooted, RootOf
  <2> QED BY <2>2, <2>3
<1>11. \A q \in Posts : Rooted(q)'
  BY <1>10 DEF Rooted
<1>12. Threads!TypeOK'
  <2>1. calls' \in [Calls -> Threads!CallRow]
    BY <1>1, SetOK, IdleOK DEF ThreadsInv
  <2> QED BY <1>1, <1>2, <2>1 DEF ThreadsInv, Threads!TypeOK
<1>13. IsFiniteSet(Living') /\ IsFiniteSet(likes')
  <2>1. Living' \subseteq Living /\ likes' \subseteq likes
    BY <1>1, <1>8 DEF Living
  <2> QED BY <2>1, FS_Subset DEF ThreadsInv
<1>14. LikesHavePosts'
  <2> SUFFICES ASSUME NEW l \in likes, l[1] \notin lost PROVE Threads!Present(l[1])'
    BY <1>1 DEF LikesHavePosts
  <2>1. l[1] \in Posts /\ Threads!Present(l[1])
    BY DEF ThreadsInv, LikesHavePosts, Threads!TypeOK
  <2> QED BY <1>9, <2>1
<1>15. \A d \in Calls : CallKnows(d)'
  <2>1. calls'[c] = Threads!Idle /\ \A d \in Calls \ {c} : calls'[d] = calls[d]
    BY <1>1, SetOK, IdleOK DEF ThreadsInv
  <2> QED BY <1>7, <1>12, <2>1, IdleKnows, OthersKnow DEF ThreadsInv
<1> QED BY <1>11, <1>12, <1>13, <1>14, <1>15 DEF ThreadsInv

LEMMA ThreadsInit == ASSUME Threads!Init PROVE ThreadsInv
<1>1. Threads!TypeOK
  BY IdleOK DEF Threads!Init, Threads!TypeOK
<1>2. Living = {} /\ \A q \in Posts : ~Threads!Present(q)
  BY DEF Threads!Init, Living, Threads!Present
<1>3. \A c \in Calls : CallKnows(c)
  BY IdleOK DEF Threads!Init, CallKnows
<1> QED BY <1>1, <1>2, <1>3, FS_EmptySet DEF Threads!Init, ThreadsInv, Rooted, LikesHavePosts

LEMMA ThreadsStep == ASSUME ThreadsInv, [Threads!Next]_(Threads!vars) PROVE ThreadsInv'
<1>1. CASE UNCHANGED Threads!vars
  <2>1. Threads!TypeOK' /\ SameTree /\ Evolves
    BY <1>1, NothingTouched DEF Threads!vars, ThreadsInv, Threads!TypeOK
  <2>2. \A d \in Calls : CallKnows(d)'
    BY <1>1, <2>1, CallKept DEF Threads!vars, ThreadsInv
  <2>3. (\A q \in Posts : Rooted(q))' /\ Living' = Living
    BY <2>1, TreeKept DEF ThreadsInv
  <2> QED BY <1>1, <2>1, <2>2, <2>3 DEF Threads!vars, ThreadsInv, LikesHavePosts, Threads!Present
<1>2. CASE Threads!Elapse
  BY <1>2, ElapseOK
<1>3. ASSUME NEW p \in Posts, NEW w \in Users, Threads!Unlike(p, w) PROVE ThreadsInv'
  BY <1>3, UnlikeOK
<1>4. ASSUME NEW p \in Posts, NEW b \in Bodies, NEW s \in Threads!Schedules, Threads!CreatePost(p, b, s) PROVE ThreadsInv'
  BY <1>4, CreatePostOK
<1>5. ASSUME NEW c \in Calls,
             \/ Threads!SoftDeletePost(c) \/ Threads!DeleteComment(c)
             \/ Threads!UpdatePost(c) \/ Threads!LoseTheRace(c) \/ Threads!ReadAgain(c) \/ Threads!Like(c)
      PROVE  ThreadsInv'
  BY <1>5, SoftDeleteOK, DeleteOK, UpdateOK, LosesOK, ReadsOK, LikeOK
<1>6. ASSUME NEW c \in Calls, NEW p \in Posts,
             \/ Threads!CreateComment(c, p) \/ Threads!BeginDelete(c, p)
             \/ \E b \in Bodies : Threads!BeginComment(c, p, b)
             \/ \E change \in Threads!Edits \cup Threads!Pins : Threads!BeginUpdate(c, p, change)
             \/ \E w \in Users : Threads!BeginLike(c, p, w)
      PROVE  ThreadsInv'
  BY <1>6, CreateCommentOK, BeginsOK
<1> QED BY <1>1, <1>2, <1>3, <1>4, <1>5, <1>6 DEF Threads!Next

(* In every reachable state the variables keep their types, each comment     *)
(* hangs on an entry that is there, in the thread of a post, and what a call *)
(* has read is still true of the row unless the row is gone (post.go and     *)
(* postgres/post.go: every write is conditional on the version or atomic).   *)
THEOREM ThreadsAlways == Threads!Spec => []ThreadsInv
BY ThreadsInit, ThreadsStep, PTL DEF Threads!Spec

-----------------------------------------------------------------------------
(* The counters and the mention rows. *)

LikesOf(p) == {l \in likes : l[1] = p}

LEMMA FiniteParts ==
    ASSUME ThreadsInv, NEW p
    PROVE  IsFiniteSet(LikesOf(p)) /\ IsFiniteSet(Threads!Thread(p))
<1>1. LikesOf(p) \subseteq likes /\ Threads!Thread(p) \subseteq Living
  BY DEF LikesOf, Threads!Thread, Living
<1> QED BY <1>1, FS_Subset DEF ThreadsInv

(* What a step keeps of a row that is there before and after. *)
SameColumns == \A p \in Posts : Threads!Present(p) /\ Threads!Present(p)' => Threads!ColumnsOf(rows'[p]) = Threads!ColumnsOf(rows[p])

LEMMA ColumnsAre ==
    ASSUME NEW r, NEW s, Threads!ColumnsOf(r) = Threads!ColumnsOf(s)
    PROVE  r.body = s.body /\ r.schedule = s.schedule /\ r.pinned = s.pinned
<1>1. \A t : /\ Threads!ColumnsOf(t).body = t.body /\ Threads!ColumnsOf(t).schedule = t.schedule
             /\ Threads!ColumnsOf(t).pinned = t.pinned
  BY DEF Threads!ColumnsOf
<1> QED BY <1>1

SameCounts ==
    /\ likes' = likes /\ miscounted' = miscounted
    /\ \A p \in Posts : Threads!Present(p) => /\ rows'[p].likeCount = rows[p].likeCount
                                      /\ rows'[p].commentCount = rows[p].commentCount

LEMMA CountersKept ==
    ASSUME ThreadsInv, Threads!CountersMatchUnlessDisturbed, SameTree, SameCounts
    PROVE  Threads!CountersMatchUnlessDisturbed'
<1> SUFFICES ASSUME NEW p \in Posts, Threads!Present(p)'
             PROVE  /\ rows'[p].likeCount = Cardinality({l \in likes' : l[1] = p})
                    /\ Threads!IsComment(rows'[p]) \/ p \in miscounted' \/ rows'[p].commentCount = Cardinality(Threads!Thread(p)')
  BY ThreadCounts DEF Threads!CountersMatchUnlessDisturbed
<1>1. Threads!Present(p) /\ Threads!IsComment(rows'[p]) = Threads!IsComment(rows[p])
  BY DEF SameTree, Threads!IsComment
<1>2. Threads!Thread(p)' = Threads!Thread(p)
  BY TreeKept DEF ThreadsInv
<1> QED BY ThreadCounts, <1>1, <1>2 DEF SameCounts, Threads!CountersMatchUnlessDisturbed

(* A mention is a user the body of its post names. *)
MentionIs(m) == \E p \in Posts : Threads!Present(p) /\ m \in Threads!Mentions(p, rows[p].body)

LEMMA MentionsAre == Threads!MentionsMatchBody <=> \A m : m \in mentions <=> MentionIs(m)
<1>1. \A m : m \in UNION {Threads!Mentions(p, rows[p].body) : p \in {q \in Posts : Threads!Present(q)}} <=> MentionIs(m)
  BY DEF MentionIs
<1> QED BY <1>1 DEF Threads!MentionsMatchBody

LEMMA MentionOf == ASSUME NEW p, NEW b, NEW m \in Threads!Mentions(p, b) PROVE m[1] = p
BY DEF Threads!Mentions

LEMMA MentionsKept ==
    ASSUME Threads!MentionsMatchBody, SameColumns, mentions' = mentions,
           \A p \in Posts : Threads!Present(p)' <=> Threads!Present(p)
    PROVE  Threads!MentionsMatchBody'
<1>1. \A p \in Posts : Threads!Present(p) => rows'[p].body = rows[p].body
  BY ColumnsAre DEF SameColumns
<1>2. \A m : MentionIs(m)' <=> MentionIs(m)
  BY <1>1 DEF MentionIs, Threads!Mentions
<1>3. \A m : m \in mentions' <=> MentionIs(m)'
  BY <1>2, MentionsAre
<1>4. UNION {Threads!Mentions(p, rows'[p].body) : p \in {q \in Posts : Threads!Present(q)'}} = mentions'
  BY <1>3 DEF MentionIs, Threads!Mentions
<1> QED BY <1>4 DEF Threads!MentionsMatchBody, Threads!Mentions

FeedInv == ThreadsInv /\ Threads!KeptWithPostsUnlessDisturbed

(* A step that leaves rows, likes and mentions. *)
LEMMA RowsKept ==
    ASSUME FeedInv, UNCHANGED <<rows, likes, mentions, miscounted>>
    PROVE  Threads!KeptWithPostsUnlessDisturbed' /\ SameColumns
<1>1. SameTree /\ SameCounts /\ SameColumns
  BY NothingTouched DEF FeedInv, ThreadsInv, SameCounts, SameColumns
<1> QED BY <1>1, CountersKept, MentionsKept
        DEF FeedInv, Threads!KeptWithPostsUnlessDisturbed, SameTree

LEMMA SoftDeleteKeeps ==
    ASSUME FeedInv, NEW c \in Calls, Threads!SoftDeletePost(c)
    PROVE  Threads!KeptWithPostsUnlessDisturbed' /\ SameColumns
<1> DEFINE p == calls[c].post
           r == [rows[p] EXCEPT !.deleted = TRUE]
<1>1. /\ p \in Posts /\ Threads!Present(p) /\ r \in Threads!PostRow /\ rows' = [rows EXCEPT ![p] = r]
      /\ r.parent = rows[p].parent /\ r.root = rows[p].root
      /\ Threads!ColumnsOf(r) = Threads!ColumnsOf(rows[p])
      /\ r.version = rows[p].version /\ rows[p].version \in Nat
      /\ r.likeCount = rows[p].likeCount /\ r.commentCount = rows[p].commentCount
  BY SoftDeleteTouches DEF FeedInv
<1> HIDE DEF r
<1>2. rows'[p] = r /\ \A q \in Posts \ {p} : rows'[q] = rows[q]
  BY <1>1 DEF FeedInv, ThreadsInv, Threads!TypeOK
<1>3. UNCHANGED <<likes, mentions, miscounted>>
  BY DEF Threads!SoftDeletePost
<1>4. SameTree /\ SameCounts /\ SameColumns
  BY <1>1, <1>2, <1>3, SoftDeleteOK DEF FeedInv, SameCounts, SameColumns
<1> QED BY <1>3, <1>4, CountersKept, MentionsKept
        DEF FeedInv, Threads!KeptWithPostsUnlessDisturbed, SameTree

LEMMA LikeKeeps ==
    ASSUME FeedInv, NEW c \in Calls, Threads!Like(c)
    PROVE  Threads!KeptWithPostsUnlessDisturbed' /\ SameColumns
<1> PICK p, like : p = calls[c].post /\ like = <<calls[c].post, calls[c].user>>
  OBVIOUS
<1>1. calls[c].pc = "like" /\ UNCHANGED <<mentions, miscounted>>
  BY DEF Threads!Like
<1>2. p \in Posts /\ like[1] = p
  BY <1>1, CallFields DEF FeedInv, ThreadsInv
<1>3. CASE Threads!Present(p) /\ like \notin likes
  <2>1. likes' = likes \cup {like} /\ rows' = [rows EXCEPT ![p].likeCount = rows[p].likeCount + 1]
    BY <1>3 DEF Threads!Like
  <2>2. rows[p].likeCount + 1 \in Nat
    BY <1>2, <1>3, RowsAre, RowFields, SMTT(60) DEF FeedInv, ThreadsInv
  <2>3. /\ SameTree
        /\ rows'[p].likeCount = rows[p].likeCount + 1 /\ rows'[p].commentCount = rows[p].commentCount
        /\ Threads!ColumnsOf(rows'[p]) = Threads!ColumnsOf(rows[p])
        /\ \A q \in Posts \ {p} : rows'[q] = rows[q]
    BY <1>2, <1>3, <2>1, <2>2, Counted DEF FeedInv
  <2>4. SameColumns
    BY <2>3 DEF SameColumns
  <2>5. Threads!MentionsMatchBody'
    BY <1>1, <2>3, <2>4, MentionsKept DEF FeedInv, Threads!KeptWithPostsUnlessDisturbed, SameTree
  <2>6. Threads!CountersMatchUnlessDisturbed'
    <3> SUFFICES ASSUME NEW q \in Posts, Threads!Present(q)'
                 PROVE  /\ rows'[q].likeCount = Cardinality({l \in likes' : l[1] = q})
                        /\ Threads!IsComment(rows'[q]) \/ q \in miscounted' \/ rows'[q].commentCount = Cardinality(Threads!Thread(q)')
      BY ThreadCounts DEF Threads!CountersMatchUnlessDisturbed
    <3>1. Threads!Present(q) /\ Threads!IsComment(rows'[q]) = Threads!IsComment(rows[q]) /\ Threads!Thread(q)' = Threads!Thread(q)
      BY <2>3, TreeKept DEF SameTree, Threads!IsComment, FeedInv, ThreadsInv
    <3>2. /\ rows[q].likeCount = Cardinality(LikesOf(q))
          /\ Threads!IsComment(rows[q]) \/ q \in miscounted \/ rows[q].commentCount = Cardinality(Threads!Thread(q))
      BY ThreadCounts, <3>1
      DEF FeedInv, Threads!KeptWithPostsUnlessDisturbed, Threads!CountersMatchUnlessDisturbed,
         LikesOf
    <3>3. rows'[q].commentCount = rows[q].commentCount
      BY <2>3
    <3>4. rows'[q].likeCount = Cardinality({l \in likes' : l[1] = q})
      <4>1. CASE q = p
        <5>1. {l \in likes' : l[1] = p} = LikesOf(p) \cup {like} /\ like \notin LikesOf(p)
          BY <1>2, <1>3, <2>1 DEF LikesOf
        <5>2. Cardinality(LikesOf(p) \cup {like}) = Cardinality(LikesOf(p)) + 1
          BY <5>1, FiniteParts, FS_AddElement DEF FeedInv
        <5> QED BY <2>3, <3>2, <4>1, <5>1, <5>2
      <4>2. CASE q # p
        <5>1. {l \in likes' : l[1] = q} = LikesOf(q)
          BY <1>2, <2>1, <4>2 DEF LikesOf
        <5> QED BY <2>3, <3>2, <4>2, <5>1
      <4> QED BY <4>1, <4>2
    <3> QED BY <1>1, <3>1, <3>2, <3>3, <3>4
  <2> QED BY <2>4, <2>5, <2>6 DEF Threads!KeptWithPostsUnlessDisturbed
<1>4. CASE ~(Threads!Present(p) /\ like \notin likes)
  <2>1. UNCHANGED <<likes, rows>>
    BY <1>4 DEF Threads!Like
  <2> QED BY <1>1, <2>1, RowsKept
<1> QED BY <1>3, <1>4

LEMMA UnlikeKeeps ==
    ASSUME FeedInv, NEW p \in Posts, NEW w \in Users, Threads!Unlike(p, w)
    PROVE  Threads!KeptWithPostsUnlessDisturbed' /\ SameColumns
<1> DEFINE like == <<p, w>>
<1>1. /\ like \in likes /\ likes' = likes \ {like} /\ like[1] = p
      /\ rows' = [rows EXCEPT ![p].likeCount = Threads!CountDown(rows[p].likeCount)]
      /\ UNCHANGED <<mentions, miscounted>>
  BY DEF Threads!Unlike
<1> HIDE DEF like
<1>2. Threads!Present(p)
  BY <1>1 DEF FeedInv, ThreadsInv, LikesHavePosts
<1>3. rows[p].likeCount \in Nat /\ Threads!CountDown(rows[p].likeCount) \in Nat
  BY <1>2, RowsAre, RowFields DEF FeedInv, ThreadsInv, Threads!CountDown
<1>4. /\ SameTree
      /\ rows'[p].likeCount = Threads!CountDown(rows[p].likeCount)
      /\ rows'[p].commentCount = rows[p].commentCount
      /\ Threads!ColumnsOf(rows'[p]) = Threads!ColumnsOf(rows[p])
      /\ \A q \in Posts \ {p} : rows'[q] = rows[q]
  BY <1>1, <1>2, <1>3, Counted DEF FeedInv
<1>5. SameColumns
  BY <1>4 DEF SameColumns
<1>6. Threads!MentionsMatchBody'
  BY <1>1, <1>4, <1>5, MentionsKept DEF FeedInv, Threads!KeptWithPostsUnlessDisturbed, SameTree
<1>7. Threads!CountersMatchUnlessDisturbed'
  <2> SUFFICES ASSUME NEW q \in Posts, Threads!Present(q)'
               PROVE  /\ rows'[q].likeCount = Cardinality({l \in likes' : l[1] = q})
                      /\ Threads!IsComment(rows'[q]) \/ q \in miscounted' \/ rows'[q].commentCount = Cardinality(Threads!Thread(q)')
    BY ThreadCounts DEF Threads!CountersMatchUnlessDisturbed
  <2>1. Threads!Present(q) /\ Threads!IsComment(rows'[q]) = Threads!IsComment(rows[q]) /\ Threads!Thread(q)' = Threads!Thread(q)
    BY <1>4, TreeKept DEF SameTree, Threads!IsComment, FeedInv, ThreadsInv
  <2>2. /\ rows[q].likeCount = Cardinality(LikesOf(q))
        /\ Threads!IsComment(rows[q]) \/ q \in miscounted \/ rows[q].commentCount = Cardinality(Threads!Thread(q))
    BY ThreadCounts, <2>1
    DEF FeedInv, Threads!KeptWithPostsUnlessDisturbed, Threads!CountersMatchUnlessDisturbed, LikesOf
  <2>3. rows'[q].commentCount = rows[q].commentCount
    BY <1>4
  <2>4. rows'[q].likeCount = Cardinality({l \in likes' : l[1] = q})
    <3>1. CASE q = p
      <4>1. {l \in likes' : l[1] = p} = LikesOf(p) \ {like} /\ like \in LikesOf(p)
        BY <1>1 DEF LikesOf
      <4>2. /\ Cardinality(LikesOf(p) \ {like}) = Cardinality(LikesOf(p)) - 1
            /\ Cardinality(LikesOf(p)) \in Nat
        BY <4>1, FiniteParts, FS_RemoveElement, FS_CardinalityType DEF FeedInv
      <4>3. Cardinality(LikesOf(p)) # 0
        BY <4>1, FiniteParts, FS_EmptySet DEF FeedInv
      <4> QED BY <1>4, <2>2, <3>1, <4>1, <4>2, <4>3 DEF Threads!CountDown
    <3>2. CASE q # p
      <4>1. {l \in likes' : l[1] = q} = LikesOf(q)
        BY <1>1, <3>2 DEF LikesOf
      <4> QED BY <1>4, <2>2, <3>2, <4>1
    <3> QED BY <3>1, <3>2
  <2> QED BY <1>1, <2>1, <2>2, <2>3, <2>4
<1> QED BY <1>5, <1>6, <1>7 DEF Threads!KeptWithPostsUnlessDisturbed

(* What a new entry finds: nobody likes it, and no thread is its own. *)
LEMMA NewHasNothing ==
    ASSUME FeedInv, NEW p \in Posts, GrownBy(p)
    PROVE  /\ LikesOf(p) = {}
           /\ \A q \in Posts : q \notin Threads!Thread(p)
           /\ \A q \in Posts \ {p} : Threads!Present(q)' => Threads!Present(q) /\ Threads!IsComment(rows'[q]) = Threads!IsComment(rows[q])
           /\ SameColumns /\ Threads!Present(p)' /\ ~Threads!Present(p)
           /\ \A root \in Posts : rows'[p].root # root => Threads!Thread(root)' = Threads!Thread(root)
           /\ \A root \in Posts : rows'[p].root = root => Threads!Thread(root)' = Threads!Thread(root) \cup {p} /\ p \notin Threads!Thread(root)
<1>1. ~Threads!Present(p) /\ Threads!Present(p)'
  BY Grows DEF FeedInv
<1>2. LikesOf(p) = {}
  BY <1>1 DEF LikesOf, FeedInv, ThreadsInv, LikesHavePosts
<1>3. \A q \in Posts : q \notin Threads!Thread(p)
  BY <1>1, FeedFacts DEF Threads!Thread, FeedInv, ThreadsInv, Rooted, IsPost
<1>4. \A q \in Posts \ {p} : Threads!Present(q)' => Threads!Present(q) /\ Threads!IsComment(rows'[q]) = Threads!IsComment(rows[q])
  BY DEF GrownBy, Threads!IsComment
<1>5. SameColumns
  BY <1>1 DEF GrownBy, SameColumns
<1>6. ASSUME NEW root \in Posts, rows'[p].root # root PROVE Threads!Thread(root)' = Threads!Thread(root)
  BY <1>1, <1>6 DEF Threads!Thread, GrownBy
<1>7. ASSUME NEW root \in Posts, rows'[p].root = root
      PROVE  Threads!Thread(root)' = Threads!Thread(root) \cup {p} /\ p \notin Threads!Thread(root)
  BY <1>1, <1>7 DEF Threads!Thread, GrownBy
<1> QED BY <1>1, <1>2, <1>3, <1>4, <1>5, <1>6, <1>7

LEMMA NewMentions ==
    ASSUME FeedInv, NEW p \in Posts, GrownBy(p), NEW b, rows'[p].body = b,
           mentions' = mentions \cup Threads!Mentions(p, b)
    PROVE  Threads!MentionsMatchBody'
<1>1. \A q \in Posts \ {p} : Threads!Present(q)' <=> Threads!Present(q)
  BY DEF GrownBy
<1>2. ~Threads!Present(p) /\ Threads!Present(p)' /\ SameColumns
  BY NewHasNothing
<1>3. \A q \in Posts \ {p} : Threads!Present(q) => rows'[q].body = rows[q].body
  BY <1>1, <1>2, ColumnsAre DEF SameColumns
<1>4. \A m : m \in mentions <=> MentionIs(m)
  BY MentionsAre DEF FeedInv, Threads!KeptWithPostsUnlessDisturbed
<1>5. \A m : MentionIs(m)' <=> MentionIs(m) \/ m \in Threads!Mentions(p, b)
  BY <1>1, <1>2, <1>3 DEF MentionIs, Threads!Mentions
<1>6. \A m : m \in mentions' <=> MentionIs(m)'
  BY <1>4, <1>5
<1>7. UNION {Threads!Mentions(q, rows'[q].body) : q \in {e \in Posts : Threads!Present(e)'}} = mentions'
  BY <1>6 DEF MentionIs, Threads!Mentions
<1> QED BY <1>7 DEF Threads!MentionsMatchBody, Threads!Mentions

LEMMA CreatePostKeeps ==
    ASSUME FeedInv, NEW p \in Posts, NEW b \in Bodies, NEW s \in Threads!Schedules, Threads!CreatePost(p, b, s)
    PROVE  Threads!KeptWithPostsUnlessDisturbed' /\ SameColumns
<1> DEFINE r == Threads!NewRow(NoParent, NoParent, b, s)
<1>1. /\ rows' = [rows EXCEPT ![p] = r] /\ mentions' = mentions \cup Threads!Mentions(p, b)
      /\ UNCHANGED <<likes, miscounted>>
  BY DEF Threads!CreatePost
<1>2. r.parent = NoParent /\ r.root = NoParent /\ r.body = b /\ r.likeCount = 0 /\ r.commentCount = 0
  BY NewRows
<1> HIDE DEF r
<1>3. rows'[p] = r /\ \A q \in Posts \ {p} : rows'[q] = rows[q]
  BY <1>1 DEF FeedInv, ThreadsInv, Threads!TypeOK
<1>4. GrownBy(p)
  BY CreatePostOK DEF FeedInv
<1>5. Threads!MentionsMatchBody' /\ SameColumns
  BY <1>1, <1>2, <1>3, <1>4, NewMentions, NewHasNothing
<1>6. \A root \in Posts : Threads!Thread(root)' = Threads!Thread(root)
  BY <1>2, <1>3, <1>4, NewHasNothing, FeedFacts
<1>7. Threads!CountersMatchUnlessDisturbed'
  <2> SUFFICES ASSUME NEW q \in Posts, Threads!Present(q)'
               PROVE  /\ rows'[q].likeCount = Cardinality({l \in likes : l[1] = q})
                      /\ Threads!IsComment(rows'[q]) \/ q \in miscounted \/ rows'[q].commentCount = Cardinality(Threads!Thread(q))
    BY ThreadCounts, <1>1, <1>6 DEF Threads!CountersMatchUnlessDisturbed
  <2>1. CASE q = p
    <3>1. {l \in likes : l[1] = q} = {} /\ Threads!Thread(q) = {}
      <4>1. LikesOf(p) = {} /\ \A e \in Posts : e \notin Threads!Thread(p)
        BY <1>4, NewHasNothing
      <4> QED BY <2>1, <4>1 DEF LikesOf, Threads!Thread
    <3> QED BY <1>2, <1>3, <2>1, <3>1, FS_EmptySet
  <2>2. CASE q # p
    BY ThreadCounts, <1>3, <1>4, <2>2, NewHasNothing
    DEF FeedInv, Threads!KeptWithPostsUnlessDisturbed, Threads!CountersMatchUnlessDisturbed
  <2> QED BY <2>1, <2>2
<1> QED BY <1>5, <1>7 DEF Threads!KeptWithPostsUnlessDisturbed

LEMMA CreateCommentKeeps ==
    ASSUME FeedInv, NEW c \in Calls, NEW q \in Posts, Threads!CreateComment(c, q)
    PROVE  Threads!KeptWithPostsUnlessDisturbed' /\ SameColumns
<1> PICK up, root, b : up = calls[c].post /\ root = calls[c].root /\ b = calls[c].body
  OBVIOUS
<1>1. CASE Threads!Present(up)
  <2>1. /\ GrownBy(q) /\ up \in Posts /\ b \in Bodies /\ IsPost(root) /\ root # q
        /\ rows'[q] = Threads!NewRow(up, root, b, "always")
        /\ rows'[root].commentCount = rows[root].commentCount + 1
        /\ rows'[root].likeCount = rows[root].likeCount
        /\ \A p \in Posts \ {q, root} : rows'[p] = rows[p]
        /\ mentions' = mentions \cup Threads!Mentions(q, b)
        /\ UNCHANGED <<likes, miscounted>>
    BY <1>1, CommentGrows DEF FeedInv
  <2>2. rows'[q].parent = up /\ rows'[q].root = root /\ rows'[q].body = b /\ rows'[q].likeCount = 0
    BY <2>1 DEF Threads!NewRow
  <2>3. Threads!MentionsMatchBody' /\ SameColumns
    BY <2>1, <2>2, NewMentions, NewHasNothing
  <2>4. root \in Posts /\ Threads!Present(root) /\ ~Threads!IsComment(rows[root])
    BY <2>1 DEF IsPost
  <2>5. Threads!CountersMatchUnlessDisturbed'
    <3> SUFFICES ASSUME NEW p \in Posts, Threads!Present(p)'
                 PROVE  /\ rows'[p].likeCount = Cardinality({l \in likes : l[1] = p})
                        /\ Threads!IsComment(rows'[p]) \/ p \in miscounted \/ rows'[p].commentCount = Cardinality(Threads!Thread(p)')
      BY ThreadCounts, <2>1 DEF Threads!CountersMatchUnlessDisturbed
    <3>1. CASE p = q
      <4>1. LikesOf(q) = {}
        BY <2>1, NewHasNothing
      <4>2. Threads!IsComment(rows'[q])
        BY <2>1, <2>2, FeedFacts DEF Threads!IsComment
      <4> QED BY <2>2, <3>1, <4>1, <4>2, FS_EmptySet DEF LikesOf
    <3>2. ASSUME p # q
          PROVE  /\ Threads!Present(p) /\ Threads!IsComment(rows'[p]) = Threads!IsComment(rows[p])
                 /\ rows[p].likeCount = Cardinality({l \in likes : l[1] = p})
                 /\ Threads!IsComment(rows[p]) \/ p \in miscounted \/ rows[p].commentCount = Cardinality(Threads!Thread(p))
      BY ThreadCounts, <2>1, <3>2, NewHasNothing
      DEF FeedInv, Threads!KeptWithPostsUnlessDisturbed, Threads!CountersMatchUnlessDisturbed
    <3>3. CASE p = root
      <4>1. Threads!Thread(root)' = Threads!Thread(root) \cup {q} /\ q \notin Threads!Thread(root)
        BY <2>1, <2>2, <2>4, NewHasNothing
      <4>2. Cardinality(Threads!Thread(root) \cup {q}) = Cardinality(Threads!Thread(root)) + 1
        BY <4>1, FiniteParts, FS_AddElement DEF FeedInv
      <4>3. p # q
        BY <2>1, <3>3
      <4>4. Threads!Thread(p)' = Threads!Thread(root)'
        BY <3>3 DEF Threads!Thread
      <4> QED BY <2>1, <2>4, <3>2, <3>3, <4>1, <4>2, <4>3, <4>4
    <3>4. CASE p # root /\ p # q
      <4>1. Threads!Thread(p)' = Threads!Thread(p)
        BY <2>1, <2>2, <3>4, NewHasNothing
      <4> QED BY <2>1, <3>2, <3>4, <4>1
    <3> QED BY <3>1, <3>3, <3>4
  <2> QED BY <2>3, <2>5 DEF Threads!KeptWithPostsUnlessDisturbed
<1>2. CASE ~Threads!Present(up)
  <2>1. UNCHANGED <<rows, likes, mentions, miscounted>>
    BY <1>2 DEF Threads!CreateComment
  <2> QED BY <2>1, RowsKept
<1> QED BY <1>1, <1>2

(* An edit rewrites the mentions with the body, a pin neither. *)
LEMMA UpdateKeeps ==
    ASSUME FeedInv, NEW c \in Calls, Threads!UpdatePost(c)
    PROVE  /\ Threads!KeptWithPostsUnlessDisturbed'
           /\ \A p \in Posts : Threads!Present(p) => \A field \in {"body", "schedule", "pinned"} :
                 rows[p][field] # rows'[p][field] =>
                    calls[c].pc = "write" /\ calls[c].post = p /\ field \in DOMAIN calls[c].change
<1> PICK call, p, r : call = calls[c] /\ p = calls[c].post /\ r = Threads!Written(calls[c])
  OBVIOUS
<1>1. /\ p \in Posts /\ Threads!Present(p) /\ call.seen = Threads!ColumnsOf(rows[p])
      /\ call.change \in Threads!Edits \cup Threads!Pins
      /\ r \in Threads!PostRow /\ rows' = [rows EXCEPT ![p] = r]
      /\ r.likeCount = rows[p].likeCount /\ r.commentCount = rows[p].commentCount
      /\ r.body = Threads!Wanted(call, "body") /\ r.schedule = Threads!Wanted(call, "schedule")
      /\ r.pinned = Threads!Wanted(call, "pinned")
  BY UpdateTouches DEF FeedInv
<1>2. rows'[p] = r /\ \A q \in Posts \ {p} : rows'[q] = rows[q]
  BY <1>1 DEF FeedInv, ThreadsInv, Threads!TypeOK
<1>3. /\ call.pc = "write" /\ UNCHANGED <<likes, miscounted>>
      /\ IF "body" \in DOMAIN call.change
         THEN mentions' = {m \in mentions : m[1] # p} \cup Threads!Mentions(p, call.change.body)
         ELSE mentions' = mentions
  BY DEF Threads!UpdatePost
<1>4. SameTree
  BY UpdateOK DEF FeedInv
<1>5. SameCounts
  BY <1>1, <1>2, <1>3 DEF SameCounts
<1>6. /\ call.seen.body = rows[p].body /\ call.seen.schedule = rows[p].schedule
      /\ call.seen.pinned = rows[p].pinned
  BY <1>1 DEF Threads!ColumnsOf
<1>7. ASSUME NEW q \in Posts, Threads!Present(q), NEW field \in {"body", "schedule", "pinned"},
             rows[q][field] # rows'[q][field]
      PROVE  q = p /\ field \in DOMAIN call.change
  <2>1. q = p
    BY <1>2, <1>7
  <2>2. CASE field = "body"
    BY <1>1, <1>2, <1>6, <1>7, <2>1, <2>2 DEF Threads!Wanted
  <2>3. CASE field = "schedule"
    BY <1>1, <1>2, <1>6, <1>7, <2>1, <2>3 DEF Threads!Wanted
  <2>4. CASE field = "pinned"
    BY <1>1, <1>2, <1>6, <1>7, <2>1, <2>4 DEF Threads!Wanted
  <2> QED BY <2>1, <2>2, <2>3, <2>4
<1>8. Threads!MentionsMatchBody'
  <2> DEFINE b == rows'[p].body
  <2>1. \A q \in Posts \ {p} : rows'[q].body = rows[q].body /\ (Threads!Present(q)' <=> Threads!Present(q))
    BY <1>2 DEF Threads!Present
  <2>2. Threads!Present(p)'
    BY <1>1, <1>4 DEF SameTree
  <2>3. \A m : m \in mentions <=> MentionIs(m)
    BY MentionsAre DEF FeedInv, Threads!KeptWithPostsUnlessDisturbed
  <2>4. \A m : MentionIs(m)' <=>
           \/ m \in Threads!Mentions(p, b)
           \/ \E q \in Posts \ {p} : Threads!Present(q) /\ m \in Threads!Mentions(q, rows[q].body)
    BY <1>1, <2>1, <2>2 DEF MentionIs, Threads!Mentions
  <2>5. \A m : m \in mentions' <=> MentionIs(m)'
    <3>1. CASE "body" \in DOMAIN call.change
      <4>1. b = call.change.body
        BY <1>1, <1>2, <3>1 DEF Threads!Wanted
      <4>2. mentions' = {m \in mentions : m[1] # p} \cup Threads!Mentions(p, b)
        BY <1>3, <3>1, <4>1
      <4> HIDE DEF b
      <4>3. \A m : m \in mentions /\ m[1] # p <=>
                   \E q \in Posts \ {p} : Threads!Present(q) /\ m \in Threads!Mentions(q, rows[q].body)
        BY <2>3, MentionOf DEF MentionIs
      <4> QED BY <2>4, <4>2, <4>3
    <3>2. CASE "body" \notin DOMAIN call.change
      <4>1. b = rows[p].body /\ mentions' = mentions
        BY <1>1, <1>2, <1>3, <1>6, <3>2 DEF Threads!Wanted
      <4> HIDE DEF b
      <4>2. \A m : MentionIs(m) <=>
               \/ m \in Threads!Mentions(p, b)
               \/ \E q \in Posts \ {p} : Threads!Present(q) /\ m \in Threads!Mentions(q, rows[q].body)
        BY <1>1, <4>1 DEF MentionIs
      <4> QED BY <2>3, <2>4, <4>1, <4>2
    <3> QED BY <3>1, <3>2
  <2>6. UNION {Threads!Mentions(q, rows'[q].body) : q \in {e \in Posts : Threads!Present(e)'}} = mentions'
    BY <2>5 DEF MentionIs, Threads!Mentions
  <2> QED BY <2>6 DEF Threads!MentionsMatchBody, Threads!Mentions
<1>9. Threads!CountersMatchUnlessDisturbed'
  BY <1>4, <1>5, CountersKept DEF FeedInv, Threads!KeptWithPostsUnlessDisturbed
<1> QED BY <1>3, <1>7, <1>8, <1>9 DEF Threads!KeptWithPostsUnlessDisturbed

LEMMA DeleteKeeps ==
    ASSUME FeedInv, NEW c \in Calls, Threads!DeleteComment(c)
    PROVE  Threads!KeptWithPostsUnlessDisturbed' /\ SameColumns
<1> PICK p, root, lost : p = calls[c].post /\ root = calls[c].root /\ lost = Lost(c)
  OBVIOUS
<1>1. /\ p \in Posts /\ IsPost(root)
      /\ lost \subseteq Threads!Thread(root) /\ root \notin lost
      /\ Threads!Present(p) => p \in lost
      /\ ~Threads!Present(p) => lost = {}
      /\ \A q \in lost : rows'[q] = Gone
      /\ rows'[root] \in Threads!PostRow
      /\ rows'[root].commentCount = Threads!CountDown(rows[root].commentCount)
      /\ rows'[root].likeCount = rows[root].likeCount
      /\ rows'[root].parent = rows[root].parent /\ rows'[root].root = rows[root].root
      /\ Threads!ColumnsOf(rows'[root]) = Threads!ColumnsOf(rows[root])
      /\ \A q \in Posts : q \notin lost /\ q # root => rows'[q] = rows[q]
      /\ likes' = {l \in likes : l[1] \notin lost}
      /\ mentions' = {m \in mentions : m[1] \notin lost \cup {p}}
      /\ miscounted' = IF Cardinality(lost) = 1 THEN miscounted ELSE miscounted \cup {root}
  BY DeleteIs DEF FeedInv
<1>2. root \in Posts /\ Threads!Present(root) /\ ~Threads!IsComment(rows[root]) /\ Threads!Present(root)'
  BY <1>1, FeedFacts DEF IsPost, Threads!Present
<1>3. \A q \in lost : q \in Posts /\ Threads!Present(q) /\ rows[q].root = root /\ ~Threads!Present(q)'
  BY <1>1 DEF Threads!Thread, Threads!Present
<1>4. \A q \in Posts :
         /\ Threads!Present(q)' <=> Threads!Present(q) /\ q \notin lost
         /\ Threads!Present(q)' =>
               /\ rows'[q].parent = rows[q].parent /\ rows'[q].root = rows[q].root
               /\ rows'[q].likeCount = rows[q].likeCount
               /\ Threads!ColumnsOf(rows'[q]) = Threads!ColumnsOf(rows[q])
  <2> TAKE q \in Posts
  <2>1. CASE q \in lost
    BY <1>3, <2>1
  <2>2. CASE q = root
    BY <1>1, <1>2, <2>2
  <2>3. CASE q \notin lost /\ q # root
    <3>1. rows'[q] = rows[q]
      BY <1>1, <2>3
    <3> QED BY <2>3, <3>1 DEF Threads!Present
  <2> QED BY <2>1, <2>2, <2>3
<1>5. SameColumns
  BY <1>4 DEF SameColumns
<1>6. Threads!MentionsMatchBody'
  <2>1. \A q \in Posts : Threads!Present(q)' => rows'[q].body = rows[q].body
    BY <1>4, ColumnsAre
  <2>2. \A m : m \in mentions <=> MentionIs(m)
    BY MentionsAre DEF FeedInv, Threads!KeptWithPostsUnlessDisturbed
  <2>3. \A m : MentionIs(m)' <=>
           \E q \in Posts : Threads!Present(q) /\ q \notin lost /\ m \in Threads!Mentions(q, rows[q].body)
    BY <1>4, <2>1 DEF MentionIs, Threads!Mentions
  <2>4. \A m : m \in mentions' <=> MentionIs(m)'
    <3> TAKE m
    <3>1. ASSUME m \in mentions' PROVE MentionIs(m)'
      <4>1. m \in mentions /\ m[1] \notin lost
        BY <1>1, <3>1
      <4> QED BY <2>2, <2>3, <4>1, MentionOf DEF MentionIs
    <3>2. ASSUME NEW q \in Posts, Threads!Present(q), q \notin lost, m \in Threads!Mentions(q, rows[q].body)
          PROVE  m \in mentions'
      <4>1. m[1] = q /\ m \in mentions
        BY <2>2, <3>2, MentionOf DEF MentionIs
      <4>2. q # p
        BY <1>1, <3>2
      <4> QED BY <1>1, <3>2, <4>1, <4>2
    <3> QED BY <2>3, <3>1, <3>2
  <2>5. UNION {Threads!Mentions(q, rows'[q].body) : q \in {e \in Posts : Threads!Present(e)'}} = mentions'
    BY <2>4 DEF MentionIs, Threads!Mentions
  <2> QED BY <2>5 DEF Threads!MentionsMatchBody, Threads!Mentions
<1>7. Threads!CountersMatchUnlessDisturbed'
  <2> SUFFICES ASSUME NEW q \in Posts, Threads!Present(q)'
               PROVE  /\ rows'[q].likeCount = Cardinality({l \in likes' : l[1] = q})
                      /\ Threads!IsComment(rows'[q]) \/ q \in miscounted' \/ rows'[q].commentCount = Cardinality(Threads!Thread(q)')
    BY ThreadCounts DEF Threads!CountersMatchUnlessDisturbed
  <2>1. /\ Threads!Present(q) /\ q \notin lost /\ Threads!IsComment(rows'[q]) = Threads!IsComment(rows[q])
        /\ rows'[q].likeCount = rows[q].likeCount
    BY <1>4 DEF Threads!IsComment
  <2>2. /\ rows[q].likeCount = Cardinality({l \in likes : l[1] = q})
        /\ Threads!IsComment(rows[q]) \/ q \in miscounted \/ rows[q].commentCount = Cardinality(Threads!Thread(q))
    BY ThreadCounts, <2>1
    DEF FeedInv, Threads!KeptWithPostsUnlessDisturbed, Threads!CountersMatchUnlessDisturbed
  <2>3. {l \in likes' : l[1] = q} = {l \in likes : l[1] = q}
    BY <1>1, <2>1
  <2>4. CASE q # root
    <3>1. Threads!Thread(q)' = Threads!Thread(q)
      BY <1>3, <1>4, <2>4 DEF Threads!Thread
    <3>2. rows'[q] = rows[q]
      BY <1>1, <2>1, <2>4
    <3> QED BY <1>1, <2>1, <2>2, <2>3, <3>1, <3>2
  <2>5. CASE q = root
    <3>1. CASE Cardinality(lost) = 1
      <4>1. Threads!Thread(root)' = Threads!Thread(root) \ lost
        BY <1>4 DEF Threads!Thread
      <4>2. IsFiniteSet(Threads!Thread(root)) /\ IsFiniteSet(lost)
        BY <1>1, FiniteParts, FS_Subset DEF FeedInv
      <4>3. PICK x : lost = {x}
        BY <3>1, <4>2, FS_Singleton
      <4>4. x \in Threads!Thread(root)
        BY <1>1, <4>3
      <4>5. /\ Cardinality(Threads!Thread(root) \ {x}) = Cardinality(Threads!Thread(root)) - 1
            /\ Cardinality(Threads!Thread(root)) \in Nat /\ Cardinality(Threads!Thread(root)) # 0
        BY <4>2, <4>4, FS_RemoveElement, FS_CardinalityType, FS_EmptySet
      <4>6. Threads!Thread(q)' = Threads!Thread(root) \ {x}
        BY <2>5, <4>1, <4>3 DEF Threads!Thread
      <4> QED BY <1>1, <1>2, <2>1, <2>2, <2>3, <2>5, <3>1, <4>5, <4>6 DEF Threads!CountDown
    <3>2. CASE Cardinality(lost) # 1
      BY <1>1, <2>1, <2>2, <2>3, <2>5, <3>2
    <3> QED BY <3>1, <3>2
  <2> QED BY <2>4, <2>5
<1> QED BY <1>5, <1>6, <1>7 DEF Threads!KeptWithPostsUnlessDisturbed

LEMMA QuietSteps ==
    ASSUME \/ Threads!Elapse
           \/ \E c \in Calls :
                 \/ Threads!LoseTheRace(c) \/ Threads!ReadAgain(c)
                 \/ \E p \in Posts :
                       \/ Threads!BeginDelete(c, p)
                       \/ \E b \in Bodies : Threads!BeginComment(c, p, b)
                       \/ \E change \in Threads!Edits \cup Threads!Pins : Threads!BeginUpdate(c, p, change)
                       \/ \E w \in Users : Threads!BeginLike(c, p, w)
    PROVE  UNCHANGED <<rows, likes, mentions, miscounted>>
BY DEF Threads!Elapse, Threads!LoseTheRace, Threads!ReadAgain, Threads!BeginDelete,
   Threads!BeginComment, Threads!BeginUpdate, Threads!BeginLike

(* A write changes what it was asked to. *)
Narrow ==
    \A p \in Posts : Threads!Present(p) /\ Threads!Present(p)' =>
        \A field \in {"body", "schedule", "pinned"} : rows[p][field] # rows'[p][field] =>
            \E c \in Calls : /\ calls[c].pc = "write" /\ calls[c].post = p
                             /\ field \in DOMAIN calls[c].change

LEMMA NarrowIfSame == ASSUME SameColumns PROVE Narrow
BY ColumnsAre DEF SameColumns, Narrow

LEMMA FeedStep == ASSUME FeedInv, [Threads!Next]_(Threads!vars) PROVE FeedInv' /\ Narrow
<1>1. ThreadsInv'
  BY ThreadsStep DEF FeedInv
<1>2. ASSUME \/ Threads!Elapse \/ UNCHANGED Threads!vars
             \/ \E c \in Calls :
                   \/ Threads!LoseTheRace(c) \/ Threads!ReadAgain(c)
                   \/ \E p \in Posts :
                         \/ Threads!BeginDelete(c, p)
                         \/ \E b \in Bodies : Threads!BeginComment(c, p, b)
                         \/ \E change \in Threads!Edits \cup Threads!Pins : Threads!BeginUpdate(c, p, change)
                         \/ \E w \in Users : Threads!BeginLike(c, p, w)
      PROVE  Threads!KeptWithPostsUnlessDisturbed' /\ Narrow
  <2>1. UNCHANGED <<rows, likes, mentions, miscounted>>
    BY <1>2, QuietSteps DEF Threads!vars
  <2> QED BY <2>1, RowsKept, NarrowIfSame
<1>3. ASSUME NEW p \in Posts, NEW w \in Users, Threads!Unlike(p, w)
      PROVE  Threads!KeptWithPostsUnlessDisturbed' /\ Narrow
  BY <1>3, UnlikeKeeps, NarrowIfSame
<1>4. ASSUME NEW p \in Posts, NEW b \in Bodies, NEW s \in Threads!Schedules, Threads!CreatePost(p, b, s)
      PROVE  Threads!KeptWithPostsUnlessDisturbed' /\ Narrow
  BY <1>4, CreatePostKeeps, NarrowIfSame
<1>5. ASSUME NEW c \in Calls, \/ Threads!SoftDeletePost(c) \/ Threads!DeleteComment(c) \/ Threads!Like(c)
                              \/ \E p \in Posts : Threads!CreateComment(c, p)
      PROVE  Threads!KeptWithPostsUnlessDisturbed' /\ Narrow
  BY <1>5, SoftDeleteKeeps, DeleteKeeps, LikeKeeps, CreateCommentKeeps, NarrowIfSame
<1>6. ASSUME NEW c \in Calls, Threads!UpdatePost(c) PROVE Threads!KeptWithPostsUnlessDisturbed' /\ Narrow
  BY <1>6, UpdateKeeps DEF Narrow
<1>7. Threads!KeptWithPostsUnlessDisturbed' /\ Narrow
  BY <1>2, <1>3, <1>4, <1>5, <1>6 DEF Threads!Next
<1> QED BY <1>1, <1>7 DEF FeedInv

LEMMA FeedStart == ASSUME Threads!Init PROVE FeedInv
<1>1. \A p \in Posts : ~Threads!Present(p)
  BY DEF Threads!Init, Threads!Present
<1>2. \A m : m \in mentions <=> MentionIs(m)
  BY <1>1 DEF Threads!Init, MentionIs
<1> QED BY ThreadCounts, <1>1, <1>2, ThreadsInit, MentionsAre
        DEF FeedInv, Threads!KeptWithPostsUnlessDisturbed, Threads!CountersMatchUnlessDisturbed

(* The invariant the two theorems below rest on: the tree of a thread, with  *)
(* the counters and mention rows that are kept beside it (postgres/post.go:  *)
(* CreateComment, DeleteComment, Like, Unlike, UpdatePost).                  *)
THEOREM FeedAlways == Threads!Spec => []FeedInv
BY FeedStart, FeedStep, PTL DEF Threads!Spec

(* However many requests run at once, a post counts the likes it has, its    *)
(* mention rows are those of its body, and it counts the comments of its     *)
(* thread unless one was deleted with replies under it or twice              *)
(* (postgres/post.go).                                                       *)
THEOREM ThreadsStayKept == Threads!Spec => []KeptWithPostsUnlessDisturbed
<1>1. FeedInv => KeptWithPostsUnlessDisturbed
  BY DEF FeedInv, KeptWithPostsUnlessDisturbed
<1> QED BY <1>1, FeedAlways, PTL

(* However many edits and pins race, a write changes only the columns its    *)
(* request is about: none takes back what another wrote (post.go: UpdatePost *)
(* and Pin, with the version they read).                                     *)
THEOREM WritesStayNarrow == Threads!Spec => WritesChangeWhatTheyAsk
<1>1. FeedInv /\ [Threads!Next]_(Threads!vars) => [Narrow]_(Threads!vars)
  BY FeedStep
<1>2. Threads!Spec => [][Narrow]_(Threads!vars)
  BY <1>1, FeedAlways, PTL DEF Threads!Spec
<1> QED BY <1>2 DEF WritesChangeWhatTheyAsk, Threads!WritesChangeWhatTheyAsk, Narrow

-----------------------------------------------------------------------------
(* FeedPages: what the constants are. *)
LEMMA PageFacts == Entries \in Nat \ {0} /\ Limit \in Nat \ {0}
BY PartsAssumption DEF Pages!PagesAssumption

(* The numbers of an instance are those of the theorems about finite sets. *)
LEMMA PageCounts == \A S : Pages!Cardinality(S) = Cardinality(S)
BY DEF Pages!Cardinality, Cardinality

LEMMA IdsAre == \A n \in Pages!Ids : n \in Nat /\ n >= 1 /\ n <= Entries
BY PageFacts DEF Pages!Ids

(* Nothing is pinned, so the newest comes first. *)
Unpinned == feed \in [Pages!Ids -> {"unborn", "plain", "deleted"}]

IsShown(n) == \E i \in 1 .. Len(shown) : shown[i] = n

(* While the reader goes on, he was shown what stands from the cursor on,   *)
(* and nothing below it; in the end everything.                             *)
PagesKept ==
    /\ Unpinned
    /\ cursor \in 0 .. Entries /\ reading \in BOOLEAN
    /\ shown \in Seq(Pages!Ids)
    /\ standing \subseteq Pages!Ids /\ \A n \in standing : feed[n] = "plain"
    /\ \A i, j \in 1 .. Len(shown) : shown[i] = shown[j] => i = j
    /\ reading => \A i \in 1 .. Len(shown) : ~Pages!AfterCursor(shown[i])
    /\ \A n \in standing : (reading /\ Pages!AfterCursor(n)) \/ IsShown(n)

PagesInv == ~everPinned => PagesKept

-----------------------------------------------------------------------------
(* The order of a page. *)

Newer(n) == {m \in Pages!Candidates : m > n}

LEMMA CandidatesFinite ==
    /\ Pages!Candidates \subseteq Pages!Ids /\ IsFiniteSet(Pages!Candidates) /\ Cardinality(Pages!Candidates) \in Nat
<1>1. Pages!Candidates \subseteq Pages!Ids
  BY DEF Pages!Candidates, Pages!OnFeed
<1>2. IsFiniteSet(Pages!Ids)
  BY PageFacts, FS_Interval DEF Pages!Ids
<1> QED BY <1>1, <1>2, FS_Subset, FS_CardinalityType

LEMMA PlaceIs ==
    ASSUME Unpinned, NEW n \in Pages!Candidates
    PROVE  /\ Pages!Place(n) = 1 + Cardinality(Newer(n))
           /\ IsFiniteSet(Newer(n)) /\ Cardinality(Newer(n)) \in Nat
           /\ Pages!Place(n) \in 1 .. Cardinality(Pages!Candidates)
<1>1. \A m \in Pages!Candidates : Pages!Before(m, n) <=> m > n
  BY CandidatesFinite DEF Unpinned, Pages!Before
<1>2. {m \in Pages!Candidates : Pages!Before(m, n)} = Newer(n)
  BY <1>1 DEF Newer
<1>3. Newer(n) \subseteq Pages!Candidates \ {n}
  BY CandidatesFinite, IdsAre DEF Newer
<1>4. /\ IsFiniteSet(Pages!Candidates \ {n})
      /\ Cardinality(Pages!Candidates \ {n}) = Cardinality(Pages!Candidates) - 1
  BY CandidatesFinite, FS_RemoveElement
<1>5. IsFiniteSet(Newer(n)) /\ Cardinality(Newer(n)) <= Cardinality(Pages!Candidates) - 1
  BY <1>3, <1>4, FS_Subset
<1>6. Cardinality(Newer(n)) \in Nat
  BY <1>5, FS_CardinalityType
<1>7. Pages!Place(n) = 1 + Cardinality(Newer(n))
  BY PageCounts, <1>2 DEF Pages!Place
<1> QED BY <1>5, <1>6, <1>7, CandidatesFinite

LEMMA PlacesFall ==
    ASSUME Unpinned, NEW m \in Pages!Candidates, NEW n \in Pages!Candidates, m > n
    PROVE  Pages!Place(m) < Pages!Place(n)
<1>1. m \in Nat /\ n \in Nat /\ \A k \in Pages!Candidates : k \in Nat
  BY CandidatesFinite, IdsAre
<1>2. Newer(m) \cup {m} \subseteq Newer(n) /\ m \notin Newer(m)
  <2>1. ASSUME NEW k \in Newer(m) PROVE k \in Newer(n)
    BY <1>1, <2>1 DEF Newer
  <2>2. m \in Newer(n) /\ m \notin Newer(m)
    BY <1>1 DEF Newer
  <2> QED BY <2>1, <2>2
<1>3. /\ IsFiniteSet(Newer(m)) /\ IsFiniteSet(Newer(n))
      /\ Cardinality(Newer(m)) \in Nat /\ Cardinality(Newer(n)) \in Nat
  BY PlaceIs
<1>4. Cardinality(Newer(m) \cup {m}) = Cardinality(Newer(m)) + 1
  BY <1>2, <1>3, FS_AddElement
<1>5. Cardinality(Newer(m) \cup {m}) <= Cardinality(Newer(n))
  BY <1>2, <1>3, FS_Subset
<1> QED BY <1>3, <1>4, <1>5, PlaceIs

LEMMA PlacesDiffer ==
    ASSUME Unpinned, NEW m \in Pages!Candidates, NEW n \in Pages!Candidates, Pages!Place(m) = Pages!Place(n)
    PROVE  m = n
<1>1. m \in Nat /\ n \in Nat /\ Pages!Place(m) \in Nat /\ Pages!Place(n) \in Nat
  BY CandidatesFinite, IdsAre, PlaceIs
<1>2. ~(m > n) /\ ~(n > m)
  BY <1>1, PlacesFall
<1> QED BY <1>1, <1>2

(* Every place is taken: as many entries, no two in one place. *)
LEMMA PlacesFilled ==
    ASSUME Unpinned, NEW i \in 1 .. Cardinality(Pages!Candidates)
    PROVE  \E n \in Pages!Candidates : Pages!Place(n) = i
<1> DEFINE C == Pages!Candidates
           P == 1 .. Cardinality(C)
           f == [n \in C |-> Pages!Place(n)]
<1>1. f \in [C -> P]
  BY PlaceIs
<1>2. \A m, n \in C : f[m] = f[n] => m = n
  BY PlacesDiffer
<1>3. f \in Injection(C, P)
  BY <1>1, <1>2 DEF Injection, IsInjective
<1>4. IsFiniteSet(P) /\ Cardinality(P) = Cardinality(C)
  BY CandidatesFinite, FS_Interval
<1>5. f \in Surjection(C, P)
  BY <1>3, <1>4, FS_Injection
<1>6. \E n \in C : f[n] = i
  BY <1>5 DEF Surjection
<1> QED BY <1>6

PageSize == IF Cardinality(Pages!Candidates) < Limit THEN Cardinality(Pages!Candidates) ELSE Limit

LEMMA PageIs ==
    ASSUME Unpinned
    PROVE  /\ PageSize \in Nat /\ PageSize <= Cardinality(Pages!Candidates)
           /\ Pages!Page \in Seq(Pages!Candidates) /\ Len(Pages!Page) = PageSize
           /\ \A i \in 1 .. PageSize : Pages!Page[i] \in Pages!Candidates /\ Pages!Place(Pages!Page[i]) = i
           /\ \A n \in Pages!Candidates : Pages!Place(n) <= PageSize =>
                 Pages!Place(n) \in 1 .. PageSize /\ Pages!Page[Pages!Place(n)] = n
<1>1. PageSize \in Nat /\ PageSize <= Cardinality(Pages!Candidates)
  BY CandidatesFinite, PageFacts DEF PageSize
<1>2. Pages!Page = [i \in 1 .. PageSize |-> CHOOSE n \in Pages!Candidates : Pages!Place(n) = i]
  BY PageCounts DEF Pages!Page, PageSize
<1>3. \A i \in 1 .. PageSize : Pages!Page[i] \in Pages!Candidates /\ Pages!Place(Pages!Page[i]) = i
  <2> TAKE i \in 1 .. PageSize
  <2>1. \E n \in Pages!Candidates : Pages!Place(n) = i
    BY <1>1, CandidatesFinite, PlacesFilled
  <2> QED BY <1>2, <2>1
<1>4. Pages!Page \in [1 .. PageSize -> Pages!Candidates]
  BY <1>2, <1>3
<1>5. Pages!Page \in Seq(Pages!Candidates) /\ Len(Pages!Page) = PageSize
  BY <1>1, <1>4
<1>6. ASSUME NEW n \in Pages!Candidates, Pages!Place(n) <= PageSize
      PROVE  Pages!Place(n) \in 1 .. PageSize /\ Pages!Page[Pages!Place(n)] = n
  <2>1. Pages!Place(n) \in 1 .. PageSize
    BY <1>1, <1>6, PlaceIs, CandidatesFinite
  <2> QED BY <1>3, <2>1, PlacesDiffer
<1>7. \A n \in Pages!Candidates : Pages!Place(n) <= PageSize =>
                 Pages!Place(n) \in 1 .. PageSize /\ Pages!Page[Pages!Place(n)] = n
  BY <1>6
<1> QED BY <1>1, <1>3, <1>5, <1>7

-----------------------------------------------------------------------------
(* The invariant, action by action. *)

LEMMA Appended ==
    ASSUME NEW S, NEW s \in Seq(S), NEW t \in Seq(S)
    PROVE  /\ s \o t \in Seq(S) /\ Len(s \o t) = Len(s) + Len(t) /\ Len(s) \in Nat
           /\ \A i \in 1 .. Len(s) : (s \o t)[i] = s[i]
           /\ \A i \in 1 .. Len(t) : (s \o t)[Len(s) + i] = t[i]
OBVIOUS

LEMMA ReadKeeps == ASSUME PagesKept, Pages!ReadPage PROVE PagesKept'
<1> DEFINE C == Pages!Candidates
           more == Cardinality(C) > Limit
<1>1. /\ reading /\ shown' = shown \o Pages!Page /\ reading' = more
      /\ cursor' = IF more THEN Pages!Page[Limit] ELSE cursor
      /\ UNCHANGED <<feed, standing, everPinned>>
  BY PageCounts DEF Pages!ReadPage
<1>2. Unpinned /\ shown \in Seq(Pages!Ids) /\ cursor \in 0 .. Entries
  BY DEF PagesKept
<1>3. /\ PageSize \in Nat /\ PageSize <= Cardinality(C)
      /\ Pages!Page \in Seq(C) /\ Len(Pages!Page) = PageSize
      /\ \A i \in 1 .. PageSize : Pages!Page[i] \in C /\ Pages!Place(Pages!Page[i]) = i
      /\ \A n \in C : Pages!Place(n) <= PageSize => Pages!Place(n) \in 1 .. PageSize /\ Pages!Page[Pages!Place(n)] = n
  BY <1>2, PageIs
<1>4. C \subseteq Pages!Ids /\ Cardinality(C) \in Nat /\ Limit \in Nat \ {0}
  BY CandidatesFinite, PageFacts
<1>5. Pages!Page \in Seq(Pages!Ids)
  BY <1>3, <1>4
<1>6. /\ shown' \in Seq(Pages!Ids) /\ Len(shown') = Len(shown) + PageSize /\ Len(shown) \in Nat
      /\ \A i \in 1 .. Len(shown) : shown'[i] = shown[i]
      /\ \A i \in 1 .. PageSize : shown'[Len(shown) + i] = Pages!Page[i]
  <2> PICK page : page = Pages!Page
    OBVIOUS
  <2>1. shown \in Seq(Pages!Ids) /\ page \in Seq(Pages!Ids) /\ Len(page) = PageSize
    BY <1>2, <1>3, <1>5
  <2>5. shown' = shown \o page
    BY <1>1
  <2>2. shown \o page \in Seq(Pages!Ids) /\ Len(shown \o page) = Len(shown) + Len(page) /\ Len(shown) \in Nat
    BY <2>1, Appended
  <2>3. \A i \in 1 .. Len(shown) : (shown \o page)[i] = shown[i]
    BY <2>1
  <2>4. \A i \in 1 .. Len(page) : (shown \o page)[Len(shown) + i] = page[i]
    BY <2>1
  <2> QED BY <2>1, <2>2, <2>3, <2>4, <2>5
<1>7. \A i \in 1 .. Len(shown') :
         \/ i \in 1 .. Len(shown) /\ shown'[i] = shown[i]
         \/ /\ i > Len(shown) /\ i - Len(shown) \in 1 .. PageSize
            /\ shown'[i] = Pages!Page[i - Len(shown)]
  <2> TAKE i \in 1 .. Len(shown')
  <2>1. CASE i <= Len(shown)
    BY <1>6, <2>1
  <2>2. CASE i > Len(shown)
    <3>1. i - Len(shown) \in 1 .. PageSize /\ Len(shown) + (i - Len(shown)) = i
      BY <1>3, <1>6, <2>2
    <3>2. shown'[Len(shown) + (i - Len(shown))] = Pages!Page[i - Len(shown)]
      BY <1>6, <3>1
    <3> QED BY <2>2, <3>1, <3>2
  <2> QED BY <1>6, <2>1, <2>2
<1>8. \A i \in 1 .. Len(shown) : shown[i] \notin C
  BY <1>1 DEF PagesKept, Pages!Candidates
<1>9. more => /\ PageSize = Limit /\ Limit \in 1 .. PageSize /\ cursor' = Pages!Page[Limit]
              /\ cursor' \in C /\ Pages!Place(cursor') = Limit
  BY <1>1, <1>3, <1>4 DEF PageSize
<1>10. Unpinned' /\ standing' \subseteq Pages!Ids /\ \A n \in standing' : feed'[n] = "plain"
  BY <1>1 DEF PagesKept, Unpinned
<1>11. cursor' \in 0 .. Entries /\ reading' \in BOOLEAN
  <2>1. CASE more
    <3>1. cursor' \in Pages!Ids /\ reading' = TRUE
      BY <1>1, <1>4, <1>9, <2>1
    <3> QED BY <3>1, PageFacts DEF Pages!Ids
  <2>2. CASE ~more
    BY <1>1, <1>2, <2>2
  <2> QED BY <2>1, <2>2
<1>12. ASSUME NEW i \in 1 .. Len(shown'), NEW j \in 1 .. Len(shown'), shown'[i] = shown'[j]
       PROVE  i = j
  <2>1. CASE i \in 1 .. Len(shown) /\ j \in 1 .. Len(shown)
    BY <1>6, <1>12, <2>1 DEF PagesKept
  <2>2. CASE i > Len(shown) /\ j > Len(shown)
    <3> DEFINE a == i - Len(shown)
               b == j - Len(shown)
    <3>1. /\ a \in 1 .. PageSize /\ shown'[i] = Pages!Page[a]
          /\ b \in 1 .. PageSize /\ shown'[j] = Pages!Page[b]
      BY <1>6, <1>7, <2>2
    <3>2. a = b
      <4> HIDE DEF a, b
      <4> QED BY <1>3, <1>12, <3>1
    <3> QED BY <1>6, <3>2
  <2>3. CASE i \in 1 .. Len(shown) /\ j > Len(shown)
    <3>1. shown'[i] \notin C
      BY <1>6, <1>8, <2>3
    <3>2. shown'[j] \in C
      <4>1. j - Len(shown) \in 1 .. PageSize /\ shown'[j] = Pages!Page[j - Len(shown)]
        BY <1>6, <1>7, <2>3
      <4> QED BY <1>3, <4>1
    <3> QED BY <1>12, <3>1, <3>2
  <2>4. CASE j \in 1 .. Len(shown) /\ i > Len(shown)
    <3>1. shown'[j] \notin C
      BY <1>6, <1>8, <2>4
    <3>2. shown'[i] \in C
      <4>1. i - Len(shown) \in 1 .. PageSize /\ shown'[i] = Pages!Page[i - Len(shown)]
        BY <1>6, <1>7, <2>4
      <4> QED BY <1>3, <4>1
    <3> QED BY <1>12, <3>1, <3>2
  <2> QED BY <1>6, <2>1, <2>2, <2>3, <2>4
<1>13. ASSUME more, NEW n \in C PROVE Pages!AfterCursor(n)' <=> Pages!Place(n) > Limit
  <2>1. cursor' # 0 /\ cursor' \in Nat /\ n \in Nat
    BY <1>4, <1>9, <1>13, IdsAre
  <2>2. Pages!Place(n) \in Nat
    BY <1>2, PlaceIs, CandidatesFinite
  <2>3. n < cursor' => Pages!Place(cursor') < Pages!Place(n)
    BY <1>2, <1>9, <1>13, PlacesFall
  <2>4. n > cursor' => Pages!Place(n) < Pages!Place(cursor')
    BY <1>2, <1>9, <1>13, PlacesFall
  <2> QED BY <1>4, <1>9, <1>13, <2>1, <2>2, <2>3, <2>4 DEF Pages!AfterCursor
<1>14. ASSUME more, NEW n \in Pages!Ids, ~Pages!AfterCursor(n) PROVE ~Pages!AfterCursor(n)'
  <2>1. cursor # 0 /\ n >= cursor /\ cursor \in Nat /\ n \in Nat
    BY <1>2, <1>14, IdsAre, PageFacts DEF Pages!AfterCursor
  <2>2. cursor' < cursor /\ cursor' \in Nat /\ cursor' # 0
    <3>1. cursor' \in C /\ cursor' \in Pages!Ids
      BY <1>4, <1>9, <1>14
    <3>2. Pages!AfterCursor(cursor')
      BY <3>1 DEF Pages!Candidates
    <3> QED BY <2>1, <3>1, <3>2, IdsAre DEF Pages!AfterCursor
  <2> QED BY <2>1, <2>2 DEF Pages!AfterCursor
<1>15. ASSUME reading', NEW i \in 1 .. Len(shown') PROVE ~Pages!AfterCursor(shown[i])'
  <2>0. more
    BY <1>1, <1>15
  <2> PICK n : n = shown'[i]
    OBVIOUS
  <2>1. CASE i \in 1 .. Len(shown)
    <3>1. n \in Pages!Ids /\ ~Pages!AfterCursor(n)
      BY <1>1, <1>2, <1>6, <2>1 DEF PagesKept
    <3>2. ~Pages!AfterCursor(n)'
      BY <1>14, <2>0, <3>1
    <3> QED BY <3>2 DEF Pages!AfterCursor
  <2>2. CASE i > Len(shown)
    <3>1. PICK a \in 1 .. PageSize : n = Pages!Page[a]
      BY <1>6, <1>7, <2>2
    <3>2. n \in C /\ Pages!Place(n) = a /\ ~(a > Limit)
      BY <1>3, <1>4, <1>9, <2>0, <3>1
    <3>3. ~Pages!AfterCursor(n)'
      BY <1>13, <2>0, <3>2
    <3> QED BY <3>3 DEF Pages!AfterCursor
  <2> QED BY <1>6, <2>1, <2>2
<1>16. ASSUME NEW n \in Pages!Ids, IsShown(n) \/ (n \in C /\ Pages!Place(n) <= PageSize) PROVE IsShown(n)'
  <2>1. CASE IsShown(n)
    <3>1. PICK i \in 1 .. Len(shown) : shown[i] = n
      BY <2>1 DEF IsShown
    <3>2. i \in 1 .. Len(shown') /\ shown'[i] = n
      BY <1>3, <1>6, <3>1
    <3> QED BY <3>2 DEF IsShown
  <2>2. CASE n \in C /\ Pages!Place(n) <= PageSize
    <3>1. Pages!Place(n) \in 1 .. PageSize /\ Pages!Page[Pages!Place(n)] = n
      BY <1>3, <2>2
    <3>2. PICK i : i = Len(shown) + Pages!Place(n)
      OBVIOUS
    <3>3. i \in 1 .. Len(shown') /\ shown'[i] = n
      BY <1>3, <1>6, <3>1, <3>2
    <3> QED BY <3>3 DEF IsShown
  <2> QED BY <1>16, <2>1, <2>2
<1>17. ASSUME NEW n \in standing' PROVE (reading' /\ Pages!AfterCursor(n)') \/ IsShown(n)'
  <2>1. n \in standing /\ n \in Pages!Ids /\ feed[n] = "plain"
    BY <1>1, <1>17 DEF PagesKept
  <2>2. CASE IsShown(n)
    BY <1>16, <2>1, <2>2
  <2>3. CASE Pages!AfterCursor(n)
    <3>1. n \in C /\ Pages!Place(n) \in 1 .. Cardinality(C)
      BY <1>2, <2>1, <2>3, PlaceIs DEF Pages!Candidates, Pages!OnFeed
    <3>2. CASE ~more
      <4>1. PageSize = Cardinality(C)
        BY <1>4, <3>2 DEF PageSize
      <4> QED BY <1>4, <1>16, <2>1, <3>1, <4>1
    <3>3. CASE more
      <4>1. Pages!AfterCursor(n)' \/ Pages!Place(n) <= PageSize
        BY <1>4, <1>9, <1>13, <3>1, <3>3
      <4> QED BY <1>1, <1>16, <2>1, <3>1, <3>3, <4>1
    <3> QED BY <3>2, <3>3
  <2> QED BY <2>1, <2>2, <2>3 DEF PagesKept
<1> QED BY <1>6, <1>10, <1>11, <1>12, <1>15, <1>17 DEF PagesKept

(* What is published, unpinned or deleted meanwhile. *)
LEMMA ChangeKeeps ==
    ASSUME PagesKept, NEW n \in Pages!Ids, NEW state \in {"plain", "deleted"}, Pages!Change(n, state),
           state = "plain" => n \notin standing \/ feed[n] = "plain"
    PROVE  PagesKept'
<1>1. /\ feed' = [feed EXCEPT ![n] = state]
      /\ standing' = IF state = "deleted" THEN standing \ {n} ELSE standing
      /\ UNCHANGED <<cursor, reading, shown>>
  BY DEF Pages!Change
<1>2. Unpinned' /\ feed'[n] = state /\ \A m \in Pages!Ids \ {n} : feed'[m] = feed[m]
  BY <1>1 DEF PagesKept, Unpinned
<1>3. standing' \subseteq standing /\ \A m \in standing' : feed'[m] = "plain"
  BY <1>1, <1>2 DEF PagesKept
<1>4. (\A m : Pages!AfterCursor(m)' <=> Pages!AfterCursor(m)) /\ \A m : IsShown(m)' <=> IsShown(m)
  BY <1>1 DEF Pages!AfterCursor, IsShown
<1>5. reading' => \A i \in 1 .. Len(shown') : ~Pages!AfterCursor(shown[i])'
  BY <1>1 DEF Pages!AfterCursor, PagesKept
<1> QED BY <1>1, <1>2, <1>3, <1>4, <1>5 DEF PagesKept

LEMMA PagesStart == ASSUME Pages!Init PROVE PagesInv
<1> SUFFICES ASSUME ~everPinned PROVE PagesKept
  BY DEF PagesInv
<1>1. /\ feed \in [Pages!Ids -> {"unborn", "plain", "pinned"}]
      /\ \A n \in Pages!Ids : feed[n] # "pinned"
      /\ cursor = 0 /\ reading = TRUE /\ shown = <<>> /\ standing = Pages!OnFeed
  BY DEF Pages!Init
<1>2. Unpinned
  BY <1>1 DEF Unpinned
<1>3. standing \subseteq Pages!Ids /\ \A n \in standing : feed[n] = "plain"
  BY <1>1 DEF Pages!OnFeed
<1>4. shown \in Seq(Pages!Ids) /\ Len(shown) = 0
  BY <1>1
<1>5. 0 \in 0 .. Entries
  BY PageFacts
<1> QED BY <1>1, <1>2, <1>3, <1>4, <1>5 DEF PagesKept, Pages!AfterCursor

LEMMA PagesStep == ASSUME PagesInv, [Pages!Next]_(Pages!vars) PROVE PagesInv'
<1> SUFFICES ASSUME ~everPinned' PROVE PagesKept'
  BY DEF PagesInv
<1>1. CASE UNCHANGED Pages!vars
  BY <1>1 DEF Pages!vars, PagesInv, PagesKept, Unpinned, Pages!AfterCursor, IsShown
<1>2. CASE Pages!ReadPage
  BY <1>2, ReadKeeps DEF PagesInv, Pages!ReadPage
<1>3. ASSUME NEW n \in Pages!Ids, NEW state \in {"plain", "pinned", "deleted"}, Pages!Change(n, state),
             state = "plain" => n \notin standing \/ feed[n] = "plain"
      PROVE  PagesKept'
  <2>1. state # "pinned" /\ ~everPinned
    BY <1>3 DEF Pages!Change
  <2> QED BY <1>3, <2>1, ChangeKeeps DEF PagesInv
<1>4. ASSUME NEW n \in Pages!Ids, Pages!Publish(n) PROVE PagesKept'
  <2>1. feed[n] = "unborn" /\ Pages!Change(n, "plain")
    BY <1>4 DEF Pages!Publish
  <2>2. ~everPinned
    BY <2>1 DEF Pages!Change
  <2>3. n \notin standing
    BY <2>1, <2>2 DEF PagesInv, PagesKept
  <2> QED BY <1>3, <2>1, <2>3
<1>5. ASSUME NEW n \in Pages!Ids, Pages!Pin(n) PROVE PagesKept'
  <2>1. n \in Pages!OnFeed /\ \E state \in {"plain", "pinned"} : Pages!Change(n, state)
    BY <1>5 DEF Pages!Pin
  <2>2. ~everPinned
    BY <2>1 DEF Pages!Change
  <2>3. feed[n] = "plain"
    BY <2>1, <2>2 DEF PagesInv, PagesKept, Unpinned, Pages!OnFeed
  <2> QED BY <1>3, <2>1, <2>3
<1>6. ASSUME NEW n \in Pages!Ids, Pages!SoftDelete(n) PROVE PagesKept'
  BY <1>3, <1>6 DEF Pages!SoftDelete
<1> QED BY <1>1, <1>2, <1>4, <1>5, <1>6 DEF Pages!Next

(* A reader who follows the cursor is shown no entry twice and none that     *)
(* stood all along is left out, as long as nothing is pinned, whatever is    *)
(* published or deleted meanwhile (postgres/post.go: ListPostsByScope).      *)
THEOREM PagesStayWhole == Pages!Spec => []PagesAreWholeUnlessPinned
<1>1. PagesInv => PagesAreWholeUnlessPinned
  <2> SUFFICES ASSUME PagesKept
               PROVE  /\ \A n \in Pages!Ids : Pages!Times(n) <= 1
                      /\ ~reading => \A n \in standing : Pages!Times(n) = 1
    BY DEF PagesInv, PagesAreWholeUnlessPinned, Pages!PagesAreWholeUnlessPinned
  <2>1. DOMAIN shown = 1 .. Len(shown)
    BY DEF PagesKept
  <2>2. ASSUME NEW n, NEW i \in 1 .. Len(shown), shown[i] = n PROVE Pages!Times(n) = 1
    <3>1. {j \in DOMAIN shown : shown[j] = n} = {i}
      BY <2>1, <2>2 DEF PagesKept
    <3> QED BY PageCounts, <3>1, FS_Singleton DEF Pages!Times
  <2>3. ASSUME NEW n, ~IsShown(n) PROVE Pages!Times(n) = 0
    <3>1. {j \in DOMAIN shown : shown[j] = n} = {}
      BY <2>1, <2>3 DEF IsShown
    <3> QED BY PageCounts, <3>1, FS_EmptySet DEF Pages!Times
  <2>4. \A n : Pages!Times(n) = 0 \/ Pages!Times(n) = 1
    BY <2>2, <2>3 DEF IsShown
  <2>5. \A n : IsShown(n) => Pages!Times(n) = 1
    BY <2>2 DEF IsShown
  <2> QED BY <2>4, <2>5 DEF PagesKept
<1> QED BY <1>1, PagesStart, PagesStep, PTL DEF Pages!Spec

-----------------------------------------------------------------------------
(* Activities: what the constants are. *)
LEMMA EventFacts ==
    /\ MaxUpdateRetries \in Nat \ {0} /\ MaxVersion \in Nat /\ MaxLinks \in Nat \ {0}
    /\ NoCover \notin Covers /\ NotYet \notin Events!Row
BY PartsAssumption DEF Events!ActivitiesAssumption

(* The numbers of an instance are those of the theorems about finite sets. *)
LEMMA EventCounts == \A S : Events!Cardinality(S) = Cardinality(S)
BY DEF Events!Cardinality, Cardinality

(* Who is to give a count back, or to hand it to a row. *)
Holds(c, i) ==
    \/ covering[c].pc \in {"insert", "unlink"} /\ covering[c].cover = i
    \/ /\ covering[c].pc \in {"write", "lost", "give up"}
       /\ "cover" \in DOMAIN covering[c].change /\ covering[c].change.cover = i

Held(i) == {c \in Calls : Holds(c, i)}

Published == {a \in ActivityIds : activities[a] # NotYet}

Busy == {c \in Calls : covering[c] # Events!Idle}

Updating == {"link", "write", "lost", "give up", "again"}

(* The row an update has read changes only with its version, and nobody     *)
(* else inserts the row a request is about to insert.                       *)
EventKnown(c) ==
    LET call == covering[c]
    IN  /\ call.pc \in Updating =>
              /\ activities[call.id] # NotYet
              /\ call.seen.version <= activities[call.id].version
              /\ call.seen.version = activities[call.id].version => call.seen.cover = activities[call.id].cover
        /\ call.pc = "link" => "cover" \in DOMAIN call.change
        /\ call.pc = "again" => call.tries < MaxUpdateRetries
        /\ call.pc = "insert" =>
              /\ activities[call.id] = NotYet
              /\ \A d \in Calls \ {c} : covering[d].pc = "insert" => covering[d].id # call.id

Balanced(i) ==
    /\ links[i] >= Cardinality(Events!Naming(i)) + Cardinality(Held(i))
    /\ ~faulty => links[i] = Cardinality(Events!Naming(i)) + Cardinality(Held(i))

EventsInv ==
    /\ Events!TypeOK
    /\ IsFiniteSet(Published) /\ IsFiniteSet(Busy)
    /\ \A c \in Calls : EventKnown(c)
    /\ \A i \in Covers : Balanced(i)

UpdateRows == [pc : Updating, id : ActivityIds, change : Events!Changes, seen : Events!Row, tries : 1 .. MaxUpdateRetries]

LEMMA EventIdle == Events!Idle \in Events!CallRow /\ Events!Idle.pc = "idle"
BY DEF Events!CallRow, Events!Idle

LEMMA EventCalls ==
    ASSUME Events!TypeOK, NEW c \in Calls
    PROVE  /\ covering[c].pc \in {"idle", "insert", "unlink"} \cup Updating
           /\ covering[c].pc = "idle" <=> covering[c] = Events!Idle
           /\ covering[c].pc = "insert" =>
                 covering[c] \in [pc : {"insert"}, id : ActivityIds, cover : Covers \cup {NoCover}]
           /\ covering[c].pc \in Updating => covering[c] \in UpdateRows
           /\ covering[c].pc = "unlink" => covering[c] \in [pc : {"unlink"}, cover : Covers]
<1>1. covering[c] \in Events!CallRow
  BY DEF Events!TypeOK
<1>2. CASE covering[c] = Events!Idle
  BY <1>2 DEF Events!Idle, Updating
<1>3. CASE covering[c] \in [pc : {"insert"}, id : ActivityIds, cover : Covers \cup {NoCover}]
  <2>1. covering[c].pc = "insert"
    BY <1>3
  <2> QED BY <1>3, <2>1, EventIdle DEF Updating
<1>4. CASE covering[c] \in UpdateRows
  <2>1. covering[c].pc \in Updating
    BY <1>4 DEF UpdateRows
  <2> QED BY <1>4, <2>1, EventIdle DEF Updating
<1>5. CASE covering[c] \in [pc : {"unlink"}, cover : Covers]
  <2>1. covering[c].pc = "unlink"
    BY <1>5
  <2> QED BY <1>5, <2>1, EventIdle DEF Updating
<1> QED BY <1>1, <1>2, <1>3, <1>4, <1>5 DEF Events!CallRow, Updating, UpdateRows

LEMMA EventRows ==
    ASSUME Events!TypeOK, NEW a \in ActivityIds, activities[a] # NotYet
    PROVE  /\ activities[a] \in Events!Row /\ activities[a].cover \in Covers \cup {NoCover}
           /\ activities[a].deleted \in BOOLEAN /\ activities[a].version \in 0 .. MaxVersion /\ activities[a].version \in Nat
<1>1. activities[a] \in Events!Row
  BY DEF Events!TypeOK
<1> QED BY <1>1, EventFacts DEF Events!Row

LEMMA EventCovers == ASSUME NEW change \in Events!Changes, "cover" \in DOMAIN change PROVE change.cover \in Covers
BY DEF Events!Changes

LEMMA Counts ==
    ASSUME EventsInv, NEW i
    PROVE  /\ IsFiniteSet(Events!Naming(i)) /\ IsFiniteSet(Held(i))
           /\ Cardinality(Events!Naming(i)) \in Nat /\ Cardinality(Held(i)) \in Nat
<1>1. Events!Naming(i) \subseteq Published
  BY DEF Events!Naming, Published
<1>2. Held(i) \subseteq Busy
  <2>1. Events!Idle.pc = "idle"
    BY DEF Events!Idle
  <2> QED BY <2>1 DEF Held, Holds, Busy
<1> QED BY <1>1, <1>2, FS_Subset, FS_CardinalityType DEF EventsInv

(* What one request more or less that holds a count does to the sum. *)
LEMMA OneHolder ==
    ASSUME EventsInv, NEW c \in Calls, NEW i, \A d \in Calls \ {c} : covering'[d] = covering[d]
    PROVE  /\ Cardinality(Held(i)') \in Nat
           /\ Holds(c, i)' /\ ~Holds(c, i) => Cardinality(Held(i)') = Cardinality(Held(i)) + 1
           /\ Holds(c, i) /\ ~Holds(c, i)' => Cardinality(Held(i)') = Cardinality(Held(i)) - 1
           /\ (Holds(c, i)' <=> Holds(c, i)) => Cardinality(Held(i)') = Cardinality(Held(i))
<1>1. \A d \in Calls \ {c} : Holds(d, i)' <=> Holds(d, i)
  BY DEF Holds
<1>2. Holds(c, i)' /\ ~Holds(c, i) => Held(i)' = Held(i) \cup {c} /\ c \notin Held(i)
  BY <1>1 DEF Held
<1>3. Holds(c, i) /\ ~Holds(c, i)' => Held(i)' = Held(i) \ {c} /\ c \in Held(i)
  BY <1>1 DEF Held
<1>4. (Holds(c, i)' <=> Holds(c, i)) => Held(i)' = Held(i)
  BY <1>1 DEF Held
<1>5. /\ Cardinality(Held(i) \cup {c}) = Cardinality(Held(i)) + (IF c \in Held(i) THEN 0 ELSE 1)
      /\ Cardinality(Held(i) \ {c}) = Cardinality(Held(i)) - (IF c \in Held(i) THEN 1 ELSE 0)
      /\ IsFiniteSet(Held(i) \cup {c}) /\ IsFiniteSet(Held(i) \ {c})
  BY Counts, FS_AddElement, FS_RemoveElement, SMTT(60)
<1>6. Cardinality(Held(i) \cup {c}) \in Nat /\ Cardinality(Held(i) \ {c}) \in Nat /\ Cardinality(Held(i)) \in Nat
  BY <1>5, Counts, FS_CardinalityType
<1> QED BY <1>2, <1>3, <1>4, <1>5, <1>6

(* What one row that changes its cover does to it. *)
Names(a, i) == activities[a] # NotYet /\ activities[a].cover = i

LEMMA OneName ==
    ASSUME EventsInv, NEW a \in ActivityIds, NEW i, \A b \in ActivityIds \ {a} : activities'[b] = activities[b]
    PROVE  /\ Cardinality(Events!Naming(i)') \in Nat
           /\ Names(a, i)' /\ ~Names(a, i) => Cardinality(Events!Naming(i)') = Cardinality(Events!Naming(i)) + 1
           /\ Names(a, i) /\ ~Names(a, i)' => Cardinality(Events!Naming(i)') = Cardinality(Events!Naming(i)) - 1
           /\ (Names(a, i)' <=> Names(a, i)) => Cardinality(Events!Naming(i)') = Cardinality(Events!Naming(i))
<1>1. Names(a, i)' /\ ~Names(a, i) => Events!Naming(i)' = Events!Naming(i) \cup {a} /\ a \notin Events!Naming(i)
  BY DEF Events!Naming, Names
<1>2. Names(a, i) /\ ~Names(a, i)' => Events!Naming(i)' = Events!Naming(i) \ {a} /\ a \in Events!Naming(i)
  BY DEF Events!Naming, Names
<1>3. (Names(a, i)' <=> Names(a, i)) => Events!Naming(i)' = Events!Naming(i)
  BY DEF Events!Naming, Names
<1>4. /\ Cardinality(Events!Naming(i) \cup {a}) = Cardinality(Events!Naming(i)) + (IF a \in Events!Naming(i) THEN 0 ELSE 1)
      /\ Cardinality(Events!Naming(i) \ {a}) = Cardinality(Events!Naming(i)) - (IF a \in Events!Naming(i) THEN 1 ELSE 0)
      /\ IsFiniteSet(Events!Naming(i) \cup {a}) /\ IsFiniteSet(Events!Naming(i) \ {a})
  BY Counts, FS_AddElement, FS_RemoveElement
<1>5. Cardinality(Events!Naming(i) \cup {a}) \in Nat /\ Cardinality(Events!Naming(i) \ {a}) \in Nat /\ Cardinality(Events!Naming(i)) \in Nat
  BY <1>4, Counts, FS_CardinalityType
<1> QED BY <1>1, <1>2, <1>3, <1>4, <1>5

(* What may happen to the rows while others wait. *)
EventRowsMove ==
    \A a \in ActivityIds : activities[a] # NotYet =>
        /\ activities'[a] # NotYet /\ activities[a].version <= activities'[a].version
        /\ activities[a].version = activities'[a].version => activities'[a].cover = activities[a].cover

LEMMA EventSet ==
    ASSUME Events!TypeOK, NEW c \in Calls, NEW call \in Events!CallRow, Events!Set(c, call)
    PROVE  /\ covering' \in [Calls -> Events!CallRow]
           /\ covering'[c] = call /\ \A d \in Calls \ {c} : covering'[d] = covering[d]
BY DEF Events!TypeOK, Events!Set

LEMMA BusyStaysFinite ==
    ASSUME EventsInv, NEW c \in Calls, \A d \in Calls \ {c} : covering'[d] = covering[d]
    PROVE  IsFiniteSet(Busy')
<1>1. Busy' \subseteq Busy \cup {c}
  BY DEF Busy
<1> QED BY <1>1, FS_AddElement, FS_Subset DEF EventsInv

(* The others keep what they know, as long as no insert of theirs is taken. *)
LEMMA EventOthers ==
    ASSUME EventsInv, Events!TypeOK', EventRowsMove, NEW c \in Calls,
           \A d \in Calls \ {c} : covering'[d] = covering[d],
           \A d \in Calls \ {c} : covering[d].pc = "insert" =>
              activities'[covering[d].id] = NotYet /\ (covering'[c].pc = "insert" => covering'[c].id # covering[d].id),
           EventKnown(c)'
    PROVE  \A d \in Calls : EventKnown(d)'
<1> SUFFICES ASSUME NEW d \in Calls \ {c} PROVE EventKnown(d)'
  OBVIOUS
<1> PICK call : call = covering[d]
  OBVIOUS
<1>1. covering'[d] = call /\ EventKnown(d)
  BY DEF EventsInv
<1>2. CASE call.pc \in Updating
  <2>1. /\ call.id \in ActivityIds /\ activities[call.id] # NotYet /\ call.seen.version \in Nat
        /\ call.seen.version <= activities[call.id].version
        /\ call.seen.version = activities[call.id].version => call.seen.cover = activities[call.id].cover
        /\ call.pc = "link" => "cover" \in DOMAIN call.change
        /\ call.pc = "again" => call.tries < MaxUpdateRetries
    BY <1>1, <1>2, EventCalls, EventFacts DEF EventKnown, UpdateRows, Events!Row, EventsInv
  <2>2. /\ activities'[call.id] # NotYet /\ activities[call.id].version <= activities'[call.id].version
        /\ activities[call.id].version = activities'[call.id].version => activities'[call.id].cover = activities[call.id].cover
    BY <2>1 DEF EventRowsMove
  <2>3. activities[call.id].version \in Nat /\ activities'[call.id].version \in Nat
    <3>1. activities'[call.id] \in Events!Row
      BY <2>1, <2>2 DEF Events!TypeOK
    <3> QED BY <2>1, <3>1, EventRows, EventFacts DEF Events!Row, EventsInv
  <2>4. call.pc # "insert"
    BY <1>2 DEF Updating
  <2> QED BY <1>1, <2>1, <2>2, <2>3, <2>4 DEF EventKnown
<1>3. CASE call.pc = "insert"
  <2>1. \A e \in Calls \ {d} : covering'[e].pc = "insert" => covering'[e].id # call.id
    <3> TAKE e \in Calls \ {d}
    <3>1. CASE e = c
      BY <1>3, <3>1
    <3>2. CASE e # c
      BY <1>1, <1>3, <3>2 DEF EventKnown
    <3> QED BY <3>1, <3>2
  <2> QED BY <1>1, <1>3, <2>1 DEF EventKnown, Updating
<1>4. CASE call.pc \in {"idle", "unlink"}
  BY <1>1, <1>4 DEF EventKnown, Updating
<1> QED BY <1>2, <1>3, <1>4, EventCalls DEF EventsInv

LEMMA NothingKnown == ASSUME NEW c \in Calls, covering'[c].pc \in {"idle", "unlink"} PROVE EventKnown(c)'
BY DEF EventKnown, Updating

LEMMA RowsStand == ASSUME Events!TypeOK, activities' = activities PROVE EventRowsMove
BY EventRows DEF EventRowsMove

(* A step of one request that leaves the rows alone. *)
LEMMA EventCallStep ==
    ASSUME EventsInv, NEW c \in Calls, NEW call \in Events!CallRow, Events!Set(c, call), activities' = activities,
           links' \in [Covers -> 0 .. MaxLinks], faulty' \in BOOLEAN,
           EventKnown(c)', call.pc = "insert" => \A d \in Calls : covering[d].pc = "insert" => covering[d].id # call.id,
           \A i \in Covers : Balanced(i)'
    PROVE  EventsInv'
<1>1. /\ covering' \in [Calls -> Events!CallRow]
      /\ covering'[c] = call /\ \A d \in Calls \ {c} : covering'[d] = covering[d]
  BY EventSet DEF EventsInv
<1>2. Events!TypeOK'
  BY <1>1 DEF EventsInv, Events!TypeOK
<1>3. EventRowsMove
  BY RowsStand DEF EventsInv
<1>4. \A d \in Calls \ {c} : covering[d].pc = "insert" => activities'[covering[d].id] = NotYet
  BY DEF EventsInv, EventKnown
<1>5. \A d \in Calls : EventKnown(d)'
  BY <1>1, <1>2, <1>3, <1>4, EventOthers
<1>6. IsFiniteSet(Published') /\ IsFiniteSet(Busy')
  BY <1>1, BusyStaysFinite DEF EventsInv, Published
<1> QED BY <1>2, <1>5, <1>6 DEF EventsInv

-----------------------------------------------------------------------------
(* The invariant, action by action. *)

LEMMA LinkCounts ==
    ASSUME EventsInv, NEW i \in Covers, Events!Link(i)
    PROVE  /\ links' \in [Covers -> 0 .. MaxLinks] /\ links'[i] = links[i] + 1
           /\ \A j \in Covers \ {i} : links'[j] = links[j]
BY EventFacts DEF EventsInv, Events!TypeOK, Events!Link

LEMMA UnlinkCounts ==
    ASSUME EventsInv, NEW i \in Covers, Events!Unlink(i)
    PROVE  /\ links' \in [Covers -> 0 .. MaxLinks] /\ faulty' \in BOOLEAN
           /\ \A j \in Covers \ {i} : links'[j] = links[j]
           /\ links'[i] >= links[i] - 1
           /\ ~faulty' => ~faulty /\ links'[i] = links[i] - 1
<1>1. links \in [Covers -> 0 .. MaxLinks] /\ faulty \in BOOLEAN /\ MaxLinks \in Nat /\ links[i] \in 0 .. MaxLinks
  BY EventFacts DEF EventsInv, Events!TypeOK
<1>2. CASE links[i] > 0 /\ links' = [links EXCEPT ![i] = links[i] - 1] /\ faulty' = faulty
  BY <1>1, <1>2
<1>3. CASE faulty' = TRUE /\ links' = links
  BY <1>1, <1>3
<1> QED BY <1>2, <1>3 DEF Events!Unlink

LEMMA LinksAre == ASSUME Events!TypeOK, NEW i \in Covers PROVE links[i] \in Nat
BY EventFacts DEF Events!TypeOK

LEMMA NamesStay ==
    ASSUME activities' = activities PROVE \A i : Events!Naming(i)' = Events!Naming(i)
BY DEF Events!Naming

(* A count taken for a request that did not hold one, ... *)
LEMMA Taken ==
    ASSUME EventsInv, NEW c \in Calls, \A d \in Calls \ {c} : covering'[d] = covering[d], activities' = activities,
           NEW i \in Covers, Events!Link(i), faulty' = faulty,
           \A j : ~Holds(c, j), \A j \in Covers : Holds(c, j)' <=> j = i
    PROVE  \A j \in Covers : Balanced(j)'
<1> TAKE j \in Covers
<1>1. Events!Naming(j)' = Events!Naming(j) /\ Balanced(j) /\ links[j] \in Nat
  BY NamesStay, LinksAre DEF EventsInv
<1>2. /\ Cardinality(Held(j)') \in Nat
      /\ j = i => Cardinality(Held(j)') = Cardinality(Held(j)) + 1
      /\ j # i => Cardinality(Held(j)') = Cardinality(Held(j))
  BY OneHolder
<1>3. Cardinality(Events!Naming(j)) \in Nat /\ Cardinality(Held(j)) \in Nat
  BY Counts
<1> QED BY <1>1, <1>2, <1>3, LinkCounts DEF Balanced

(* ... and one given back, or lost with the request that held it. *)
LEMMA GivenBack ==
    ASSUME EventsInv, NEW c \in Calls, \A d \in Calls \ {c} : covering'[d] = covering[d], activities' = activities,
           NEW i \in Covers, Events!Unlink(i),
           \A j \in Covers : Holds(c, j) <=> j = i, \A j : ~Holds(c, j)'
    PROVE  \A j \in Covers : Balanced(j)'
<1> TAKE j \in Covers
<1>1. Events!Naming(j)' = Events!Naming(j) /\ Balanced(j) /\ links[j] \in Nat
  BY NamesStay, LinksAre DEF EventsInv
<1>2. /\ Cardinality(Held(j)') \in Nat
      /\ j = i => Cardinality(Held(j)') = Cardinality(Held(j)) - 1
      /\ j # i => Cardinality(Held(j)') = Cardinality(Held(j))
  BY OneHolder
<1>3. Cardinality(Events!Naming(j)) \in Nat /\ Cardinality(Held(j)) \in Nat
  BY Counts
<1>4. links'[j] \in Nat
  BY UnlinkCounts, EventFacts
<1> QED BY <1>1, <1>2, <1>3, <1>4, UnlinkCounts DEF Balanced

(* A request that holds what it held. *)
LEMMA HeldOn ==
    ASSUME EventsInv, NEW c \in Calls, \A d \in Calls \ {c} : covering'[d] = covering[d], activities' = activities,
           UNCHANGED <<links, faulty>>, \A j \in Covers : Holds(c, j)' <=> Holds(c, j)
    PROVE  \A j \in Covers : Balanced(j)'
<1> TAKE j \in Covers
<1>1. Events!Naming(j)' = Events!Naming(j) /\ Balanced(j)
  BY NamesStay DEF EventsInv
<1>2. Cardinality(Held(j)') = Cardinality(Held(j))
  BY OneHolder
<1> QED BY <1>1, <1>2 DEF Balanced

LEMMA CrashCounts ==
    ASSUME EventsInv, NEW c \in Calls, Events!Crash(c)
    PROVE  EventsInv'
<1>1. Events!Set(c, Events!Idle) /\ faulty' = TRUE /\ UNCHANGED <<activities, links>>
  BY DEF Events!Crash
<1>2. covering'[c] = Events!Idle /\ \A d \in Calls \ {c} : covering'[d] = covering[d]
  BY <1>1, EventSet, EventIdle DEF EventsInv
<1>3. \A j : ~Holds(c, j)'
  BY <1>2, EventIdle DEF Holds
<1>4. \A j \in Covers : Balanced(j)'
  <2> TAKE j \in Covers
  <2>1. Events!Naming(j)' = Events!Naming(j) /\ Balanced(j) /\ links[j] \in Nat
    BY <1>1, NamesStay, LinksAre DEF EventsInv
  <2>2. Cardinality(Held(j)') \in Nat /\ Cardinality(Held(j)') <= Cardinality(Held(j))
    BY <1>2, <1>3, OneHolder, Counts
  <2>3. Cardinality(Events!Naming(j)) \in Nat /\ Cardinality(Held(j)) \in Nat
    BY Counts
  <2> QED BY <1>1, <2>1, <2>2, <2>3 DEF Balanced
<1>5. EventKnown(c)'
  BY <1>2, EventIdle, NothingKnown
<1>6. links' \in [Covers -> 0 .. MaxLinks] /\ faulty' \in BOOLEAN
  BY <1>1 DEF EventsInv, Events!TypeOK
<1> QED BY <1>1, <1>4, <1>5, <1>6, EventIdle, EventCallStep

LEMMA DropCoverCounts == ASSUME EventsInv, NEW c \in Calls, Events!DropCover(c) PROVE EventsInv'
<1> PICK i : i = covering[c].cover
  OBVIOUS
<1>1. covering[c].pc = "unlink" /\ Events!Unlink(i) /\ Events!Set(c, Events!Idle) /\ activities' = activities
  BY DEF Events!DropCover
<1>2. i \in Covers
  BY <1>1, EventCalls DEF EventsInv
<1>3. covering'[c] = Events!Idle /\ \A d \in Calls \ {c} : covering'[d] = covering[d]
  BY <1>1, EventSet, EventIdle DEF EventsInv
<1>4. (\A j : ~Holds(c, j)') /\ \A j \in Covers : Holds(c, j) <=> j = i
  BY <1>1, <1>3, EventIdle DEF Holds
<1>5. \A j \in Covers : Balanced(j)'
  BY <1>1, <1>2, <1>3, <1>4, GivenBack
<1>6. EventKnown(c)'
  BY <1>3, EventIdle, NothingKnown
<1> QED BY <1>1, <1>2, <1>5, <1>6, UnlinkCounts, EventIdle, EventCallStep

LEMMA BeginCreateCounts ==
    ASSUME EventsInv, NEW c \in Calls, NEW a \in ActivityIds, NEW cover \in Covers \cup {NoCover},
           Events!BeginCreate(c, a, cover)
    PROVE  EventsInv'
<1> DEFINE call == [pc |-> "insert", id |-> a, cover |-> cover]
<1>1. /\ covering[c] = Events!Idle /\ activities[a] = NotYet /\ Events!Set(c, call) /\ UNCHANGED <<activities, faulty>>
      /\ \A d \in Calls : covering[d].pc = "insert" => covering[d].id # a
      /\ cover # NoCover => Events!Link(cover)
      /\ cover = NoCover => UNCHANGED links
  BY DEF Events!BeginCreate
<1>2. call \in Events!CallRow /\ call.pc = "insert" /\ call.id = a /\ call.cover = cover
  BY DEF Events!CallRow
<1> HIDE DEF call
<1>3. covering'[c] = call /\ \A d \in Calls \ {c} : covering'[d] = covering[d]
  BY <1>1, <1>2, EventSet DEF EventsInv
<1>4. (\A j : ~Holds(c, j)) /\ \A j \in Covers : Holds(c, j)' <=> j = cover
  BY <1>1, <1>2, <1>3, EventIdle DEF Holds
<1>5. (\A j \in Covers : Balanced(j)') /\ links' \in [Covers -> 0 .. MaxLinks]
  <2>1. CASE cover # NoCover
    BY <1>1, <1>3, <1>4, <2>1, Taken, LinkCounts
  <2>2. CASE cover = NoCover
    <3>1. \A j \in Covers : Holds(c, j)' <=> Holds(c, j)
      BY <1>4, <2>2, EventFacts
    <3> QED BY <1>1, <1>3, <2>2, <3>1, HeldOn DEF EventsInv, Events!TypeOK
  <2> QED BY <2>1, <2>2
<1>6. EventKnown(c)'
  BY <1>1, <1>2, <1>3 DEF EventKnown, Updating
<1>7. faulty' \in BOOLEAN
  BY <1>1 DEF EventsInv, Events!TypeOK
<1> QED BY <1>1, <1>2, <1>5, <1>6, <1>7, EventCallStep

LEMMA BeginUpdateCounts ==
    ASSUME EventsInv, NEW c \in Calls, NEW a \in ActivityIds, NEW change \in Events!Changes,
           Events!BeginUpdate(c, a, change)
    PROVE  EventsInv'
<1> DEFINE pc == IF "cover" \in DOMAIN change THEN "link" ELSE "write"
           call == [pc |-> pc, id |-> a, change |-> change, seen |-> activities[a], tries |-> 1]
<1>1. covering[c] = Events!Idle /\ activities[a] # NotYet /\ Events!Set(c, call) /\ UNCHANGED <<activities, links, faulty>>
  BY DEF Events!BeginUpdate
<1>2. activities[a] \in Events!Row /\ activities[a].version \in Nat
  BY <1>1, EventRows DEF EventsInv
<1>3. /\ call \in Events!CallRow /\ call.pc = pc /\ pc \in {"link", "write"} /\ call.id = a
      /\ call.change = change /\ call.seen = activities[a]
  BY <1>2, EventFacts DEF Events!CallRow
<1>4. pc = "link" <=> "cover" \in DOMAIN change
  OBVIOUS
<1> HIDE DEF call, pc
<1>5. covering'[c] = call /\ \A d \in Calls \ {c} : covering'[d] = covering[d]
  BY <1>1, <1>3, EventSet DEF EventsInv
<1>6. \A j \in Covers : Holds(c, j)' <=> Holds(c, j)
  BY <1>1, <1>3, <1>4, <1>5, EventIdle DEF Holds
<1>7. \A j \in Covers : Balanced(j)'
  BY <1>1, <1>5, <1>6, HeldOn
<1>8. EventKnown(c)'
  <2>1. /\ covering'[c].pc = pc /\ covering'[c].id = a /\ covering'[c].change = change
        /\ covering'[c].seen = activities[a] /\ activities'[a] = activities[a]
    BY <1>1, <1>3, <1>5
  <2>2. pc # "again" /\ pc # "insert"
    BY <1>3
  <2>3. activities[a].version <= activities[a].version
    BY <1>2
  <2> QED BY <1>1, <1>4, <2>1, <2>2, <2>3 DEF EventKnown
<1>9. links' \in [Covers -> 0 .. MaxLinks] /\ faulty' \in BOOLEAN
  BY <1>1 DEF EventsInv, Events!TypeOK
<1> QED BY <1>1, <1>3, <1>7, <1>8, <1>9, EventCallStep

LEMMA ResolveCounts == ASSUME EventsInv, NEW c \in Calls, Events!ResolveCover(c) PROVE EventsInv'
<1> DEFINE call == [covering[c] EXCEPT !.pc = "write"]
<1> PICK i : i = covering[c].change.cover
  OBVIOUS
<1>1. covering[c].pc = "link" /\ Events!Link(i) /\ Events!Set(c, call) /\ UNCHANGED <<activities, faulty>>
  BY DEF Events!ResolveCover
<1>2. covering[c] \in UpdateRows /\ "cover" \in DOMAIN covering[c].change
  BY <1>1, EventCalls DEF EventsInv, EventKnown, Updating
<1>3. i \in Covers
  BY <1>2, EventCovers DEF UpdateRows
<1>4. /\ call \in Events!CallRow /\ call.pc = "write" /\ call.id = covering[c].id /\ call.seen = covering[c].seen
      /\ call.change = covering[c].change
  BY <1>2 DEF UpdateRows, Updating, Events!CallRow
<1> HIDE DEF call
<1>5. covering'[c] = call /\ \A d \in Calls \ {c} : covering'[d] = covering[d]
  BY <1>1, <1>4, EventSet DEF EventsInv
<1>6. (\A j : ~Holds(c, j)) /\ \A j \in Covers : Holds(c, j)' <=> j = i
  BY <1>1, <1>2, <1>4, <1>5 DEF Holds
<1>7. \A j \in Covers : Balanced(j)'
  BY <1>1, <1>3, <1>5, <1>6, Taken
<1>8. EventKnown(c)
  BY DEF EventsInv
<1>9. EventKnown(c)'
  BY <1>1, <1>4, <1>5, <1>8 DEF EventKnown, Updating
<1>10. faulty' \in BOOLEAN
  BY <1>1 DEF EventsInv, Events!TypeOK
<1> QED BY <1>1, <1>3, <1>4, <1>7, <1>9, <1>10, LinkCounts, EventCallStep

LEMMA ReadAgainCounts == ASSUME EventsInv, NEW c \in Calls, Events!ReadAgain(c) PROVE EventsInv'
<1> PICK old : old = covering[c]
  OBVIOUS
<1> DEFINE pc == IF "cover" \in DOMAIN old.change THEN "link" ELSE "write"
           call == [old EXCEPT !.pc = pc, !.seen = activities[old.id], !.tries = @ + 1]
<1>1. old.pc = "again" /\ Events!Set(c, call) /\ UNCHANGED <<activities, links, faulty>>
  BY DEF Events!ReadAgain
<1>2. old \in UpdateRows /\ activities[old.id] # NotYet /\ old.tries < MaxUpdateRetries
  BY <1>1, EventCalls DEF EventsInv, EventKnown, Updating
<1>3. activities[old.id] \in Events!Row /\ activities[old.id].version \in Nat /\ old.id \in ActivityIds
  BY <1>2, EventRows DEF EventsInv, UpdateRows
<1>4. old.tries + 1 \in 1 .. MaxUpdateRetries
  BY <1>2, EventFacts DEF UpdateRows
<1>5. pc \in {"link", "write"} /\ (pc = "link" <=> "cover" \in DOMAIN old.change)
  OBVIOUS
<1> HIDE DEF pc
<1>6. call \in UpdateRows /\ call.pc = pc /\ call.id = old.id /\ call.change = old.change /\ call.seen = activities[old.id]
  BY <1>2, <1>3, <1>4, <1>5 DEF UpdateRows, Updating
<1>7. call \in Events!CallRow
  BY <1>6 DEF UpdateRows, Updating, Events!CallRow
<1> HIDE DEF call
<1>8. covering'[c] = call /\ \A d \in Calls \ {c} : covering'[d] = covering[d]
  BY <1>1, <1>7, EventSet DEF EventsInv
<1>9. \A j \in Covers : Holds(c, j)' <=> Holds(c, j)
  BY <1>1, <1>5, <1>6, <1>8 DEF Holds
<1>10. \A j \in Covers : Balanced(j)'
  BY <1>1, <1>8, <1>9, HeldOn
<1>11. EventKnown(c)'
  <2>1. /\ covering'[c].pc = pc /\ covering'[c].id = old.id /\ covering'[c].change = old.change
        /\ covering'[c].seen = activities[old.id] /\ activities'[old.id] = activities[old.id]
    BY <1>1, <1>6, <1>8
  <2>2. pc # "again" /\ pc # "insert"
    BY <1>5
  <2>3. activities[old.id].version <= activities[old.id].version
    BY <1>3
  <2> QED BY <1>2, <1>5, <2>1, <2>2, <2>3 DEF EventKnown
<1>12. links' \in [Covers -> 0 .. MaxLinks] /\ faulty' \in BOOLEAN
  BY <1>1 DEF EventsInv, Events!TypeOK
<1> QED BY <1>1, <1>5, <1>6, <1>7, <1>10, <1>11, <1>12, EventCallStep

LEMMA DropNewCounts == ASSUME EventsInv, NEW c \in Calls, Events!DropNewCover(c) PROVE EventsInv'
<1> PICK old : old = covering[c]
  OBVIOUS
<1> DEFINE call == IF old.pc = "lost" /\ old.tries < MaxUpdateRetries THEN [old EXCEPT !.pc = "again"] ELSE Events!Idle
<1>1. /\ old.pc \in {"lost", "give up"} /\ Events!Set(c, call) /\ activities' = activities
      /\ IF "cover" \in DOMAIN old.change THEN Events!Unlink(old.change.cover) ELSE UNCHANGED <<links, faulty>>
  BY DEF Events!DropNewCover
<1>2. old \in UpdateRows /\ EventKnown(c)
  BY <1>1, EventCalls DEF EventsInv, Updating
<1>3. /\ call \in Events!CallRow /\ call.pc \in {"again", "idle"}
      /\ call.pc = "again" => /\ call.id = old.id /\ call.seen = old.seen /\ call.change = old.change
                             /\ call.tries < MaxUpdateRetries
  BY <1>2, EventIdle DEF UpdateRows, Updating, Events!CallRow
<1> HIDE DEF call
<1>4. covering'[c] = call /\ \A d \in Calls \ {c} : covering'[d] = covering[d]
  BY <1>1, <1>3, EventSet DEF EventsInv
<1>5. \A j : ~Holds(c, j)'
  BY <1>3, <1>4 DEF Holds
<1>6. (\A j \in Covers : Balanced(j)') /\ links' \in [Covers -> 0 .. MaxLinks] /\ faulty' \in BOOLEAN
  <2>1. CASE "cover" \in DOMAIN old.change
    <3>1. old.change.cover \in Covers
      BY <1>2, <2>1, EventCovers DEF UpdateRows
    <3>2. \A j \in Covers : Holds(c, j) <=> j = old.change.cover
      BY <1>1, <2>1 DEF Holds
    <3> QED BY <1>1, <1>4, <1>5, <2>1, <3>1, <3>2, GivenBack, UnlinkCounts
  <2>2. CASE "cover" \notin DOMAIN old.change
    <3>1. \A j \in Covers : Holds(c, j)' <=> Holds(c, j)
      BY <1>1, <1>5, <2>2 DEF Holds
    <3> QED BY <1>1, <1>4, <2>2, <3>1, HeldOn DEF EventsInv, Events!TypeOK
  <2> QED BY <2>1, <2>2
<1>7. EventKnown(c)'
  BY <1>1, <1>2, <1>3, <1>4 DEF EventKnown, Updating
<1> QED BY <1>1, <1>3, <1>6, <1>7, EventCallStep

LEMMA CreateCounts == ASSUME EventsInv, NEW c \in Calls, Events!CreateActivity(c) PROVE EventsInv'
<1> PICK old, a, i : old = covering[c] /\ a = covering[c].id /\ i = covering[c].cover
  OBVIOUS
<1>1. old.pc = "insert" /\ UNCHANGED <<links, faulty>>
  BY DEF Events!CreateActivity
<1>2. a \in ActivityIds /\ i \in Covers \cup {NoCover} /\ activities[a] = NotYet
      /\ \A d \in Calls \ {c} : covering[d].pc = "insert" => covering[d].id # a
  BY <1>1, EventCalls DEF EventsInv, EventKnown
<1>3. \A j : Holds(c, j) <=> j = i
  BY <1>1 DEF Holds
<1>4. links' \in [Covers -> 0 .. MaxLinks] /\ faulty' \in BOOLEAN
  BY <1>1 DEF EventsInv, Events!TypeOK
<1>5. ASSUME activities' = [activities EXCEPT ![a] = [cover |-> i, deleted |-> FALSE, version |-> 0]], Events!Set(c, Events!Idle)
      PROVE  EventsInv'
  <2> DEFINE new == [cover |-> i, deleted |-> FALSE, version |-> 0]
  <2>1. new \in Events!Row /\ new.cover = i
    BY <1>2, EventFacts DEF Events!Row
  <2> HIDE DEF new
  <2>2. new # NotYet
    BY <2>1, EventFacts
  <2>3. /\ activities' \in [ActivityIds -> Events!Row \cup {NotYet}] /\ activities'[a] = new
        /\ \A b \in ActivityIds \ {a} : activities'[b] = activities[b]
    BY <1>2, <1>5, <2>1 DEF EventsInv, Events!TypeOK, new
  <2>4. /\ covering' \in [Calls -> Events!CallRow] /\ covering'[c] = Events!Idle
        /\ \A d \in Calls \ {c} : covering'[d] = covering[d]
    BY <1>5, EventSet, EventIdle DEF EventsInv
  <2>5. Events!TypeOK'
    BY <1>4, <2>3, <2>4 DEF Events!TypeOK
  <2>6. EventRowsMove
    <3> SUFFICES ASSUME NEW b \in ActivityIds, activities[b] # NotYet
                 PROVE  /\ activities'[b] # NotYet /\ activities[b].version <= activities'[b].version
                        /\ activities[b].version = activities'[b].version => activities'[b].cover = activities[b].cover
      BY DEF EventRowsMove
    <3>1. activities'[b] = activities[b]
      BY <1>2, <2>3
    <3> QED BY <3>1, EventRows DEF EventsInv
  <2>7. \A d \in Calls : EventKnown(d)'
    <3>1. EventKnown(c)'
      BY <2>4, EventIdle, NothingKnown
    <3>2. \A d \in Calls \ {c} : covering[d].pc = "insert" => activities'[covering[d].id] = NotYet
      <4> TAKE d \in Calls \ {c}
      <4> HAVE covering[d].pc = "insert"
      <4>1. covering[d].id \in ActivityIds /\ activities[covering[d].id] = NotYet /\ covering[d].id # a
        BY <1>2, EventCalls DEF EventsInv, EventKnown
      <4> QED BY <2>3, <4>1
    <3>3. covering'[c].pc # "insert"
      BY <2>4, EventIdle
    <3> QED BY <2>4, <2>5, <2>6, <3>1, <3>2, <3>3, EventOthers
  <2>8. IsFiniteSet(Published') /\ IsFiniteSet(Busy')
    <3>1. Published' \subseteq Published \cup {a}
      BY <2>3 DEF Published
    <3> QED BY <2>4, <3>1, BusyStaysFinite, FS_AddElement, FS_Subset, ZenonT(60) DEF EventsInv
  <2>9. \A j \in Covers : Balanced(j)'
    <3> TAKE j \in Covers
    <3>1. ~Names(a, j) /\ (Names(a, j)' <=> j = i)
      BY <1>2, <2>1, <2>2, <2>3 DEF Names
    <3>2. ~Holds(c, j)'
      BY <2>4, EventIdle DEF Holds
    <3>3. /\ Cardinality(Events!Naming(j)') = Cardinality(Events!Naming(j)) + (IF j = i THEN 1 ELSE 0)
          /\ Cardinality(Held(j)') = Cardinality(Held(j)) - (IF j = i THEN 1 ELSE 0)
      BY <1>2, <1>3, <2>3, <2>4, <3>1, <3>2, OneName, OneHolder, Counts
    <3>4. Balanced(j) /\ links[j] \in Nat /\ Cardinality(Events!Naming(j)) \in Nat /\ Cardinality(Held(j)) \in Nat
      BY Counts, LinksAre DEF EventsInv
    <3> QED BY <1>1, <3>3, <3>4 DEF Balanced
  <2> QED BY <2>5, <2>7, <2>8, <2>9 DEF EventsInv
<1>6. ASSUME Events!Set(c, IF i = NoCover THEN Events!Idle ELSE [pc |-> "unlink", cover |-> i]), activities' = activities
      PROVE  EventsInv'
  <2> PICK call : call = IF i = NoCover THEN Events!Idle ELSE [pc |-> "unlink", cover |-> i]
    OBVIOUS
  <2>1. /\ call \in Events!CallRow /\ call.pc \in {"idle", "unlink"} /\ Events!Set(c, call)
        /\ i = NoCover => call = Events!Idle
        /\ i # NoCover => call.pc = "unlink" /\ call.cover = i
    BY <1>2, <1>6, EventIdle DEF Events!CallRow
  <2>2. covering'[c] = call /\ \A d \in Calls \ {c} : covering'[d] = covering[d]
    BY <2>1, EventSet DEF EventsInv
  <2>3. \A j \in Covers : Holds(c, j)' <=> Holds(c, j)
    BY <1>3, <2>1, <2>2, EventIdle, EventFacts DEF Holds
  <2>4. \A j \in Covers : Balanced(j)'
    BY <1>1, <1>6, <2>2, <2>3, HeldOn
  <2>5. EventKnown(c)'
    BY <2>1, <2>2, NothingKnown
  <2> QED BY <1>4, <1>6, <2>1, <2>4, <2>5, EventCallStep
<1> QED BY <1>5, <1>6 DEF Events!CreateActivity

(* An update that is written hands its count to the row and takes the row's. *)
LEMMA UpdateCounts == ASSUME EventsInv, NEW c \in Calls, Events!UpdateActivity(c) PROVE EventsInv'
<1> PICK old, a : old = covering[c] /\ a = covering[c].id
  OBVIOUS
<1>1. old.pc = "write" /\ UNCHANGED <<links, faulty>>
  BY DEF Events!UpdateActivity
<1>2. old \in UpdateRows /\ EventKnown(c)
  BY <1>1, EventCalls DEF EventsInv, Updating
<1>3. a \in ActivityIds /\ activities[a] # NotYet
  BY <1>1, <1>2 DEF UpdateRows, EventKnown, Updating
<1>4. /\ activities[a] \in Events!Row /\ activities[a].cover \in Covers \cup {NoCover}
      /\ activities[a].deleted \in BOOLEAN /\ activities[a].version \in Nat
  BY <1>3, EventRows DEF EventsInv
<1>5. links' \in [Covers -> 0 .. MaxLinks] /\ faulty' \in BOOLEAN
  BY <1>1 DEF EventsInv, Events!TypeOK
<1> DEFINE want == Events!CoverWanted(old)
           new == [cover |-> want, deleted |-> activities[a].deleted, version |-> activities[a].version + 1]
           next == IF "cover" \in DOMAIN old.change /\ old.seen.cover # NoCover
                   THEN [pc |-> "unlink", cover |-> old.seen.cover] ELSE Events!Idle
           lost == [old EXCEPT !.pc = IF Events!VersionHolds(old) THEN "give up" ELSE "lost"]
<1>6. ASSUME Events!VersionHolds(old), activities[a].version < MaxVersion, activities' = [activities EXCEPT ![a] = new], Events!Set(c, next)
      PROVE  EventsInv'
  <2>1. old.seen.version = activities[a].version /\ old.seen.cover = activities[a].cover
    BY <1>1, <1>2, <1>6 DEF Events!VersionHolds, EventKnown, Updating
  <2>2. want \in Covers \cup {NoCover}
    BY <1>2, <1>4, <2>1, EventCovers DEF Events!CoverWanted, UpdateRows
  <2>3. want = IF "cover" \in DOMAIN old.change THEN old.change.cover ELSE activities[a].cover
    BY <2>1 DEF Events!CoverWanted
  <2> HIDE DEF want
  <2>4. new \in Events!Row /\ new.cover = want /\ new.version = activities[a].version + 1
    <3>1. activities[a].version + 1 \in 0 .. MaxVersion
      BY <1>4, <1>6, EventFacts
    <3> QED BY <1>4, <2>2, <3>1 DEF Events!Row
  <2> HIDE DEF new
  <2>5. new # NotYet
    BY <2>4, EventFacts
  <2>6. /\ activities' \in [ActivityIds -> Events!Row \cup {NotYet}] /\ activities'[a] = new
        /\ \A b \in ActivityIds \ {a} : activities'[b] = activities[b]
    BY <1>3, <1>6, <2>4 DEF EventsInv, Events!TypeOK
  <2>7. /\ next \in Events!CallRow /\ next.pc \in {"idle", "unlink"}
        /\ next.pc = "unlink" <=> "cover" \in DOMAIN old.change /\ activities[a].cover # NoCover
        /\ next.pc = "unlink" => next.cover = activities[a].cover
    <3>1. CASE "cover" \in DOMAIN old.change /\ old.seen.cover # NoCover
      <4>1. next = [pc |-> "unlink", cover |-> activities[a].cover] /\ activities[a].cover \in Covers
        BY <1>4, <2>1, <3>1
      <4> QED BY <2>1, <3>1, <4>1 DEF Events!CallRow
    <3>2. CASE ~("cover" \in DOMAIN old.change /\ old.seen.cover # NoCover)
      <4>1. next = Events!Idle
        BY <3>2
      <4> QED BY <2>1, <3>2, <4>1, EventIdle
    <3> QED BY <3>1, <3>2
  <2> HIDE DEF next
  <2>8. /\ covering' \in [Calls -> Events!CallRow] /\ covering'[c] = next
        /\ \A d \in Calls \ {c} : covering'[d] = covering[d]
    BY <1>6, <2>7, EventSet DEF EventsInv
  <2>9. Events!TypeOK'
    BY <1>5, <2>6, <2>8 DEF Events!TypeOK
  <2>10. EventRowsMove
    <3> SUFFICES ASSUME NEW b \in ActivityIds, activities[b] # NotYet
                 PROVE  /\ activities'[b] # NotYet /\ activities[b].version <= activities'[b].version
                        /\ activities[b].version = activities'[b].version => activities'[b].cover = activities[b].cover
      BY DEF EventRowsMove
    <3>1. CASE b = a
      BY <1>4, <2>4, <2>5, <2>6, <3>1
    <3>2. CASE b # a
      <4>1. activities'[b] = activities[b]
        BY <2>6, <3>2
      <4> QED BY <4>1, EventRows DEF EventsInv
    <3> QED BY <3>1, <3>2
  <2>11. \A d \in Calls : EventKnown(d)'
    <3>1. EventKnown(c)'
      BY <2>7, <2>8, NothingKnown
    <3>2. \A d \in Calls \ {c} : covering[d].pc = "insert" => activities'[covering[d].id] = NotYet
      <4> TAKE d \in Calls \ {c}
      <4> HAVE covering[d].pc = "insert"
      <4>1. covering[d].id \in ActivityIds /\ activities[covering[d].id] = NotYet
        BY EventCalls DEF EventsInv, EventKnown
      <4> QED BY <1>3, <2>6, <4>1
    <3>3. covering'[c].pc # "insert"
      BY <2>7, <2>8
    <3> QED BY <2>8, <2>9, <2>10, <3>1, <3>2, <3>3, EventOthers
  <2>12. IsFiniteSet(Published') /\ IsFiniteSet(Busy')
    <3>1. Published' \subseteq Published
      BY <1>3, <2>6 DEF Published
    <3> QED BY <2>8, <3>1, BusyStaysFinite, FS_Subset DEF EventsInv
  <2>13. \A j \in Covers : Balanced(j)'
    <3> TAKE j \in Covers
    <3> DEFINE covers == "cover" \in DOMAIN old.change
    <3>1. Names(a, j) <=> activities[a].cover = j
      BY <1>3 DEF Names
    <3>2. Names(a, j)' <=> want = j
      BY <2>4, <2>5, <2>6 DEF Names
    <3>3. Holds(c, j) <=> covers /\ old.change.cover = j
      BY <1>1 DEF Holds
    <3>4. Holds(c, j)' <=> covers /\ activities[a].cover = j
      BY <2>7, <2>8, EventFacts DEF Holds
    <3> HIDE DEF covers
    <3>5. want = IF covers THEN old.change.cover ELSE activities[a].cover
      BY <2>3 DEF covers
    <3>6. /\ Names(a, j)' /\ ~Names(a, j) => Cardinality(Events!Naming(j)') = Cardinality(Events!Naming(j)) + 1
          /\ Names(a, j) /\ ~Names(a, j)' => Cardinality(Events!Naming(j)') = Cardinality(Events!Naming(j)) - 1
          /\ (Names(a, j)' <=> Names(a, j)) => Cardinality(Events!Naming(j)') = Cardinality(Events!Naming(j))
      BY <1>3, <2>6, OneName
    <3>7. /\ Holds(c, j)' /\ ~Holds(c, j) => Cardinality(Held(j)') = Cardinality(Held(j)) + 1
          /\ Holds(c, j) /\ ~Holds(c, j)' => Cardinality(Held(j)') = Cardinality(Held(j)) - 1
          /\ (Holds(c, j)' <=> Holds(c, j)) => Cardinality(Held(j)') = Cardinality(Held(j))
      BY <2>8, OneHolder
    <3>8. Balanced(j) /\ links[j] \in Nat /\ Cardinality(Events!Naming(j)) \in Nat /\ Cardinality(Held(j)) \in Nat
      BY Counts, LinksAre DEF EventsInv
    <3>9. Cardinality(Events!Naming(j)') + Cardinality(Held(j)') = Cardinality(Events!Naming(j)) + Cardinality(Held(j))
      <4>1. CASE ~covers
        BY <3>1, <3>2, <3>3, <3>4, <3>5, <3>6, <3>7, <4>1
      <4>2. CASE covers /\ old.change.cover = activities[a].cover
        BY <3>1, <3>2, <3>3, <3>4, <3>5, <3>6, <3>7, <4>2
      <4>3. CASE covers /\ old.change.cover # activities[a].cover
        BY <3>1, <3>2, <3>3, <3>4, <3>5, <3>6, <3>7, <3>8, <4>3
      <4> QED BY <4>1, <4>2, <4>3
    <3> QED BY <1>1, <3>8, <3>9 DEF Balanced
  <2> QED BY <2>9, <2>11, <2>12, <2>13 DEF EventsInv
<1>7. ASSUME Events!Set(c, lost), activities' = activities PROVE EventsInv'
  <2>1. /\ lost \in Events!CallRow /\ lost.pc \in {"give up", "lost"} /\ lost.id = old.id
        /\ lost.change = old.change /\ lost.seen = old.seen
    BY <1>2 DEF UpdateRows, Updating, Events!CallRow
  <2> HIDE DEF lost
  <2>2. covering'[c] = lost /\ \A d \in Calls \ {c} : covering'[d] = covering[d]
    BY <1>7, <2>1, EventSet DEF EventsInv
  <2>3. \A j \in Covers : Holds(c, j)' <=> Holds(c, j)
    BY <1>1, <2>1, <2>2 DEF Holds
  <2>4. \A j \in Covers : Balanced(j)'
    BY <1>1, <1>7, <2>2, <2>3, HeldOn
  <2>5. EventKnown(c)'
    BY <1>1, <1>2, <1>7, <2>1, <2>2 DEF EventKnown, Updating
  <2> QED BY <1>5, <1>7, <2>1, <2>4, <2>5, EventCallStep
<1> QED BY <1>6, <1>7 DEF Events!UpdateActivity

LEMMA SoftDeleteCounts == ASSUME EventsInv, NEW a \in ActivityIds, Events!SoftDelete(a) PROVE EventsInv'
<1> DEFINE new == [activities[a] EXCEPT !.deleted = TRUE]
<1>1. activities[a] # NotYet /\ activities' = [activities EXCEPT ![a] = new] /\ UNCHANGED <<links, covering, faulty>>
  BY DEF Events!SoftDelete
<1>2. activities[a] \in Events!Row
  BY <1>1, EventRows DEF EventsInv
<1>3. new \in Events!Row /\ new.cover = activities[a].cover /\ new.version = activities[a].version
  BY <1>2 DEF Events!Row
<1> HIDE DEF new
<1>4. /\ activities' \in [ActivityIds -> Events!Row \cup {NotYet}] /\ activities'[a] = new /\ new # NotYet
      /\ \A b \in ActivityIds \ {a} : activities'[b] = activities[b]
  BY <1>1, <1>3, EventFacts DEF EventsInv, Events!TypeOK
<1>5. \A b \in ActivityIds :
         /\ activities'[b] = NotYet <=> activities[b] = NotYet
         /\ activities[b] # NotYet => activities'[b].cover = activities[b].cover /\ activities'[b].version = activities[b].version
  BY <1>1, <1>3, <1>4
<1>6. Events!TypeOK'
  BY <1>1, <1>4 DEF EventsInv, Events!TypeOK
<1>7. \A c \in Calls : EventKnown(c)'
  <2> TAKE c \in Calls
  <2>1. covering'[c] = covering[c] /\ EventKnown(c)
    BY <1>1 DEF EventsInv
  <2>2. covering[c].pc \in Updating \cup {"insert"} => covering[c].id \in ActivityIds
    BY EventCalls DEF EventsInv, UpdateRows
  <2> QED BY <1>1, <1>5, <2>1, <2>2 DEF EventKnown, Updating
<1>8. \A j : Events!Naming(j)' = Events!Naming(j) /\ Held(j)' = Held(j)
  BY <1>1, <1>5 DEF Events!Naming, Held, Holds
<1>9. IsFiniteSet(Published') /\ IsFiniteSet(Busy')
  <2>1. Published' = Published /\ Busy' = Busy
    BY <1>1, <1>5 DEF Published, Busy
  <2> QED BY <2>1 DEF EventsInv
<1>10. \A j \in Covers : Balanced(j)'
  BY <1>1, <1>8 DEF Balanced, EventsInv
<1> QED BY <1>6, <1>7, <1>9, <1>10 DEF EventsInv

LEMMA EventsStart == ASSUME Events!Init PROVE EventsInv
<1>1. Events!TypeOK
  <2>1. 0 \in 0 .. MaxLinks
    BY EventFacts
  <2> QED BY <2>1, EventIdle DEF Events!Init, Events!TypeOK
<1>2. Published = {} /\ Busy = {} /\ \A i : Events!Naming(i) = {} /\ Held(i) = {}
  BY EventIdle DEF Events!Init, Published, Busy, Events!Naming, Held, Holds
<1>3. \A c \in Calls : EventKnown(c)
  BY EventIdle DEF Events!Init, EventKnown, Updating
<1> QED BY <1>1, <1>2, <1>3, FS_EmptySet DEF EventsInv, Balanced, Events!Init

LEMMA EventsStep == ASSUME EventsInv, [Events!Next]_(Events!vars) PROVE EventsInv'
<1>1. CASE UNCHANGED Events!vars
  BY <1>1
  DEF Events!vars, EventsInv, Events!TypeOK, Published, Busy, EventKnown, Balanced,
     Events!Naming, Held, Holds
<1>2. ASSUME NEW a \in ActivityIds, Events!SoftDelete(a) PROVE EventsInv'
  BY <1>2, SoftDeleteCounts
<1>3. ASSUME NEW c \in Calls,
             \/ Events!CreateActivity(c) \/ Events!ResolveCover(c) \/ Events!UpdateActivity(c) \/ Events!DropNewCover(c)
             \/ Events!ReadAgain(c) \/ Events!DropCover(c) \/ Events!Crash(c)
      PROVE  EventsInv'
  BY <1>3, CreateCounts, ResolveCounts, UpdateCounts, DropNewCounts, ReadAgainCounts,
     DropCoverCounts, CrashCounts
<1>4. ASSUME NEW c \in Calls, NEW a \in ActivityIds,
             \/ \E cover \in Covers \cup {NoCover} : Events!BeginCreate(c, a, cover)
             \/ \E change \in Events!Changes : Events!BeginUpdate(c, a, change)
      PROVE  EventsInv'
  BY <1>4, BeginCreateCounts, BeginUpdateCounts
<1> QED BY <1>1, <1>2, <1>3, <1>4 DEF Events!Next

(* An uploaded cover has at least one link for each activity that names it,  *)
(* and exactly that many once all is quiet, unless a request died or a count *)
(* could not be given back (activity.go: resolveCover, Update, unlinkIf).    *)
THEOREM CoversStayCounted == Events!Spec => []CoversAreCounted
<1>1. EventsInv => CoversAreCounted
  <2> SUFFICES ASSUME EventsInv, NEW i \in Covers
               PROVE  /\ links[i] >= Cardinality(Events!Naming(i))
                      /\ ~faulty /\ (\A c \in Calls : covering[c] = Events!Idle) => links[i] = Cardinality(Events!Naming(i))
    BY EventCounts DEF CoversAreCounted, Events!CoversAreCounted
  <2>1. Balanced(i) /\ links[i] \in Nat /\ Cardinality(Events!Naming(i)) \in Nat /\ Cardinality(Held(i)) \in Nat
    BY Counts, LinksAre DEF EventsInv
  <2>2. ASSUME \A c \in Calls : covering[c] = Events!Idle PROVE Cardinality(Held(i)) = 0
    <3>1. Held(i) = {}
      BY <2>2, EventIdle DEF Held, Holds
    <3> QED BY <3>1, FS_EmptySet
  <2> QED BY <2>1, <2>2 DEF Balanced
<1> QED BY <1>1, EventsStart, EventsStep, PTL DEF Events!Spec

-----------------------------------------------------------------------------
(* NotificationHub. *)

(* Type correctness, with what a program counter says of the values held.  *)

RunPoints ==
    /\ run.pc \in {"received", "lock"} => run.op \in {"add", "remove"} /\ run.client \in Client
    /\ run.pc \in {"select", "stopped"} => run.op = "none"

\* A notification that is broadcast has its row.
SendersPoint ==
    \A p \in Sender :
        /\ sender[p].pc \in {"lock", "push"} =>
              /\ sender[p].user \in User /\ sender[p].message \in Notification
              /\ row[sender[p].message] = sender[p].user
        /\ sender[p].pc # "push" => sender[p].todo = {}

WritersPoint ==
    \A c \in Client :
        /\ writer[c].pc = "write" => writer[c].message \in Notification
        /\ writer[c].pc # "write" => writer[c].message = None
        /\ writer[c].pc # "off" => handler[c] = "done"

TypeInv == TypeOK /\ RunPoints /\ SendersPoint /\ WritersPoint

LEMMA InitTypeInv == Init => TypeInv
<1> SUFFICES ASSUME Init PROVE TypeInv
    OBVIOUS
<1>1. chan \in [Client -> [open : BOOLEAN, buffer : Seq(Notification)]]
      /\ \A c \in Client : Len(chan[c].buffer) <= SendBuffer
    BY LimitAssumption DEF Init
<1>2. sender \in [Sender -> SenderState]
    BY DEF Init, SenderState, IdleSender
<1>3. clients \in [User -> SUBSET Client] /\ run \in RunState /\ writer \in [Client -> WriterState]
    BY DEF Init, RunState, IdleRun, WriterState
<1> QED
    BY <1>1, <1>2, <1>3
    DEF Init, TypeInv, TypeOK, RunPoints, SendersPoint, WritersPoint, IdleRun, IdleSender

\* A write to one buffer.
LEMMA BufferType ==
    ASSUME TypeOK, NEW c \in Client, NEW s \in Seq(Notification), Len(s) <= SendBuffer,
           chan' = [chan EXCEPT ![c].buffer = s]
    PROVE  /\ chan' \in [Client -> [open : BOOLEAN, buffer : Seq(Notification)]]
           /\ \A d \in Client : Len(chan'[d].buffer) <= SendBuffer
<1>1. chan[c] \in [open : BOOLEAN, buffer : Seq(Notification)]
    BY DEF TypeOK
<1>2. [chan[c] EXCEPT !.buffer = s] = [open |-> chan[c].open, buffer |-> s]
    BY <1>1
<1> DEFINE x == [open |-> chan[c].open, buffer |-> s]
<1>3. chan' = [chan EXCEPT ![c] = x]
    BY <1>2
<1>4. x \in [open : BOOLEAN, buffer : Seq(Notification)] /\ Len(x.buffer) <= SendBuffer
    BY <1>1
<1> DEFINE Channel == [open : BOOLEAN, buffer : Seq(Notification)]
<1>5. chan \in [Client -> Channel] /\ \A d \in Client : Len(chan[d].buffer) <= SendBuffer
    BY DEF TypeOK
<1>6. x \in Channel
    BY <1>4
<1> HIDE DEF x, Channel
<1>7. chan' \in [Client -> Channel] /\ \A d \in Client : Len(chan'[d].buffer) <= SendBuffer
    BY <1>3, <1>4, <1>5, <1>6
<1> QED
    BY <1>7 DEF Channel

LEMMA CloseSendType ==
    ASSUME TypeInv, NEW c \in Client, CloseSend(c)
    PROVE  /\ chan' \in [Client -> [open : BOOLEAN, buffer : Seq(Notification)]]
           /\ \A d \in Client : chan'[d].buffer = chan[d].buffer
           /\ \A d \in Client : Len(chan'[d].buffer) <= SendBuffer
           /\ run' \in RunState /\ RunPoints'
<1>1. chan[c] \in [open : BOOLEAN, buffer : Seq(Notification)]
    BY DEF TypeInv, TypeOK
<1> DEFINE x == [open |-> FALSE, buffer |-> chan[c].buffer]
<1>3. chan' = [chan EXCEPT ![c] = x]
    BY DEF CloseSend
<1>4. x \in [open : BOOLEAN, buffer : Seq(Notification)] /\ x.buffer = chan[c].buffer
    BY <1>1
<1> DEFINE Channel == [open : BOOLEAN, buffer : Seq(Notification)]
<1>6. chan \in [Client -> Channel] /\ \A d \in Client : Len(chan[d].buffer) <= SendBuffer
    BY DEF TypeInv, TypeOK
<1>7. x \in Channel
    BY <1>4
<1>5. run' \in RunState /\ RunPoints'
    BY DEF TypeInv, TypeOK, CloseSend, RunState, RunPoints, IdleRun
<1> HIDE DEF x, Channel
<1>8. chan' \in [Client -> Channel] /\ \A d \in Client : chan'[d].buffer = chan[d].buffer
    BY <1>3, <1>4, <1>6, <1>7
<1> QED
    BY <1>5, <1>6, <1>8 DEF Channel

\* The end of a user's turn in Send and SendBulk.
LEMMA NextUserType ==
    ASSUME TypeInv, NEW p \in Sender, NEW left \in SUBSET User, NextUser(p, left)
    PROVE  /\ sender' \in [Sender -> SenderState]
           /\ \A q \in Sender :
                 \/ sender'[q] = sender[q]
                 \/ sender'[q].pc \in {"idle", "create"} /\ sender'[q].todo = {}
<1>1. IdleSender \in SenderState /\ [IdleSender EXCEPT !.pc = "create", !.left = left] \in SenderState
    BY DEF IdleSender, SenderState
<1> QED
    BY <1>1 DEF TypeInv, TypeOK, NextUser, IdleSender

LEMMA StepTypeInv == TypeInv /\ [Step]_vars => TypeInv'
<1> SUFFICES ASSUME TypeInv, [Step]_vars PROVE TypeInv'
    OBVIOUS
<1> USE DEF hubVars, pumpVars
<1>run. ASSUME UNCHANGED run PROVE run' \in RunState /\ RunPoints'
    BY <1>run DEF TypeInv, TypeOK, RunPoints
<1>send. ASSUME UNCHANGED <<sender, row>> PROVE sender' \in [Sender -> SenderState] /\ SendersPoint'
    BY <1>send DEF TypeInv, TypeOK, SendersPoint
<1>write. ASSUME UNCHANGED <<writer, handler>> PROVE writer' \in [Client -> WriterState] /\ WritersPoint'
    BY <1>write DEF TypeInv, TypeOK, WritersPoint
<1>chan. ASSUME UNCHANGED chan
         PROVE  /\ chan' \in [Client -> [open : BOOLEAN, buffer : Seq(Notification)]]
                /\ \A c \in Client : Len(chan'[c].buffer) <= SendBuffer
    BY <1>chan DEF TypeInv, TypeOK
<1>rec. ASSUME NEW op \in {"add", "remove"}, NEW c \in Client, Receive(op, c)
        PROVE  run' \in RunState /\ RunPoints'
    BY <1>rec DEF Receive, RunState, RunPoints
<1>1. ASSUME NEW c \in Client, Upgrade(c) \/ ReadError(c) \/ CloseConn(c) PROVE TypeInv'
    <2>1. CASE Upgrade(c)
        <3>1. WritersPoint'
            BY <2>1 DEF Upgrade, TypeInv, TypeOK, WritersPoint
        <3> QED
            BY <2>1, <3>1, <1>run, <1>send, <1>chan DEF TypeInv, TypeOK, Upgrade
    <2>2. CASE ReadError(c)
        BY <2>2, <1>run, <1>send, <1>write, <1>chan DEF TypeInv, TypeOK, ReadError
    <2>3. CASE CloseConn(c)
        BY <2>3, <1>run, <1>send, <1>write, <1>chan DEF TypeInv, TypeOK, CloseConn
    <2> QED
        BY <1>1, <2>1, <2>2, <2>3
<1>2. ASSUME NEW c \in Client, StartPumps(c) PROVE TypeInv'
    <2>1. writer' \in [Client -> WriterState] /\ WritersPoint'
        BY <1>2 DEF StartPumps, TypeInv, TypeOK, WriterState, WritersPoint
    <2> QED
        BY <1>2, <2>1, <1>run, <1>send, <1>chan DEF TypeInv, TypeOK, StartPumps
<1>3. ASSUME NEW c \in Client, ReceiveRegister(c) \/ ReceiveUnregister(c) \/ ReceiveDropped(c)
      PROVE  TypeInv'
    <2>1. run' \in RunState /\ RunPoints'
        BY <1>3, <1>rec DEF ReceiveRegister, ReceiveUnregister, ReceiveDropped
    <2>2. CASE ReceiveRegister(c)
        <3>1. WritersPoint'
            BY <2>2 DEF ReceiveRegister, TypeInv, TypeOK, WritersPoint
        <3> QED
            BY <2>1, <2>2, <3>1, <1>send, <1>chan DEF TypeInv, TypeOK, ReceiveRegister
    <2>3. CASE ReceiveUnregister(c)
        BY <2>1, <2>3, <1>send, <1>write, <1>chan DEF TypeInv, TypeOK, ReceiveUnregister
    <2>4. CASE ReceiveDropped(c)
        <3>1. unregs[c] - 1 \in Nat
            BY <2>4 DEF ReceiveDropped, TypeInv, TypeOK
        <3>2. unregs' \in [Client -> Nat]
            BY <2>4, <3>1 DEF ReceiveDropped, TypeInv, TypeOK
        <3> QED
            BY <2>1, <2>4, <3>2, <1>send, <1>write, <1>chan DEF TypeInv, TypeOK, ReceiveDropped
    <2> QED
        BY <1>3, <2>2, <2>3, <2>4
<1>4. ASSUME ContextDone \/ LockHub PROVE TypeInv'
    <2>1. run' \in RunState /\ RunPoints'
        BY <1>4 DEF TypeInv, TypeOK, ContextDone, LockHub, RunState, RunPoints
    <2> QED
        BY <1>4, <2>1, <1>send, <1>write, <1>chan DEF TypeInv, TypeOK, ContextDone, LockHub
<1>5. ASSUME AddClient PROVE TypeInv'
    <2> DEFINE c == run.client
               mine == clients[Owner[c]]
    <2>1. c \in Client /\ Owner[c] \in User /\ mine \in SUBSET Client
        BY <1>5, OwnerAssumption DEF AddClient, Locked, TypeInv, TypeOK, RunPoints
    <2>2. CASE Cardinality(mine) >= maxConnectionsPerUser
        <3>1. PICK oldest \in mine :
                 /\ clients' = [clients EXCEPT ![Owner[c]] = (mine \ {oldest}) \cup {c}]
                 /\ CloseSend(oldest)
            BY <1>5, <2>2 DEF AddClient
        <3>2. clients' \in [User -> SUBSET Client]
            BY <2>1, <3>1 DEF TypeInv, TypeOK
        <3>3. oldest \in Client
            BY <2>1
        <3> QED
            BY <1>5, <3>1, <3>2, <3>3, CloseSendType, <1>send, <1>write
            DEF TypeInv, TypeOK, AddClient
    <2>3. CASE ~(Cardinality(mine) >= maxConnectionsPerUser)
        <3>1. /\ clients' = [clients EXCEPT ![Owner[c]] = mine \cup {c}]
              /\ run' = IdleRun /\ UNCHANGED chan
            BY <1>5, <2>3 DEF AddClient
        <3>2. clients' \in [User -> SUBSET Client]
            BY <2>1, <3>1 DEF TypeInv, TypeOK
        <3>3. run' \in RunState /\ RunPoints'
            BY <3>1 DEF RunState, RunPoints, IdleRun
        <3> QED
            BY <1>5, <3>1, <3>2, <3>3, <1>send, <1>write, <1>chan DEF TypeInv, TypeOK, AddClient
    <2> QED
        BY <2>2, <2>3
<1>6. ASSUME RemoveClient PROVE TypeInv'
    <2> DEFINE c == run.client
    <2>1. c \in Client /\ Owner[c] \in User
        BY <1>6, OwnerAssumption DEF RemoveClient, Locked, TypeInv, TypeOK, RunPoints
    <2>2. CASE c \in clients[Owner[c]]
        <3>1. clients' = [clients EXCEPT ![Owner[c]] = @ \ {c}] /\ CloseSend(c)
            BY <1>6, <2>2 DEF RemoveClient
        <3>2. clients' \in [User -> SUBSET Client]
            BY <2>1, <3>1 DEF TypeInv, TypeOK
        <3> QED
            BY <1>6, <2>1, <3>1, <3>2, CloseSendType, <1>send, <1>write
            DEF TypeInv, TypeOK, RemoveClient
    <2>3. CASE c \notin clients[Owner[c]]
        <3>1. run' = IdleRun /\ UNCHANGED <<clients, chan>>
            BY <1>6, <2>3 DEF RemoveClient
        <3>2. run' \in RunState /\ RunPoints'
            BY <3>1 DEF RunState, RunPoints, IdleRun
        <3> QED
            BY <1>6, <3>1, <3>2, <1>send, <1>write, <1>chan DEF TypeInv, TypeOK, RemoveClient
    <2> QED
        BY <2>2, <2>3
<1>7. ASSUME NEW c \in Client, TakeMessage(c) PROVE TypeInv'
    <2> DEFINE b == chan[c].buffer
    <2>1. b \in Seq(Notification) /\ b # << >> /\ Len(b) <= SendBuffer
        BY <1>7 DEF TakeMessage, TypeInv, TypeOK
    <2>2. Head(b) \in Notification /\ Tail(b) \in Seq(Notification) /\ Len(Tail(b)) <= SendBuffer
        BY <2>1, LimitAssumption
    <2>3. chan' = [chan EXCEPT ![c].buffer = Tail(b)]
        BY <1>7 DEF TakeMessage
    <2>4. writer' \in [Client -> WriterState] /\ WritersPoint'
        BY <1>7, <2>2 DEF TakeMessage, TypeInv, TypeOK, WriterState, WritersPoint
    <2> HIDE DEF b
    <2>5. /\ chan' \in [Client -> [open : BOOLEAN, buffer : Seq(Notification)]]
          /\ \A d \in Client : Len(chan'[d].buffer) <= SendBuffer
        BY <2>2, <2>3, BufferType DEF TypeInv
    <2> QED
        BY <1>7, <2>4, <2>5, <1>run, <1>send DEF TypeInv, TypeOK, TakeMessage
<1>8. ASSUME NEW c \in Client, WriteMessage(c) \/ WriteError(c) \/ SendClosed(c) \/ PingError(c)
      PROVE  TypeInv'
    <2>1. CASE WriteMessage(c)
        <3>1. writer' \in [Client -> WriterState] /\ WritersPoint'
            BY <2>1 DEF WriteMessage, TypeInv, TypeOK, WriterState, WritersPoint
        <3>2. owed' \in [Client -> SUBSET Notification]
            BY <2>1 DEF WriteMessage, TypeInv, TypeOK
        <3> QED
            BY <2>1, <3>1, <3>2, <1>run, <1>send, <1>chan DEF TypeInv, TypeOK, WriteMessage
    <2>2. CASE ReturnFromWrite(c) /\ writer[c].pc # "off"
        <3>1. writer' \in [Client -> WriterState] /\ WritersPoint'
            BY <2>2 DEF ReturnFromWrite, TypeInv, TypeOK, WriterState, WritersPoint
        <3> QED
            BY <2>2, <3>1, <1>run, <1>send, <1>chan DEF TypeInv, TypeOK, ReturnFromWrite
    <2> QED
        BY <1>8, <2>1, <2>2 DEF WriteError, SendClosed, PingError
<1>9. ASSUME NEW p \in Sender, NEW users \in SUBSET User, SendBulk(p, users) PROVE TypeInv'
    <2>1. /\ sender' \in [Sender -> SenderState]
          /\ \A q \in Sender :
                \/ sender'[q] = sender[q]
                \/ sender'[q].pc \in {"idle", "create"} /\ sender'[q].todo = {}
        BY <1>9, NextUserType DEF SendBulk
    <2>2. SendersPoint'
        BY <1>9, <2>1 DEF SendBulk, SendersPoint, TypeInv
    <2> QED
        BY <1>9, <2>1, <2>2, <1>run, <1>write, <1>chan DEF TypeInv, TypeOK, SendBulk
<1>10. ASSUME NEW p \in Sender, NEW u \in User, NEW n \in Notification, Create(p, u, n)
       PROVE  TypeInv'
    <2>1. row' \in [Notification -> User \cup {None}]
        BY <1>10 DEF Create, TypeInv, TypeOK
    <2>2. sender' = [sender EXCEPT ![p] =
             [pc |-> "lock", left |-> sender[p].left \ {u}, user |-> u, message |-> n, todo |-> {}]]
        BY <1>10 DEF Create
    <2>3. sender' \in [Sender -> SenderState]
        BY <2>2 DEF TypeInv, TypeOK, SenderState
    <2>4. SendersPoint'
        BY <1>10, <2>2, NoneAssumption DEF Create, SendersPoint, TypeInv, TypeOK
    <2> QED
        BY <1>10, <2>1, <2>3, <2>4, <1>run, <1>write, <1>chan DEF TypeInv, TypeOK, Create
<1>11. ASSUME NEW p \in Sender, NEW u \in User, CreateFails(p, u) PROVE TypeInv'
    <2>1. /\ row' \in [Notification -> User \cup {None}]
          /\ \A n \in Notification : row[n] # None => row'[n] = row[n]
        BY <1>11 DEF CreateFails, TypeInv, TypeOK
    <2>2. sender[p].left \ {u} \in SUBSET User
        BY DEF TypeInv, TypeOK, SenderState
    <2>3. /\ sender' \in [Sender -> SenderState]
          /\ \A q \in Sender :
                \/ sender'[q] = sender[q]
                \/ sender'[q].pc \in {"idle", "create"} /\ sender'[q].todo = {}
        BY <1>11, <2>2, NextUserType DEF CreateFails
    <2>4. SendersPoint'
        BY <2>1, <2>3, NoneAssumption DEF SendersPoint, TypeInv
    <2> QED
        BY <1>11, <2>1, <2>3, <2>4, <1>run, <1>write, <1>chan DEF TypeInv, TypeOK, CreateFails
<1>12. ASSUME NEW p \in Sender, Broadcast(p) PROVE TypeInv'
    <2>1. sender[p].user \in User /\ sender[p].message \in Notification
        BY <1>12 DEF Broadcast, TypeInv, SendersPoint
    <2> DEFINE x == [sender[p] EXCEPT !.pc = "push", !.todo = clients[sender[p].user]]
    <2>4. sender' = [sender EXCEPT ![p] = x]
        BY <1>12 DEF Broadcast
    <2>6. sender[p].pc = "lock"
        BY <1>12 DEF Broadcast
    <2>5. /\ x \in SenderState /\ x.pc = "push" /\ x.user = sender[p].user
          /\ x.message = sender[p].message
        BY <2>1, ZenonT(60) DEF TypeInv, TypeOK, SenderState
    <2> HIDE DEF x
    <2>2. sender' \in [Sender -> SenderState] /\ SendersPoint'
        <3>1. sender' \in [Sender -> SenderState] /\ UNCHANGED row
            BY <1>12, <2>4, <2>5 DEF Broadcast, TypeInv, TypeOK
        <3>2. SendersPoint'
            BY <2>1, <2>4, <2>5, <3>1, <2>6 DEF TypeInv, TypeOK, SendersPoint
        <3> QED
            BY <3>1, <3>2
    <2>3. owed' \in [Client -> SUBSET Notification]
        BY <1>12, <2>1 DEF Broadcast, TypeInv, TypeOK
    <2> QED
        BY <1>12, <2>2, <2>3, <1>run, <1>write, <1>chan DEF TypeInv, TypeOK, Broadcast
<1>13. ASSUME NEW p \in Sender, NEW c \in Client, TrySend(p, c) PROVE TypeInv'
    <2> DEFINE x == [sender[p] EXCEPT !.todo = sender[p].todo \ {c}]
    <2>4. sender' = [sender EXCEPT ![p] = x]
        BY <1>13 DEF TrySend
    <2>5. /\ x \in SenderState /\ x.pc = sender[p].pc /\ x.user = sender[p].user
          /\ x.message = sender[p].message
        BY ZenonT(60) DEF TypeInv, TypeOK, SenderState
    <2>6. sender[p].pc = "push"
        BY <1>13 DEF TrySend, Pushing
    <2> HIDE DEF x
    <2>1. sender' \in [Sender -> SenderState] /\ SendersPoint'
        <3>1. sender' \in [Sender -> SenderState] /\ UNCHANGED row
            <4>1. sender' \in [Sender -> SenderState]
                BY <2>4, <2>5 DEF TypeInv, TypeOK
            <4>2. UNCHANGED row
                BY <1>13 DEF TrySend
            <4> QED
                BY <4>1, <4>2
        <3>2. SendersPoint'
            BY <2>4, <2>5, <2>6, <3>1 DEF TypeInv, TypeOK, SendersPoint
        <3> QED
            BY <3>1, <3>2
    <2>2. CASE chan[c].open /\ Len(chan[c].buffer) < SendBuffer
        <3> DEFINE s == Append(chan[c].buffer, sender[p].message)
        <3>1. s \in Seq(Notification) /\ Len(s) <= SendBuffer
            BY <1>13, <2>2, LimitAssumption DEF TrySend, Pushing, TypeInv, TypeOK, SendersPoint
        <3>2. chan' = [chan EXCEPT ![c].buffer = s]
            BY <1>13, <2>2 DEF TrySend
        <3> HIDE DEF s
        <3>3. /\ chan' \in [Client -> [open : BOOLEAN, buffer : Seq(Notification)]]
              /\ \A d \in Client : Len(chan'[d].buffer) <= SendBuffer
            BY <3>1, <3>2, BufferType DEF TypeInv
        <3> QED
            BY <1>13, <2>1, <2>2, <3>3, <1>run, <1>write DEF TypeInv, TypeOK, TrySend
    <2>3. CASE ~(chan[c].open /\ Len(chan[c].buffer) < SendBuffer)
        <3>1. UNCHANGED chan /\ unregs' = [unregs EXCEPT ![c] = @ + 1]
            BY <1>13, <2>3 DEF TrySend
        <3> QED
            BY <1>13, <2>1, <3>1, <1>run, <1>write, <1>chan DEF TypeInv, TypeOK, TrySend
    <2> QED
        BY <2>2, <2>3
<1>14. ASSUME NEW p \in Sender, Unlock(p) PROVE TypeInv'
    <2>1. /\ sender' \in [Sender -> SenderState]
          /\ \A q \in Sender :
                \/ sender'[q] = sender[q]
                \/ sender'[q].pc \in {"idle", "create"} /\ sender'[q].todo = {}
        BY <1>14, NextUserType DEF Unlock, TypeInv, TypeOK, SenderState
    <2>2. SendersPoint'
        BY <1>14, <2>1 DEF Unlock, SendersPoint, TypeInv
    <2> QED
        BY <1>14, <2>1, <2>2, <1>run, <1>write, <1>chan DEF TypeInv, TypeOK, Unlock
<1>15. CASE UNCHANGED vars
    BY <1>15, <1>run, <1>send, <1>write, <1>chan DEF TypeInv, TypeOK, vars
<1> QED
    BY <1>1, <1>2, <1>3, <1>4, <1>5, <1>6, <1>7, <1>8, <1>9, <1>10, <1>11, <1>12, <1>13, <1>14, <1>15
    DEF Step, HubStep, ClientStep, WriterStep, SenderStep

(* Every reachable state is well typed: no buffer exceeds its capacity and *)
(* no count of waiting goroutines is negative.                             *)
THEOREM TypeCorrect == Spec => []TypeOK
<1>1. Spec => []TypeInv
    BY InitTypeInv, StepTypeInv, PTL DEF Spec
<1>2. TypeInv => TypeOK
    BY DEF TypeInv
<1> QED
    BY <1>1, <1>2, PTL

-----------------------------------------------------------------------------
(* The map holds open channels only, and a sender walks what the map held  *)
(* when it took the read lock: the write lock keeps it so.  A connection   *)
(* that Run has not added yet is in nobody's hands.                        *)

Fresh(c) == handler[c] \in {"none", "register"} \/ (run.op = "add" /\ run.client = c)

FreshUntouched ==
    \A c \in Client : Fresh(c) =>
        (\A u \in User : c \notin clients[u]) /\ chan[c].open /\ owed[c] = {}

MapHoldsOpen == \A u \in User : \A c \in clients[u] : Owner[c] = u /\ chan[c].open

PushesRegistered ==
    \A p \in Sender : sender[p].pc = "push" => sender[p].todo \subseteq clients[sender[p].user]

AddsOnce == run.op = "add" => handler[run.client] \notin {"none", "register"}

HubInv == FreshUntouched /\ MapHoldsOpen /\ PushesRegistered /\ AddsOnce /\ NeverPanics

LEMMA InitHubInv == Init => HubInv
BY DEF Init, HubInv, FreshUntouched, MapHoldsOpen, PushesRegistered, AddsOnce, NeverPanics,
       IdleRun, IdleSender

\* A step that leaves the map, Run and the channels' state alone.
LEMMA HubInvKept ==
    ASSUME HubInv, UNCHANGED <<clients, run>>,
           \A c \in Client : chan'[c].open = chan[c].open,
           \A c \in Client : handler'[c] \in {"none", "register"} <=> handler[c] \in {"none", "register"},
           run.op = "add" => run.client \in Client,
           \A c \in Client : owed'[c] \subseteq owed[c],
           \A p \in Sender : \/ sender'[p] = sender[p]
                             \/ sender'[p].pc # "push"
                             \/ /\ sender[p].pc = "push" /\ sender'[p].user = sender[p].user
                                /\ sender'[p].todo \subseteq sender[p].todo,
           clients \in [User -> SUBSET Client]
    PROVE  HubInv'
<1>1. FreshUntouched'
    BY DEF HubInv, FreshUntouched, Fresh
<1>2. MapHoldsOpen' /\ NeverPanics' /\ AddsOnce'
    BY DEF HubInv, MapHoldsOpen, NeverPanics, AddsOnce
<1>3. PushesRegistered'
    BY DEF HubInv, PushesRegistered
<1> QED
    BY <1>1, <1>2, <1>3 DEF HubInv

\* A step of Run that receives, or stops.
LEMMA RunMoves ==
    ASSUME TypeInv, HubInv, UNCHANGED <<clients, chan, sender, owed>>, run'.pc # "panicked",
           \A c \in Client : handler'[c] \in {"none", "register"} => handler[c] \in {"none", "register"},
           run'.op = "add" => /\ run'.client \in Client /\ Fresh(run'.client)
                              /\ handler'[run'.client] \notin {"none", "register"}
    PROVE  HubInv'
<1>1. FreshUntouched'
    BY DEF HubInv, FreshUntouched, Fresh
<1>2. MapHoldsOpen' /\ NeverPanics' /\ AddsOnce'
    BY DEF HubInv, MapHoldsOpen, NeverPanics, AddsOnce
<1>3. PushesRegistered'
    BY DEF HubInv, PushesRegistered
<1> QED
    BY <1>1, <1>2, <1>3 DEF HubInv

\* A step of Run under the write lock: gone is the connection it drops, and
\* come the one it adds.
LEMMA MapChanges ==
    ASSUME TypeInv, HubInv, UNCHANGED <<handler, sender, owed>>, run' = IdleRun,
           \A p \in Sender : sender[p].pc # "push",
           NEW gone \in SUBSET Client, NEW come \in SUBSET Client, NEW u \in User,
           clients' = [clients EXCEPT ![u] = (clients[u] \ gone) \cup come],
           gone \subseteq clients[u],
           \A c \in Client : chan'[c].open = (chan[c].open /\ c \notin gone),
           \A c \in come : /\ Owner[c] = u /\ chan[c].open /\ c \notin gone
                           /\ handler[c] \notin {"none", "register"}
    PROVE  HubInv'
<1>1. clients \in [User -> SUBSET Client]
    BY DEF TypeInv, TypeOK
<1>2. \A v \in User : clients'[v] = IF v = u THEN (clients[u] \ gone) \cup come ELSE clients[v]
    BY <1>1
<1>3. FreshUntouched'
    BY <1>1, <1>2 DEF HubInv, FreshUntouched, Fresh, IdleRun
<1>4. MapHoldsOpen'
    <2>1. SUFFICES ASSUME NEW v \in User, NEW c \in clients'[v] PROVE Owner[c] = v /\ chan'[c].open
        BY DEF MapHoldsOpen
    <2>2. c \in Client /\ ((c \in come /\ v = u) \/ (c \in clients[v] /\ (v = u => c \notin gone)))
        BY <1>1, <1>2, <2>1
    <2>3. c \notin gone
        BY <1>1, <2>2 DEF HubInv, MapHoldsOpen
    <2> QED
        BY <2>2, <2>3 DEF HubInv, MapHoldsOpen
<1>5. PushesRegistered' /\ NeverPanics' /\ AddsOnce'
    BY DEF PushesRegistered, NeverPanics, AddsOnce, IdleRun
<1> QED
    BY <1>3, <1>4, <1>5 DEF HubInv

LEMMA StepHubInv == TypeInv /\ HubInv /\ [Step]_vars => HubInv'
<1> SUFFICES ASSUME TypeInv, HubInv, [Step]_vars PROVE HubInv'
    OBVIOUS
<1> USE DEF hubVars, pumpVars
<1>t. clients \in [User -> SUBSET Client] /\ (run.op = "add" => run.client \in Client)
    BY DEF TypeInv, TypeOK, RunPoints, HubInv, NeverPanics, RunState
<1>1. ASSUME NEW c \in Client, Upgrade(c) \/ StartPumps(c) \/ ReadError(c) \/ CloseConn(c)
      PROVE  HubInv'
    <2>1. \A d \in Client : handler'[d] \in {"none", "register"} <=> handler[d] \in {"none", "register"}
        BY <1>1 DEF Upgrade, StartPumps, ReadError, CloseConn, TypeInv, TypeOK
    <2>2. UNCHANGED <<clients, run, chan, owed, sender>>
        BY <1>1 DEF Upgrade, StartPumps, ReadError, CloseConn
    <2> QED
        BY <2>1, <2>2, <1>t, HubInvKept
<1>2. ASSUME NEW c \in Client, ReceiveRegister(c) PROVE HubInv'
    <2>1. Fresh(c) /\ handler'[c] = "start" /\ run' = [pc |-> "received", op |-> "add", client |-> c]
        BY <1>2 DEF ReceiveRegister, Receive, Fresh, TypeInv, TypeOK
    <2>2. \A d \in Client : handler'[d] \in {"none", "register"} => handler[d] \in {"none", "register"}
        BY <1>2 DEF ReceiveRegister, TypeInv, TypeOK
    <2>3. UNCHANGED <<clients, chan, sender, owed>>
        BY <1>2 DEF ReceiveRegister
    <2> QED
        BY <2>1, <2>2, <2>3, RunMoves
<1>3. ASSUME NEW c \in Client, ReceiveUnregister(c) \/ ReceiveDropped(c) PROVE HubInv'
    <2>1. run' = [pc |-> "received", op |-> "remove", client |-> c]
        BY <1>3 DEF ReceiveUnregister, ReceiveDropped, Receive
    <2>2. UNCHANGED <<clients, chan, sender, owed, handler>>
        BY <1>3 DEF ReceiveUnregister, ReceiveDropped
    <2> QED
        BY <2>1, <2>2, RunMoves
<1>4. ASSUME ContextDone \/ LockHub PROVE HubInv'
    <2>1. run'.pc # "panicked" /\ run'.op = run.op /\ run'.client = run.client
        BY <1>4 DEF ContextDone, LockHub, TypeInv, TypeOK, RunState
    <2>2. UNCHANGED <<clients, chan, sender, owed, handler>>
        BY <1>4 DEF ContextDone, LockHub
    <2> QED
        BY <2>1, <2>2, <1>t, RunMoves DEF Fresh, HubInv, AddsOnce
<1>5. ASSUME AddClient PROVE HubInv'
    <2> DEFINE c == run.client
               u == Owner[c]
    <2>1. /\ c \in Client /\ u \in User /\ clients[u] \in SUBSET Client
          /\ \A p \in Sender : sender[p].pc # "push"
          /\ UNCHANGED <<handler, sender, owed>>
        BY <1>5, <1>t, OwnerAssumption DEF AddClient, Locked
    <2>2. /\ chan[c].open /\ (\A v \in User : c \notin clients[v])
          /\ handler[c] \notin {"none", "register"}
        BY <1>5, <2>1 DEF AddClient, Locked, HubInv, FreshUntouched, Fresh, AddsOnce
    <2>3. CASE Cardinality(clients[u]) >= maxConnectionsPerUser
        <3>1. PICK oldest \in clients[u] :
                 /\ clients' = [clients EXCEPT ![u] = (clients[u] \ {oldest}) \cup {c}]
                 /\ CloseSend(oldest)
            BY <1>5, <2>3 DEF AddClient
        <3>2. oldest \in Client /\ chan[oldest].open
            BY <2>1, <3>1 DEF HubInv, MapHoldsOpen
        <3>3. run' = IdleRun
              /\ \A d \in Client : chan'[d].open = (chan[d].open /\ d \notin {oldest})
            BY <3>1, <3>2 DEF CloseSend, TypeInv, TypeOK
        <3>4. /\ {oldest} \in SUBSET Client /\ {c} \in SUBSET Client /\ {oldest} \subseteq clients[u]
              /\ \A d \in {c} : /\ Owner[d] = u /\ chan[d].open /\ d \notin {oldest}
                               /\ handler[d] \notin {"none", "register"}
            BY <2>1, <2>2, <3>2
        <3> HIDE DEF c, u
        <3> QED
            BY <2>1, <3>1, <3>3, <3>4, MapChanges
    <2>4. CASE ~(Cardinality(clients[u]) >= maxConnectionsPerUser)
        <3>1. /\ clients' = [clients EXCEPT ![u] = (clients[u] \ {}) \cup {c}]
              /\ run' = IdleRun /\ UNCHANGED chan
            BY <1>5, <2>4 DEF AddClient
        <3>2. \A d \in Client : chan'[d].open = (chan[d].open /\ d \notin {})
            BY <3>1 DEF TypeInv, TypeOK
        <3>3. /\ {} \in SUBSET Client /\ {c} \in SUBSET Client /\ {} \subseteq clients[u]
              /\ \A d \in {c} : /\ Owner[d] = u /\ chan[d].open /\ d \notin {}
                               /\ handler[d] \notin {"none", "register"}
            BY <2>1, <2>2
        <3> HIDE DEF c, u
        <3> QED
            BY <2>1, <3>1, <3>2, <3>3, MapChanges
    <2> QED
        BY <2>3, <2>4
<1>6. ASSUME RemoveClient PROVE HubInv'
    <2> DEFINE c == run.client
               u == Owner[c]
    <2>1. /\ c \in Client /\ u \in User /\ clients[u] \in SUBSET Client
          /\ \A p \in Sender : sender[p].pc # "push"
          /\ UNCHANGED <<handler, sender, owed>>
        BY <1>6, <1>t, OwnerAssumption DEF RemoveClient, Locked, TypeInv, RunPoints
    <2>2. CASE c \in clients[u]
        <3>1. clients' = [clients EXCEPT ![u] = (clients[u] \ {c}) \cup {}] /\ CloseSend(c)
            BY <1>6, <2>2 DEF RemoveClient
        <3>2. chan[c].open
            BY <2>1, <2>2 DEF HubInv, MapHoldsOpen
        <3>3. run' = IdleRun
              /\ \A d \in Client : chan'[d].open = (chan[d].open /\ d \notin {c})
            BY <2>1, <3>1, <3>2 DEF CloseSend, TypeInv, TypeOK
        <3>4. /\ {} \in SUBSET Client /\ {c} \in SUBSET Client /\ {c} \subseteq clients[u]
              /\ \A d \in {} : /\ Owner[d] = u /\ chan[d].open /\ d \notin {c}
                              /\ handler[d] \notin {"none", "register"}
            BY <2>1, <2>2
        <3> HIDE DEF c, u
        <3> QED
            BY <2>1, <3>1, <3>3, <3>4, MapChanges
    <2>3. CASE c \notin clients[u]
        <3>1. run' = IdleRun /\ UNCHANGED <<clients, chan>>
            BY <1>6, <2>3 DEF RemoveClient
        <3> QED
            BY <2>1, <3>1, RunMoves DEF IdleRun
    <2> QED
        BY <2>2, <2>3
<1>7. ASSUME NEW c \in Client, WriterStep(c) \/ PingError(c) PROVE HubInv'
    <2>1. \A d \in Client : chan'[d].open = chan[d].open
        <3>1. CASE TakeMessage(c)
            BY <3>1 DEF TakeMessage, TypeInv, TypeOK
        <3>2. CASE ~TakeMessage(c)
            BY <1>7, <3>2
            DEF WriterStep, WriteMessage, WriteError, SendClosed, PingError, ReturnFromWrite
        <3> QED
            BY <3>1, <3>2
    <2>2. \A d \in Client : owed'[d] \subseteq owed[d]
        <3>1. CASE WriteMessage(c)
            BY <3>1 DEF WriteMessage, TypeInv, TypeOK
        <3>2. CASE ~WriteMessage(c)
            BY <1>7, <3>2
            DEF WriterStep, TakeMessage, WriteError, SendClosed, PingError, ReturnFromWrite
        <3> QED
            BY <3>1, <3>2
    <2>3. UNCHANGED <<clients, run, handler, sender>>
        BY <1>7
        DEF WriterStep, TakeMessage, WriteMessage, WriteError, SendClosed, PingError,
            ReturnFromWrite
    <2> QED
        BY <2>1, <2>2, <2>3, <1>t, HubInvKept
<1>8. ASSUME NEW p \in Sender, NEW users \in SUBSET User, SendBulk(p, users) PROVE HubInv'
    <2>1. \A q \in Sender : sender'[q] = sender[q] \/ sender'[q].pc # "push"
        BY <1>8, NextUserType DEF SendBulk
    <2> QED
        BY <1>8, <2>1, <1>t, HubInvKept DEF SendBulk
<1>9. ASSUME NEW p \in Sender, NEW u \in User, NEW n \in Notification, Create(p, u, n)
      PROVE  HubInv'
    <2>1. \A q \in Sender : sender'[q] = sender[q] \/ sender'[q].pc # "push"
        BY <1>9 DEF Create, TypeInv, TypeOK
    <2> QED
        BY <1>9, <2>1, <1>t, HubInvKept DEF Create
<1>10. ASSUME NEW p \in Sender, NEW u \in User, CreateFails(p, u) PROVE HubInv'
    <2>1. \A q \in Sender : sender'[q] = sender[q] \/ sender'[q].pc # "push"
        <3>1. sender[p].left \ {u} \in SUBSET User
            BY DEF TypeInv, TypeOK, SenderState
        <3> QED
            BY <1>10, <3>1, NextUserType DEF CreateFails
    <2> QED
        BY <1>10, <2>1, <1>t, HubInvKept DEF CreateFails
<1>11. ASSUME NEW p \in Sender, Broadcast(p) PROVE HubInv'
    <2> DEFINE u == sender[p].user
    <2>1. u \in User
        BY <1>11 DEF Broadcast, TypeInv, SendersPoint
    <2>2. /\ sender'[p].todo = clients[u] /\ sender'[p].user = u
          /\ \A q \in Sender \ {p} : sender'[q] = sender[q]
        BY <1>11 DEF Broadcast, TypeInv, TypeOK, SenderState
    <2>3. UNCHANGED <<clients, run, chan, handler>>
        BY <1>11 DEF Broadcast
    <2>4. \A c \in Client : c \notin clients[u] => owed'[c] = owed[c]
        BY <1>11 DEF Broadcast
    <2>5. FreshUntouched'
        BY <2>1, <2>3, <2>4 DEF HubInv, FreshUntouched, Fresh
    <2>6. PushesRegistered'
        BY <2>2, <2>3 DEF HubInv, PushesRegistered
    <2>7. MapHoldsOpen' /\ NeverPanics' /\ AddsOnce'
        BY <2>3 DEF HubInv, MapHoldsOpen, NeverPanics, AddsOnce
    <2> QED
        BY <2>5, <2>6, <2>7 DEF HubInv
<1>12. ASSUME NEW p \in Sender, NEW c \in Client, TrySend(p, c) PROVE HubInv'
    <2>1. \A d \in Client : chan'[d].open = chan[d].open
        BY <1>12, ZenonT(60) DEF TrySend, TypeInv, TypeOK
    <2>2. /\ \A q \in Sender \ {p} : sender'[q] = sender[q]
          /\ sender[p].pc = "push" /\ sender'[p].user = sender[p].user
          /\ sender'[p].todo \subseteq sender[p].todo
        BY <1>12 DEF TrySend, Pushing, TypeInv, TypeOK, SenderState
    <2> QED
        BY <1>12, <2>1, <2>2, <1>t, HubInvKept DEF TrySend
<1>13. ASSUME NEW p \in Sender, Unlock(p) PROVE HubInv'
    <2>1. \A q \in Sender : sender'[q] = sender[q] \/ sender'[q].pc # "push"
        BY <1>13, NextUserType DEF Unlock, TypeInv, TypeOK, SenderState
    <2> QED
        BY <1>13, <2>1, <1>t, HubInvKept DEF Unlock
<1>14. CASE UNCHANGED vars
    BY <1>14, <1>t, HubInvKept DEF vars
<1> QED
    BY <1>1, <1>2, <1>3, <1>4, <1>5, <1>6, <1>7, <1>8, <1>9, <1>10, <1>11, <1>12, <1>13, <1>14
    DEF Step, HubStep, ClientStep, SenderStep

\* However many goroutines unregister a connection, its channel is closed once.
THEOREM ClosedOnce == Spec => []NeverPanics
<1>1. Spec => [](TypeInv /\ HubInv)
    BY InitTypeInv, StepTypeInv, InitHubInv, StepHubInv, PTL DEF Spec
<1>2. HubInv => NeverPanics
    BY DEF HubInv
<1> QED
    BY <1>1, <1>2, PTL

\* A sender under the read lock meets open channels only, so the recovery in
\* trySend is never needed.
THEOREM SendsMeetOpenChannels == Spec => []RegisteredIsOpen
<1>1. Spec => [](TypeInv /\ HubInv)
    BY InitTypeInv, StepTypeInv, InitHubInv, StepHubInv, PTL DEF Spec
<1>2. TypeInv /\ HubInv => RegisteredIsOpen
    <2> SUFFICES ASSUME TypeInv, HubInv, NEW p \in Sender, NEW c \in Client,
                        Registered(c) \/ Pushing(p, c)
                 PROVE  chan[c].open
        BY DEF RegisteredIsOpen
    <2>1. PICK u \in User : c \in clients[u]
        BY OwnerAssumption
        DEF Registered, Pushing, HubInv, PushesRegistered, TypeInv, SendersPoint
    <2> QED
        BY <2>1 DEF HubInv, MapHoldsOpen
<1> QED
    BY <1>1, <1>2, PTL

-----------------------------------------------------------------------------
(* What is pushed has its row, and for the connection's own user.          *)

LEMMA StepPushed == TypeInv /\ HubInv /\ PushedIsStored /\ [Step]_vars => PushedIsStored'
<1> SUFFICES ASSUME TypeInv, HubInv, PushedIsStored, [Step]_vars, NEW c \in Client,
                    NEW n \in (Buffered(c) \cup ({writer[c].message} \ {None}))'
             PROVE  row'[n] = Owner[c]
    BY SMTT(60) DEF PushedIsStored
<1> USE DEF hubVars, pumpVars
<1>1. ASSUME NEW m \in Notification, row[m] # None PROVE row'[m] = row[m]
    BY <1>1, ZenonT(60)
    DEF Step, HubStep, ClientStep, WriterStep, SenderStep, ReceiveRegister, ReceiveUnregister,
        ReceiveDropped, LockHub, AddClient, RemoveClient, ContextDone, Upgrade, StartPumps,
        ReadError, CloseConn, TakeMessage, WriteMessage, WriteError, SendClosed, PingError,
        ReturnFromWrite, SendBulk, Create, CreateFails, Broadcast, TrySend, Unlock, vars,
        TypeInv, TypeOK
<1>2. Owner[c] \in User /\ Owner[c] # None
    BY OwnerAssumption, NoneAssumption
<1>3. ASSUME n \in Buffered(c) \cup ({writer[c].message} \ {None}) PROVE row'[n] = Owner[c]
    <2>2. chan[c].buffer \in Seq(Notification)
        BY DEF TypeInv, TypeOK
    <2>3. Buffered(c) \subseteq Notification
        BY <2>2 DEF Buffered
    <2>4. writer[c].message \in Notification \cup {None}
        BY DEF TypeInv, WritersPoint
    <2>1. n \in Notification
        BY <1>3, <2>3, <2>4
    <2> QED
        BY <1>1, <1>2, <1>3, <2>1 DEF PushedIsStored
<1>4. ASSUME chan'[c].buffer = chan[c].buffer,
             writer'[c] = writer[c] \/ writer'[c].message = None
      PROVE  row'[n] = Owner[c]
    BY <1>3, <1>4 DEF Buffered
<1>5. CASE HubStep
    <2>1. UNCHANGED writer
        BY <1>5
        DEF HubStep, ReceiveRegister, ReceiveUnregister, ReceiveDropped, LockHub, AddClient, RemoveClient
    <2>2. chan'[c].buffer = chan[c].buffer
        <3>1. CASE AddClient
            <4>1. UNCHANGED chan \/ \E oldest \in Client : CloseSend(oldest)
                BY <3>1, OwnerAssumption DEF AddClient, Locked, TypeInv, TypeOK, RunPoints
            <4> QED
                BY <4>1, CloseSendType
        <3>2. CASE RemoveClient
            <4>1. UNCHANGED chan \/ (run.client \in Client /\ CloseSend(run.client))
                BY <3>2 DEF RemoveClient, Locked, TypeInv, RunPoints
            <4> QED
                BY <4>1, CloseSendType
        <3> QED
            BY <1>5, <3>1, <3>2
            DEF HubStep, ReceiveRegister, ReceiveUnregister, ReceiveDropped, LockHub
    <2> QED
        BY <1>4, <2>1, <2>2
<1>6. CASE \E d \in Client : TakeMessage(d)
    <2>1. PICK d \in Client : TakeMessage(d)
        BY <1>6
    <2>2. CASE d = c
        <3> DEFINE b == chan[c].buffer
        <3>1. b \in Seq(Notification) /\ b # << >>
            BY <2>1, <2>2 DEF TakeMessage, TypeInv, TypeOK
        <3>2. writer'[c].message = Head(b) /\ chan'[c].buffer = Tail(b)
            BY <2>1, <2>2 DEF TakeMessage, TypeInv, TypeOK
        <3>3. /\ Head(b) = b[1] /\ 1 \in 1 .. Len(b)
              /\ \A i \in 1 .. Len(Tail(b)) : Tail(b)[i] = b[i + 1] /\ i + 1 \in 1 .. Len(b)
            BY <3>1
        <3>4. n \in Buffered(c)
            BY <3>2, <3>3 DEF Buffered
        <3> QED
            BY <1>3, <3>4
    <2>3. CASE d # c
        BY <1>4, <2>1, <2>3 DEF TakeMessage, TypeInv, TypeOK
    <2> QED
        BY <2>2, <2>3
<1>7. CASE \E d \in Client : WriteMessage(d) \/ WriteError(d) \/ SendClosed(d) \/ PingError(d)
    BY <1>4, <1>7
    DEF WriteMessage, WriteError, SendClosed, PingError, ReturnFromWrite, TypeInv, TypeOK
<1>8. CASE \E d \in Client : Upgrade(d) \/ StartPumps(d) \/ ReadError(d) \/ CloseConn(d)
    BY <1>4, <1>8 DEF Upgrade, StartPumps, ReadError, CloseConn, TypeInv, TypeOK
<1>9. CASE \E p \in Sender, d \in Client : TrySend(p, d)
    <2>1. PICK p \in Sender, d \in Client : TrySend(p, d)
        BY <1>9
    <2>2. CASE d = c /\ chan[c].open /\ Len(chan[c].buffer) < SendBuffer
        <3> DEFINE b == chan[c].buffer
                   m == sender[p].message
        <3>1. b \in Seq(Notification) /\ m \in Notification
            BY <2>1 DEF TrySend, Pushing, TypeInv, TypeOK, SendersPoint
        <3>2. UNCHANGED writer /\ chan'[c].buffer = Append(b, m)
            BY <2>1, <2>2 DEF TrySend, TypeInv, TypeOK
        <3>3. \A i \in 1 .. Len(Append(b, m)) : Append(b, m)[i] = m \/ (i \in 1 .. Len(b) /\ Append(b, m)[i] = b[i])
            BY <3>1
        <3>4. row[m] = Owner[c]
            BY <2>1, <2>2
            DEF TrySend, Pushing, TypeInv, SendersPoint, HubInv, PushesRegistered, MapHoldsOpen
        <3>5. n = m \/ n \in Buffered(c) \cup ({writer[c].message} \ {None})
            BY <3>2, <3>3 DEF Buffered
        <3> HIDE DEF m
        <3> QED
            BY <1>1, <1>2, <1>3, <3>1, <3>4, <3>5
    <2>3. CASE ~(d = c /\ chan[c].open /\ Len(chan[c].buffer) < SendBuffer)
        BY <1>4, <2>1, <2>3 DEF TrySend, TypeInv, TypeOK
    <2> QED
        BY <2>2, <2>3
<1>10. CASE \/ ContextDone \/ UNCHANGED vars
            \/ \E p \in Sender :
                  \/ \E users \in SUBSET User : SendBulk(p, users)
                  \/ \E u \in User : CreateFails(p, u) \/ \E m \in Notification : Create(p, u, m)
                  \/ Broadcast(p) \/ Unlock(p)
    BY <1>4, <1>10 DEF ContextDone, SendBulk, CreateFails, Create, Broadcast, Unlock, vars
<1> QED
    BY <1>5, <1>6, <1>7, <1>8, <1>9, <1>10 DEF Step, ClientStep, WriterStep, SenderStep

\* Whoever is pushed a notification finds it stored, as his own.
THEOREM PushedAreStored == Spec => []PushedIsStored
<1>1. Init => PushedIsStored
    BY DEF Init, PushedIsStored, Buffered
<1> QED
    BY <1>1, InitTypeInv, StepTypeInv, InitHubInv, StepHubInv, StepPushed, PTL DEF Spec

-----------------------------------------------------------------------------
(* A connection that stays has no gap.  A notification moves from a sender *)
(* that still has the connection to visit, to the buffer, to WritePump, to *)
(* the network; where it is dropped, or the pump gives up, the connection  *)
(* is leaving, and stays so until Run has taken it out of the map.         *)

LEMMA OnItsWayKept ==
    ASSUME NEW c \in Client, NEW n \in OnItsWay(c), chan'[c].buffer = chan[c].buffer,
           writer'[c].message = writer[c].message,
           \A p \in Sender : Pushing(p, c) =>
               Pushing(p, c)' /\ sender'[p].message = sender[p].message
    PROVE  n \in OnItsWay(c)'
BY DEF OnItsWay, Buffered

LEMMA StepNoGap == TypeInv /\ HubInv /\ NoGapUnlessLeaving /\ [Step]_vars => NoGapUnlessLeaving'
<1> SUFFICES ASSUME TypeInv, HubInv, NoGapUnlessLeaving, [Step]_vars, NEW c \in Client,
                    Registered(c)', ~Leaving(c)', NEW n, n \in owed'[c]
             PROVE  n \in OnItsWay(c)'
    BY DEF NoGapUnlessLeaving
<1> USE DEF hubVars, pumpVars
<1>1. Owner[c] \in User /\ clients \in [User -> SUBSET Client]
    BY OwnerAssumption DEF TypeInv, TypeOK
<1>2. ASSUME Registered(c), ~Leaving(c), n \in owed[c] PROVE n \in OnItsWay(c) /\ n \in Notification
    BY <1>2 DEF NoGapUnlessLeaving, TypeInv, TypeOK
<1>4. CASE /\ UNCHANGED sender /\ owed'[c] = owed[c] /\ writer'[c] = writer[c]
           /\ Registered(c) /\ ~Leaving(c) /\ chan'[c].buffer = chan[c].buffer
    BY <1>2, <1>4, OnItsWayKept DEF Pushing
<1>5. CASE \E d \in Client : ReceiveRegister(d) \/ ReceiveUnregister(d) \/ ReceiveDropped(d)
    <2>1. PICK d \in Client : ReceiveRegister(d) \/ ReceiveUnregister(d) \/ ReceiveDropped(d)
        BY <1>5
    <2>2. run.op = "none" /\ (run'.op = "remove" => run'.client = d)
        BY <2>1
        DEF ReceiveRegister, ReceiveUnregister, ReceiveDropped, Receive, TypeInv, RunPoints
    <2>3. conn' = conn /\ (unregs' = unregs \/ run'.op = "remove")
        BY <2>1 DEF ReceiveRegister, ReceiveUnregister, ReceiveDropped, Receive
    <2>4. unregs[c] > 0 => unregs'[c] > 0 \/ (run'.op = "remove" /\ run'.client = c)
        BY <2>1
        DEF ReceiveRegister, ReceiveUnregister, ReceiveDropped, Receive, TypeInv, TypeOK
    <2>5. ~Leaving(c)
        BY <2>2, <2>3, <2>4 DEF Leaving
    <2> QED
        BY <1>4, <2>1, <2>5 DEF ReceiveRegister, ReceiveUnregister, ReceiveDropped, Registered
<1>6. CASE ContextDone \/ LockHub \/ UNCHANGED vars
    <2>1. run'.op = run.op /\ run'.client = run.client
        BY <1>6 DEF ContextDone, LockHub, vars, TypeInv, TypeOK, RunState
    <2> QED
        BY <1>4, <1>6, <2>1 DEF ContextDone, LockHub, vars, Leaving, Registered
<1>7. CASE AddClient
    <2>1. /\ run.op = "add" /\ run.client \in Client /\ UNCHANGED <<sender, owed, writer, conn, unregs>>
          /\ Owner[run.client] \in User
        BY <1>7, OwnerAssumption DEF AddClient, Locked, TypeInv, RunPoints
    <2>2. run.client # c
        <3>1. owed[run.client] = {}
            BY <2>1 DEF HubInv, FreshUntouched, Fresh
        <3> QED
            BY <2>1, <3>1
    <2>3. \E gone \in SUBSET Client :
             clients' = [clients EXCEPT ![Owner[run.client]] = (@ \ gone) \cup {run.client}]
        <3> DEFINE mine == clients[Owner[run.client]]
        <3>1. \/ \E oldest \in mine :
                    clients' = [clients EXCEPT ![Owner[run.client]] = (mine \ {oldest}) \cup {run.client}]
              \/ clients' = [clients EXCEPT ![Owner[run.client]] = mine \cup {run.client}]
            BY <1>7 DEF AddClient
        <3>2. mine \subseteq Client /\ mine \ {} = mine
            BY <1>1, <2>1
        <3>3. CASE \E oldest \in mine :
                    clients' = [clients EXCEPT ![Owner[run.client]] = (mine \ {oldest}) \cup {run.client}]
            <4>1. PICK oldest \in mine :
                    clients' = [clients EXCEPT ![Owner[run.client]] = (mine \ {oldest}) \cup {run.client}]
                BY <3>3
            <4>2. {oldest} \in SUBSET Client
                BY <3>2
            <4> WITNESS {oldest} \in SUBSET Client
            <4> QED
                BY <4>1
        <3>4. CASE clients' = [clients EXCEPT ![Owner[run.client]] = mine \cup {run.client}]
            <4>1. clients' = [clients EXCEPT ![Owner[run.client]] = (mine \ {}) \cup {run.client}]
                BY <3>2, <3>4
            <4> WITNESS {} \in SUBSET Client
            <4> QED
                BY <4>1
        <3> QED
            BY <3>1, <3>3, <3>4
    <2>4. Registered(c)
        BY <1>1, <2>1, <2>2, <2>3 DEF Registered
    <2>5. chan'[c].buffer = chan[c].buffer
        <3>1. UNCHANGED chan \/ \E oldest \in Client : CloseSend(oldest)
            BY <1>1, <1>7, <2>1 DEF AddClient
        <3> QED
            BY <3>1, CloseSendType
    <2> QED
        BY <1>4, <2>1, <2>4, <2>5 DEF Leaving
<1>8. CASE RemoveClient
    <2>1. /\ run.op = "remove" /\ run.client \in Client
          /\ UNCHANGED <<sender, owed, writer, conn, unregs>> /\ Owner[run.client] \in User
        BY <1>8, OwnerAssumption DEF RemoveClient, Locked, TypeInv, RunPoints
    <2>2. run.client # c
        BY <1>1, <1>8, <2>1 DEF RemoveClient, Registered
    <2>3. Registered(c)
        BY <1>1, <1>8, <2>1, <2>2 DEF RemoveClient, Registered
    <2>4. chan'[c].buffer = chan[c].buffer
        BY <1>8, <2>1, CloseSendType DEF RemoveClient
    <2> QED
        BY <1>4, <2>1, <2>2, <2>3, <2>4 DEF Leaving
<1>9. CASE \E d \in Client : Upgrade(d) \/ StartPumps(d) \/ ReadError(d) \/ CloseConn(d)
    <2>1. PICK d \in Client : Upgrade(d) \/ StartPumps(d) \/ ReadError(d) \/ CloseConn(d)
        BY <1>9
    <2>2. UNCHANGED <<clients, run, unregs, chan, sender, owed>> /\ Registered(c)
        BY <2>1 DEF Upgrade, StartPumps, ReadError, CloseConn, Registered
    <2>3. CASE Upgrade(d)
        <3>1. d # c
            BY <1>1, <2>2, <2>3 DEF Upgrade, HubInv, FreshUntouched, Fresh, Registered
        <3> QED
            BY <1>4, <2>2, <2>3, <3>1 DEF Upgrade, Leaving, TypeInv, TypeOK
    <2>4. CASE StartPumps(d)
        <3>1. ~Leaving(c) /\ n \in owed[c]
            BY <2>2, <2>4 DEF StartPumps, Leaving
        <3>2. d # c => writer'[c] = writer[c]
            BY <2>4 DEF StartPumps, TypeInv, TypeOK
        <3>3. d = c => writer[c].message = None /\ writer'[c].message = None
            BY <2>4 DEF StartPumps, TypeInv, TypeOK, WritersPoint
        <3>4. writer'[c].message = writer[c].message
            BY <3>2, <3>3
        <3> QED
            BY <2>2, <3>1, <3>4, <1>2, OnItsWayKept DEF Pushing
    <2>5. CASE ReadError(d) \/ CloseConn(d)
        BY <1>4, <2>2, <2>5 DEF ReadError, CloseConn, Leaving, TypeInv, TypeOK
    <2> QED
        BY <2>1, <2>3, <2>4, <2>5
<1>10. CASE \E d \in Client : TakeMessage(d)
    <2>1. PICK d \in Client : TakeMessage(d)
        BY <1>10
    <2>2. UNCHANGED <<sender, owed>> /\ Registered(c) /\ ~Leaving(c)
        BY <2>1 DEF TakeMessage, Registered, Leaving
    <2>3. CASE d # c
        BY <1>4, <2>1, <2>2, <2>3 DEF TakeMessage, TypeInv, TypeOK
    <2>4. CASE d = c
        <3> DEFINE b == chan[c].buffer
        <3>1. b \in Seq(Notification) /\ b # << >> /\ writer[c].message = None
            BY <2>1, <2>4 DEF TakeMessage, TypeInv, TypeOK, WritersPoint
        <3>2. writer'[c].message = Head(b) /\ chan'[c].buffer = Tail(b)
            BY <2>1, <2>4 DEF TakeMessage, TypeInv, TypeOK
        <3>3. \A i \in 1 .. Len(b) : b[i] = Head(b)
                  \/ (i - 1 \in 1 .. Len(Tail(b)) /\ Tail(b)[i - 1] = b[i])
            BY <3>1
        <3>4. n \in OnItsWay(c) /\ n # None
            BY <2>2, <1>2, NoneAssumption
        <3>5. CASE n \in Buffered(c)
            <4>1. n = Head(b) \/ n \in {Tail(b)[i] : i \in 1 .. Len(Tail(b))}
                BY <3>3, <3>5 DEF Buffered
            <4> QED
                BY <3>2, <4>1 DEF OnItsWay, Buffered
        <3>6. CASE n \notin Buffered(c)
            BY <2>2, <3>1, <3>4, <3>6 DEF OnItsWay, Pushing
        <3> QED
            BY <3>5, <3>6
    <2> QED
        BY <2>3, <2>4
<1>11. CASE \E d \in Client : WriteMessage(d)
    <2>1. PICK d \in Client : WriteMessage(d)
        BY <1>11
    <2>2. UNCHANGED <<sender, chan>> /\ Registered(c) /\ ~Leaving(c)
        BY <2>1 DEF WriteMessage, Registered, Leaving
    <2>3. CASE d # c
        BY <1>4, <2>1, <2>2, <2>3 DEF WriteMessage, TypeInv, TypeOK
    <2>4. CASE d = c
        <3>1. n \in owed[c] /\ n # writer[c].message
            BY <2>1, <2>4 DEF WriteMessage, TypeInv, TypeOK
        <3>2. n \in OnItsWay(c)
            BY <2>2, <3>1, <1>2
        <3> QED
            BY <2>2, <3>1, <3>2 DEF OnItsWay, Buffered, Pushing
    <2> QED
        BY <2>3, <2>4
<1>12. CASE \E d \in Client : WriteError(d) \/ SendClosed(d) \/ PingError(d)
    <2>1. PICK d \in Client : ReturnFromWrite(d)
        BY <1>12 DEF WriteError, SendClosed, PingError
    <2>2. d # c
        BY <2>1 DEF ReturnFromWrite, Leaving, TypeInv, TypeOK
    <2>3. Registered(c) /\ ~Leaving(c)
        BY <2>1, <2>2 DEF ReturnFromWrite, Registered, Leaving, TypeInv, TypeOK
    <2> QED
        BY <1>4, <2>1, <2>2, <2>3 DEF ReturnFromWrite, TypeInv, TypeOK
<1>13. CASE \E p \in Sender :
                \/ \E users \in SUBSET User : SendBulk(p, users)
                \/ \E u \in User : CreateFails(p, u) \/ \E m \in Notification : Create(p, u, m)
                \/ Unlock(p)
    <2>1. PICK p \in Sender :
                \/ \E users \in SUBSET User : SendBulk(p, users)
                \/ \E u \in User : CreateFails(p, u) \/ \E m \in Notification : Create(p, u, m)
                \/ Unlock(p)
        BY <1>13
    <2>2. (\A q \in Sender \ {p} : sender'[q] = sender[q]) /\ ~Pushing(p, c)
        BY <2>1 DEF SendBulk, CreateFails, Create, Unlock, NextUser, Pushing, TypeInv, TypeOK
    <2>3. UNCHANGED <<chan, writer, owed>> /\ Registered(c) /\ ~Leaving(c)
        BY <2>1 DEF SendBulk, CreateFails, Create, Unlock, Registered, Leaving
    <2>4. n \in OnItsWay(c)
        BY <1>2, <2>3
    <2> QED
        BY <2>2, <2>3, <2>4, OnItsWayKept DEF Pushing
<1>14. CASE \E p \in Sender : Broadcast(p)
    <2>1. PICK p \in Sender : Broadcast(p)
        BY <1>14
    <2> DEFINE live == clients[sender[p].user]
               m == sender[p].message
    <2>2. /\ sender'[p].pc = "push" /\ sender'[p].todo = live /\ sender'[p].message = m
          /\ \A q \in Sender \ {p} : sender'[q] = sender[q]
          /\ ~Pushing(p, c)
        BY <2>1 DEF Broadcast, Pushing, TypeInv, TypeOK, SenderState
    <2>3. UNCHANGED <<chan, writer>> /\ Registered(c) /\ ~Leaving(c)
        BY <2>1 DEF Broadcast, Registered, Leaving
    <2>4. n \in owed[c] \/ (c \in live /\ n = m)
        BY <2>1 DEF Broadcast
    <2>5. CASE n \in owed[c]
        <3>1. n \in OnItsWay(c)
            BY <1>2, <2>3, <2>5
        <3> QED
            BY <2>2, <2>3, <3>1, OnItsWayKept DEF Pushing
    <2>6. CASE c \in live /\ n = m
        BY <2>2, <2>6 DEF OnItsWay, Pushing
    <2> QED
        BY <2>4, <2>5, <2>6
<1>15. CASE \E p \in Sender, d \in Client : TrySend(p, d)
    <2>1. PICK p \in Sender, d \in Client : TrySend(p, d)
        BY <1>15
    <2>2. UNCHANGED <<clients, run, conn, writer, owed>> /\ Registered(c)
        BY <2>1 DEF TrySend, Registered
    <2>3. ~Leaving(c)
        <3>1. unregs'[c] = unregs[c] \/ unregs'[c] = unregs[c] + 1
            BY <2>1 DEF TrySend, TypeInv, TypeOK
        <3>2. unregs[c] \in Nat
            BY DEF TypeInv, TypeOK
        <3> QED
            BY <2>2, <3>1, <3>2 DEF Leaving
    <2>4. n \in OnItsWay(c)
        BY <1>2, <2>2, <2>3
    <2>5. /\ \A q \in Sender \ {p} : sender'[q] = sender[q]
          /\ sender'[p].pc = sender[p].pc /\ sender'[p].message = sender[p].message
          /\ sender'[p].todo = sender[p].todo \ {d}
        BY <2>1 DEF TrySend, TypeInv, TypeOK, SenderState
    <2>6. CASE d # c
        <3>1. chan'[c].buffer = chan[c].buffer
            BY <2>1, <2>6 DEF TrySend, TypeInv, TypeOK
        <3> QED
            BY <2>2, <2>4, <2>5, <2>6, <3>1, OnItsWayKept DEF Pushing
    <2>7. CASE d = c
        <3> DEFINE b == chan[c].buffer
                   m == sender[p].message
        <3>1. ~(unregs'[c] > 0) /\ unregs[c] \in Nat
            BY <2>7 DEF Leaving, TypeInv, TypeOK
        <3>2. chan'[c].buffer = Append(b, m)
            BY <2>1, <2>7, <3>1 DEF TrySend, TypeInv, TypeOK
        <3>3. b \in Seq(Notification) /\ m \in Notification
            BY <2>1 DEF TrySend, Pushing, TypeInv, TypeOK, SendersPoint
        <3>4. /\ \A i \in 1 .. Len(b) : i \in 1 .. Len(Append(b, m)) /\ Append(b, m)[i] = b[i]
              /\ Len(b) + 1 \in 1 .. Len(Append(b, m)) /\ Append(b, m)[Len(b) + 1] = m
            BY <3>3
        <3>5. Buffered(c) \cup {m} \subseteq Buffered(c)'
            BY <3>2, <3>4 DEF Buffered
        <3>6. n \in Buffered(c) \cup {m} \cup {writer[c].message}
              \/ \E q \in Sender \ {p} : Pushing(q, c) /\ n = sender[q].message
            BY <2>4 DEF OnItsWay
        <3> HIDE DEF b, m
        <3> QED
            BY <2>2, <2>5, <3>5, <3>6 DEF OnItsWay, Pushing
    <2> QED
        BY <2>6, <2>7
<1> QED
    BY <1>5, <1>6, <1>7, <1>8, <1>9, <1>10, <1>11, <1>12, <1>13, <1>14, <1>15
    DEF Step, HubStep, ClientStep, WriterStep, SenderStep

\* A connection that stays has been written every notification broadcast to it,
\* or will be; one that missed a notification is being dropped.
THEOREM NoGaps == Spec => []NoGapUnlessLeaving
<1>1. Init => NoGapUnlessLeaving
    BY OwnerAssumption, SMTT(60) DEF Init, NoGapUnlessLeaving, Registered
<1> QED
    BY <1>1, InitTypeInv, StepTypeInv, InitHubInv, StepHubInv, StepNoGap, PTL DEF Spec

-----------------------------------------------------------------------------
(* The limit on a user's connections.                                      *)

UsersBounded ==
    \A u \in User :
        IsFiniteSet(clients[u]) /\ Cardinality(clients[u]) <= maxConnectionsPerUser

LEMMA StepUsersBounded == TypeInv /\ UsersBounded /\ [Step]_vars => UsersBounded'
<1> SUFFICES ASSUME TypeInv, UsersBounded, [Step]_vars PROVE UsersBounded'
    OBVIOUS
<1> USE DEF hubVars, pumpVars
<1>1. ASSUME NEW u \in User PROVE
      IsFiniteSet(clients[u]) /\ Cardinality(clients[u]) \in Nat
      /\ Cardinality(clients[u]) <= maxConnectionsPerUser
    BY FS_CardinalityType DEF UsersBounded
<1>2. clients \in [User -> SUBSET Client] /\ maxConnectionsPerUser \in Nat \ {0}
    BY LimitAssumption DEF TypeInv, TypeOK
<1>3. ASSUME NEW u \in User, NEW S, clients' = [clients EXCEPT ![u] = S],
             IsFiniteSet(S), Cardinality(S) <= maxConnectionsPerUser
      PROVE  UsersBounded'
    BY <1>1, <1>2, <1>3 DEF UsersBounded
<1>4. CASE AddClient
    <2> DEFINE c == run.client
               o == Owner[run.client]
               mine == clients[o]
    <2>1. o \in User
        BY <1>4, OwnerAssumption DEF AddClient, Locked, TypeInv, RunPoints
    <2>2. IsFiniteSet(mine) /\ Cardinality(mine) \in Nat /\ Cardinality(mine) <= maxConnectionsPerUser
        BY <1>1, <2>1
    <2>3. \/ /\ Cardinality(mine) < maxConnectionsPerUser
             /\ clients' = [clients EXCEPT ![o] = mine \cup {c}]
          \/ \E oldest \in mine : clients' = [clients EXCEPT ![o] = (mine \ {oldest}) \cup {c}]
        <3>1. CASE Cardinality(mine) >= maxConnectionsPerUser
            BY <1>4, <3>1 DEF AddClient
        <3>2. CASE ~(Cardinality(mine) >= maxConnectionsPerUser)
            BY <1>2, <1>4, <2>2, <3>2 DEF AddClient
        <3> QED
            BY <3>1, <3>2
    <2> HIDE DEF c, o, mine
    <2>4. CASE Cardinality(mine) < maxConnectionsPerUser /\ clients' = [clients EXCEPT ![o] = mine \cup {c}]
        <3>1. IsFiniteSet(mine \cup {c}) /\ Cardinality(mine \cup {c}) <= maxConnectionsPerUser
            BY <1>2, <2>2, <2>4, FS_AddElement
        <3> QED
            BY <1>3, <2>1, <2>4, <3>1
    <2>5. CASE \E oldest \in mine : clients' = [clients EXCEPT ![o] = (mine \ {oldest}) \cup {c}]
        <3>1. PICK oldest \in mine : clients' = [clients EXCEPT ![o] = (mine \ {oldest}) \cup {c}]
            BY <2>5
        <3>2. IsFiniteSet(mine \ {oldest}) /\ Cardinality(mine \ {oldest}) = Cardinality(mine) - 1
            BY <2>2, FS_RemoveElement
        <3>3. /\ IsFiniteSet((mine \ {oldest}) \cup {c})
              /\ Cardinality((mine \ {oldest}) \cup {c}) <= maxConnectionsPerUser
            BY <1>2, <2>2, <3>2, FS_AddElement
        <3> QED
            BY <1>3, <2>1, <3>1, <3>3
    <2> QED
        BY <2>3, <2>4, <2>5
<1>5. CASE RemoveClient
    <2> DEFINE c == run.client
               o == Owner[run.client]
    <2>1. o \in User
        BY <1>5, OwnerAssumption DEF RemoveClient, Locked, TypeInv, RunPoints
    <2>2. UNCHANGED clients \/ (c \in clients[o] /\ clients' = [clients EXCEPT ![o] = clients[o] \ {c}])
        BY <1>5 DEF RemoveClient
    <2>3. IsFiniteSet(clients[o] \ {c}) /\ Cardinality(clients[o] \ {c}) <= maxConnectionsPerUser
        <3> DEFINE mine == clients[o]
        <3>1. IsFiniteSet(mine) /\ Cardinality(mine) \in Nat /\ Cardinality(mine) <= maxConnectionsPerUser
            BY <1>1, <2>1
        <3> HIDE DEF mine
        <3>2. /\ IsFiniteSet(mine \ {c})
              /\ Cardinality(mine \ {c}) \in {Cardinality(mine), Cardinality(mine) - 1}
            BY <3>1, FS_RemoveElement
        <3>3. Cardinality(mine \ {c}) <= maxConnectionsPerUser
            BY <1>2, <3>1, <3>2
        <3> QED
            BY <3>2, <3>3 DEF mine
    <2> HIDE DEF c, o
    <2>4. CASE UNCHANGED clients
        BY <2>4 DEF UsersBounded
    <2>5. CASE clients' = [clients EXCEPT ![o] = clients[o] \ {c}]
        BY <1>3, <2>1, <2>3, <2>5
    <2> QED
        BY <2>2, <2>4, <2>5
<1>6. CASE UNCHANGED clients
    BY <1>6 DEF UsersBounded
<1> QED
    BY <1>4, <1>5, <1>6
    DEF Step, HubStep, ClientStep, WriterStep, SenderStep, ReceiveRegister, ReceiveUnregister,
        ReceiveDropped, LockHub, ContextDone, Upgrade, StartPumps, ReadError, CloseConn,
        TakeMessage, WriteMessage, WriteError, SendClosed, PingError, ReturnFromWrite, SendBulk,
        Create, CreateFails, Broadcast, TrySend, Unlock, vars

\* No user has more connections registered than the limit.
THEOREM LimitKept == Spec => []ConnectionsBounded
<1>1. Init => UsersBounded
    BY LimitAssumption, FS_EmptySet DEF Init, UsersBounded
<1>2. UsersBounded => ConnectionsBounded
    BY DEF UsersBounded, ConnectionsBounded
<1> QED
    BY <1>1, <1>2, InitTypeInv, StepTypeInv, StepUsersBounded, PTL DEF Spec

=============================================================================
