--------------------------------- MODULE Feed ---------------------------------
(***************************************************************************)
(* The member feed: posts, the threads of comments under them, likes and   *)
(* mentions (internal/announcements/post.go and its Postgres adapter).     *)
(* Every statement and every transaction is one step; a call that reads    *)
(* first and writes later is two.  Edits and pins write back the row they  *)
(* read, guarded by its version.  Attachments are FileStore's, the notices *)
(* sent after a commit NotificationHub's.                                  *)
(***************************************************************************)
EXTENDS Naturals, FiniteSets

CONSTANTS
    Posts,              \* ids of posts and comments
    Users,
    Calls,              \* requests that may be in flight together
    Bodies,
    MentionedBy,        \* the users a body names
    MaxUpdateRetries,   \* rounds of a write that keeps losing (3 in the code)
    MaxVersion,         \* bound: how often a row is rewritten
    NoParent,           \* the parent and the root of a post
    NotYet, Gone        \* an id not used yet, and one of a deleted comment

VARIABLES
    rows,               \* the posts table
    likes,              \* the post_likes table
    mentions,           \* the post_mentions table
    phase,              \* where the clock stands to the one publish window
    calls,              \* what each request is doing
    miscounted          \* history: roots that lost a reply with its replies, or
                        \* one comment twice

vars == <<rows, likes, mentions, phase, calls, miscounted>>

-----------------------------------------------------------------------------
(* Rows *)

Schedules == {"always", "window"}

PostRow ==
    [parent : Posts \cup {NoParent}, root : Posts \cup {NoParent},
     body : Bodies, schedule : Schedules, pinned : BOOLEAN, deleted : BOOLEAN,
     likeCount : Nat, commentCount : Nat, version : 0..MaxVersion]

\* What UPDATE writes, and the version it goes by.
Columns == [body : Bodies, schedule : Schedules, pinned : BOOLEAN, version : 0..MaxVersion]

ColumnsOf(r) ==
    [body |-> r.body, schedule |-> r.schedule, pinned |-> r.pinned, version |-> r.version]

\* What the bounds and the marks are.
FeedAssumption ==
    /\ MaxUpdateRetries \in Nat \ {0} /\ MaxVersion \in Nat
    /\ MentionedBy \in [Bodies -> SUBSET Users]
    /\ NoParent \notin Posts
    /\ NotYet # Gone /\ {NotYet, Gone} \cap PostRow = {}

Present(p) == rows[p] \notin {NotYet, Gone}

Visible(r) == ~r.deleted /\ (r.schedule = "window" => phase = "during")

IsComment(r) == r.parent # NoParent

Thread(root) == {q \in Posts : Present(q) /\ rows[q].root = root}

Under(p, q) == Present(q) /\ rows[q].parent = p

HoldsReplies(S) == \A r \in S, q \in Posts : Under(r, q) => q \in S

\* What the foreign keys take along: replies, replies to them, and so on.
Cascade(p) == {q \in Posts : \A S \in SUBSET Posts : p \in S /\ HoldsReplies(S) => q \in S}

Edits == [body : Bodies] \cup [schedule : Schedules] \cup [body : Bodies, schedule : Schedules]

Pins == [pinned : BOOLEAN]

Idle == [pc |-> "idle"]

CallRow ==
    {Idle} \cup [pc : {"write", "again"}, post : Posts, seen : Columns,
                 change : Edits \cup Pins, tries : 1..MaxUpdateRetries]
           \cup [pc : {"like"}, post : Posts, user : Users]
           \cup [pc : {"comment"}, post : Posts, root : Posts, body : Bodies]
           \cup [pc : {"remove"}, post : Posts, root : Posts \cup {NoParent}]

TypeOK ==
    /\ rows \in [Posts -> PostRow \cup {NotYet, Gone}]
    /\ likes \subseteq Posts \X Users /\ mentions \subseteq Posts \X Users
    /\ phase \in {"before", "during", "after"}
    /\ calls \in [Calls -> CallRow]
    /\ miscounted \subseteq Posts

Init ==
    /\ rows = [p \in Posts |-> NotYet]
    /\ likes = {} /\ mentions = {}
    /\ phase = "before"
    /\ calls = [c \in Calls |-> Idle]
    /\ miscounted = {}

Set(c, call) == calls' = [calls EXCEPT ![c] = call]

Mentions(p, b) == {p} \X MentionedBy[b]

-----------------------------------------------------------------------------
(* Posts and comments *)

NewRow(parent, root, b, s) ==
    [parent |-> parent, root |-> root, body |-> b, schedule |-> s, pinned |-> FALSE,
     deleted |-> FALSE, likeCount |-> 0, commentCount |-> 0, version |-> 0]

\* One transaction with the mention rows.
CreatePost(p, b, s) ==
    /\ rows[p] = NotYet
    /\ rows' = [rows EXCEPT ![p] = NewRow(NoParent, NoParent, b, s)]
    /\ mentions' = mentions \cup Mentions(p, b)
    /\ UNCHANGED <<likes, phase, calls, miscounted>>

\* The parent is read; a reply joins the thread of its parent's root.
BeginComment(c, parent, b) ==
    /\ calls[c] = Idle
    /\ Present(parent) /\ Visible(rows[parent])
    /\ Set(c, [pc |-> "comment", post |-> parent, body |-> b,
               root |-> IF IsComment(rows[parent]) THEN rows[parent].root ELSE parent])
    /\ UNCHANGED <<rows, likes, mentions, phase, miscounted>>

\* One transaction: the row, the root's count and the mention rows.  The foreign
\* keys refuse it when the parent is gone by now.
CreateComment(c, q) ==
    LET call == calls[c]
    IN  /\ call.pc = "comment" /\ rows[q] = NotYet
        /\ IF Present(call.post)
           THEN /\ rows' = [rows EXCEPT
                        ![q] = NewRow(call.post, call.root, call.body, "always"),
                        ![call.root].commentCount = @ + 1]
                /\ mentions' = mentions \cup Mentions(q, call.body)
           ELSE UNCHANGED <<rows, mentions>>
        /\ Set(c, Idle)
        /\ UNCHANGED <<likes, phase, miscounted>>

BeginDelete(c, p) ==
    /\ calls[c] = Idle /\ Present(p)
    /\ Set(c, [pc |-> "remove", post |-> p, root |-> rows[p].root])
    /\ UNCHANGED <<rows, likes, mentions, phase, miscounted>>

\* A post keeps its row and its thread.
SoftDeletePost(c) ==
    /\ calls[c].pc = "remove" /\ calls[c].root = NoParent
    /\ rows' = [rows EXCEPT ![calls[c].post].deleted = TRUE]
    /\ Set(c, Idle)
    /\ UNCHANGED <<likes, mentions, phase, miscounted>>

CountDown(n) == IF n = 0 THEN 0 ELSE n - 1

\* A comment goes with everything that hangs on it; the root counts one less,
\* whatever went.
DeleteComment(c) ==
    LET p    == calls[c].post
        root == calls[c].root
        lost == IF Present(p) THEN Cascade(p) ELSE {}
    IN  /\ calls[c].pc = "remove" /\ root # NoParent
        /\ rows' = [q \in Posts |->
                       CASE q \in lost -> Gone
                         [] q = root   -> [rows[q] EXCEPT !.commentCount = CountDown(@)]
                         [] OTHER      -> rows[q]]
        /\ likes' = {l \in likes : l[1] \notin lost}
        /\ mentions' = {m \in mentions : m[1] \notin lost \cup {p}}
        /\ miscounted' = IF Cardinality(lost) = 1 THEN miscounted ELSE miscounted \cup {root}
        /\ Set(c, Idle)
        /\ UNCHANGED phase

-----------------------------------------------------------------------------
(* Edits and pins *)

\* Comments are edited like posts but never pinned.
BeginUpdate(c, p, change) ==
    /\ calls[c] = Idle /\ Present(p)
    /\ change \in Pins => ~IsComment(rows[p])
    /\ Set(c, [pc |-> "write", post |-> p, seen |-> ColumnsOf(rows[p]), change |-> change, tries |-> 1])
    /\ UNCHANGED <<rows, likes, mentions, phase, miscounted>>

\* The columns UPDATE writes, as this call wants them.
Wanted(call, field) ==
    IF field \in DOMAIN call.change THEN call.change[field] ELSE call.seen[field]

Written(call) ==
    [rows[call.post] EXCEPT !.body = Wanted(call, "body"),
                            !.schedule = Wanted(call, "schedule"),
                            !.pinned = Wanted(call, "pinned"),
                            !.version = @ + 1]

\* A bug of its kind: the row is written whatever its version.
VersionIgnored(call) == Present(call.post)

VersionHolds(call) == Present(call.post) /\ rows[call.post].version = call.seen.version

\* The row goes back as it was read but for what the request changes.
UpdatePost(c) ==
    LET call == calls[c]
        p    == call.post
    IN  /\ call.pc = "write"
        /\ VersionHolds(call) /\ rows[p].version < MaxVersion
        /\ rows' = [rows EXCEPT ![p] = Written(call)]
        /\ IF "body" \in DOMAIN call.change
           THEN mentions' = {m \in mentions : m[1] # p} \cup Mentions(p, call.change.body)
           ELSE UNCHANGED mentions
        /\ Set(c, Idle)
        /\ UNCHANGED <<likes, phase, miscounted>>

\* Somebody else wrote: read again, a bounded number of times.
LoseTheRace(c) ==
    /\ calls[c].pc = "write" /\ ~VersionHolds(calls[c])
    /\ Set(c, IF calls[c].tries = MaxUpdateRetries THEN Idle ELSE [calls[c] EXCEPT !.pc = "again"])
    /\ UNCHANGED <<rows, likes, mentions, phase, miscounted>>

ReadAgain(c) ==
    LET call == calls[c]
    IN  /\ call.pc = "again"
        /\ Set(c, IF Present(call.post)
                  THEN [call EXCEPT !.pc = "write", !.seen = ColumnsOf(rows[call.post]), !.tries = @ + 1]
                  ELSE Idle)
        /\ UNCHANGED <<rows, likes, mentions, phase, miscounted>>

-----------------------------------------------------------------------------
(* Likes *)

BeginLike(c, p, u) ==
    /\ calls[c] = Idle
    /\ Present(p) /\ Visible(rows[p])
    /\ Set(c, [pc |-> "like", post |-> p, user |-> u])
    /\ UNCHANGED <<rows, likes, mentions, phase, miscounted>>

\* A bug of its kind: the count goes up though the like was there.
LikeAgain(c) ==
    LET like == <<calls[c].post, calls[c].user>>
    IN  /\ calls[c].pc = "like"
        /\ IF Present(calls[c].post)
           THEN /\ likes' = likes \cup {like}
                /\ rows' = [rows EXCEPT ![calls[c].post].likeCount = @ + 1]
           ELSE UNCHANGED <<likes, rows>>
        /\ Set(c, Idle)
        /\ UNCHANGED <<mentions, phase, miscounted>>

\* The like and the count in one transaction; the primary key refuses a second
\* like, the foreign key one of a comment that is gone.
Like(c) ==
    LET like == <<calls[c].post, calls[c].user>>
    IN  /\ calls[c].pc = "like"
        /\ IF Present(calls[c].post) /\ like \notin likes
           THEN /\ likes' = likes \cup {like}
                /\ rows' = [rows EXCEPT ![calls[c].post].likeCount = @ + 1]
           ELSE UNCHANGED <<likes, rows>>
        /\ Set(c, Idle)
        /\ UNCHANGED <<mentions, phase, miscounted>>

Unlike(p, u) ==
    /\ <<p, u>> \in likes
    /\ likes' = likes \ {<<p, u>>}
    /\ rows' = [rows EXCEPT ![p].likeCount = CountDown(@)]
    /\ UNCHANGED <<mentions, phase, calls, miscounted>>

\* The publish time passes, then the expiry.
Elapse ==
    /\ phase # "after"
    /\ phase' = IF phase = "before" THEN "during" ELSE "after"
    /\ UNCHANGED <<rows, likes, mentions, calls, miscounted>>

Next ==
    \/ Elapse
    \/ \E p \in Posts : \/ \E u \in Users : Unlike(p, u)
                       \/ \E b \in Bodies, s \in Schedules : CreatePost(p, b, s)
    \/ \E c \in Calls :
          \/ SoftDeletePost(c) \/ DeleteComment(c)
          \/ UpdatePost(c) \/ LoseTheRace(c) \/ ReadAgain(c) \/ Like(c)
          \/ \E p \in Posts :
                \/ CreateComment(c, p) \/ BeginDelete(c, p)
                \/ \E b \in Bodies : BeginComment(c, p, b)
                \/ \E change \in Edits \cup Pins : BeginUpdate(c, p, change)
                \/ \E u \in Users : BeginLike(c, p, u)

Spec == Init /\ [][Next]_vars

-----------------------------------------------------------------------------
(* Properties *)

\* The counters kept with a post are those of the tables: its likes, and the
\* comments of its thread unless a comment was deleted with replies under it
\* or by two requests.
\* (announcements/postgres/post.go: Like, Unlike, CreateComment, DeleteComment)
CountersMatchUnlessDisturbed ==
    \A p \in Posts : Present(p) =>
        /\ rows[p].likeCount = Cardinality({l \in likes : l[1] = p})
        /\ IsComment(rows[p]) \/ p \in miscounted
           \/ rows[p].commentCount = Cardinality(Thread(p))

\* A post mentions exactly whom its body names, however edits and pins of it race.
\* (announcements/postgres/post.go: UpdatePost replaces the mention rows)
MentionsMatchBody ==
    mentions = UNION {Mentions(p, rows[p].body) : p \in {q \in Posts : Present(q)}}

\* What is kept beside a post is what the post says.
\* (announcements/postgres/post.go: the counters and the mention rows)
KeptWithPostsUnlessDisturbed == CountersMatchUnlessDisturbed /\ MentionsMatchBody

\* A write changes only the columns its request is about: no edit takes a pin
\* back, no pin an edit.
\* (announcements/post.go: UpdatePost and Pin write back the row they read)
WritesChangeWhatTheyAsk ==
    [][\A p \in Posts : Present(p) /\ Present(p)' =>
          \A field \in {"body", "schedule", "pinned"} : rows[p][field] # rows'[p][field] =>
              \E c \in Calls : /\ calls[c].pc = "write" /\ calls[c].post = p
                               /\ field \in DOMAIN calls[c].change
      ]_vars

\* The comment of the table's counters: they are denormalized, so they say what
\* counting would.
\* (migrations/000015_add_posts.up.sql: "Counters (denormalized)")
CommentsAreCounted ==
    \A p \in Posts : Present(p) /\ ~IsComment(rows[p]) =>
        rows[p].commentCount = Cardinality(Thread(p))
===============================================================================
