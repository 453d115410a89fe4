-------------------------------- MODULE MCFeed --------------------------------
(* The announcements, in four parts of which one is in motion: threads of     *)
(* three without edits; edits, pins and publish windows of a post and one     *)
(* comment (both Feed); a list read page by page while it changes             *)
(* (FeedPages); and one activity with its covers (Activities).                *)
EXTENDS Naturals, FiniteSets, TLC

CONSTANTS
    Posts, Users, Calls, Bodies, MentionedBy, MaxUpdateRetries, MaxVersion, NoParent, NotYet, Gone,
    plain, naming, user1

VARIABLES rows, likes, mentions, phase, calls, miscounted

threadVars == <<rows, likes, mentions, phase, calls, miscounted>>

Threads == INSTANCE Feed

CONSTANTS Entries, Limit, ActivityIds, Covers, MaxLinks, NoCover

VARIABLES feed, cursor, reading, shown, standing, everPinned,
          activities, links, covering, faulty

pageVars == <<feed, cursor, reading, shown, standing, everPinned>>
activityVars == <<activities, links, covering, faulty>>

MCMentionedBy == plain :> {} @@ naming :> {user1}

Pages == INSTANCE FeedPages

Events == INSTANCE Activities WITH rows <- activities, calls <- covering

ASSUME PartsAssumption ==
    Threads!FeedAssumption /\ Pages!PagesAssumption /\ Events!ActivitiesAssumption

-----------------------------------------------------------------------------

VARIABLE part

Symmetry == Permutations(Posts) \cup Permutations(Calls) \cup Permutations(Covers)

NoneYet ==
    /\ feed = [n \in 1 .. Entries |-> "unborn"] /\ ~everPinned

FeedInit ==
    /\ Threads!Init /\ Pages!Init /\ Events!Init
    /\ \/ part \in {"threads", "edits", "activities"} /\ NoneYet
       \/ part = "pages"

Quiet(call) == call.pc = "comment" => call.body = plain

\* One post with its thread.
OnePost == Cardinality({p \in Posts : Threads!Present(p)' /\ ~Threads!IsComment(rows[p])'}) <= 1

InThreads ==
    /\ Threads!Next /\ OnePost
    /\ \A c \in Calls : calls'[c].pc # "write" /\ Quiet(calls'[c])
    /\ \A p \in Posts : Threads!Present(p)' => rows'[p].body = plain

InEdits ==
    /\ Threads!Next /\ OnePost
    /\ phase' = phase
    /\ Cardinality({p \in Posts : rows'[p] # NotYet}) <= 2
    /\ \A c \in Calls : calls'[c].pc # "like"
    /\ \A p \in Posts : Threads!Present(p)' /\ Threads!IsComment(rows[p])' => rows'[p].version <= 1

FeedNext ==
    /\ UNCHANGED part
    /\ \/ part = "threads" /\ InThreads /\ UNCHANGED <<pageVars, activityVars>>
       \/ part = "edits" /\ InEdits /\ UNCHANGED <<pageVars, activityVars>>
       \/ part = "pages" /\ Pages!Next /\ UNCHANGED <<threadVars, activityVars>>
       \/ part = "activities" /\ Events!Next /\ UNCHANGED <<threadVars, pageVars>>

FeedSpec == FeedInit /\ [][FeedNext]_<<part, threadVars, pageVars, activityVars>>

-----------------------------------------------------------------------------
(* What is kept beside a post is what the post says: its likes, its mentions, *)
(* and the comments of its thread unless one was deleted with replies under   *)
(* it or twice (Feed, of postgres/post.go).                                   *)
KeptWithPostsUnlessDisturbed == Threads!KeptWithPostsUnlessDisturbed

(* A write changes only the columns its request is about: no edit takes a pin *)
(* back, no pin an edit (Feed, of post.go: UpdatePost and Pin).               *)
WritesChangeWhatTheyAsk == Threads!WritesChangeWhatTheyAsk

(* A reader who gets to the end was shown every entry that stood on the feed  *)
(* all along, and none twice, as long as nothing is pinned (FeedPages, of     *)
(* postgres/post.go and postgres/activity.go).                                *)
PagesAreWholeUnlessPinned == Pages!PagesAreWholeUnlessPinned

(* Every image has a count for each activity whose cover it is, however edits *)
(* race, fail, are retried or die; and no other once all is quiet, unless a   *)
(* request died or a count could not be given back (Activities, of            *)
(* activity.go).                                                              *)
CoversAreCounted == Events!CoversAreCounted
===============================================================================
