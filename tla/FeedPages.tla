------------------------------ MODULE FeedPages ------------------------------
(***************************************************************************)
(* Reading a feed page by page while it changes: the lists of posts and of *)
(* activities put pinned entries first, then the newest, and page by the   *)
(* creation time of the last entry shown (shared/pagination,               *)
(* announcements/postgres).  Entries are numbered by their creation time,  *)
(* which the process sets before it inserts: they may appear in any order, *)
(* as do those scheduled for later.                                        *)
(***************************************************************************)
EXTENDS Naturals, Sequences, FiniteSets

CONSTANTS
    Entries,        \* bound: how many entries are ever published
    Limit           \* the page size

PagesAssumption == Entries \in Nat \ {0} /\ Limit \in Nat \ {0}

VARIABLES
    feed,           \* the state of each entry
    cursor,         \* what the next request starts from, 0 before the first
    reading,        \* whether the reader has pages to come
    shown,          \* what he was shown so far
    standing,       \* history: entries on the feed since he began
    everPinned      \* history: an entry was pinned since he began

vars == <<feed, cursor, reading, shown, standing, everPinned>>

Ids == 1..Entries

OnFeed == {n \in Ids : feed[n] \in {"plain", "pinned"}}

TypeOK ==
    /\ feed \in [Ids -> {"unborn", "plain", "pinned", "deleted"}]
    /\ cursor \in 0..Entries /\ reading \in BOOLEAN
    /\ shown \in Seq(Ids) /\ standing \subseteq Ids /\ everPinned \in BOOLEAN

Init ==
    /\ feed \in [Ids -> {"unborn", "plain", "pinned"}]
    /\ cursor = 0 /\ reading = TRUE /\ shown = <<>>
    /\ standing = OnFeed
    /\ everPinned = (\E n \in Ids : feed[n] = "pinned")

-----------------------------------------------------------------------------

\* ORDER BY is_pinned DESC, created_at DESC, id DESC.
Before(m, n) ==
    \/ feed[m] = "pinned" /\ feed[n] # "pinned"
    \/ (feed[m] = "pinned" <=> feed[n] = "pinned") /\ m > n

\* A bug of its kind: the entry the cursor names comes again.
AfterCursorOrAt(n) == cursor = 0 \/ n <= cursor

AfterCursor(n) == cursor = 0 \/ n < cursor

Candidates == {n \in OnFeed : AfterCursor(n)}

Place(n) == 1 + Cardinality({m \in Candidates : Before(m, n)})

\* One row more than a page is fetched: it says whether there is a next page.
Page ==
    LET size == IF Cardinality(Candidates) < Limit THEN Cardinality(Candidates) ELSE Limit
    IN  [i \in 1..size |-> CHOOSE n \in Candidates : Place(n) = i]

\* The cursor is the creation time of the last entry, whatever its pin.
ReadPage ==
    /\ reading
    /\ shown' = shown \o Page
    /\ reading' = (Cardinality(Candidates) > Limit)
    /\ cursor' = IF Cardinality(Candidates) > Limit THEN Page[Limit] ELSE cursor
    /\ UNCHANGED <<feed, standing, everPinned>>

Change(n, state) ==
    /\ feed' = [feed EXCEPT ![n] = state]
    /\ standing' = IF state = "deleted" THEN standing \ {n} ELSE standing
    /\ everPinned' = (everPinned \/ state = "pinned")
    /\ UNCHANGED <<cursor, reading, shown>>

Publish(n) == feed[n] = "unborn" /\ Change(n, "plain")

Pin(n) == n \in OnFeed /\ \E state \in {"plain", "pinned"} : Change(n, state)

SoftDelete(n) == n \in OnFeed /\ Change(n, "deleted")

Next ==
    \/ ReadPage
    \/ reading /\ \E n \in Ids : Publish(n) \/ Pin(n) \/ SoftDelete(n)

Spec == Init /\ [][Next]_vars

-----------------------------------------------------------------------------
(* Properties *)

Times(n) == Cardinality({i \in DOMAIN shown : shown[i] = n})

\* A reader who gets to the end was shown every entry that stood on the feed all
\* along, and none twice, whatever was published and deleted meanwhile, as long
\* as nothing is pinned.
\* (announcements/postgres/post.go: ListPostsByScope; activity.go)
PagesAreWholeUnlessPinned ==
    ~everPinned => /\ \A n \in Ids : Times(n) <= 1
                   /\ ~reading => \A n \in standing : Times(n) = 1

\* The comment of the list: it pages through the live posts, pinned first.
\* (announcements/postgres/post.go: "pages through a scope's live top-level
\* posts, pinned first")
PagesReachEveryEntry == ~reading => \A n \in standing : Times(n) >= 1
===============================================================================
