------------------------------ MODULE Activities ------------------------------
(***************************************************************************)
(* Institutional activities and their cover images                         *)
(* (internal/announcements/activity.go).  A cover is counted before the    *)
(* row names it and given back after the row let go of it; an update       *)
(* writes back the row it read, guarded by its version, and starts over    *)
(* when it lost a race.  Any request may die between two steps, and giving *)
(* a count back may fail.                                                  *)
(***************************************************************************)
EXTENDS Naturals, FiniteSets

CONSTANTS
    ActivityIds,
    Covers,             \* stored images
    Calls,
    MaxUpdateRetries,   \* 3 in the code
    MaxVersion,         \* bound: how often an activity is rewritten
    MaxLinks,           \* bound: how often an image is counted
    NoCover, NotYet

VARIABLES
    rows,               \* the activities table
    links,              \* the references counted on each image for activities
    calls,              \* what each request is doing
    faulty              \* history: a request died or a count was not given back

vars == <<rows, links, calls, faulty>>

Row == [cover : Covers \cup {NoCover}, deleted : BOOLEAN, version : 0..MaxVersion]

\* What the bounds and the marks are.
ActivitiesAssumption ==
    /\ MaxUpdateRetries \in Nat \ {0} /\ MaxVersion \in Nat /\ MaxLinks \in Nat \ {0}
    /\ NoCover \notin Covers /\ NotYet \notin Row

\* A request changes the cover, or something else: a text, the schedule, the pin.
Changes == [cover : Covers] \cup {[other |-> TRUE]}

Idle == [pc |-> "idle"]

CallRow ==
    {Idle} \cup [pc : {"insert"}, id : ActivityIds, cover : Covers \cup {NoCover}]
           \cup [pc : {"link", "write", "lost", "give up", "again"}, id : ActivityIds,
                 change : Changes, seen : Row, tries : 1..MaxUpdateRetries]
           \cup [pc : {"unlink"}, cover : Covers]

TypeOK ==
    /\ rows \in [ActivityIds -> Row \cup {NotYet}]
    /\ links \in [Covers -> 0..MaxLinks]
    /\ calls \in [Calls -> CallRow]
    /\ faulty \in BOOLEAN

Init ==
    /\ rows = [a \in ActivityIds |-> NotYet]
    /\ links = [i \in Covers |-> 0]
    /\ calls = [c \in Calls |-> Idle]
    /\ faulty = FALSE

-----------------------------------------------------------------------------

Set(c, call) == calls' = [calls EXCEPT ![c] = call]

Link(i) == links[i] < MaxLinks /\ links' = [links EXCEPT ![i] = @ + 1]

\* A failed Unlink is logged: the count stays one too high.
Unlink(i) ==
    \/ links[i] > 0 /\ links' = [links EXCEPT ![i] = @ - 1] /\ UNCHANGED faulty
    \/ faulty' = TRUE /\ UNCHANGED links

BeginCreate(c, a, cover) ==
    /\ calls[c] = Idle /\ rows[a] = NotYet
    /\ \A d \in Calls : calls[d].pc = "insert" => calls[d].id # a
    /\ cover # NoCover => Link(cover)
    /\ cover = NoCover => UNCHANGED links
    /\ Set(c, [pc |-> "insert", id |-> a, cover |-> cover])
    /\ UNCHANGED <<rows, faulty>>

CreateActivity(c) ==
    LET call == calls[c]
    IN  /\ call.pc = "insert"
        /\ \/ /\ rows' = [rows EXCEPT ![call.id] =
                     [cover |-> call.cover, deleted |-> FALSE, version |-> 0]]
              /\ Set(c, Idle)
           \/ /\ Set(c, IF call.cover = NoCover THEN Idle
                        ELSE [pc |-> "unlink", cover |-> call.cover])
              /\ UNCHANGED rows
        /\ UNCHANGED <<links, faulty>>

\* Update and Pin read the row first; a new cover is counted next.
BeginUpdate(c, a, change) ==
    /\ calls[c] = Idle /\ rows[a] # NotYet
    /\ Set(c, [pc |-> IF "cover" \in DOMAIN change THEN "link" ELSE "write", id |-> a,
               change |-> change, seen |-> rows[a], tries |-> 1])
    /\ UNCHANGED <<rows, links, faulty>>

ResolveCover(c) ==
    /\ calls[c].pc = "link"
    /\ Link(calls[c].change.cover)
    /\ Set(c, [calls[c] EXCEPT !.pc = "write"])
    /\ UNCHANGED <<rows, faulty>>

CoverWanted(call) ==
    IF "cover" \in DOMAIN call.change THEN call.change.cover ELSE call.seen.cover

\* A bug of its kind: the row is written whatever its version.
VersionIgnored(call) == rows[call.id] # NotYet

VersionHolds(call) == rows[call.id].version = call.seen.version

\* The row goes back as it was read but for the change; deleted_at is not written.
\* A replaced cover is given back, the new one when the write fails.
UpdateActivity(c) ==
    LET call == calls[c]
    IN  /\ call.pc = "write"
        /\ \/ /\ VersionHolds(call) /\ rows[call.id].version < MaxVersion
              /\ rows' = [rows EXCEPT ![call.id] =
                     [cover |-> CoverWanted(call), deleted |-> rows[call.id].deleted,
                      version |-> rows[call.id].version + 1]]
              /\ Set(c, IF "cover" \in DOMAIN call.change /\ call.seen.cover # NoCover
                        THEN [pc |-> "unlink", cover |-> call.seen.cover] ELSE Idle)
           \/ /\ Set(c, [call EXCEPT !.pc = IF VersionHolds(call) THEN "give up" ELSE "lost"])
              /\ UNCHANGED rows
        /\ UNCHANGED <<links, faulty>>

\* A bug of its kind: the next round counts the cover again.
KeepNewCover(c) ==
    LET call == calls[c]
    IN  /\ call.pc \in {"lost", "give up"}
        /\ UNCHANGED <<links, faulty>>
        /\ Set(c, IF call.pc = "lost" /\ call.tries < MaxUpdateRetries
                  THEN [call EXCEPT !.pc = "again"] ELSE Idle)
        /\ UNCHANGED rows

DropNewCover(c) ==
    LET call == calls[c]
    IN  /\ call.pc \in {"lost", "give up"}
        /\ IF "cover" \in DOMAIN call.change
           THEN Unlink(call.change.cover) ELSE UNCHANGED <<links, faulty>>
        /\ Set(c, IF call.pc = "lost" /\ call.tries < MaxUpdateRetries
                  THEN [call EXCEPT !.pc = "again"] ELSE Idle)
        /\ UNCHANGED rows

ReadAgain(c) ==
    LET call == calls[c]
    IN  /\ call.pc = "again"
        /\ Set(c, [call EXCEPT !.pc = IF "cover" \in DOMAIN call.change THEN "link" ELSE "write",
                               !.seen = rows[call.id], !.tries = @ + 1])
        /\ UNCHANGED <<rows, links, faulty>>

DropCover(c) ==
    /\ calls[c].pc = "unlink"
    /\ Unlink(calls[c].cover)
    /\ Set(c, Idle)
    /\ UNCHANGED rows

\* The row stays, and with it the reference to its cover.
SoftDelete(a) ==
    /\ rows[a] # NotYet
    /\ rows' = [rows EXCEPT ![a].deleted = TRUE]
    /\ UNCHANGED <<links, calls, faulty>>

Crash(c) ==
    /\ calls[c] # Idle
    /\ Set(c, Idle)
    /\ faulty' = TRUE
    /\ UNCHANGED <<rows, links>>

Next ==
    \/ \E a \in ActivityIds : SoftDelete(a)
    \/ \E c \in Calls :
          \/ CreateActivity(c) \/ ResolveCover(c) \/ UpdateActivity(c) \/ DropNewCover(c)
          \/ ReadAgain(c) \/ DropCover(c) \/ Crash(c)
          \/ \E a \in ActivityIds :
                \/ \E cover \in Covers \cup {NoCover} : BeginCreate(c, a, cover)
                \/ \E change \in Changes : BeginUpdate(c, a, change)

Spec == Init /\ [][Next]_vars

-----------------------------------------------------------------------------
(* Properties *)

Naming(i) == {a \in ActivityIds : rows[a] # NotYet /\ rows[a].cover = i}

\* Every image has a count for each activity whose cover it is, however edits
\* race, fail, are retried or die; and no other once all is quiet, unless a
\* request died or a count could not be given back.
\* (announcements/files_reader.go: "Link before the referrer row exists, Unlink
\* after it is gone"; activity.go: Create, Update)
CoversAreCounted ==
    \A i \in Covers :
        /\ links[i] >= Cardinality(Naming(i))
        /\ ~faulty /\ (\A c \in Calls : calls[c] = Idle) => links[i] = Cardinality(Naming(i))
===============================================================================
