--------------------------- MODULE MCSemesterEnd ---------------------------
(* The end of a semester, in three parts of which one is in motion: calls   *)
(* of every kind on the row of the semester; the grades of two offerings    *)
(* around EndSemester; and the cohort groups it puts the students into whom *)
(* it holds back (CohortGroups).                                            *)
EXTENDS SemesterEnd, TLC

CONSTANTS taken, missed

Row(status, type) == [status |-> status, semester |-> type, passThreshold |-> 1,
                      version |-> 0, deleted |-> FALSE]

AtAnySpringOrFallFinalized ==
    {Row(status, "spring") : status \in SemesterStatus} \cup {Row("finalized", "fall")}

AnyStudent == CHOOSE s \in Student : TRUE

\* One of two students is on leave and enrolled in nothing; the other takes two
\* courses and passes one of them.
OneOnLeave == [s \in Student |-> [year |-> 1, cohort |-> 1, version |-> 0,
                  status |-> IF s = AnyStudent THEN "active" ELSE "on_leave"]]
OneEnrolled == [o \in Offering |-> {AnyStudent}]
PassOne == [o \in Offering |-> [s \in Student |-> IF o = taken THEN 1 ELSE 0]]

\* At threshold 1 a mark of 1 passes, at threshold 2 it fails.
EveryCall ==
    [call : {"updateStatus"}, to : SemesterStatus]
    \cup [call : {"update"}, passThreshold : {2}]
    \cup [call : {"definalize", "delete", "end"}]
    \cup [call : {"finalizeOffering", "definalizeOffering"}, offering : Offering]
    \cup [call : {"override"}, offering : {taken}, student : {AnyStudent}, grade : {0}]
    \cup [call : {"updateStudent"}, student : {AnyStudent}, cohort : {5}]

-----------------------------------------------------------------------------

CONSTANTS StandingGroups, Kind, Cohorts, InCohort, Move, ByHand, Nobody  \* of Places

VARIABLES standing, membership, moving, outdated, crossing

groupVars == <<standing, membership, moving, outdated, crossing>>

Places == INSTANCE CohortGroups WITH
    Group <- StandingGroups, TypeOf <- Kind, Cohort <- Cohorts, CohortOf <- InCohort,
    Call <- Move, groups <- standing, members <- membership, call <- moving,
    stale <- outdated, crossed <- crossing

ASSUME GroupsAssumption == Places!GroupsAssumption

CONSTANTS theory1, theory2, practice

\* Two theory groups and a practice group of one cohort.
OnePractice ==
    [g \in {theory1, theory2, practice} |-> IF g = practice THEN "practice" ELSE "theory"]
AllInOne == [g \in {theory1, theory2, practice} |-> 1]

\* The groups are there before the moves begin.
GroupsFirst == IF moving' = moving THEN TRUE ELSE standing = StandingGroups

-----------------------------------------------------------------------------

VARIABLE part

Interchangeable == Permutations(Request) \cup Permutations(Move)

\* Around the row the second course is graded before, and stays so.
RowCall(op) == op.call \in {"finalizeOffering", "definalizeOffering"} => op.offering = taken

GradeCall(op) ==
    \/ op.call \in {"finalizeOffering", "definalizeOffering", "definalize", "end"}
    \/ op.call = "updateStatus" /\ op.to = "finalized"

Starts == {o \in Offering : enrollment[o][AnyStudent] = "enrolled"}

MCInit ==
    /\ Init /\ Places!Init
    /\ \/ part = "row" /\ missed \notin Starts
       \/ part = "grades" /\ semester \in {Row("finalized", "spring"), Row("grading", "spring")}
       \/ part = "groups" /\ semester = Row("upcoming", "spring") /\ Starts = Offering

\* A third call on the row joins only calls on the row.
ThirdOnTheRow ==
    IF \E r \in Request : At(r, "idle") THEN TRUE
    ELSE \A r \in Request : Calls(r, {"updateStatus", "update", "definalize", "delete", "end"})

Only(Call(_)) == \A r \in Request : req[r].op # None => Call(req[r].op)

MCNext ==
    /\ UNCHANGED part
    /\ \/ part = "row" /\ Next /\ (ThirdOnTheRow /\ Only(RowCall))' /\ UNCHANGED groupVars
       \/ part = "grades" /\ Next /\ Only(GradeCall)' /\ UNCHANGED groupVars
       \/ part = "groups" /\ Places!Next /\ GroupsFirst /\ UNCHANGED vars

MCSpec == MCInit /\ [][MCNext]_<<part, vars, groupVars>>

-----------------------------------------------------------------------------
(* A reassignment goes by a count nobody has outdated, unless it waited for *)
(* the lock while somebody came in; and it leaves its student in one group  *)
(* of each type, unless he was put into a group after it had looked for his *)
(* rows (CohortGroups, of postgres/cohort_group.go).                        *)
MovesAreSound == Places!MovesAreSound

(* Concurrent reassignments cannot over-fill a group (CohortGroups, of      *)
(* postgres/cohort_group.go:121-126).                                       *)
NeverOverfills == Places!NeverOverfills
=============================================================================
