----------------------------- MODULE CohortGroups -----------------------------
(***************************************************************************)
(* The standing theory and practice groups of a program's cohorts and who  *)
(* is in them (internal/management/cohort_group.go and its Postgres        *)
(* adapter).  EndSemester moves every student it holds back into a group   *)
(* of each type of his new cohort, in one READ COMMITTED transaction that  *)
(* takes the groups FOR UPDATE; staff create groups and put students in    *)
(* and out by hand.  A statement sees what had been committed when it      *)
(* began, and so does the count of the statement that takes the locks.     *)
(***************************************************************************)
EXTENDS Naturals, FiniteSets

CONSTANTS
    Student,
    ByHand,             \* students staff put in and out of groups
    Group,
    TypeOf,             \* theory or practice
    Cohort,
    CohortOf,
    Call,               \* reassignments that may be in flight together
    Nobody

GroupsAssumption ==
    /\ ByHand \subseteq Student
    /\ TypeOf \in [Group -> {"theory", "practice"}]
    /\ CohortOf \in [Group -> Cohort]
    /\ Nobody \notin Student
    /\ IsFiniteSet(Student)

VARIABLES
    groups,             \* the cohort_groups table
    members,            \* the student_cohort_groups table, as committed
    call,
    stale,              \* history: calls that waited for a lock while somebody
                        \* came into one of their groups
    crossed             \* history: calls whose student was put into a group
                        \* after they looked for his rows

vars == <<groups, members, call, stale, crossed>>

Idle == [pc |-> "idle", student |-> Nobody]

TypeOK ==
    /\ groups \subseteq Group
    /\ members \subseteq Student \X groups
    /\ \A c \in Call : /\ call[c].pc \in {"idle", "delete", "count", "lock", "insert"}
                       /\ call[c].student \in Student \cup {Nobody}
    /\ stale \subseteq Call /\ crossed \subseteq Call

Init ==
    /\ groups = {} /\ members = {}
    /\ call = [c \in Call |-> Idle]
    /\ stale = {} /\ crossed = {}

-----------------------------------------------------------------------------
(* What transactions hold *)

\* Rows an open transaction has deleted.
Deleted(c) == IF call[c].pc \in {"count", "lock", "insert"} THEN call[c].deleted ELSE {}

DeletedByOthers(c) == UNION {Deleted(d) : d \in Call \ {c}}

Locked(c) == IF call[c].pc = "insert" THEN DOMAIN call[c].count ELSE {}

LockedByOthers(c) == UNION {Locked(d) : d \in Call \ {c}}

Candidates(cohort) == {g \in groups : CohortOf[g] = cohort}

MembersOf(g) == {s \in Student : <<s, g>> \in members}

RowsOf(s) == {m \in members : m[1] = s}

\* Somebody was put into groups: who is waiting for one of them goes by an old
\* count, who looked for the student's rows before will not delete these.
Disturbed(calls, s, into) ==
    /\ stale' = (stale \cap calls) \cup
          {d \in calls : call[d].pc = "lock" /\ DOMAIN call[d].count \cap into # {}}
    /\ crossed' = (crossed \cap calls) \cup
          {d \in calls : call[d].pc # "idle" /\ call[d].student = s}

Undisturbed == UNCHANGED <<stale, crossed>>

-----------------------------------------------------------------------------
(* ReassignCohortGroups, statement by statement *)

\* DELETE looks for the student's rows ...
BeginDelete(c) ==
    /\ call[c].pc = "idle"
    /\ \E s \in Student, cohort \in Cohort :
          call' = [call EXCEPT ![c] = [pc |-> "delete", student |-> s, cohort |-> cohort,
                                       found |-> RowsOf(s)]]
    /\ Undisturbed /\ UNCHANGED <<groups, members>>

\* ... and waits for every transaction that is deleting one of them.
DeleteMemberships(c) ==
    /\ call[c].pc = "delete"
    /\ call[c].found \cap DeletedByOthers(c) = {}
    /\ call' = [call EXCEPT ![c] = [pc |-> "count", student |-> @.student, cohort |-> @.cohort,
                                    deleted |-> @.found \cap members]]
    /\ Undisturbed /\ UNCHANGED <<groups, members>>

\* The statement that locks takes its snapshot, which its counts come from.
CountMembers(c) ==
    /\ call[c].pc = "count"
    /\ call' = [call EXCEPT ![c] =
          [pc |-> "lock", student |-> @.student, deleted |-> @.deleted,
           count |-> [g \in Candidates(@.cohort) |->
                         Cardinality(MembersOf(g) \ {s \in Student : <<s, g>> \in @.deleted})]]]
    /\ Undisturbed /\ UNCHANGED <<groups, members>>

\* Mutant: the groups are read without FOR UPDATE.
NothingToWaitFor(c) == TRUE

MayLock(c) == DOMAIN call[c].count \cap LockedByOthers(c) = {}

\* PickCohortGroups: one of the smallest of each type that has any.
Picks(count) ==
    LET OfType(t) == {g \in DOMAIN count : TypeOf[g] = t}
        Smallest(t) == {g \in OfType(t) : \A h \in OfType(t) : count[g] <= count[h]}
    IN  {picked \in SUBSET DOMAIN count : \A t \in {"theory", "practice"} :
            IF OfType(t) = {} THEN TRUE
            ELSE \E g \in Smallest(t) : {h \in picked : TypeOf[h] = t} = {g}}

LockGroups(c) ==
    /\ call[c].pc = "lock" /\ MayLock(c)
    /\ \E picked \in Picks(call[c].count) :
          call' = [call EXCEPT ![c] = [pc |-> "insert", student |-> @.student,
                      deleted |-> @.deleted, count |-> @.count, picked |-> picked]]
    /\ Undisturbed /\ UNCHANGED <<groups, members>>

\* An insert waits for who is deleting the same row; ON CONFLICT DO NOTHING.
InsertAndCommit(c) ==
    LET s == call[c].student
        placed == {s} \X call[c].picked
    IN  /\ call[c].pc = "insert"
        /\ placed \cap DeletedByOthers(c) = {}
        /\ members' = (members \ call[c].deleted) \cup placed
        /\ call' = [call EXCEPT ![c] = Idle]
        /\ Disturbed(Call \ {c}, s, call[c].picked)
        /\ UNCHANGED groups

\* An error, a deadlock Postgres resolves, or the end of the process.
Rollback(c) ==
    /\ call[c].pc # "idle"
    /\ call' = [call EXCEPT ![c] = Idle]
    /\ stale' = stale \ {c} /\ crossed' = crossed \ {c}
    /\ UNCHANGED <<groups, members>>

-----------------------------------------------------------------------------
(* Staff *)

CreateCohortGroup(g) ==
    /\ g \notin groups
    /\ groups' = groups \cup {g}
    /\ Undisturbed /\ UNCHANGED <<members, call>>

\* The foreign key's lock waits for FOR UPDATE.  Who is a member is left alone.
AssignToCohortGroup(s, g) ==
    /\ g \in groups /\ <<s, g>> \notin members
    /\ \A c \in Call : g \notin Locked(c)
    /\ members' = members \cup {<<s, g>>}
    /\ Disturbed(Call, s, {g})
    /\ UNCHANGED <<groups, call>>

DeleteCohortGroupMember(s, g) ==
    /\ <<s, g>> \in members
    /\ \A c \in Call : <<s, g>> \notin Deleted(c)
    /\ members' = members \ {<<s, g>>}
    /\ Undisturbed /\ UNCHANGED <<groups, call>>

Next ==
    \/ \E c \in Call : \/ BeginDelete(c) \/ DeleteMemberships(c) \/ CountMembers(c)
                       \/ LockGroups(c) \/ InsertAndCommit(c) \/ Rollback(c)
    \/ \E g \in Group : CreateCohortGroup(g)
    \/ \E s \in ByHand, g \in Group : AssignToCohortGroup(s, g) \/ DeleteCohortGroupMember(s, g)

Spec == Init /\ [][Next]_vars

-----------------------------------------------------------------------------
(* Properties *)

\* Nobody but its own student has come into a group it fills since it counted.
NobodyCame(c) ==
    \A g \in call[c].picked :
        Cardinality(MembersOf(g) \ {call[c].student}) <= call[c].count[g]

\* After it, its student is in the groups it picked and in no other.
Placed(c) ==
    LET s == call[c].student
    IN  {m \in members' : m[1] = s} = {s} \X call[c].picked

(* A reassignment that fills a group goes by a count nobody has outdated,    *)
(* unless it waited for the lock while somebody came in; and it leaves its   *)
(* student in one group of each type, unless he was put into a group after   *)
(* it had looked for his rows (ReassignCohortGroups in                       *)
(* postgres/cohort_group.go).                                                *)
MovesAreSound ==
    [][\A c \in Call : InsertAndCommit(c) =>
          /\ c \notin stale => NobodyCame(c)
          /\ c \notin crossed => Placed(c)]_vars

\* None of the groups it chose from is smaller than the one it fills.
FillsTheLeast(c) ==
    LET Others(g) == Cardinality(MembersOf(g) \ {call[c].student})
    IN  \A g \in call[c].picked : \A h \in DOMAIN call[c].count :
            TypeOf[g] = TypeOf[h] => Others(g) <= Others(h)

(* Concurrent reassignments cannot over-fill a group: each puts its student   *)
(* into the least populated one (postgres/cohort_group.go:123, "concurrent    *)
(* reassignments serialize on the cohort and cannot over-fill a group", and   *)
(* :139, "the lock is what makes the counts trustworthy").                    *)
NeverOverfills == [][\A c \in Call : InsertAndCommit(c) => FillsTheLeast(c)]_vars
===============================================================================
