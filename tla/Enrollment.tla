----------------------------- MODULE Enrollment -----------------------------
(***************************************************************************)
(* How one student gets into a course offering (internal/management):      *)
(* direct enrollment, pretake and retake requests with their review        *)
(* (enrollment_request.go), and the bulk enrollment of a semester          *)
(* (semester.go, BulkEnroll).  None of them uses a transaction: every      *)
(* statement is a step, and what an earlier one has read may be stale.     *)
(*                                                                         *)
(* An approved request is served by whoever sees it: its approval, when    *)
(* the semester is active by then, or the next pass of the bulk enrollment.*)
(* Each of them looks once; the question is whether one slips through.     *)
(***************************************************************************)
EXTENDS EnrollmentTable, Naturals

CONSTANTS
    Course,
    CourseOf,          \* the course of each offering
    Cohort,            \* the offerings of the student's own cohort and shift
    Requires,          \* courses.requires, or None
    Curriculum,        \* what the student's year studies in each semester
    Request,           \* the requests the student may file, by their unique key
    InitialStatus,     \* where each semester starts
    Offered,           \* the offerings made before
    Taken,             \* what earlier attempts may have come to
    Call,
    MaxSurprises,      \* bound on failing statements and writes from elsewhere, together
    None

\* What the constants are; the module that gives them their values assumes it.
CourseAssumption ==
    /\ CourseOf \in [Offering -> Course]
    /\ Cohort \subseteq Offering
    /\ Requires \in [Course -> Course \cup {None}]
    /\ Curriculum \in [Semester -> SUBSET Course]
    /\ Request \subseteq [type : {"pretake", "retake"}, course : Course, semester : Semester]
    /\ Offered \subseteq Offering /\ Taken \subseteq EnrollmentStatus
    /\ MaxSurprises \in Nat /\ None \notin Request

\* "over" stands for grading, finalized and archived.
SemesterStatus == {"upcoming", "active", "over"}

StatusAssumption == InitialStatus \in [Semester -> SemesterStatus]

VARIABLES
    status,      \* semesters.status
    offering,    \* the rows of course_offerings
    latest,      \* the offering of the student's latest attempt at each course
    request,     \* enrollment_requests.status
    active,      \* the student is active
    call,        \* the local state of each call
    surprises,   \* how many there were
    unserved,    \* history: requests somebody looked at and had a reason to skip
    swept,       \* history: semesters a pass without error ran over while active
    regraded     \* history: courses whose completed attempt was graded again

vars == <<enrollment, status, offering, latest, request, active, call, surprises,
          unserved, swept, regraded>>

CallRow ==
    [step : {"idle", "filing", "activating", "finding", "checking", "inserting",
             "students", "offerings", "passed", "curriculum", "asking", "retakes"},
     request : Request \cup {None},       \* filed or approved by this call
     offering : Offering \cup {None},     \* about to be enrolled in
     pass : Semester \cup {None},         \* the semester a bulk enrollment runs over
     whole : BOOLEAN,                     \* began while active, no error so far
     found : SUBSET Offering, passed : SUBSET Course, todo : SUBSET Course,
     next : {"idle", "curriculum", "retakes"}]

Idle ==
    [step |-> "idle", request |-> None, offering |-> None, pass |-> None,
     whole |-> FALSE, found |-> {}, passed |-> {}, todo |-> {}, next |-> "idle"]

Surprise == surprises < MaxSurprises /\ surprises' = surprises + 1

At(p, step) == call[p].step = step
Continue(p, c) == call' = [call EXCEPT ![p] = c]
Return(p) == Continue(p, Idle)

TypeOK ==
    /\ enrollment \in [Offering -> EnrollmentStatus]
    /\ status \in [Semester -> SemesterStatus]
    /\ offering \in [Offering -> {"none", "live", "deleted"}]
    /\ latest \in [Course -> Offering \cup {None}]
    /\ request \in [Request -> {"none", "pending", "approved", "rejected"}]
    /\ active \in BOOLEAN
    /\ call \in [Call -> CallRow]
    /\ surprises \in 0 .. MaxSurprises
    /\ unserved \subseteq Request /\ swept \subseteq Semester /\ regraded \subseteq Course
    /\ \A o \in Offering : enrollment[o] # "none" => offering[o] # "none"
    /\ \A c \in Course :
          IF latest[c] = None THEN \A o \in Offering : CourseOf[o] = c => enrollment[o] = "none"
          ELSE CourseOf[latest[c]] = c /\ enrollment[latest[c]] # "none"

Completed == {CourseOf[o] : o \in {k \in Offering : enrollment[k] = "completed"}}

(* The attempts behind the student are in semesters that are over. *)
Past == {o \in Offering : InitialStatus[SemesterOf[o]] = "over"}

Init ==
    /\ status = InitialStatus
    /\ enrollment \in [Offering -> Taken \cup {"none"}]
    /\ \A o \in Offering : o \notin Past => enrollment[o] = "none"
    /\ offering = [o \in Offering |-> IF o \in Past \cup Offered THEN "live" ELSE "none"]
    /\ latest \in [Course -> Offering \cup {None}]
    /\ request = [r \in Request |-> "none"]
    /\ active = TRUE
    /\ call = [p \in Call |-> Idle]
    /\ surprises = 0 /\ unserved = {} /\ swept = {} /\ regraded = {}
    /\ \A c \in Course :
          IF latest[c] = None THEN \A o \in Offering : CourseOf[o] = c => enrollment[o] = "none"
          ELSE CourseOf[latest[c]] = c /\ enrollment[latest[c]] # "none"

-----------------------------------------------------------------------------
(* Filing a request. *)

(* latestTakeStatus: dropped and withdrawn count as never taken. *)
TakeStatus(c) ==
    LET s == IF latest[c] = None THEN "none" ELSE enrollment[latest[c]]
    IN  CASE s = "completed" -> "passed"
          [] s = "enrolled" -> "in_progress"
          [] s = "failed" -> "failed"
          [] OTHER -> "not_taken"

(* Any offering ever made to the cohort, deleted ones included. *)
IsNaturalCohort(c) ==
    \E o \in Cohort : CourseOf[o] = c /\ offering[o] # "none"

CanRequest(r) ==
    \/ /\ r.type = "pretake" /\ Requires[r.course] # None
       /\ TakeStatus(Requires[r.course]) # "passed"
    \/ /\ r.type = "retake"
       /\ TakeStatus(r.course) = "failed" /\ IsNaturalCohort(r.course)

(* CreatePretake and CreateRetake: the standing is read, then a row inserted. *)
ReadStanding(p, r) ==
    /\ At(p, "idle") /\ CanRequest(r)
    /\ Continue(p, [Idle EXCEPT !.step = "filing", !.request = r])
    /\ UNCHANGED <<enrollment, status, offering, latest, request, active, surprises,
                   unserved, swept, regraded>>

CreateRequest(p) ==
    LET r == call[p].request
    IN  /\ At(p, "filing")
        /\ request' = IF request[r] = "none" THEN [request EXCEPT ![r] = "pending"]
                      ELSE request
        /\ Return(p)
        /\ UNCHANGED <<enrollment, status, offering, latest, active, surprises,
                       unserved, swept, regraded>>

-----------------------------------------------------------------------------
(* Reviewing it. *)

RejectRequest(r) ==
    /\ request[r] = "pending"
    /\ request' = [request EXCEPT ![r] = "rejected"]
    /\ UNCHANGED <<enrollment, status, offering, latest, active, call, surprises,
                   unserved, swept, regraded>>

ApproveRequest(p, r) ==
    /\ At(p, "idle") /\ request[r] = "pending"
    /\ request' = [request EXCEPT ![r] = "approved"]
    /\ Continue(p, [Idle EXCEPT !.step = "activating", !.request = r])
    /\ UNCHANGED <<enrollment, status, offering, latest, active, surprises,
                   unserved, swept, regraded>>

(* Not active is no error: an upcoming semester leaves it to the bulk enrollment. *)
IsSemesterActive(p) ==
    LET r == call[p].request
    IN  /\ At(p, "activating")
        /\ IF status[r.semester] = "active"
           THEN Continue(p, [call[p] EXCEPT !.step = "finding"])
           ELSE Return(p)
        /\ unserved' = IF status[r.semester] = "over" THEN unserved \cup {r} ELSE unserved
        /\ UNCHANGED <<enrollment, status, offering, latest, request, active, surprises,
                       swept, regraded>>

LiveOfferings(s) == {o \in Cohort : offering[o] = "live" /\ SemesterOf[o] = s}
InCourse(O, c) == {o \in O : CourseOf[o] = c}

GetOfferingIDForEnrollment(p) ==
    LET r == call[p].request
        O == InCourse(LiveOfferings(r.semester), r.course)
    IN  /\ At(p, "finding")
        /\ \/ /\ O = {}
              /\ Return(p) /\ unserved' = unserved \cup {r}
           \/ \E o \in O :
                 /\ Continue(p, [call[p] EXCEPT !.step = "checking", !.offering = o])
                 /\ UNCHANGED unserved
        /\ UNCHANGED <<enrollment, status, offering, latest, request, active, surprises,
                       swept, regraded>>

-----------------------------------------------------------------------------
(* EnrollStudent, for an approved request or called directly. *)

EnrollStudent(p, o) ==
    /\ Surprise
    /\ At(p, "idle")
    /\ Continue(p, [Idle EXCEPT !.step = "checking", !.offering = o])
    /\ UNCHANGED <<enrollment, status, offering, latest, request, active,
                   unserved, swept, regraded>>

(* Mutant: the caller's offering is taken on trust. *)
TrustOffering(p) ==
    /\ At(p, "checking")
    /\ Continue(p, [call[p] EXCEPT !.step = "inserting"])
    /\ UNCHANGED <<enrollment, status, offering, latest, request, active, surprises,
                   unserved, swept, regraded>>

OfferingExists(p) ==
    LET r == call[p].request
        exists == offering[call[p].offering] = "live"
    IN  /\ At(p, "checking")
        /\ IF exists THEN Continue(p, [call[p] EXCEPT !.step = "inserting"]) ELSE Return(p)
        /\ unserved' = IF ~exists /\ r # None THEN unserved \cup {r} ELSE unserved
        /\ UNCHANGED <<enrollment, status, offering, latest, request, active, surprises,
                       swept, regraded>>

(* The insert, also of the bulk enrollment, which then goes on. *)
InsertEnrollment(p) ==
    LET o == call[p].offering
    IN  /\ At(p, "inserting")
        /\ CreateEnrollment(o)
        /\ latest' = IF enrollment[o] = "none" THEN [latest EXCEPT ![CourseOf[o]] = o]
                     ELSE latest
        /\ IF call[p].next = "idle" THEN Return(p)
           ELSE Continue(p, [call[p] EXCEPT !.step = call[p].next, !.offering = None])
        /\ UNCHANGED <<status, offering, request, active, surprises,
                       unserved, swept, regraded>>
-----------------------------------------------------------------------------
(* BulkEnroll, as far as it concerns this student. *)

Unchanged == UNCHANGED <<enrollment, status, offering, latest, request, active, surprises, regraded>>

(* The approved requests for the semester that the pass has seen cannot serve. *)
Skips(p, Q) ==
    unserved' = unserved \cup
        {r \in Request : r.semester = call[p].pass /\ request[r] = "approved" /\ r.course \in Q}

GetSemester(p, s) ==
    /\ At(p, "idle") /\ status[s] \in {"upcoming", "active"}
    /\ Continue(p, [Idle EXCEPT !.step = "students", !.pass = s, !.whole = status[s] = "active"])
    /\ UNCHANGED <<unserved, swept>> /\ Unchanged

GetActiveStudents(p) ==
    /\ At(p, "students")
    /\ IF active THEN Continue(p, [call[p] EXCEPT !.step = "offerings"]) ELSE Return(p)
    /\ UNCHANGED <<unserved, swept>> /\ Unchanged

GetOfferingsInfoBySemester(p) ==
    LET found == LiveOfferings(call[p].pass)
    IN  /\ At(p, "offerings")
        /\ Continue(p, [call[p] EXCEPT !.step = "passed", !.found = found])
        /\ Skips(p, Course \ {CourseOf[o] : o \in found})
        /\ UNCHANGED swept /\ Unchanged

GetPassedCourseIDs(p) ==
    /\ At(p, "passed")
    /\ Continue(p, [call[p] EXCEPT !.step = "curriculum", !.passed = Completed,
                                  !.todo = Curriculum[call[p].pass], !.next = "curriculum"])
    /\ Skips(p, Completed)
    /\ UNCHANGED swept /\ Unchanged

(* Prerequisite or not, a course already passed or enrolled in is done. *)
Blocked(p, c) == Requires[c] # None /\ Requires[c] \notin call[p].passed

(* One course of the curriculum: skipped, to be inserted, or blocked unless  *)
(* HasApprovedPretake says otherwise.                                        *)
EnrollInCurriculum(p, c) ==
    LET O == InCourse(call[p].found, c)
        rest == [call[p] EXCEPT !.todo = @ \ {c}]
    IN  /\ At(p, "curriculum") /\ c \in call[p].todo
        /\ \/ /\ O = {} \/ c \in call[p].passed \/ \E o \in O : enrollment[o] = "enrolled"
              /\ Continue(p, rest)
           \/ /\ c \notin call[p].passed
              /\ \E o \in O :
                    /\ enrollment[o] # "enrolled"
                    /\ Continue(p, [rest EXCEPT !.offering = o,
                           !.step = IF Blocked(p, c) THEN "asking" ELSE "inserting"])
        /\ UNCHANGED <<unserved, swept>> /\ Unchanged

ApprovedFor(type, s) ==
    {r.course : r \in {q \in Request : /\ q.type = type /\ q.semester = s
                                     /\ request[q] = "approved"}}

(* Mutant: a missing prerequisite blocks, pretake or not. *)
BlockUnasked(p) ==
    /\ At(p, "asking")
    /\ Continue(p, [call[p] EXCEPT !.step = "curriculum", !.offering = None])
    /\ UNCHANGED <<unserved, swept>> /\ Unchanged

(* Mutant: any request does, decided or not. *)
HasPretake(p) ==
    LET o == call[p].offering
    IN  /\ At(p, "asking")
        /\ IF \E r \in Request : /\ r.type = "pretake" /\ r.semester = call[p].pass
                               /\ r.course = CourseOf[o] /\ request[r] # "none"
           THEN Continue(p, [call[p] EXCEPT !.step = "inserting"])
           ELSE Continue(p, [call[p] EXCEPT !.step = "curriculum", !.offering = None])
        /\ UNCHANGED <<unserved, swept>> /\ Unchanged

HasApprovedPretake(p) ==
    /\ At(p, "asking")
    /\ IF CourseOf[call[p].offering] \in ApprovedFor("pretake", call[p].pass)
       THEN Continue(p, [call[p] EXCEPT !.step = "inserting"])
       ELSE Continue(p, [call[p] EXCEPT !.step = "curriculum", !.offering = None])
    /\ UNCHANGED <<unserved, swept>> /\ Unchanged

(* Retakes: outside the curriculum, not passed, and offered. *)
GetRetakeRequestInfos(p) ==
    LET C == ApprovedFor("retake", call[p].pass)
             \ (Curriculum[call[p].pass] \cup call[p].passed)
    IN  /\ At(p, "curriculum") /\ call[p].todo = {}
        /\ Continue(p, [call[p] EXCEPT !.step = "retakes", !.next = "retakes",
                !.todo = C \cap {CourseOf[o] : o \in call[p].found}])
        /\ UNCHANGED <<unserved, swept>> /\ Unchanged

EnrollInRetake(p, c) ==
    LET rest == [call[p] EXCEPT !.todo = @ \ {c}]
    IN  /\ At(p, "retakes") /\ c \in call[p].todo
        /\ \E o \in InCourse(call[p].found, c) :
              Continue(p, IF enrollment[o] = "enrolled" THEN rest
                          ELSE [rest EXCEPT !.step = "inserting", !.offering = o])
        /\ UNCHANGED <<unserved, swept>> /\ Unchanged

BulkEnrollReturns(p) ==
    /\ At(p, "retakes") /\ call[p].todo = {}
    /\ Return(p)
    /\ swept' = IF call[p].whole THEN swept \cup {call[p].pass} ELSE swept
    /\ UNCHANGED unserved /\ Unchanged

-----------------------------------------------------------------------------
(* A statement fails.  A pass counts the error and goes on behind the course   *)
(* it was at; before the courses, and in any other call, the error ends it.    *)
CourseFails(p) ==
    LET on == [call[p] EXCEPT !.offering = None, !.whole = FALSE]
    IN  /\ call[p].next # "idle"
        /\ \/ /\ call[p].step \in {"asking", "inserting"}
              /\ Continue(p, [on EXCEPT !.step = call[p].next])
           \/ \E c \in call[p].todo : /\ At(p, call[p].next)
                                     /\ Continue(p, [on EXCEPT !.todo = @ \ {c}])
        /\ UNCHANGED unserved

CallFails(p) ==
    LET r == call[p].request
    IN  /\ ~At(p, "idle")
        /\ call[p].next = "idle" \/ (At(p, "curriculum") /\ call[p].todo = {})
        /\ Return(p)
        /\ unserved' = IF r # None /\ ~At(p, "filing") THEN unserved \cup {r} ELSE unserved

StatementFails(p) ==
    /\ Surprise
    /\ CourseFails(p) \/ CallFails(p)
    /\ UNCHANGED <<enrollment, status, offering, latest, request, active, swept, regraded>>

-----------------------------------------------------------------------------
(* The rest of the system. *)

(* CreateOffering and GenerateOfferings: the index keeps one live offering of  *)
(* a course, semester, cohort and shift.                                       *)
CreateOffering(o) ==
    /\ offering[o] = "none"
    /\ o \in Cohort => InCourse(LiveOfferings(SemesterOf[o]), CourseOf[o]) = {}
    /\ offering' = [offering EXCEPT ![o] = "live"]
    /\ UNCHANGED <<enrollment, status, latest, request, active, call, surprises,
                   unserved, swept, regraded>>

DeleteOffering(o) ==
    /\ Surprise
    /\ offering[o] = "live"
    /\ offering' = [offering EXCEPT ![o] = "deleted"]
    /\ UNCHANGED <<enrollment, status, latest, request, active, call,
                   unserved, swept, regraded>>

UpdateStatus(s) ==
    /\ status[s] # "over"
    /\ status' = [status EXCEPT ![s] = IF @ = "upcoming" THEN "active" ELSE "over"]
    /\ UNCHANGED <<enrollment, offering, latest, request, active, call, surprises,
                   unserved, swept, regraded>>

(* Drops, leaves, finalized, overridden and reopened grades. *)
OtherWriter(o) ==
    /\ Surprise
    /\ \/ DropEnrollment(o)
       \/ WithdrawEnrollmentsForLeave({SemesterOf[o]})
       \/ \E outcome \in {"completed", "failed"} : SetFinalGrade(o, outcome)
       \/ ClearFinalGrades(o)
    /\ regraded' = IF enrollment[o] = "completed" /\ enrollment'[o] # "completed"
                   THEN regraded \cup {CourseOf[o]} ELSE regraded
    /\ UNCHANGED <<status, offering, latest, request, active, call, unserved, swept>>

UpdateStudent ==
    /\ Surprise
    /\ active' = ~active
    /\ UNCHANGED <<enrollment, status, offering, latest, request, call,
                   unserved, swept, regraded>>

CallStep(p) ==
    \/ \E r \in Request : ReadStanding(p, r) \/ ApproveRequest(p, r)
    \/ \E o \in Offering : EnrollStudent(p, o)
    \/ \E s \in Semester : GetSemester(p, s)
    \/ CreateRequest(p)
    \/ IsSemesterActive(p)
    \/ GetOfferingIDForEnrollment(p)
    \/ OfferingExists(p)
    \/ InsertEnrollment(p)
    \/ GetActiveStudents(p)
    \/ GetOfferingsInfoBySemester(p)
    \/ GetPassedCourseIDs(p)
    \/ \E c \in Course : EnrollInCurriculum(p, c) \/ EnrollInRetake(p, c)
    \/ HasApprovedPretake(p)
    \/ GetRetakeRequestInfos(p)
    \/ BulkEnrollReturns(p)
    \/ StatementFails(p)

Next ==
    \/ \E p \in Call : CallStep(p)
    \/ \E r \in Request : RejectRequest(r)
    \/ \E o \in Offering : CreateOffering(o) \/ DeleteOffering(o) \/ OtherWriter(o)
    \/ \E s \in Semester : UpdateStatus(s)
    \/ UpdateStudent

Spec == Init /\ [][Next]_vars

-----------------------------------------------------------------------------
HasRow(r) ==
    \E o \in Offering : /\ CourseOf[o] = r.course /\ SemesterOf[o] = r.semester
                        /\ enrollment[o] # "none"

\* The bulk enrollment has no branch for these: a pretake outside the curriculum,
\* and a retake inside it behind a prerequisite that is not passed.
NoBranch(r) ==
    IF r.type = "pretake" THEN r.course \notin Curriculum[r.semester]
    ELSE r.course \in Curriculum[r.semester] /\ Requires[r.course] # None

Approving(r) ==
    \E p \in Call : call[p].request = r /\ ~At(p, "filing")

(* After a bulk enrollment over the active semester that met no error, every   *)
(* approved request whose approval has returned has its enrollment, however    *)
(* the two interleaved, unless one of them looked and found it had none to     *)
(* make (enrollment_request.go:335-337, "picked up by the semester             *)
(* bulk-enroll").                                                              *)
SweptIsServed ==
    \A r \in Request :
        /\ request[r] = "approved" /\ r.semester \in swept
        /\ r \notin unserved /\ ~Approving(r) /\ ~NoBranch(r)
        => HasRow(r)

(* The bulk enrollment never enrolls past an unmet prerequisite (semester.go:  *)
(* 565): at the moment it inserts, the prerequisite is passed, or was until    *)
(* its grade changed, or a request for that course is approved.                *)
EnrolledIsEntitled ==
    \A p \in Call :
        At(p, "inserting") /\ call[p].pass # None =>
            LET c == CourseOf[call[p].offering]
            IN  \/ Requires[c] = None
                \/ Requires[c] \in Completed \cup regraded
                \/ c \in ApprovedFor("pretake", call[p].pass) \cup ApprovedFor("retake", call[p].pass)

(* What the comment at enrollment_request.go:335-337 says without exception.   *)
ApprovedIsPickedUp ==
    \A r \in Request :
        /\ request[r] = "approved" /\ r.semester \in swept
        /\ r \notin unserved /\ ~Approving(r)
        => HasRow(r)
=============================================================================
