---------------------------- MODULE SemesterEnd ----------------------------
(***************************************************************************)
(* The end of a semester (internal/management/semester.go) and the final   *)
(* grades it rests on (internal/classroom/grading.go): one semester, its   *)
(* offerings, the enrollments in them and the students enrolled.           *)
(*                                                                         *)
(* A request is a Go call that runs one SQL statement at a time, each a    *)
(* step here, with other requests between two of them.  Nothing spans two  *)
(* statements except the transactions of DeleteSemester and                *)
(* ReassignCohortGroups.  A request can fail at any statement.             *)
(***************************************************************************)
EXTENDS Integers, FiniteSets, Sequences

CONSTANTS
    Student, Offering, Request,
    Operation,         \* the calls made in this instance, a subset of Operations
    InitialSemester,   \* the rows the semester may start as
    InitialStudent,    \* each student's row at the start
    Enrolled,          \* the students enrolled in each offering
    Mark,              \* what FinalGrade computes for each offering and student
    MinCredits,        \* the requirement's minimum, one credit a course
    FullYearRepeat,    \* the setting GetFullYearRepeat returns
    MaxUpdateRetries,  \* maxUpdateRetries
    CanFail,           \* whether statements fail in this instance
    None

SemesterStatus == {"upcoming", "active", "grading", "finalized", "archived"}
SemesterType == {"fall", "spring"}

\* A deleted row keeps its columns: deleted_at is set and reads skip it.
SemesterRow ==
    [status : SemesterStatus, semester : SemesterType, passThreshold : Nat,
     version : Nat, deleted : BOOLEAN]

StudentRow ==
    [year : Nat, cohort : Nat, status : {"active", "on_leave"}, version : Nat]

\* A patch names the one field it sets.
Operations ==
    [call : {"updateStatus"}, to : SemesterStatus]
    \cup [call : {"update"}, passThreshold : Nat]
    \cup [call : {"definalize", "delete", "end"}]
    \cup [call : {"finalizeOffering", "definalizeOffering"}, offering : Offering]
    \cup [call : {"override"}, offering : Offering, student : Student, grade : Nat]
    \cup [call : {"updateStudent"}, student : Student, cohort : Nat]

ASSUME OperationAssumption == Operation \subseteq Operations
ASSUME InitialAssumption ==
    /\ InitialSemester \subseteq SemesterRow
    /\ InitialStudent \in [Student -> StudentRow]
    /\ Enrolled \in [Offering -> SUBSET Student]
ASSUME BoundAssumption ==
    /\ Mark \in [Offering -> [Student -> Nat]]
    /\ MinCredits \in Nat /\ MaxUpdateRetries \in Nat \ {0}
    /\ FullYearRepeat \in BOOLEAN /\ CanFail \in BOOLEAN
ASSUME NoneAssumption == None \notin Operations \cup Student

VARIABLES
    semester,      \* the row in table semesters
    student,       \* table students
    enrollment,    \* course_enrollments.status by offering and student
    cohortHistory, \* table student_cohort_history, each student's rows in order
    cohortGroups,  \* the cohort whose groups each student is in
    req,           \* the local state of each request
    overlapped,    \* history: two EndSemester calls ran at once
    failures       \* history: students whose progression failed part way

tables == <<semester, student, enrollment, cohortHistory, cohortGroups>>
history == <<overlapped, failures>>
vars == <<tables, req, history>>

-----------------------------------------------------------------------------
(* Requests.                                                               *)

RequestPc ==
    {"idle", "read", "write", "done",
     "count", "students", "progress", "promote", "repeat", "remain", "record",
     "regroup", "refresh",
     "finalized", "threshold", "enrolled", "grade", "clear"}

Result == {"none", "ok", "refused", "not_found", "conflict", "failed"}

RequestState ==
    [pc : RequestPc, op : Operation \cup {None}, row : SemesterRow,
     tries : 0 .. MaxUpdateRetries - 1, roster : [Student -> StudentRow],
     left : SUBSET Student, current : Student \cup {None},
     threshold : Nat, result : Result]

NoRow == [status |-> "upcoming", semester |-> "fall", passThreshold |-> 0,
          version |-> 0, deleted |-> FALSE]

IdleRequest ==
    [pc |-> "idle", op |-> None, row |-> NoRow, tries |-> 0, roster |-> InitialStudent,
     left |-> {}, current |-> None, threshold |-> 0, result |-> "none"]

At(r, pc) == req[r].pc = pc

Calls(r, calls) == req[r].op.call \in calls

\* Move r on to its local state s.
Continue(r, s) == req' = [req EXCEPT ![r] = s]

Finish(r, result) ==
    Continue(r, [IdleRequest EXCEPT !.pc = "done", !.op = req[r].op, !.result = result])

Goto(r, pc) == Continue(r, [req[r] EXCEPT !.pc = pc])

Running(r) == req[r].pc \notin {"idle", "done"}

Start(r, op) ==
    /\ At(r, "idle")
    /\ Continue(r, [IdleRequest EXCEPT !.pc = "read", !.op = op])
    /\ UNCHANGED <<tables, history>>

\* A statement fails or the caller goes away, and the call returns its error.
Fail(r) ==
    /\ CanFail /\ Running(r)
    /\ Finish(r, "failed")
    /\ UNCHANGED <<tables, history>>

-----------------------------------------------------------------------------
(* The semester row.                                                       *)

(* Mutant: a semester can be reopened from the archive for its grades. *)
CanReopenArchived(from, to) ==
    <<from, to>> \in {<<"upcoming", "active">>, <<"active", "grading">>,
                      <<"grading", "finalized">>, <<"finalized", "archived">>,
                      <<"finalized", "grading">>, <<"archived", "grading">>}

CanTransitionSemester(from, to) ==
    <<from, to>> \in {<<"upcoming", "active">>, <<"active", "grading">>,
                      <<"grading", "finalized">>, <<"finalized", "archived">>,
                      <<"finalized", "grading">>}

SemesterRunsYearEnd(type) == type = "spring"

WritesSemester == {"updateStatus", "definalize", "update", "end"}

(* Mutant: EndSemester does not check the status. *)
PermitsAnyEnd(op, row) ==
    CASE op.call = "updateStatus" -> CanTransitionSemester(row.status, op.to)
      [] op.call = "definalize" -> row.status = "finalized"
      [] OTHER -> TRUE

\* What each call requires of the row it has read.
Permits(op, row) ==
    CASE op.call = "updateStatus" -> CanTransitionSemester(row.status, op.to)
      [] op.call \in {"definalize", "end"} -> row.status = "finalized"
      [] OTHER -> TRUE

(* Mutant: every retry keeps the first attempt's row, as EndSemester's does. *)
ReadVersionOnRetry(r) ==
    /\ At(r, "read") /\ Calls(r, WritesSemester)
    /\ LET first == req[r].tries = 0
           ok == ~semester.deleted /\ (first => Permits(req[r].op, semester))
       IN  \/ ~ok /\ Finish(r, "refused")
           \/ /\ ok
              /\ Continue(r, [req[r] EXCEPT
                     !.row = IF first THEN semester
                             ELSE [req[r].row EXCEPT !.version = semester.version],
                     !.pc = IF Calls(r, {"end"}) THEN "count" ELSE "write"])
    /\ UNCHANGED <<tables, history>>

\* GetSemester, and the check that follows it.
ReadSemester(r) ==
    /\ At(r, "read") /\ Calls(r, WritesSemester)
    /\ \/ semester.deleted /\ Finish(r, "not_found")
       \/ ~semester.deleted /\ ~Permits(req[r].op, semester) /\ Finish(r, "refused")
       \/ /\ ~semester.deleted /\ Permits(req[r].op, semester)
          /\ Continue(r, [req[r] EXCEPT !.row = semester,
                                       !.pc = IF Calls(r, {"end"}) THEN "count" ELSE "write"])
    /\ overlapped' = (overlapped \/ /\ Calls(r, {"end"}) /\ req'[r].pc = "count"
                                    /\ \E q \in Request \ {r} : Running(q) /\ Calls(q, {"end"}))
    /\ UNCHANGED <<tables, failures>>

\* The row a call means to write over the one it has read.
Patched(op, row) ==
    CASE op.call = "updateStatus" -> [row EXCEPT !.status = op.to]
      [] op.call = "definalize" -> [row EXCEPT !.status = "grading"]
      [] op.call = "end" -> [row EXCEPT !.status = "archived"]
      [] op.call = "update" -> [row EXCEPT !.passThreshold = op.passThreshold]

\* UpdateSemester writes every column of the row it is given, if the version is
\* still the one given with it.
Swapped(row) == semester' = [row EXCEPT !.version = semester.version + 1]

\* The end of an attempt: a conflict starts another, which reads the row again;
\* EndSemester only takes its version.
UpdateSemester(r) ==
    /\ At(r, "write") /\ Calls(r, WritesSemester)
    /\ \/ semester.deleted /\ Finish(r, "not_found") /\ UNCHANGED semester
       \/ /\ ~semester.deleted /\ semester.version = req[r].row.version
          /\ Swapped(Patched(req[r].op, req[r].row))
          /\ Finish(r, "ok")
       \/ /\ ~semester.deleted /\ semester.version # req[r].row.version
          /\ \/ Calls(r, {"end"}) /\ Goto(r, "refresh")
             \/ /\ ~Calls(r, {"end"}) /\ req[r].tries + 1 = MaxUpdateRetries
                /\ Finish(r, "conflict")
             \/ /\ ~Calls(r, {"end"}) /\ req[r].tries + 1 < MaxUpdateRetries
                /\ Continue(r, [req[r] EXCEPT !.pc = "read", !.tries = @ + 1])
          /\ UNCHANGED semester
    /\ UNCHANGED <<student, enrollment, cohortHistory, cohortGroups, history>>

(* Mutant: off by one in the number of attempts. *)
RetryOnceMore(r) ==
    /\ At(r, "refresh")
    /\ \/ semester.deleted /\ Finish(r, "not_found")
       \/ ~semester.deleted /\ req[r].tries = MaxUpdateRetries /\ Finish(r, "conflict")
       \/ /\ ~semester.deleted /\ req[r].tries < MaxUpdateRetries
          /\ Continue(r, [req[r] EXCEPT !.pc = "write", !.tries = @ + 1,
                                       !.row.version = semester.version])
    /\ UNCHANGED <<tables, history>>

RefreshVersion(r) ==
    /\ At(r, "refresh")
    /\ \/ semester.deleted /\ Finish(r, "not_found")
       \/ /\ ~semester.deleted /\ req[r].tries + 1 = MaxUpdateRetries
          /\ Finish(r, "conflict")
       \/ /\ ~semester.deleted /\ req[r].tries + 1 < MaxUpdateRetries
          /\ Continue(r, [req[r] EXCEPT !.pc = "write", !.tries = @ + 1,
                                       !.row.version = semester.version])
    /\ UNCHANGED <<tables, history>>

\* One transaction, which also deletes the offerings.  It succeeds on a row
\* already deleted.
DeleteSemester(r) ==
    /\ At(r, "read") /\ Calls(r, {"delete"})
    /\ semester' = [semester EXCEPT !.deleted = TRUE]
    /\ Finish(r, "ok")
    /\ UNCHANGED <<student, enrollment, cohortHistory, cohortGroups, history>>

-----------------------------------------------------------------------------
(* EndSemester.                                                            *)

Ungraded(o) == \E s \in Student : enrollment[o][s] = "enrolled"

\* CountUnfinalizedOfferings; the offerings of a deleted semester are deleted.
CountUnfinalized(r) ==
    /\ At(r, "count")
    /\ IF ~semester.deleted /\ \E o \in Offering : Ungraded(o)
       THEN Finish(r, "refused")
       ELSE Goto(r, "students")
    /\ UNCHANGED <<tables, history>>

\* GetStudentsInSemester; the loop skips the students not active in what it read.
ReadStudents(r) ==
    /\ At(r, "students")
    /\ Continue(r, [req[r] EXCEPT
           !.pc = "progress", !.roster = student,
           !.left = {s \in Student : /\ student[s].status = "active"
                                     /\ \E o \in Offering : enrollment[o][s] # "none"}])
    /\ UNCHANGED <<tables, history>>

\* SumCredits over the enrollments of one student.
Credits(s) == Cardinality({o \in Offering : enrollment[o][s] = "completed"})

\* GetRequirement's error is dropped, so a failed read counts as no minimum.
Minimum == {MinCredits} \cup (IF CanFail THEN {0} ELSE {})

Outcome(r, s, minCredits) ==
    CASE ~SemesterRunsYearEnd(req[r].row.semester) -> "progress"
      [] SemesterRunsYearEnd(req[r].row.semester) /\ Credits(s) >= minCredits -> "promote"
      [] OTHER -> IF FullYearRepeat THEN "repeat" ELSE "remain"

ProcessStudent(r) ==
    /\ At(r, "progress")
    /\ \E s \in req[r].left, minCredits \in Minimum :
          Continue(r, [req[r] EXCEPT !.pc = Outcome(r, s, minCredits), !.left = @ \ {s},
                                     !.current = s])
    /\ UNCHANGED <<tables, history>>

\* The year and cohort written are computed from the roster and overwrite
\* whatever the row holds by then.
UpdateStudentProgression(r) ==
    /\ req[r].pc \in {"promote", "repeat"}
    /\ LET s == req[r].current
           was == req[r].roster[s]
           year == IF At(r, "promote") THEN was.year + 1 ELSE was.year
           cohort == IF At(r, "promote") THEN was.cohort ELSE was.cohort + 1
       IN  student' = [student EXCEPT ![s] =
               [year |-> year, cohort |-> cohort, status |-> student[s].status,
                version |-> student[s].version + 1]]
    /\ Goto(r, IF At(r, "promote") THEN "progress" ELSE "record")
    /\ UNCHANGED <<semester, enrollment, cohortHistory, cohortGroups, history>>

\* A student who repeats moves to the next cohort; one who remains has a row too.
RecordCohortChange(r) ==
    /\ req[r].pc \in {"record", "remain"}
    /\ LET s == req[r].current
           from == req[r].roster[s].cohort
           to == IF At(r, "record") THEN from + 1 ELSE from
       IN  cohortHistory' = [cohortHistory EXCEPT ![s] = Append(@, [from |-> from, to |-> to])]
    /\ Goto(r, IF At(r, "record") THEN "regroup" ELSE "progress")
    /\ UNCHANGED <<semester, student, enrollment, cohortGroups, history>>

ReassignCohortGroups(r) ==
    /\ At(r, "regroup")
    /\ LET s == req[r].current
       IN  cohortGroups' = [cohortGroups EXCEPT ![s] = req[r].roster[s].cohort + 1]
    /\ Goto(r, "progress")
    /\ UNCHANGED <<semester, student, enrollment, cohortHistory, history>>

\* An error on one student is counted and the loop goes on; what was written for
\* the student before it stays.
ProcessError(r) ==
    /\ CanFail
    /\ req[r].pc \in {"promote", "repeat", "remain", "record", "regroup"}
    /\ Goto(r, "progress")
    /\ failures' = failures \cup {req[r].current}
    /\ UNCHANGED <<tables, overlapped>>

EndProcessing(r) ==
    /\ At(r, "progress") /\ req[r].left = {}
    /\ Goto(r, "write")
    /\ UNCHANGED <<tables, history>>

-----------------------------------------------------------------------------
(* Final grades.  Marks, rules and the check for ungraded work are the     *)
(* constant Mark: teachers change them through other calls.                *)

Outcomes == {"completed", "failed"}

PassStatus(grade, passThreshold) ==
    IF grade >= passThreshold THEN "completed" ELSE "failed"

\* IsOfferingFinalized: every enrollment has an outcome and there is one.
OfferingFinalized(o) ==
    /\ ~Ungraded(o)
    /\ \E s \in Student : enrollment[o][s] # "none"

ReadsStatus == {"finalizeOffering", "definalizeOffering", "override"}

\* The status read joins the semester even when it is deleted.
ReadSemesterStatus(r) ==
    /\ At(r, "read") /\ Calls(r, ReadsStatus)
    /\ LET open == IF Calls(r, {"finalizeOffering"}) THEN semester.status = "grading"
                   ELSE semester.status # "archived"
       IN  \/ ~open /\ Finish(r, "refused")
           \/ open /\ Goto(r, IF Calls(r, {"override"}) THEN "threshold" ELSE "finalized")
    /\ UNCHANGED <<tables, history>>

ReadFinalized(r) ==
    /\ At(r, "finalized")
    /\ LET finalizing == Calls(r, {"finalizeOffering"})
       IN  \/ OfferingFinalized(req[r].op.offering) = finalizing /\ Finish(r, "refused")
           \/ /\ OfferingFinalized(req[r].op.offering) # finalizing
              /\ Goto(r, IF finalizing THEN "threshold" ELSE "clear")
    /\ UNCHANGED <<tables, history>>

(* Mutant: the threshold is not read. *)
SkipPassThreshold(r) ==
    /\ At(r, "threshold")
    /\ Continue(r, [req[r] EXCEPT
           !.pc = IF Calls(r, {"override"}) THEN "grade" ELSE "enrolled",
           !.left = IF Calls(r, {"override"}) THEN {req[r].op.student} ELSE {}])
    /\ UNCHANGED <<tables, history>>

ReadPassThreshold(r) ==
    /\ At(r, "threshold")
    /\ Continue(r, [req[r] EXCEPT
           !.threshold = semester.passThreshold,
           !.pc = IF Calls(r, {"override"}) THEN "grade" ELSE "enrolled",
           !.left = IF Calls(r, {"override"}) THEN {req[r].op.student} ELSE {}])
    /\ UNCHANGED <<tables, history>>

\* EnrolledUserIDs: the students without an outcome yet.
ReadEnrolled(r) ==
    /\ At(r, "enrolled")
    /\ LET roster == {s \in Student : enrollment[req[r].op.offering][s] = "enrolled"}
       IN  \/ roster = {} /\ Finish(r, "refused")
           \/ roster # {} /\ Continue(r, [req[r] EXCEPT !.pc = "grade", !.left = roster])
    /\ UNCHANGED <<tables, history>>

GradeOf(r, s) == IF Calls(r, {"override"}) THEN req[r].op.grade
                 ELSE Mark[req[r].op.offering][s]

\* An enrollment that is not there stops the loop with an error.
SetFinalGrade(r, s) ==
    /\ At(r, "grade") /\ s \in req[r].left
    /\ LET o == req[r].op.offering
       IN  \/ /\ enrollment[o][s] = "none"
              /\ Finish(r, "refused") /\ UNCHANGED enrollment
           \/ /\ enrollment[o][s] # "none"
              /\ enrollment' = [enrollment EXCEPT ![o][s] =
                                   PassStatus(GradeOf(r, s), req[r].threshold)]
              /\ IF req[r].left = {s} THEN Finish(r, "ok")
                 ELSE Continue(r, [req[r] EXCEPT !.left = @ \ {s}])
    /\ UNCHANGED <<semester, student, cohortHistory, cohortGroups, history>>

ClearFinalGrades(r) ==
    /\ At(r, "clear")
    /\ LET o == req[r].op.offering
       IN  enrollment' = [enrollment EXCEPT ![o] =
               [s \in Student |-> IF @[s] \in Outcomes THEN "enrolled" ELSE @[s]]]
    /\ Finish(r, "ok")
    /\ UNCHANGED <<semester, student, cohortHistory, cohortGroups, history>>

-----------------------------------------------------------------------------
(* UpdateStudent: an administrator moves a student to another cohort.      *)

ReadStudent(r) ==
    /\ At(r, "read") /\ Calls(r, {"updateStudent"})
    /\ Continue(r, [req[r] EXCEPT !.pc = "write", !.roster = student])
    /\ UNCHANGED <<tables, history>>

UpdateStudent(r) ==
    /\ At(r, "write") /\ Calls(r, {"updateStudent"})
    /\ LET s == req[r].op.student
           was == req[r].roster[s]
       IN  \/ /\ student[s].version = was.version
              /\ student' = [student EXCEPT ![s] =
                     [was EXCEPT !.cohort = req[r].op.cohort, !.version = @ + 1]]
              /\ Finish(r, "ok")
           \/ /\ student[s].version # was.version
              /\ \/ /\ req[r].tries + 1 = MaxUpdateRetries
                    /\ Finish(r, "conflict")
                 \/ /\ req[r].tries + 1 < MaxUpdateRetries
                    /\ Continue(r, [req[r] EXCEPT !.pc = "read", !.tries = @ + 1])
              /\ UNCHANGED student
    /\ UNCHANGED <<semester, enrollment, cohortHistory, cohortGroups, history>>

-----------------------------------------------------------------------------
\* Each offering starts wholly ungraded or wholly graded, as Finalize leaves it.
Init ==
    /\ semester \in InitialSemester
    /\ student = InitialStudent
    /\ \E graded \in SUBSET Offering :
          enrollment = [o \in Offering |-> [s \in Student |->
              CASE s \notin Enrolled[o] -> "none"
                [] s \in Enrolled[o] /\ o \in graded ->
                      PassStatus(Mark[o][s], semester.passThreshold)
                [] OTHER -> "enrolled"]]
    /\ cohortHistory = [s \in Student |-> <<>>]
    /\ cohortGroups = [s \in Student |-> InitialStudent[s].cohort]
    /\ req = [r \in Request |-> IdleRequest]
    /\ overlapped = FALSE
    /\ failures = {}

\* One statement of the call r runs.
Statement(r) ==
    \/ ReadSemester(r) \/ UpdateSemester(r) \/ RefreshVersion(r) \/ DeleteSemester(r)
    \/ CountUnfinalized(r) \/ ReadStudents(r) \/ ProcessStudent(r)
    \/ UpdateStudentProgression(r) \/ RecordCohortChange(r) \/ ReassignCohortGroups(r)
    \/ ProcessError(r) \/ EndProcessing(r)
    \/ ReadSemesterStatus(r) \/ ReadFinalized(r) \/ ReadPassThreshold(r)
    \/ ReadEnrolled(r) \/ \E s \in Student : SetFinalGrade(r, s)
    \/ ClearFinalGrades(r)
    \/ ReadStudent(r) \/ UpdateStudent(r)

Next == \E r \in Request : \/ \E op \in Operation : Start(r, op)
                           \/ Statement(r)
                           \/ Fail(r)

Spec == Init /\ [][Next]_vars

-----------------------------------------------------------------------------
(* Properties.                                                             *)

TypeOK ==
    /\ semester \in SemesterRow
    /\ student \in [Student -> StudentRow]
    /\ enrollment \in [Offering -> [Student -> {"none", "enrolled"} \cup Outcomes]]
    /\ cohortHistory \in [Student -> Seq([from : Nat, to : Nat])]
    /\ cohortGroups \in [Student -> Nat]
    /\ req \in [Request -> RequestState]
    /\ overlapped \in BOOLEAN
    /\ failures \in SUBSET Student

Ended(r) == req[r].op # None /\ Calls(r, {"end"}) /\ req[r].pc = "done"

\* No writer that read the row before it was archived brings it back: the version
\* it carries is stale, and reading again it is refused (semester.go:423-449).
ArchivedForever == [][semester.status = "archived" => semester'.status = "archived"]_semester

\* An archived semester is what an EndSemester that returned its result leaves,
\* whoever else wrote the row meanwhile (semester.go:745-768).
EndedIsArchived ==
    \A r \in Request : Ended(r) /\ req[r].result = "ok" => semester.status = "archived"

\* An EndSemester that lost a swap writes over a row it has not read.
Overwrites(r) == At(r, "write") /\ Calls(r, {"end"}) /\ req[r].tries > 0

\* Lifecycle transitions and edits of concurrent calls serialize, except where an
\* EndSemester retries: the status follows the table, and a column changes only
\* when the call whose patch sets it succeeds (semester.go:368-477).
CallsSerialize ==
    [][\/ \E r \in Request : Overwrites(r) /\ req'[r].result = "ok"
       \/ /\ semester'.status # semester.status
             => CanTransitionSemester(semester.status, semester'.status)
          /\ semester'.passThreshold # semester.passThreshold
             => \E r \in Request :
                   /\ At(r, "write") /\ Calls(r, {"update"}) /\ req'[r].result = "ok"
                   /\ semester'.passThreshold = req[r].op.passThreshold]_semester

\* "Update applies the patch under optimistic concurrency" (semester.go:367): an
\* edit that succeeded is not undone by a call that never changes that column.
EditsSurvive ==
    [][semester'.passThreshold # semester.passThreshold
       => \E r \in Request : /\ At(r, "write") /\ Calls(r, {"update"})
                             /\ semester'.passThreshold = req[r].op.passThreshold]_semester

\* Year-end progression moves a student by one year or one cohort at most when no
\* two EndSemester calls overlap, none stops half way and nobody is moved by hand:
\* archiving shuts out the next one (semester.go:698-769).
Asked(calls) == \E r \in Request : ~At(r, "idle") /\ Calls(r, calls)

Undisturbed ==
    /\ ~overlapped /\ ~Asked({"updateStudent"})
    /\ \A r \in Request : Ended(r) => req[r].result \notin {"failed", "conflict"}

Moves(s) == (student[s].year - InitialStudent[s].year)
            + (student[s].cohort - InitialStudent[s].cohort)

MovedOnceIfUndisturbed == Undisturbed => \A s \in Student : Moves(s) <= 1

\* The same without the condition: EndSemester "runs year-end progression for a
\* finalized semester's students and archives it" (semester.go:698-699), so a
\* semester moves each student once.
MovedOnce == \A s \in Student : Moves(s) <= 1

Ending(r) == Running(r) /\ Calls(r, {"end"})

\* A student who repeats a year has changed cohort, history and groups together,
\* or the failure is among the errors EndSemester counts (semester.go:831-857).
RepeatIsWhole ==
    Undisturbed /\ (\A r \in Request : ~Ending(r)) =>
        \A s \in Student \ failures : student[s].cohort # InitialStudent[s].cohort =>
            /\ cohortGroups[s] = student[s].cohort
            /\ cohortHistory[s] = <<[from |-> InitialStudent[s].cohort, to |-> student[s].cohort]>>

MovedOnceAndWholly == MovedOnceIfUndisturbed /\ RepeatIsWhole

\* Only a student with the credits is promoted; the comment "A missing
\* requirement row means no minimum" (semester.go:818) allows no other exception.
PromotedOnCredits ==
    [][\A r \in Request, s \in Student :
          At(r, "progress") /\ req'[r].pc = "promote" /\ req'[r].current = s
          => Credits(s) >= MinCredits]_req

\* Concurrent finalizes of an offering "compute identical grades from identical
\* inputs, so the race is benign" (grading.go:273-275): unless a call edits the
\* threshold or overrides a grade, every outcome is the one a single finalize gives.
OutcomesOfMarks ==
    \A o \in Offering, s \in Student : enrollment[o][s] \in Outcomes =>
        (enrollment[o][s] = "completed" <=> Mark[o][s] >= semester.passThreshold)

FinalizesAgree == ~Asked({"update", "override"}) => OutcomesOfMarks

\* "the semester gate is management's to enforce on its own writes"
\* (grading.go:275): no final grade changes in an archived semester.
GradesRestInArchive == [][semester.status = "archived" => UNCHANGED enrollment]_enrollment

\* "concurrent edits to different fields merge instead of clobbering"
\* (student.go:272-274): promotion changes the year and leaves the cohort alone.
PromotionKeepsCohort ==
    [][\A r \in Request, s \in Student :
          At(r, "promote") /\ req[r].current = s /\ student'[s].year # student[s].year
          => student'[s].cohort = student[s].cohort]_student
=============================================================================
