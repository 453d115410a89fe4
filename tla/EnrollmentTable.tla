--------------------------- MODULE EnrollmentTable ---------------------------
(***************************************************************************)
(* One student's rows in course_enrollments and the statements that write  *)
(* them (internal/management/postgres/enrollment.go).  Every statement     *)
(* carries its own guard, and one that finds no row changes nothing.  The  *)
(* grade itself and the kind of an enrollment are left out: no statement   *)
(* looks at them.                                                          *)
(***************************************************************************)
CONSTANTS
    Offering,      \* the course offerings the student can have a row for
    Semester,
    SemesterOf     \* the semester of each offering

ASSUME OfferingAssumption == SemesterOf \in [Offering -> Semester]

VARIABLE enrollment    \* the status of the student's row for each offering

\* The CHECK of migration 000025, and "none" where there is no row.
EnrollmentStatus ==
    {"none", "enrolled", "dropped", "withdrawn_leave", "completed", "failed"}

(* INSERT: the unique (offering, student) leaves a row that exists as it is, *)
(* whatever its status.                                                      *)
CreateEnrollment(o) ==
    enrollment' = IF enrollment[o] = "none"
                  THEN [enrollment EXCEPT ![o] = "enrolled"]
                  ELSE enrollment

DropEnrollment(o) ==
    /\ enrollment[o] = "enrolled"
    /\ enrollment' = [enrollment EXCEPT ![o] = "dropped"]

WithdrawEnrollmentsForLeave(S) ==
    enrollment' = [o \in Offering |->
        IF SemesterOf[o] \in S /\ enrollment[o] = "enrolled" THEN "withdrawn_leave"
        ELSE enrollment[o]]

(* Finalize and override; a row that is neither active nor graded is a miss. *)
SetFinalGrade(o, outcome) ==
    /\ enrollment[o] \in {"enrolled", "completed", "failed"}
    /\ enrollment' = [enrollment EXCEPT ![o] = outcome]

ClearFinalGrades(o) ==
    /\ enrollment[o] \in {"completed", "failed"}
    /\ enrollment' = [enrollment EXCEPT ![o] = "enrolled"]
=============================================================================
