------------------------------- MODULE Admission -------------------------------
(***************************************************************************)
(* Applications to a program and the student rows that come of them        *)
(* (internal/management/application.go, student.go and their Postgres      *)
(* adapters).  A call reads, and then writes by a statement that states in *)
(* its WHERE clause the status it needs; a review locks the application    *)
(* with that statement and inserts the student before it commits.  Nothing *)
(* deletes a user, an application or a student.  A program stands for a    *)
(* program and admission year, what is in an application for its blobs.    *)
(***************************************************************************)
EXTENDS Naturals, FiniteSets

CONSTANTS
    Application,
    Applicant,
    Staff,          \* who may review; among them may be applicants
    Program,
    Eligible,       \* pairs of applicant and program: of an age the program takes
    Blob, Text,     \* the parts of an application and what can be in one
    Call,
    None

VARIABLES
    applications,   \* the applications table
    students,       \* the program of each student, None for who is not one
    active,         \* programs.is_active
    call

vars == <<applications, students, active, call>>

Status == {"pending", "needs_revision", "approved", "rejected", "withdrawn"}

Row == [user : Applicant, program : Program, status : Status, blobs : [Blob -> Text]]

AdmissionAssumption ==
    /\ Eligible \subseteq Applicant \X Program
    /\ None \notin Row \cup Program

Idle == [op |-> "idle"]

Calls ==
    {Idle}
    \cup [op : {"create"}, row : Row]
    \cup [op : {"resubmit"}, on : Application, blobs : [Blob -> Text],
          brought : SUBSET Blob, sentBack : BOOLEAN]
    \cup [op : {"withdraw"}, on : Application]
    \cup [op : {"review", "admit"}, on : Application, status : Status]

TypeOK ==
    /\ applications \in [Application -> Row \cup {None}]
    /\ students \in [Applicant -> Program \cup {None}]
    /\ active \subseteq Program
    /\ call \in [Call -> Calls]

Init ==
    /\ applications = [a \in Application |-> None]
    /\ students = [u \in Applicant |-> None]
    /\ active \in SUBSET Program
    /\ call = [c \in Call |-> Idle]

-----------------------------------------------------------------------------

Filed(a) == applications[a] # None

\* The index idx_applications_pending_unique covers the row.
Open(row) == row.status \in {"pending", "needs_revision"}

CanWithdrawApplication(status) == status \in {"pending", "needs_revision"}

\* Mutant: whatever is still open may be resubmitted.
CanUpdateOpen(status) == CanWithdrawApplication(status)

CanUpdateApplication(status) == status = "needs_revision"
CanReviewApplication(status) == status = "pending"
ValidReviewStatus(status) == status \in {"approved", "rejected", "needs_revision"}

\* A review that has written and not committed holds the row.
Locked(a) == \E c \in Call : call[c].op = "admit" /\ call[c].on = a

Starts(c, request) == call[c] = Idle /\ call' = [call EXCEPT ![c] = request]
Ends(c) == call' = [call EXCEPT ![c] = Idle]

-----------------------------------------------------------------------------
(* The applicant *)

\* CreateApplication: the program takes applications, and the applicant.
BeginCreate(c) ==
    \E u \in Applicant, p \in active, blobs \in [Blob -> Text] :
        /\ <<u, p>> \in Eligible
        /\ Starts(c, [op |-> "create",
                      row |-> [user |-> u, program |-> p, status |-> "pending", blobs |-> blobs]])
        /\ UNCHANGED <<applications, students, active>>

Duplicate(row) ==
    \E a \in Application : /\ Filed(a) /\ Open(applications[a])
                           /\ applications[a].user = row.user
                           /\ applications[a].program = row.program

\* The insert; it waits for a review that holds a row it would collide with.
Create(c) ==
    /\ call[c].op = "create"
    /\ LET row == call[c].row IN
       \/ Duplicate(row) /\ UNCHANGED applications
       \/ /\ ~ Duplicate(row)
          /\ \E a \in Application :
                /\ ~ Filed(a)
                /\ applications' = [applications EXCEPT ![a] = row]
    /\ \A a \in Application : Locked(a) =>
          \/ applications[a].user # call[c].row.user
          \/ applications[a].program # call[c].row.program
    /\ Ends(c)
    /\ UNCHANGED <<students, active>>

\* UpdateApplication: the blobs brought, over those read.
BeginUpdate(c) ==
    \E a \in Application, brought \in SUBSET Blob, text \in Text :
        /\ Filed(a)
        /\ Starts(c, [op |-> "resubmit", on |-> a, brought |-> brought, sentBack |-> FALSE,
                      blobs |-> [b \in Blob |-> IF b \in brought THEN text
                                                ELSE applications[a].blobs[b]]])
        /\ UNCHANGED <<applications, students, active>>

ResubmitApplication(c) ==
    /\ call[c].op = "resubmit"
    /\ LET a == call[c].on IN
       /\ ~ Locked(a)
       /\ IF CanUpdateApplication(applications[a].status)
          THEN applications' = [applications EXCEPT ![a].status = "pending",
                                                    ![a].blobs = call[c].blobs]
          ELSE UNCHANGED applications
    /\ Ends(c)
    /\ UNCHANGED <<students, active>>

BeginWithdraw(c) ==
    /\ \E a \in Application : Filed(a) /\ Starts(c, [op |-> "withdraw", on |-> a])
    /\ UNCHANGED <<applications, students, active>>

WithdrawApplication(c) ==
    /\ call[c].op = "withdraw"
    /\ LET a == call[c].on IN
       /\ ~ Locked(a)
       /\ IF CanWithdrawApplication(applications[a].status)
          THEN applications' = [applications EXCEPT ![a].status = "withdrawn"]
          ELSE UNCHANGED applications
    /\ Ends(c)
    /\ UNCHANGED <<students, active>>

-----------------------------------------------------------------------------
(* Staff *)

\* ReviewApplication: nobody reviews his own.
BeginReview(c) ==
    /\ \E a \in Application, by \in Staff, status \in Status :
        /\ ValidReviewStatus(status)
        /\ Filed(a) /\ applications[a].user # by
        /\ Starts(c, [op |-> "review", on |-> a, status |-> status])
    /\ UNCHANGED <<applications, students, active>>

\* The guarded UPDATE of the transaction.
Decide(c) ==
    /\ call[c].op = "review"
    /\ LET a == call[c].on IN
       /\ ~ Locked(a)
       /\ IF CanReviewApplication(applications[a].status)
          THEN call' = [call EXCEPT ![c].op = "admit"]
          ELSE Ends(c)
    /\ UNCHANGED <<applications, students, active>>

\* An approval fails on who is a student already, and takes the update with it.
Admits(c) == call[c].status # "approved" \/ students[applications[call[c].on].user] = None

SentBack(d, c) ==
    /\ call[c].status = "needs_revision"
    /\ call[d].op = "resubmit" /\ call[d].on = call[c].on

\* The rest of it: the student, and the commit.
Commit(c) ==
    /\ call[c].op = "admit"
    /\ LET a == call[c].on  row == applications[a] IN
       IF Admits(c)
       THEN /\ applications' = [applications EXCEPT ![a].status = call[c].status]
            /\ students' = IF call[c].status = "approved"
                           THEN [students EXCEPT ![row.user] = row.program] ELSE students
            /\ call' = [d \in Call |-> IF d = c THEN Idle
                                       ELSE IF SentBack(d, c) THEN [call[d] EXCEPT !.sentBack = TRUE]
                                       ELSE call[d]]
       ELSE Ends(c) /\ UNCHANGED <<applications, students>>
    /\ UNCHANGED active

\* A connection is lost: the transaction is rolled back.
Fail(c) ==
    /\ call[c] # Idle
    /\ Ends(c)
    /\ UNCHANGED <<applications, students, active>>

\* StudentService.CreateStudent, by hand.
CreateStudent ==
    /\ \E u \in Applicant, p \in Program :
        students[u] = None /\ students' = [students EXCEPT ![u] = p]
    /\ UNCHANGED <<applications, active, call>>

\* UpdateProgram sets is_active.
UpdateProgram ==
    /\ \E p \in Program : active' = (active \cup {p}) \ (active \cap {p})
    /\ UNCHANGED <<applications, students, call>>

Next ==
    \/ \E c \in Call :
        \/ BeginCreate(c) \/ Create(c) \/ BeginUpdate(c) \/ ResubmitApplication(c)
        \/ BeginWithdraw(c) \/ WithdrawApplication(c)
        \/ BeginReview(c) \/ Decide(c) \/ Commit(c) \/ Fail(c)
    \/ CreateStudent \/ UpdateProgram

Spec == Init /\ [][Next]_vars

-----------------------------------------------------------------------------
\* An approved applicant is a student, and of the program that approved him.
Admitted ==
    \A a \in Application :
        Filed(a) /\ applications[a].status = "approved" =>
            students[applications[a].user] = applications[a].program

OneOpenEach ==
    \A a, b \in Application :
        Filed(a) /\ Filed(b) /\ Open(applications[a]) /\ Open(applications[b]) /\ a # b =>
            \/ applications[a].user # applications[b].user
            \/ applications[a].program # applications[b].program

\* A resubmission leaves what it does not bring.
Keeps(c) ==
    LET a == call[c].on IN
    applications'[a] # applications[a] =>
        \A b \in Blob \ call[c].brought : applications'[a].blobs[b] = applications[a].blobs[b]

(* What is decided or withdrawn stays so; an approved applicant is always a *)
(* student of his program, whoever creates students beside; nobody has two  *)
(* open applications to a program; and a resubmission loses nothing another *)
(* one wrote, unless the application was sent back once more while it was   *)
(* on its way (postgres/application.go, application.go:155-183).            *)
AdmissionIsSound ==
    [][/\ Admitted' /\ OneOpenEach'
       /\ \A a \in Application :
            Filed(a) /\ ~ Open(applications[a]) => applications'[a] = applications[a]
       /\ \A c \in Call :
            call[c].op = "resubmit" /\ ~ call[c].sentBack /\ call'[c] = Idle => Keeps(c)]_vars

\* Refuted: without the exception, the second of two resubmissions undoes the first.
ResubmissionsMerge ==
    [][\A c \in Call : call[c].op = "resubmit" /\ call'[c] = Idle => Keeps(c)]_vars
=============================================================================
