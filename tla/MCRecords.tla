------------------------------ MODULE MCRecords ------------------------------
(* One student's records, in three parts of which one is in motion: how he is *)
(* admitted (Admission), how he gets into an offering (Enrollment), and his   *)
(* leaves (StudentLeave).                                                     *)
EXTENDS StudentLeave, TLC

CONSTANTS o1, s1

\* One offering in one semester, for the leaves.
OneOffering == o1 :> s1

-----------------------------------------------------------------------------

CONSTANTS Offerings, Terms, Term, Courses, CourseTaught, Cohort, Prerequisite, Curriculum,
          Requests, InitialStatus, OfferedBefore, Graded, MaxSurprises  \* of Entry

VARIABLES attempts, status, offering, latest, request, active, enrolling, surprises,
          unserved, swept, regraded

enrollmentVars == <<attempts, status, offering, latest, request, active, enrolling,
                    surprises, unserved, swept, regraded>>

Entry == INSTANCE Enrollment WITH
    Offering <- Offerings, Semester <- Terms, SemesterOf <- Term,
    Course <- Courses, CourseOf <- CourseTaught, Requires <- Prerequisite, Request <- Requests,
    Offered <- OfferedBefore, Taken <- Graded,
    enrollment <- attempts, call <- enrolling

ASSUME EntryAssumption == Entry!CourseAssumption /\ Entry!StatusAssumption

CONSTANTS math, algebra, past, now, m0, m1, a1

\* Algebra requires math; the student has taken math in the past semester, and
\* this one may offer him both.
CourseOfEach == m0 :> math @@ m1 :> math @@ a1 :> algebra
TermOfEach == m0 :> past @@ m1 :> now @@ a1 :> now
AlgebraNeedsMath == math :> None @@ algebra :> math
NowUpcoming == past :> "over" @@ now :> "upcoming"

\* His year studies algebra now, and math is a retake outside the curriculum.
AlgebraYear == past :> {math} @@ now :> {algebra}

PretakeAndRetake ==
    {[type |-> "pretake", course |-> algebra, semester |-> now],
     [type |-> "retake", course |-> math, semester |-> now]}

-----------------------------------------------------------------------------

CONSTANTS Applicant, Staff, Program, Eligible, Blob, Text  \* of Office

VARIABLES applications, students, taking, admitting

admissionVars == <<applications, students, taking, admitting>>

\* Applications with leaves for them: two, as interchangeable.
Office == INSTANCE Admission WITH
    Application <- Leave, active <- taking, call <- admitting

ASSUME OfficeAssumption == Office!AdmissionAssumption

CONSTANTS art, first, second

AnyProgram == Applicant \X Program

AsFiled == [b \in Blob |-> first]

\* One of the applications is resubmitted, one blob at a time, and law stops
\* taking applications before the second is there or not at all.
FewResubmissions ==
    /\ \/ taking = Program
       \/ taking = {art} /\ \E a \in Leave : applications[a] = None
    /\ \A p \in Call :
        /\ admitting[p].op = "create" => admitting[p].row.blobs = AsFiled
        /\ admitting[p].op = "resubmit" =>
              \E b \in Blob : admitting[p].brought = {b} /\ admitting[p].blobs[b] = second
    /\ \A a, b \in Leave :
        (/\ applications[a] # None /\ applications[a].blobs # AsFiled
         /\ applications[b] # None /\ applications[b].blobs # AsFiled) => a = b

-----------------------------------------------------------------------------

VARIABLE part

\* Leaves and calls are interchangeable, in every part.
Interchangeable == Permutations(Leave) \cup Permutations(Call)

\* One edit of the student is in flight at a time and sets "active" or another
\* column, and he files one of the two requests.
Bounded ==
    /\ student # "suspended"
    /\ \A p \in Call : call[p].patch \in {None, "active"}
    /\ \A p, q \in Call : call[p].step = "editing" /\ call[q].step = "editing" => p = q
    /\ \E r \in Requests : \A q \in Requests \ {r} :
          request[q] = "none" /\ \A p \in Call : enrolling[p].request # q

NoLeaves == enrollment = [o \in Offering |-> "none"]
NoEntry == latest = [c \in Courses |-> None]

MCInit ==
    /\ Init /\ Entry!Init /\ Office!Init /\ taking = Program
    /\ \/ part = "leaves" /\ NoEntry
       \/ part = "entry" /\ NoLeaves
       \/ part = "admission" /\ NoLeaves /\ NoEntry

MCNext ==
    /\ UNCHANGED part
    /\ \/ part = "leaves" /\ Next /\ UNCHANGED <<enrollmentVars, admissionVars>>
       \/ part = "entry" /\ Entry!Next /\ UNCHANGED <<vars, admissionVars>>
       \/ /\ part = "admission"
          /\ Office!Next /\ FewResubmissions'
          /\ UNCHANGED <<vars, enrollmentVars>>
    /\ Bounded'

MCSpec == MCInit /\ [][MCNext]_<<part, vars, enrollmentVars, admissionVars>>

-----------------------------------------------------------------------------
(* After a bulk enrollment over the active semester that met no error, every *)
(* approved request has its enrollment, however the two interleaved, unless  *)
(* somebody looked at it and had a reason to skip it (Enrollment, of         *)
(* enrollment_request.go and BulkEnroll in semester.go).                     *)
SweptIsServed == Entry!SweptIsServed

(* What is decided or withdrawn stays so; an approved applicant is always a *)
(* student of his program; nobody has two open applications to one; and a   *)
(* resubmission loses nothing another one wrote, unless the application was *)
(* sent back once more meanwhile (Admission, of application.go).            *)
AdmissionIsSound == Office!AdmissionIsSound
=============================================================================
