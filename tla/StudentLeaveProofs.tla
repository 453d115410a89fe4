------------------------- MODULE StudentLeaveProofs -------------------------
(***************************************************************************)
(* Theorems about a student's records.  StudentLeave, for any number of    *)
(* offerings, semesters, leaves and calls: the tables keep their types and *)
(* a student has at most one open leave; what a leave in force has done,   *)
(* and who is on leave.  Admission, for any number of applicants, programs *)
(* and calls: what is decided, and what a resubmission keeps.  Enrollment, *)
(* for any number of courses, requests, approvals and passes: no approved  *)
(* request slips through a bulk enrollment.                                *)
(***************************************************************************)
EXTENDS MCRecords, TLAPS

-----------------------------------------------------------------------------
(* Calls. *)

CallsOK == call \in [Call -> CallRow]

LEMMA IdleTyped == Idle \in CallRow
BY RetryAssumption DEF Idle, LeaveCall, CallRow, StudentStatus

LEMMA ContinueOK ==
    ASSUME CallsOK, NEW p \in Call, NEW c \in CallRow, Continue(p, c)
    PROVE  /\ CallsOK' /\ call'[p] = c
           /\ \A q \in Call : q # p => call'[q] = call[q]
BY DEF CallsOK, Continue

LEMMA ReturnOK ==
    ASSUME CallsOK, NEW p \in Call, Return(p)
    PROVE  /\ CallsOK' /\ call'[p] = Idle
           /\ \A q \in Call : q # p => call'[q] = call[q]
BY IdleTyped, ContinueOK DEF Return

LEMMA IdleFields ==
    /\ Idle.step = "idle" /\ Idle.leave = None /\ Idle.covers = {} /\ Idle.fresh = FALSE
BY DEF Idle, LeaveCall

(* What a write of the student row leaves of the other calls. *)
LEMMA StaleFields ==
    ASSUME NEW c \in CallRow
    PROVE  /\ Stale(c) \in CallRow
           /\ Stale(c).step = c.step /\ Stale(c).leave = c.leave
           /\ Stale(c).covers = c.covers /\ Stale(c).fresh = FALSE
BY DEF Stale, CallRow

LEMMA WriteStatusOK ==
    ASSUME CallsOK, NEW p \in Call, NEW to, WriteStatus(p, to)
    PROVE  /\ CallsOK' /\ call'[p] = Idle /\ student' = to
           /\ \A q \in Call : q # p => call'[q] = Stale(call[q])
<1>1. \A q \in Call : Stale(call[q]) \in CallRow
  BY StaleFields DEF CallsOK
<1>2. call' = [q \in Call |-> IF q = p THEN Idle ELSE Stale(call[q])]
  BY DEF WriteStatus
<1>3. CallsOK'
  BY <1>1, <1>2, IdleTyped DEF CallsOK
<1> QED BY <1>2, <1>3 DEF WriteStatus

(* Where another call stands is not a matter of this one. *)
Elsewhere(p) ==
    \A q \in Call : q # p =>
        /\ call'[q].step = call[q].step /\ call'[q].leave = call[q].leave
        /\ call'[q].covers = call[q].covers

LEMMA ContinueElsewhere ==
    ASSUME CallsOK, NEW p \in Call, NEW c \in CallRow, Continue(p, c)
    PROVE  Elsewhere(p)
BY ContinueOK DEF Elsewhere

LEMMA WriteElsewhere ==
    ASSUME CallsOK, NEW p \in Call, NEW to, WriteStatus(p, to)
    PROVE  Elsewhere(p)
BY WriteStatusOK, StaleFields DEF Elsewhere, CallsOK

-----------------------------------------------------------------------------
(* What each step of a leave call does to it. *)

Goes(p, step, l, covers) ==
    /\ CallsOK' /\ Elsewhere(p)
    /\ call'[p].step = step /\ call'[p].leave = l /\ call'[p].covers = covers

LEMMA ReturnGoes ==
    ASSUME CallsOK, NEW p \in Call, Return(p)
    PROVE  Goes(p, "idle", None, {})
BY ReturnOK, IdleFields, IdleTyped, ContinueElsewhere DEF Goes, Return

LEMMA WriteGoes ==
    ASSUME CallsOK, NEW p \in Call, NEW to, WriteStatus(p, to)
    PROVE  Goes(p, "idle", None, {})
BY WriteStatusOK, WriteElsewhere, IdleFields DEF Goes

Steps == {"covering", "reading", "withdrawing", "leaving", "reactivating"}

LEMMA OnwardFields ==
    ASSUME NEW c \in CallRow, NEW covers \in SUBSET Semester, NEW step \in Steps
    PROVE  LET d == Onward(c, step, covers)
           IN  /\ d \in CallRow /\ d.step = step /\ d.leave = c.leave
               /\ d.covers = covers /\ d.fresh = c.fresh
BY DEF CallRow, Steps, Onward

LEMMA EditFields ==
    ASSUME NEW patch \in StudentStatus \cup {None}, NEW tries \in 0 .. maxUpdateRetries,
           student \in StudentStatus
    PROVE  LET c == Edit(patch, tries)
           IN  /\ c \in CallRow /\ c.step = "editing" /\ c.patch = patch
               /\ patch = None => c.copy = student
BY NoneAssumption DEF CallRow, Edit, StudentStatus

LEMMA BeginGoes ==
    ASSUME CallsOK, NEW p \in Call, NEW l \in Leave, NEW covers \in SUBSET Semester,
           NEW step \in Steps, Continue(p, LeaveCall(step, l, covers))
    PROVE  Goes(p, step, l, covers)
<1> DEFINE c == LeaveCall(step, l, covers)
<1>1. /\ c \in CallRow /\ c.step = step /\ c.leave = l /\ c.covers = covers
  BY RetryAssumption DEF LeaveCall, CallRow, StudentStatus, Steps
<1>2. Continue(p, c)
  OBVIOUS
<1> HIDE DEF c
<1> QED BY <1>1, <1>2, ContinueOK, ContinueElsewhere DEF Goes

(* A call at an editing step is none of a leave. *)
LEMMA EditGoes ==
    ASSUME CallsOK, NEW p \in Call, student \in StudentStatus,
           NEW patch \in StudentStatus \cup {None}, NEW tries \in 0 .. maxUpdateRetries,
           Continue(p, Edit(patch, tries))
    PROVE  CallsOK' /\ Elsewhere(p) /\ call'[p].step = "editing"
BY EditFields, ContinueOK, ContinueElsewhere

LEMMA OnwardGoes ==
    ASSUME CallsOK, NEW p \in Call, NEW covers \in SUBSET Semester, NEW step \in Steps,
           Continue(p, Onward(call[p], step, covers))
    PROVE  Goes(p, step, call[p].leave, covers)
<1>1. call[p] \in CallRow
  BY DEF CallsOK
<1> QED BY <1>1, OnwardFields, ContinueOK, ContinueElsewhere DEF Goes

-----------------------------------------------------------------------------
(* Leaves. *)

LeavesOK == leave \in [Leave -> LeaveRow]

(* A leave call changes one leave; every other stays as it is. *)
OtherLeaves(l) == \A k \in Leave : k # l => leave'[k] = leave[k]

LEMMA OpenedLeave ==
    ASSUME LeavesOK, NEW l \in Leave, NEW long \in BOOLEAN,
           leave' = [leave EXCEPT ![l] =
              [state |-> "requested", open |-> TRUE, long |-> long, covers |-> {}]]
    PROVE  /\ LeavesOK' /\ OtherLeaves(l)
           /\ leave'[l].state = "requested" /\ leave'[l].covers = {}
<1> DEFINE r == [state |-> "requested", open |-> TRUE, long |-> long, covers |-> {}]
<1>1. r \in LeaveRow /\ r.state = "requested" /\ r.covers = {}
  BY DEF LeaveRow
<1>2. leave' = [leave EXCEPT ![l] = r]
  OBVIOUS
<1> HIDE DEF r
<1> QED BY <1>1, <1>2 DEF LeavesOK, OtherLeaves

LEMMA ApprovedLeave ==
    ASSUME LeavesOK, NEW l \in Leave, leave' = [leave EXCEPT ![l].state = "approved"]
    PROVE  /\ LeavesOK' /\ OtherLeaves(l)
           /\ leave'[l].state = "approved" /\ leave'[l].open = leave[l].open
           /\ leave'[l].long = leave[l].long /\ leave'[l].covers = leave[l].covers
BY DEF LeavesOK, LeaveRow, OtherLeaves

LEMMA EndedLeave ==
    ASSUME LeavesOK, NEW l \in Leave, leave' = [leave EXCEPT ![l].open = FALSE]
    PROVE  /\ LeavesOK' /\ OtherLeaves(l)
           /\ leave'[l].open = FALSE /\ leave'[l].state = leave[l].state
           /\ leave'[l].long = leave[l].long /\ leave'[l].covers = leave[l].covers
BY DEF LeavesOK, LeaveRow, OtherLeaves

LEMMA CoveredMore ==
    ASSUME LeavesOK, NEW l \in Leave, NEW s \in Semester,
           leave' = [leave EXCEPT ![l].covers = @ \cup {s}]
    PROVE  /\ LeavesOK' /\ OtherLeaves(l)
           /\ leave'[l].open = leave[l].open /\ leave'[l].state = leave[l].state
           /\ leave'[l].long = leave[l].long /\ leave'[l].covers = leave[l].covers \cup {s}
BY DEF LeavesOK, LeaveRow, OtherLeaves

-----------------------------------------------------------------------------
(* Enrollments. *)

LEMMA EnrollmentsTyped ==
    ASSUME enrollment \in [Offering -> EnrollmentStatus], NEW o \in Offering,
           OtherWriter(o)
    PROVE  enrollment' \in [Offering -> EnrollmentStatus]
BY DEF OtherWriter, EnrollmentStatus, CreateEnrollment, DropEnrollment, SetFinalGrade,
       ClearFinalGrades

LEMMA WithdrawnTyped ==
    ASSUME enrollment \in [Offering -> EnrollmentStatus], NEW S,
           WithdrawEnrollmentsForLeave(S)
    PROVE  /\ enrollment' \in [Offering -> EnrollmentStatus]
           /\ \A o \in Offering : enrollment'[o] = "enrolled" =>
                 enrollment[o] = "enrolled" /\ SemesterOf[o] \notin S
BY DEF EnrollmentStatus, WithdrawEnrollmentsForLeave

-----------------------------------------------------------------------------
(* Types. *)

(* The open leave, and the leave a call is about. *)
OneOpen == \A l, k \in Leave : leave[l].open /\ leave[k].open => l = k
AboutALeave == \A p \in Call : call[p].step \in LeaveSteps => call[p].leave \in Leave

LEMMA TypeParts ==
    ASSUME TypeOK
    PROVE  CallsOK /\ LeavesOK /\ OneOpen /\ AboutALeave /\ student \in StudentStatus
BY DEF TypeOK, CallsOK, LeavesOK, OneOpen, AboutALeave

LEMMA TypeInit == Init => TypeOK
<1> SUFFICES ASSUME Init PROVE TypeOK
  OBVIOUS
<1>1. enrollment \in [Offering -> EnrollmentStatus]
  BY DEF Init, EnrollmentStatus
<1>2. leave \in [Leave -> LeaveRow] /\ \A l \in Leave : leave[l].open = FALSE
  BY DEF Init, LeaveRow
<1>3. call \in [Call -> CallRow] /\ \A p \in Call : call[p].step = "idle"
  BY IdleTyped, IdleFields DEF Init
<1>4. student \in StudentStatus /\ faults \in 0 .. MaxFaults
  BY FaultAssumption DEF Init, StudentStatus
<1>5. slipped \subseteq Offering /\ late \subseteq Leave \X Semester
      /\ disturbance \subseteq Disturbance
  BY DEF Init
<1> QED BY <1>1, <1>2, <1>3, <1>4, <1>5 DEF TypeOK, LeaveSteps

(* A call that has gone to a step of a leave is about one. *)
LEMMA AboutStays ==
    ASSUME AboutALeave, NEW p \in Call, Elsewhere(p),
           call'[p].step \in LeaveSteps => call'[p].leave \in Leave
    PROVE  AboutALeave'
BY DEF AboutALeave, Elsewhere

LEMMA AboutGoes ==
    ASSUME AboutALeave, NEW p \in Call, NEW step, NEW l, NEW covers,
           Goes(p, step, l, covers), step = "idle" \/ l \in Leave
    PROVE  CallsOK' /\ AboutALeave'
BY AboutStays DEF Goes, LeaveSteps

LEMMA OpenStays ==
    ASSUME OneOpen, NEW l \in Leave, OtherLeaves(l), leave'[l].open => leave[l].open
    PROVE  OneOpen'
BY DEF OneOpen, OtherLeaves

LEMMA StatusTyped ==
    ASSUME CallsOK, AboutALeave, student \in StudentStatus, NEW p \in Call,
           NEW from, NEW to \in StudentStatus, SetStudentStatus(p, from, to)
    PROVE  /\ student' \in StudentStatus /\ Goes(p, "idle", None, {})
           /\ student' = IF student = from THEN to ELSE student
<1>1. CASE student = from
  BY <1>1, WriteStatusOK, WriteGoes DEF SetStudentStatus
<1>2. CASE ~(student = from)
  BY <1>2, ReturnGoes DEF SetStudentStatus
<1> QED BY <1>1, <1>2

(* An edit: of its own copy, or a round with a new one, or given up. *)
LEMMA UpdateCases ==
    ASSUME TypeOK, NEW p \in Call, UpdateStudent(p)
    PROVE  \/ /\ call[p].fresh /\ WriteStatus(p, call[p].copy) /\ NotePatch(p)
              /\ student' \in StudentStatus /\ Goes(p, "idle", None, {})
           \/ /\ student' = student /\ disturbance' = disturbance
              /\ CallsOK' /\ Elsewhere(p) /\ call'[p].step = "editing"
           \/ /\ student' = student /\ disturbance' = disturbance
              /\ Return(p) /\ Goes(p, "idle", None, {})
<1>1. /\ CallsOK /\ student \in StudentStatus /\ call[p].step = "editing"
      /\ call[p] \in CallRow
  BY TypeParts DEF UpdateStudent, At, CallsOK
<1>2. CASE call[p].fresh /\ WriteStatus(p, call[p].copy) /\ NotePatch(p)
  <2>1. call[p].copy \in StudentStatus
    BY <1>1 DEF CallRow
  <2> QED BY <1>1, <1>2, <2>1, WriteStatusOK, WriteGoes
<1>3. CASE /\ call[p].tries < maxUpdateRetries
           /\ Continue(p, Edit(call[p].patch, call[p].tries + 1))
           /\ UNCHANGED <<student, disturbance>>
  <2>1. /\ call[p].patch \in StudentStatus \cup {None}
        /\ call[p].tries + 1 \in 0 .. maxUpdateRetries
    BY <1>1, <1>3, RetryAssumption DEF CallRow
  <2> QED BY <1>1, <1>3, <2>1, EditGoes
<1>4. CASE Return(p) /\ UNCHANGED <<student, disturbance>>
  BY <1>1, <1>4, ReturnGoes
<1> QED BY <1>2, <1>3, <1>4 DEF UpdateStudent

(* What TypeOK says beside calls and leaves. *)
RestTyped ==
    /\ enrollment \in [Offering -> EnrollmentStatus]
    /\ student \in StudentStatus /\ faults \in 0 .. MaxFaults
    /\ slipped \subseteq Offering /\ late \subseteq Leave \X Semester
    /\ disturbance \subseteq Disturbance

LEMMA TypeFromParts ==
    ASSUME CallsOK, LeavesOK, OneOpen, AboutALeave, RestTyped
    PROVE  TypeOK
BY DEF CallsOK, LeavesOK, OneOpen, AboutALeave, RestTyped, TypeOK

LEMMA RestOfType == TypeOK => RestTyped
BY DEF TypeOK, RestTyped

(* The conditions and effects of the steps of leave calls. *)
LEMMA CreateEffect ==
    ASSUME TypeOK, NEW p \in Call, NEW l \in Leave, NEW long \in BOOLEAN,
           NEW covers \in SUBSET Semester, CreateLeave(p, l, long, covers)
    PROVE  /\ Goes(p, "covering", l, covers) /\ LeavesOK' /\ OtherLeaves(l)
           /\ leave[l].state = "none" /\ (\A k \in Leave : ~leave[k].open)
           /\ leave'[l].state = "requested" /\ call[p].step = "idle"
           /\ UNCHANGED <<enrollment, student, faults, slipped, late, disturbance>>
BY TypeParts, OpenedLeave, BeginGoes DEF CreateLeave, At, Steps

LEMMA AddEffect ==
    ASSUME TypeOK, NEW p \in Call, NEW s \in Semester, AddLeaveSemester(p, s)
    PROVE  /\ call[p].step = "covering" /\ call[p].leave \in Leave
           /\ Goes(p, "covering", call[p].leave, call[p].covers \ {s})
           /\ LeavesOK' /\ OtherLeaves(call[p].leave)
           /\ leave'[call[p].leave].open = leave[call[p].leave].open
           /\ leave'[call[p].leave].state = leave[call[p].leave].state
           /\ leave'[call[p].leave].long = leave[call[p].leave].long
           /\ leave'[call[p].leave].covers = leave[call[p].leave].covers \cup {s}
           /\ UNCHANGED <<enrollment, student, faults, slipped, disturbance>>
<1>1. CallsOK /\ LeavesOK /\ call[p].step = "covering" /\ call[p].leave \in Leave
  BY TypeParts DEF AddLeaveSemester, At, AboutALeave, LeaveSteps
<1>2. call[p].covers \ {s} \in SUBSET Semester
  BY <1>1 DEF CallsOK, CallRow
<1>3. Goes(p, "covering", call[p].leave, call[p].covers \ {s})
  BY <1>1, <1>2, OnwardGoes DEF AddLeaveSemester, Steps
<1> QED BY <1>1, <1>3, CoveredMore DEF AddLeaveSemester

LEMMA ApproveEffect ==
    ASSUME TypeOK, NEW p \in Call, NEW l \in Leave, ApproveLeave(p, l)
    PROVE  /\ Goes(p, "reading", l, {}) /\ LeavesOK' /\ OtherLeaves(l)
           /\ call[p].step = "idle" /\ leave[l].state = "requested" /\ leave[l].open
           /\ leave'[l].state = "approved" /\ leave'[l].open
           /\ leave'[l].long = leave[l].long /\ leave'[l].covers = leave[l].covers
           /\ UNCHANGED <<enrollment, student, faults, slipped, late>>
BY TypeParts, ApprovedLeave, BeginGoes DEF ApproveLeave, At, Steps

LEMMA EndEffect ==
    ASSUME TypeOK, NEW p \in Call, NEW l \in Leave, EndLeave(p, l)
    PROVE  /\ Goes(p, "reactivating", l, {}) /\ LeavesOK' /\ OtherLeaves(l)
           /\ call[p].step = "idle" /\ leave[l].open /\ ~leave'[l].open
           /\ leave'[l].state = leave[l].state
           /\ leave'[l].long = leave[l].long /\ leave'[l].covers = leave[l].covers
           /\ UNCHANGED <<enrollment, student, faults, slipped, late>>
BY TypeParts, EndedLeave, BeginGoes DEF EndLeave, At, Steps

LEMMA ReadEffect ==
    ASSUME TypeOK, NEW p \in Call, GetLeaveSemesters(p)
    PROVE  /\ call[p].step = "reading" /\ call[p].leave \in Leave
           /\ UNCHANGED <<enrollment, student, leave, faults, slipped, late, disturbance>>
           /\ \/ ~leave[call[p].leave].long /\ Goes(p, "idle", None, {})
              \/ /\ leave[call[p].leave].long /\ leave[call[p].leave].covers = {}
                 /\ Goes(p, "leaving", call[p].leave, {})
              \/ /\ leave[call[p].leave].long
                 /\ Goes(p, "withdrawing", call[p].leave, leave[call[p].leave].covers)
<1>1. CallsOK /\ LeavesOK /\ call[p].step = "reading" /\ call[p].leave \in Leave
  BY TypeParts DEF GetLeaveSemesters, At, AboutALeave, LeaveSteps
<1>2. leave[call[p].leave].covers \in SUBSET Semester
  BY <1>1 DEF LeavesOK, LeaveRow
<1>3. CASE ~leave[call[p].leave].long
  BY <1>1, <1>3, ReturnGoes DEF GetLeaveSemesters
<1>4. CASE leave[call[p].leave].long /\ leave[call[p].leave].covers = {}
  BY <1>1, <1>2, <1>4, OnwardGoes DEF GetLeaveSemesters, Steps
<1>5. CASE leave[call[p].leave].long /\ leave[call[p].leave].covers # {}
  BY <1>1, <1>2, <1>5, OnwardGoes DEF GetLeaveSemesters, Steps
<1> QED BY <1>1, <1>3, <1>4, <1>5 DEF GetLeaveSemesters

LEMMA WithdrawEffect ==
    ASSUME TypeOK, NEW p \in Call, WithdrawEnrollments(p)
    PROVE  /\ call[p].step = "withdrawing" /\ call[p].leave \in Leave
           /\ Goes(p, "leaving", call[p].leave, {})
           /\ enrollment' \in [Offering -> EnrollmentStatus]
           /\ \A o \in Offering : enrollment'[o] = "enrolled" =>
                 enrollment[o] = "enrolled" /\ SemesterOf[o] \notin call[p].covers
           /\ slipped' = {o \in slipped : enrollment'[o] = "enrolled"}
           /\ UNCHANGED <<student, leave, faults, late, disturbance>>
<1>1. /\ CallsOK /\ call[p].step = "withdrawing" /\ call[p].leave \in Leave
      /\ enrollment \in [Offering -> EnrollmentStatus]
  BY TypeParts DEF WithdrawEnrollments, At, AboutALeave, LeaveSteps, TypeOK
<1>2. Goes(p, "leaving", call[p].leave, {})
  BY <1>1, OnwardGoes DEF WithdrawEnrollments, Steps
<1> QED BY <1>1, <1>2, WithdrawnTyped DEF WithdrawEnrollments

LEMMA SetOnLeaveEffect ==
    ASSUME TypeOK, NEW p \in Call, SetOnLeave(p)
    PROVE  /\ call[p].step = "leaving" /\ Goes(p, "idle", None, {})
           /\ student' \in StudentStatus
           /\ student' = IF student = "active" THEN "on_leave" ELSE student
           /\ UNCHANGED <<enrollment, leave, faults, slipped, late, disturbance>>
BY TypeParts, StatusTyped DEF SetOnLeave, At, StudentStatus

LEMMA ReactivateEffect ==
    ASSUME TypeOK, NEW p \in Call, Reactivate(p)
    PROVE  /\ call[p].step = "reactivating" /\ Goes(p, "idle", None, {})
           /\ student' \in StudentStatus
           /\ student' = IF student = "on_leave" THEN "active" ELSE student
           /\ UNCHANGED <<enrollment, leave, faults, slipped, late, disturbance>>
BY TypeParts, StatusTyped DEF Reactivate, At, StudentStatus

LEMMA EditEffect ==
    ASSUME TypeOK, NEW p \in Call, NEW patch \in StudentStatus \cup {None},
           ReadStudent(p, patch)
    PROVE  /\ CallsOK' /\ Elsewhere(p) /\ call[p].step = "idle"
           /\ call'[p].step = "editing"
           /\ UNCHANGED <<enrollment, student, leave, faults, slipped, late, disturbance>>
<1>1. 1 \in 0 .. maxUpdateRetries
  BY RetryAssumption
<1> QED BY <1>1, TypeParts, EditGoes DEF ReadStudent, At

LEMMA FailEffect ==
    ASSUME TypeOK, NEW p \in Call, StatementFails(p)
    PROVE  /\ Goes(p, "idle", None, {}) /\ faults' \in 0 .. MaxFaults
           /\ disturbance' = disturbance \cup {"broken"}
           /\ UNCHANGED <<enrollment, student, leave, slipped, late>>
<1>1. faults' \in 0 .. MaxFaults
  BY FaultAssumption DEF StatementFails, TypeOK
<1> QED BY <1>1, TypeParts, ReturnGoes DEF StatementFails, At

LEMMA DisturbanceTyped ==
    ASSUME disturbance \subseteq Disturbance,
           NEW d \in Disturbance, NEW B,
           disturbance' = IF B THEN disturbance \cup {d} ELSE disturbance
    PROVE  disturbance' \subseteq Disturbance
OBVIOUS

LEMMA TypeStep == TypeOK /\ [Next]_vars => TypeOK'
<1> SUFFICES ASSUME TypeOK, [Next]_vars PROVE TypeOK'
  OBVIOUS
<1>1. CallsOK /\ LeavesOK /\ OneOpen /\ AboutALeave /\ RestTyped
  BY TypeParts, RestOfType
<1> SUFFICES CallsOK' /\ LeavesOK' /\ OneOpen' /\ AboutALeave' /\ RestTyped'
  BY DEF CallsOK, LeavesOK, OneOpen, AboutALeave, RestTyped, TypeOK
<1>2. ASSUME UNCHANGED leave PROVE LeavesOK' /\ OneOpen'
  BY <1>1, <1>2 DEF LeavesOK, OneOpen
<1>3. ASSUME NEW p \in Call, NEW patch \in StudentStatus \cup {None},
             ReadStudent(p, patch)
      PROVE  CallsOK' /\ LeavesOK' /\ OneOpen' /\ AboutALeave' /\ RestTyped'
  <2>1. CallsOK' /\ Elsewhere(p) /\ call'[p].step = "editing"
        /\ UNCHANGED <<enrollment, student, leave, faults, slipped, late, disturbance>>
    BY <1>3, EditEffect
  <2> QED BY <1>1, <1>2, <2>1, AboutStays DEF LeaveSteps, RestTyped
<1>4. ASSUME NEW p \in Call, UpdateStudent(p)
      PROVE  CallsOK' /\ LeavesOK' /\ OneOpen' /\ AboutALeave' /\ RestTyped'
  <2>1. UNCHANGED <<enrollment, leave, faults, slipped, late>>
    BY <1>4 DEF UpdateStudent
  <2>2. disturbance' \subseteq Disturbance
    BY <1>1, <1>4 DEF UpdateStudent, NotePatch, RestTyped, Disturbance
  <2>3. CASE student' \in StudentStatus /\ Goes(p, "idle", None, {})
    BY <1>1, <1>2, <2>1, <2>2, <2>3, AboutGoes DEF RestTyped
  <2>4. CASE student' = student /\ CallsOK' /\ Elsewhere(p) /\ call'[p].step = "editing"
    BY <1>1, <1>2, <2>1, <2>2, <2>4, AboutStays DEF LeaveSteps, RestTyped
  <2> QED BY <1>1, <1>4, <2>3, <2>4, UpdateCases DEF RestTyped
<1>5. ASSUME NEW p \in Call, NEW l \in Leave, NEW long \in BOOLEAN,
             NEW covers \in SUBSET Semester, CreateLeave(p, l, long, covers)
      PROVE  CallsOK' /\ LeavesOK' /\ OneOpen' /\ AboutALeave' /\ RestTyped'
  <2>1. Goes(p, "covering", l, covers) /\ LeavesOK' /\ OtherLeaves(l)
        /\ (\A k \in Leave : ~leave[k].open)
        /\ UNCHANGED <<enrollment, student, faults, slipped, late, disturbance>>
    BY <1>5, CreateEffect
  <2>2. OneOpen'
    BY <2>1 DEF OneOpen, OtherLeaves
  <2> QED BY <1>1, <2>1, <2>2, AboutGoes DEF RestTyped
<1>6. ASSUME NEW p \in Call, NEW s \in Semester, AddLeaveSemester(p, s)
      PROVE  CallsOK' /\ LeavesOK' /\ OneOpen' /\ AboutALeave' /\ RestTyped'
  <2> DEFINE l == call[p].leave
  <2>1. /\ l \in Leave /\ Goes(p, "covering", l, call[p].covers \ {s})
        /\ LeavesOK' /\ OtherLeaves(l) /\ leave'[l].open = leave[l].open
        /\ UNCHANGED <<enrollment, student, faults, slipped, disturbance>>
    BY <1>6, AddEffect
  <2>2. late' \subseteq Leave \X Semester
    BY <1>1, <1>6, <2>1 DEF AddLeaveSemester, RestTyped
  <2> HIDE DEF l
  <2> QED BY <1>1, <2>1, <2>2, OpenStays, AboutGoes DEF RestTyped
<1>7. ASSUME NEW p \in Call, RequestReturns(p)
      PROVE  CallsOK' /\ LeavesOK' /\ OneOpen' /\ AboutALeave' /\ RestTyped'
  <2>1. Goes(p, "idle", None, {})
        /\ UNCHANGED <<enrollment, student, leave, faults, slipped, late, disturbance>>
    BY <1>1, <1>7, ReturnGoes DEF RequestReturns
  <2> QED BY <1>1, <1>2, <2>1, AboutGoes DEF RestTyped
<1>8. ASSUME NEW p \in Call, NEW l \in Leave, ApproveLeave(p, l)
      PROVE  CallsOK' /\ LeavesOK' /\ OneOpen' /\ AboutALeave' /\ RestTyped'
  <2>1. /\ Goes(p, "reading", l, {}) /\ LeavesOK' /\ OtherLeaves(l) /\ leave[l].open
        /\ UNCHANGED <<enrollment, student, faults, slipped, late>>
    BY <1>8, ApproveEffect
  <2>2. disturbance' \subseteq Disturbance
    BY <1>1, <1>8 DEF ApproveLeave, RestTyped, Disturbance
  <2> QED BY <1>1, <2>1, <2>2, OpenStays, AboutGoes DEF RestTyped
<1>9. ASSUME NEW p \in Call, NEW l \in Leave, EndLeave(p, l)
      PROVE  CallsOK' /\ LeavesOK' /\ OneOpen' /\ AboutALeave' /\ RestTyped'
  <2>1. /\ Goes(p, "reactivating", l, {}) /\ LeavesOK' /\ OtherLeaves(l) /\ leave[l].open
        /\ UNCHANGED <<enrollment, student, faults, slipped, late>>
    BY <1>9, EndEffect
  <2>2. disturbance' \subseteq Disturbance
    BY <1>1, <1>9 DEF EndLeave, RestTyped, Disturbance
  <2> QED BY <1>1, <2>1, <2>2, OpenStays, AboutGoes DEF RestTyped
<1>10. ASSUME NEW p \in Call, GetLeaveSemesters(p)
       PROVE  CallsOK' /\ LeavesOK' /\ OneOpen' /\ AboutALeave' /\ RestTyped'
  <2>1. UNCHANGED <<enrollment, student, leave, faults, slipped, late, disturbance>>
    BY <1>10, ReadEffect
  <2>2. CallsOK' /\ AboutALeave'
    BY <1>1, <1>10, ReadEffect, AboutGoes
  <2> QED BY <1>1, <1>2, <2>1, <2>2 DEF RestTyped
<1>11. ASSUME NEW p \in Call, WithdrawEnrollments(p)
       PROVE  CallsOK' /\ LeavesOK' /\ OneOpen' /\ AboutALeave' /\ RestTyped'
  <2>1. /\ call[p].leave \in Leave /\ Goes(p, "leaving", call[p].leave, {})
        /\ enrollment' \in [Offering -> EnrollmentStatus] /\ slipped' \subseteq slipped
        /\ UNCHANGED <<student, leave, faults, late, disturbance>>
    BY <1>11, WithdrawEffect
  <2> QED BY <1>1, <1>2, <2>1, AboutGoes DEF RestTyped
<1>12. ASSUME NEW p \in Call, SetOnLeave(p) \/ Reactivate(p)
       PROVE  CallsOK' /\ LeavesOK' /\ OneOpen' /\ AboutALeave' /\ RestTyped'
  <2>1. /\ Goes(p, "idle", None, {}) /\ student' \in StudentStatus
        /\ UNCHANGED <<enrollment, leave, faults, slipped, late, disturbance>>
    BY <1>12, SetOnLeaveEffect, ReactivateEffect
  <2> QED BY <1>1, <1>2, <2>1, AboutGoes DEF RestTyped
<1>13. ASSUME NEW p \in Call, StatementFails(p)
       PROVE  CallsOK' /\ LeavesOK' /\ OneOpen' /\ AboutALeave' /\ RestTyped'
  <2>1. /\ Goes(p, "idle", None, {}) /\ faults' \in 0 .. MaxFaults
        /\ UNCHANGED <<enrollment, student, leave, slipped, late>>
    BY <1>13, FailEffect
  <2>2. disturbance' \subseteq Disturbance
    BY <1>1, <1>13 DEF StatementFails, RestTyped, Disturbance
  <2> QED BY <1>1, <1>2, <2>1, <2>2, AboutGoes DEF RestTyped
<1>14. ASSUME NEW o \in Offering, OtherWriter(o)
       PROVE  CallsOK' /\ LeavesOK' /\ OneOpen' /\ AboutALeave' /\ RestTyped'
  <2>1. UNCHANGED <<student, leave, call, faults, late, disturbance>>
        /\ slipped' \subseteq Offering
    BY <1>1, <1>14 DEF OtherWriter, RestTyped
  <2> QED BY <1>1, <1>2, <1>14, <2>1, EnrollmentsTyped
          DEF RestTyped, CallsOK, AboutALeave
<1>15. CASE UNCHANGED vars
  BY <1>1, <1>2, <1>15 DEF vars, RestTyped, CallsOK, AboutALeave
<1> QED BY <1>3, <1>4, <1>5, <1>6, <1>7, <1>8, <1>9, <1>10, <1>11, <1>12, <1>13, <1>14,
           <1>15 DEF Next, CallStep

(* The tables keep their types; a student has at most one open leave, and a *)
(* leave call is about a leave that exists.                                 *)
THEOREM TypeCorrect == Spec => []TypeOK
BY TypeInit, TypeStep, PTL DEF Spec

-----------------------------------------------------------------------------
(* Who acts on which leave.  Nobody approves an approved leave, so one call *)
(* at most acts on an approval, and the leave it acts on stays open unless  *)
(* it is ended across it.                                                   *)

ApproversHold ==
    \A p \in Call, l \in Leave : Approving(p, l) =>
        /\ leave[l].state = "approved"
        /\ leave[l].open \/ "crossed" \in disturbance
        /\ call[p].step = "reading" \/ leave[l].long

OneApprover ==
    \A p, q \in Call, l \in Leave : Approving(p, l) /\ Approving(q, l) => p = q

EndingAlone ==
    \A p \in Call, l \in Leave : Ending(p) /\ InForce(l) => "crossed" \in disturbance

\* A call withdraws from what it has read of its leave.
WithdrawingReads ==
    \A p \in Call, l \in Leave, s \in Semester :
        /\ call[p].step = "withdrawing" /\ call[p].leave = l /\ s \in leave[l].covers
        => s \in call[p].covers \/ <<l, s>> \in late

Roles == ApproversHold /\ OneApprover /\ EndingAlone /\ WithdrawingReads

RoleSteps == {"reading", "withdrawing", "leaving", "reactivating"}

(* A call that takes no role, or leaves the one it had, disturbs nobody's. *)
LEMMA OutOfRole ==
    ASSUME Roles, NEW p \in Call, Elsewhere(p), call'[p].step \notin RoleSteps,
           UNCHANGED <<leave, late>>, disturbance \subseteq disturbance'
    PROVE  Roles'
<1>1. ApproversHold'
  BY DEF Roles, ApproversHold, Approving, Elsewhere, RoleSteps
<1>2. OneApprover'
  BY DEF Roles, OneApprover, Approving, Elsewhere, RoleSteps
<1>3. EndingAlone'
  BY DEF Roles, EndingAlone, Ending, At, InForce, Elsewhere, RoleSteps
<1>4. WithdrawingReads'
  BY DEF Roles, WithdrawingReads, Elsewhere, RoleSteps
<1> QED BY <1>1, <1>2, <1>3, <1>4 DEF Roles

(* A new leave, or a semester more of one, is nobody's role yet. *)
LEMMA RolesCreate ==
    ASSUME TypeOK, Roles, NEW p \in Call, NEW l \in Leave, NEW long \in BOOLEAN,
           NEW covers \in SUBSET Semester, CreateLeave(p, l, long, covers)
    PROVE  Roles'
<1>1. /\ Goes(p, "covering", l, covers) /\ OtherLeaves(l)
      /\ leave[l].state = "none" /\ leave'[l].state = "requested"
      /\ UNCHANGED <<late, disturbance>>
  BY CreateEffect
<1>2. \A q \in Call : ~Approving(q, l)
  BY <1>1 DEF Roles, ApproversHold
<1>3. \A q \in Call, k \in Leave : Approving(q, k)' => Approving(q, k) /\ k # l /\ q # p
  BY <1>1, <1>2 DEF Approving, Goes, Elsewhere
<1>4. ApproversHold'
  BY <1>1, <1>3 DEF Roles, ApproversHold, OtherLeaves, Elsewhere, Goes
<1>5. OneApprover'
  BY <1>3 DEF Roles, OneApprover
<1>6. EndingAlone'
  BY <1>1 DEF Roles, EndingAlone, Ending, At, InForce, Goes, Elsewhere, OtherLeaves
<1>7. WithdrawingReads'
  <2> SUFFICES ASSUME NEW q \in Call, NEW k \in Leave, NEW s \in Semester,
                      call'[q].step = "withdrawing", call'[q].leave = k,
                      s \in leave'[k].covers
               PROVE  s \in call'[q].covers \/ <<k, s>> \in late'
    BY DEF WithdrawingReads
  <2>1. Approving(q, k)' /\ q # p
    BY <1>1 DEF Approving, Goes
  <2>2. k # l
    BY <1>3, <2>1
  <2> QED BY <1>1, <2>1, <2>2 DEF Roles, WithdrawingReads, OtherLeaves, Elsewhere, Goes
<1> QED BY <1>4, <1>5, <1>6, <1>7 DEF Roles

LEMMA RolesAdd ==
    ASSUME TypeOK, Roles, NEW p \in Call, NEW s \in Semester, AddLeaveSemester(p, s)
    PROVE  Roles'
<1> DEFINE l == call[p].leave
<1>1. /\ l \in Leave /\ Goes(p, "covering", l, call[p].covers \ {s}) /\ OtherLeaves(l)
      /\ leave'[l].open = leave[l].open /\ leave'[l].state = leave[l].state
      /\ leave'[l].long = leave[l].long /\ leave'[l].covers = leave[l].covers \cup {s}
      /\ UNCHANGED disturbance /\ call[p].step = "covering"
  BY AddEffect
<1>2. /\ late \subseteq late'
      /\ leave[l].state = "approved"
         /\ (~\E q \in Call : call[q].leave = l /\ call[q].step = "reading")
         => <<l, s>> \in late'
  BY DEF AddLeaveSemester, At
<1> HIDE DEF l
<1>3. ApproversHold'
  BY <1>1 DEF Roles, ApproversHold, Approving, OtherLeaves, Elsewhere, Goes
<1>4. OneApprover'
  BY <1>1 DEF Roles, OneApprover, Approving, Elsewhere, Goes
<1>5. EndingAlone'
  BY <1>1 DEF Roles, EndingAlone, Ending, At, InForce, Goes, Elsewhere, OtherLeaves
<1>6. WithdrawingReads'
  <2> SUFFICES ASSUME NEW q \in Call, NEW k \in Leave, NEW u \in Semester,
                      call'[q].step = "withdrawing", call'[q].leave = k,
                      u \in leave'[k].covers
               PROVE  u \in call'[q].covers \/ <<k, u>> \in late'
    BY DEF WithdrawingReads
  <2>1. /\ q # p /\ call[q].step = "withdrawing" /\ call[q].leave = k
        /\ call'[q].covers = call[q].covers /\ Approving(q, k)
    BY <1>1 DEF Goes, Elsewhere, Approving
  <2>2. CASE u \in leave[k].covers
    BY <1>2, <2>1, <2>2 DEF Roles, WithdrawingReads
  <2>3. CASE u \notin leave[k].covers
    <3>1. k = l /\ u = s
      BY <1>1, <2>3 DEF OtherLeaves
    <3>2. leave[l].state = "approved"
      BY <2>1, <3>1 DEF Roles, ApproversHold
    <3>3. ASSUME NEW r \in Call, call[r].leave = l, call[r].step = "reading" PROVE FALSE
      <4>1. Approving(r, l)
        BY <3>3 DEF Approving
      <4> QED BY <2>1, <3>1, <3>3, <4>1 DEF Roles, OneApprover
    <3> QED BY <1>2, <3>1, <3>2, <3>3
  <2> QED BY <2>2, <2>3
<1> QED BY <1>3, <1>4, <1>5, <1>6 DEF Roles

LEMMA RolesApprove ==
    ASSUME TypeOK, Roles, NEW p \in Call, NEW l \in Leave, ApproveLeave(p, l)
    PROVE  Roles'
<1>1. /\ Goes(p, "reading", l, {}) /\ OtherLeaves(l) /\ leave[l].state = "requested"
      /\ leave'[l].state = "approved" /\ leave'[l].open /\ leave'[l].covers = leave[l].covers
      /\ UNCHANGED late /\ call[p].step = "idle"
  BY ApproveEffect
<1>2. /\ disturbance \subseteq disturbance'
      /\ (\E q \in Call : Ending(q)) => "crossed" \in disturbance'
  BY DEF ApproveLeave
<1>3. \A q \in Call : ~Approving(q, l)
  BY <1>1 DEF Roles, ApproversHold
<1>4. \A q \in Call, k \in Leave :
          Approving(q, k)' => (q = p /\ k = l) \/ (q # p /\ k # l /\ Approving(q, k))
  BY <1>1, <1>3 DEF Approving, Goes, Elsewhere
<1>5. ApproversHold'
  BY <1>1, <1>2, <1>4 DEF Roles, ApproversHold, OtherLeaves, Elsewhere, Goes
<1>6. OneApprover'
  BY <1>4 DEF Roles, OneApprover
<1>7. EndingAlone'
  BY <1>1, <1>2 DEF EndingAlone, Ending, At, Goes, Elsewhere
<1>8. WithdrawingReads'
  BY <1>1 DEF Roles, WithdrawingReads, OtherLeaves, Elsewhere, Goes
<1> QED BY <1>5, <1>6, <1>7, <1>8 DEF Roles

(* The leave that ends was the only open one. *)
LEMMA RolesEnd ==
    ASSUME TypeOK, Roles, NEW p \in Call, NEW l \in Leave, EndLeave(p, l)
    PROVE  Roles'
<1>1. /\ Goes(p, "reactivating", l, {}) /\ OtherLeaves(l) /\ leave[l].open
      /\ ~leave'[l].open /\ leave'[l].state = leave[l].state
      /\ leave'[l].long = leave[l].long /\ leave'[l].covers = leave[l].covers
      /\ UNCHANGED late /\ call[p].step = "idle"
  BY EndEffect
<1>2. /\ disturbance \subseteq disturbance'
      /\ (\E q \in Call : Approving(q, l)) => "crossed" \in disturbance'
  BY DEF EndLeave
<1>3. \A q \in Call, k \in Leave : Approving(q, k)' => q # p /\ Approving(q, k)
  BY <1>1 DEF Approving, Goes, Elsewhere
<1>4. ApproversHold'
  BY <1>1, <1>2, <1>3 DEF Roles, ApproversHold, OtherLeaves, Elsewhere, Goes
<1>5. OneApprover'
  BY <1>3 DEF Roles, OneApprover
<1>6. \A k \in Leave : ~leave'[k].open
  BY <1>1, TypeParts DEF OneOpen, OtherLeaves
<1>7. EndingAlone'
  BY <1>6 DEF EndingAlone, InForce
<1>8. WithdrawingReads'
  BY <1>1 DEF Roles, WithdrawingReads, OtherLeaves, Elsewhere, Goes
<1> QED BY <1>4, <1>5, <1>7, <1>8 DEF Roles

(* An approver goes on with the same leave. *)
LEMMA RolesOnward ==
    ASSUME Roles, NEW p \in Call, NEW step, NEW covers, call[p].leave \in Leave,
           call[p].step \in {"reading", "withdrawing"},
           step \in {"withdrawing", "leaving"}, Goes(p, step, call[p].leave, covers),
           call[p].step = "reading" => leave[call[p].leave].long,
           step = "withdrawing" => covers = leave[call[p].leave].covers,
           UNCHANGED <<leave, late, disturbance>>
    PROVE  Roles'
<1>1. \A q \in Call, k \in Leave : Approving(q, k)' => Approving(q, k)
  BY DEF Approving, Goes, Elsewhere
<1>2. ApproversHold'
  <2> SUFFICES ASSUME NEW q \in Call, NEW k \in Leave, Approving(q, k)'
               PROVE  /\ leave[k].state = "approved"
                      /\ leave[k].open \/ "crossed" \in disturbance
                      /\ call'[q].step = "reading" \/ leave[k].long
    BY DEF ApproversHold
  <2>1. /\ leave[k].state = "approved" /\ (leave[k].open \/ "crossed" \in disturbance)
        /\ call[q].step = "reading" \/ leave[k].long
    BY <1>1 DEF Roles, ApproversHold
  <2>2. q = p => leave[k].long
    BY <2>1 DEF Approving, Goes
  <2> QED BY <2>1, <2>2 DEF Goes, Elsewhere
<1>3. OneApprover'
  BY <1>1 DEF Roles, OneApprover
<1>4. EndingAlone'
  BY DEF Roles, EndingAlone, Ending, At, InForce, Goes, Elsewhere
<1>5. WithdrawingReads'
  BY DEF Roles, WithdrawingReads, Goes, Elsewhere
<1> QED BY <1>2, <1>3, <1>4, <1>5 DEF Roles

LEMMA RolesInit == Init => Roles
<1> SUFFICES ASSUME Init PROVE Roles
  OBVIOUS
<1>1. \A p \in Call : call[p].step = "idle"
  BY IdleFields DEF Init
<1> QED BY <1>1 DEF Roles, ApproversHold, OneApprover, EndingAlone, WithdrawingReads,
           Approving, Ending, At

LEMMA RolesStep == TypeOK /\ Roles /\ [Next]_vars => Roles'
<1> SUFFICES ASSUME TypeOK, Roles, [Next]_vars PROVE Roles'
  OBVIOUS
<1>1. CallsOK
  BY TypeParts
<1>2. ASSUME NEW p \in Call, NEW patch \in StudentStatus \cup {None},
             ReadStudent(p, patch)
      PROVE  Roles'
  BY <1>2, EditEffect, OutOfRole DEF RoleSteps
<1>3. ASSUME NEW p \in Call, UpdateStudent(p) PROVE Roles'
  <2>1. Elsewhere(p) /\ call'[p].step \notin RoleSteps
    BY <1>3, UpdateCases DEF Goes, RoleSteps
  <2>2. UNCHANGED <<leave, late>> /\ disturbance \subseteq disturbance'
    BY <1>3 DEF UpdateStudent, NotePatch
  <2> QED BY <2>1, <2>2, OutOfRole
<1>4. ASSUME NEW p \in Call, NEW l \in Leave, NEW long \in BOOLEAN,
             NEW covers \in SUBSET Semester, CreateLeave(p, l, long, covers)
      PROVE  Roles'
  BY <1>4, RolesCreate
<1>5. ASSUME NEW p \in Call, NEW s \in Semester, AddLeaveSemester(p, s) PROVE Roles'
  BY <1>5, RolesAdd
<1>6. ASSUME NEW p \in Call, RequestReturns(p) PROVE Roles'
  <2>1. Goes(p, "idle", None, {}) /\ UNCHANGED <<leave, late, disturbance>>
    BY <1>1, <1>6, ReturnGoes DEF RequestReturns
  <2> QED BY <2>1, OutOfRole DEF Goes, RoleSteps
<1>7. ASSUME NEW p \in Call, NEW l \in Leave, ApproveLeave(p, l) PROVE Roles'
  BY <1>7, RolesApprove
<1>8. ASSUME NEW p \in Call, NEW l \in Leave, EndLeave(p, l) PROVE Roles'
  BY <1>8, RolesEnd
<1>9. ASSUME NEW p \in Call, GetLeaveSemesters(p) PROVE Roles'
  <2>1. CASE Goes(p, "idle", None, {})
    BY <1>9, <2>1, ReadEffect, OutOfRole DEF Goes, RoleSteps
  <2>2. CASE leave[call[p].leave].long /\ Goes(p, "leaving", call[p].leave, {})
    BY <1>9, <2>2, ReadEffect, RolesOnward
  <2>3. CASE leave[call[p].leave].long
             /\ Goes(p, "withdrawing", call[p].leave, leave[call[p].leave].covers)
    BY <1>9, <2>3, ReadEffect, RolesOnward
  <2> QED BY <1>9, <2>1, <2>2, <2>3, ReadEffect
<1>10. ASSUME NEW p \in Call, WithdrawEnrollments(p) PROVE Roles'
  BY <1>10, WithdrawEffect, RolesOnward
<1>11. ASSUME NEW p \in Call, SetOnLeave(p) \/ Reactivate(p) PROVE Roles'
  <2>1. Goes(p, "idle", None, {}) /\ UNCHANGED <<leave, late, disturbance>>
    BY <1>11, SetOnLeaveEffect, ReactivateEffect
  <2> QED BY <2>1, OutOfRole DEF Goes, RoleSteps
<1>12. ASSUME NEW p \in Call, StatementFails(p) PROVE Roles'
  <2>1. /\ Goes(p, "idle", None, {}) /\ disturbance \subseteq disturbance'
        /\ UNCHANGED <<leave, late>>
    BY <1>12, FailEffect
  <2> QED BY <2>1, OutOfRole DEF Goes, RoleSteps
<1>13. CASE UNCHANGED <<leave, call, late, disturbance>>
  BY <1>13 DEF Roles, ApproversHold, OneApprover, EndingAlone, WithdrawingReads,
     Approving, Ending, At, InForce
<1>14. ASSUME NEW o \in Offering, OtherWriter(o)
       PROVE  UNCHANGED <<leave, call, late, disturbance>>
  BY <1>14 DEF OtherWriter
<1>15. UNCHANGED vars => UNCHANGED <<leave, call, late, disturbance>>
  BY DEF vars
<1> QED BY <1>2, <1>3, <1>4, <1>5, <1>6, <1>7, <1>8, <1>9, <1>10, <1>11, <1>12, <1>13,
           <1>14, <1>15 DEF Next, CallStep

-----------------------------------------------------------------------------
(* What withdrawing leaves behind: once the semesters of a leave in force   *)
(* have been read and withdrawn from, an enrollment there came in later, or *)
(* its semester did.                                                        *)

Withdrawn(l) ==
    \A p \in Call : call[p].leave = l => call[p].step \notin {"reading", "withdrawing"}

Covered ==
    \A l \in Leave, o \in Offering :
        /\ InForce(l) /\ "broken" \notin disturbance /\ Withdrawn(l)
        /\ enrollment[o] = "enrolled" /\ SemesterOf[o] \in leave[l].covers
        /\ <<l, SemesterOf[o]>> \notin late
        => o \in slipped

LEMMA CoveredInit == Init => Covered
BY DEF Init, Covered, InForce

(* A step that writes neither leaves nor enrollments disturbs it only by a *)
(* call that had still to withdraw.                                        *)
LEMMA CoveredFrame ==
    ASSUME Covered, NEW p \in Call, Elsewhere(p),
           \/ call[p].step \notin {"reading", "withdrawing"}
           \/ "broken" \in disturbance'
           \/ call'[p].leave = call[p].leave /\ call'[p].step \in {"reading", "withdrawing"},
           UNCHANGED <<enrollment, leave, slipped, late>>, disturbance \subseteq disturbance'
    PROVE  Covered'
BY DEF Covered, InForce, Withdrawn, Elsewhere

LEMMA CoveredStep == TypeOK /\ Roles /\ Covered /\ [Next]_vars => Covered'
<1> SUFFICES ASSUME TypeOK, Roles, Covered, [Next]_vars PROVE Covered'
  OBVIOUS
<1>1. CallsOK /\ SemesterOf \in [Offering -> Semester]
  BY TypeParts, OfferingAssumption
<1>2. ASSUME NEW p \in Call, NEW patch \in StudentStatus \cup {None},
             ReadStudent(p, patch)
      PROVE  Covered'
  BY <1>2, EditEffect, CoveredFrame
<1>3. ASSUME NEW p \in Call, UpdateStudent(p) PROVE Covered'
  <2>1. Elsewhere(p) /\ call[p].step = "editing"
    BY <1>3, UpdateCases DEF Goes, UpdateStudent, At
  <2>2. UNCHANGED <<enrollment, leave, slipped, late>> /\ disturbance \subseteq disturbance'
    BY <1>3 DEF UpdateStudent, NotePatch
  <2> QED BY <2>1, <2>2, CoveredFrame
<1>4. ASSUME NEW p \in Call, NEW l \in Leave, NEW long \in BOOLEAN,
             NEW covers \in SUBSET Semester, CreateLeave(p, l, long, covers)
      PROVE  Covered'
  <2>1. /\ Elsewhere(p) /\ call[p].step = "idle" /\ OtherLeaves(l)
        /\ leave'[l].state = "requested"
        /\ UNCHANGED <<enrollment, slipped, late, disturbance>>
    BY <1>4, CreateEffect DEF Goes
  <2> QED BY <2>1 DEF Covered, InForce, Withdrawn, Elsewhere, OtherLeaves
<1>5. ASSUME NEW p \in Call, NEW s \in Semester, AddLeaveSemester(p, s) PROVE Covered'
  <2> DEFINE l == call[p].leave
  <2>1. /\ l \in Leave /\ Elsewhere(p) /\ OtherLeaves(l) /\ call[p].step = "covering"
        /\ leave'[l].open = leave[l].open /\ leave'[l].state = leave[l].state
        /\ leave'[l].long = leave[l].long /\ leave'[l].covers = leave[l].covers \cup {s}
        /\ UNCHANGED <<enrollment, slipped, disturbance>>
    BY <1>5, AddEffect DEF Goes
  <2>2. /\ late \subseteq late'
        /\ leave[l].state = "approved"
           /\ (~\E q \in Call : call[q].leave = l /\ call[q].step = "reading")
           => <<l, s>> \in late'
    BY <1>5 DEF AddLeaveSemester, At
  <2> HIDE DEF l
  <2> SUFFICES ASSUME NEW k \in Leave, NEW o \in Offering,
                      InForce(k)', "broken" \notin disturbance, Withdrawn(k)',
                      enrollment[o] = "enrolled", SemesterOf[o] \in leave'[k].covers,
                      <<k, SemesterOf[o]>> \notin late'
               PROVE  o \in slipped
    BY <2>1 DEF Covered
  <2>3. InForce(k) /\ Withdrawn(k)
    BY <2>1 DEF InForce, Withdrawn, OtherLeaves, Elsewhere
  <2>4. CASE SemesterOf[o] \in leave[k].covers
    BY <2>2, <2>3, <2>4 DEF Covered
  <2>5. CASE SemesterOf[o] \notin leave[k].covers
    <3>1. k = l /\ SemesterOf[o] = s
      BY <2>1, <2>5 DEF OtherLeaves
    <3>2. leave[l].state = "approved"
          /\ ~\E q \in Call : call[q].leave = l /\ call[q].step = "reading"
      BY <2>3, <3>1 DEF InForce, Withdrawn
    <3> QED BY <2>2, <3>1, <3>2
  <2> QED BY <2>4, <2>5
<1>6. ASSUME NEW p \in Call, RequestReturns(p) PROVE Covered'
  <2>1. Goes(p, "idle", None, {}) /\ call[p].step = "covering"
        /\ UNCHANGED <<enrollment, leave, slipped, late, disturbance>>
    BY <1>1, <1>6, ReturnGoes DEF RequestReturns, At
  <2> QED BY <2>1, CoveredFrame DEF Goes
<1>7. ASSUME NEW p \in Call, NEW l \in Leave, ApproveLeave(p, l) PROVE Covered'
  <2>1. /\ Goes(p, "reading", l, {}) /\ OtherLeaves(l) /\ call[p].step = "idle"
        /\ UNCHANGED <<enrollment, slipped, late>>
    BY <1>7, ApproveEffect
  <2>2. disturbance \subseteq disturbance'
    BY <1>7 DEF ApproveLeave
  <2>3. ~Withdrawn(l)'
    BY <2>1 DEF Withdrawn, Goes
  <2> QED BY <2>1, <2>2, <2>3
          DEF Covered, InForce, Withdrawn, Elsewhere, Goes, OtherLeaves
<1>8. ASSUME NEW p \in Call, NEW l \in Leave, EndLeave(p, l) PROVE Covered'
  <2>1. /\ Goes(p, "reactivating", l, {}) /\ OtherLeaves(l) /\ call[p].step = "idle"
        /\ ~leave'[l].open /\ UNCHANGED <<enrollment, slipped, late>>
    BY <1>8, EndEffect
  <2>2. disturbance \subseteq disturbance'
    BY <1>8 DEF EndLeave
  <2> QED BY <2>1, <2>2 DEF Covered, InForce, Withdrawn, Elsewhere, Goes, OtherLeaves
<1>9. ASSUME NEW p \in Call, GetLeaveSemesters(p) PROVE Covered'
  <2> DEFINE l == call[p].leave
  <2>1. /\ l \in Leave /\ call[p].step = "reading" /\ Elsewhere(p)
        /\ UNCHANGED <<enrollment, leave, slipped, late, disturbance>>
        /\ \/ ~leave[l].long
           \/ leave[l].covers = {}
           \/ call'[p].step = "withdrawing" /\ call'[p].leave = l
    BY <1>9, ReadEffect DEF Goes
  <2> HIDE DEF l
  <2>2. \A k \in Leave : k # l => (Withdrawn(k)' => Withdrawn(k))
    BY <2>1 DEF Withdrawn, Elsewhere, l
  <2> QED BY <2>1, <2>2 DEF Covered, InForce, Withdrawn
<1>10. ASSUME NEW p \in Call, WithdrawEnrollments(p) PROVE Covered'
  <2> DEFINE l == call[p].leave
  <2>1. /\ l \in Leave /\ call[p].step = "withdrawing" /\ Elsewhere(p)
        /\ \A o \in Offering : enrollment'[o] = "enrolled" =>
              enrollment[o] = "enrolled" /\ SemesterOf[o] \notin call[p].covers
        /\ slipped' = {o \in slipped : enrollment'[o] = "enrolled"}
        /\ UNCHANGED <<leave, late, disturbance>>
    BY <1>10, WithdrawEffect DEF Goes
  <2>2. \A s \in Semester :
            s \in leave[l].covers => s \in call[p].covers \/ <<l, s>> \in late
    BY <2>1 DEF Roles, WithdrawingReads
  <2> HIDE DEF l
  <2>3. \A k \in Leave : k # l => (Withdrawn(k)' => Withdrawn(k))
    BY <2>1 DEF Withdrawn, Elsewhere, l
  <2> SUFFICES ASSUME NEW k \in Leave, NEW o \in Offering,
                      InForce(k), "broken" \notin disturbance, Withdrawn(k)',
                      enrollment'[o] = "enrolled", SemesterOf[o] \in leave[k].covers,
                      <<k, SemesterOf[o]>> \notin late
               PROVE  o \in slipped
    BY <2>1 DEF Covered, InForce
  <2>4. CASE k = l
    BY <1>1, <2>1, <2>2, <2>4
  <2>5. CASE k # l
    BY <2>1, <2>3, <2>5 DEF Covered
  <2> QED BY <2>4, <2>5
<1>11. ASSUME NEW p \in Call, SetOnLeave(p) \/ Reactivate(p) PROVE Covered'
  <2>1. /\ Goes(p, "idle", None, {}) /\ call[p].step \in {"leaving", "reactivating"}
        /\ UNCHANGED <<enrollment, leave, slipped, late, disturbance>>
    BY <1>11, SetOnLeaveEffect, ReactivateEffect
  <2> QED BY <2>1, CoveredFrame DEF Goes
<1>12. ASSUME NEW p \in Call, StatementFails(p) PROVE Covered'
  <2>1. /\ Goes(p, "idle", None, {}) /\ disturbance \subseteq disturbance'
        /\ "broken" \in disturbance'
        /\ UNCHANGED <<enrollment, leave, slipped, late>>
    BY <1>12, FailEffect
  <2> QED BY <2>1, CoveredFrame DEF Goes
<1>13. ASSUME NEW o \in Offering, OtherWriter(o) PROVE Covered'
  <2>1. UNCHANGED <<leave, call, late, disturbance>> /\ slipped \subseteq slipped'
    BY <1>13 DEF OtherWriter
  <2>2. \A u \in Offering : u # o => enrollment'[u] = enrollment[u]
    BY <1>13 DEF OtherWriter, TypeOK, CreateEnrollment, DropEnrollment, SetFinalGrade,
       ClearFinalGrades
  <2>3. /\ enrollment[o] # "enrolled" /\ enrollment'[o] = "enrolled"
        /\ \E l \in Leave : InForce(l) /\ SemesterOf[o] \in leave[l].covers
        => o \in slipped'
    BY <1>13 DEF OtherWriter
  <2> QED BY <2>1, <2>2, <2>3 DEF Covered, InForce, Withdrawn
<1>14. CASE UNCHANGED vars
  BY <1>14 DEF vars, Covered, InForce, Withdrawn
<1> QED BY <1>2, <1>3, <1>4, <1>5, <1>6, <1>7, <1>8, <1>9, <1>10, <1>11, <1>12, <1>13,
           <1>14 DEF Next, CallStep

-----------------------------------------------------------------------------
(* The status of the student. *)

\* An edit that passes the version check lays its patch over the row as it is.
Fresh ==
    \A p \in Call : At(p, "editing") /\ call[p].fresh /\ call[p].patch = None =>
        call[p].copy = student

SuspendedIsPatched == student = "suspended" => "patched" \in disturbance

OnLeaveOrDisturbed ==
    \A l \in Leave :
        InForce(l) /\ "broken" \notin disturbance /\ (\A p \in Call : ~Approving(p, l)) =>
            student = "on_leave" \/ disturbance \cap {"patched", "crossed"} # {}

Status == Fresh /\ SuspendedIsPatched /\ OnLeaveOrDisturbed /\ OnLeaveHasLeave

LEMMA StatusInit == Init => Status
<1> SUFFICES ASSUME Init PROVE Status
  OBVIOUS
<1>1. Fresh
  BY IdleFields DEF Init, Fresh, At
<1>2. OnLeaveOrDisturbed
  BY DEF Init, OnLeaveOrDisturbed, InForce
<1> QED BY <1>1, <1>2 DEF Init, Status, SuspendedIsPatched, OnLeaveHasLeave

(* Fresh copies: a write of the row makes every other copy stale. *)
LEMMA FreshWrite ==
    ASSUME CallsOK, NEW p \in Call, NEW to, WriteStatus(p, to)
    PROVE  Fresh'
<1>1. ASSUME NEW q \in Call PROVE call'[q].fresh = FALSE
  <2>1. call[q] \in CallRow
    BY DEF CallsOK
  <2>2. CASE q = p
    <3>1. call'[q] = Idle
      BY <2>2, WriteStatusOK
    <3> QED BY <3>1, IdleFields, Zenon
  <2>3. CASE q # p
    <3>1. call'[q] = Stale(call[q])
      BY <2>3, WriteStatusOK
    <3>2. Stale(call[q]).fresh = FALSE
      BY <2>1, StaleFields
    <3> QED BY <3>1, <3>2, Zenon
  <2> QED BY <2>2, <2>3
<1> QED BY <1>1 DEF Fresh

LEMMA FreshContinue ==
    ASSUME CallsOK, Fresh, NEW p \in Call, NEW c \in CallRow, Continue(p, c),
           c.step = "editing" /\ c.patch = None => c.copy = student, UNCHANGED student
    PROVE  Fresh'
BY ContinueOK DEF Fresh, At

LEMMA FreshReturn ==
    ASSUME CallsOK, Fresh, NEW p \in Call, Return(p), UNCHANGED student
    PROVE  Fresh'
BY FreshContinue, IdleTyped, IdleFields DEF Return

LEMMA FreshBegin ==
    ASSUME CallsOK, Fresh, NEW p \in Call, NEW l \in Leave, NEW covers \in SUBSET Semester,
           NEW step \in Steps, Continue(p, LeaveCall(step, l, covers)), UNCHANGED student
    PROVE  Fresh'
<1> DEFINE c == LeaveCall(step, l, covers)
<1>1. c \in CallRow /\ c.step # "editing"
  BY RetryAssumption DEF LeaveCall, CallRow, StudentStatus, Steps
<1>2. Continue(p, c)
  OBVIOUS
<1> HIDE DEF c
<1> QED BY <1>1, <1>2, FreshContinue

LEMMA FreshOnward ==
    ASSUME CallsOK, Fresh, NEW p \in Call, NEW covers \in SUBSET Semester,
           NEW step \in Steps, Continue(p, Onward(call[p], step, covers)), UNCHANGED student
    PROVE  Fresh'
<1>1. call[p] \in CallRow
  BY DEF CallsOK
<1> QED BY <1>1, OnwardFields, FreshContinue DEF Steps

LEMMA FreshStatus ==
    ASSUME CallsOK, Fresh, NEW p \in Call, NEW from, NEW to, SetStudentStatus(p, from, to)
    PROVE  Fresh'
BY FreshWrite, FreshReturn DEF SetStudentStatus

LEMMA FreshStep == TypeOK /\ Fresh /\ [Next]_vars => Fresh'
<1> SUFFICES ASSUME TypeOK, Fresh, [Next]_vars PROVE Fresh'
  OBVIOUS
<1>1. CallsOK /\ LeavesOK /\ AboutALeave /\ student \in StudentStatus
  BY TypeParts
<1>2. ASSUME NEW p \in Call, NEW patch \in StudentStatus \cup {None},
             ReadStudent(p, patch)
      PROVE  Fresh'
  <2>1. 1 \in 0 .. maxUpdateRetries
    BY RetryAssumption
  <2> QED BY <1>1, <1>2, <2>1, EditFields, FreshContinue DEF ReadStudent
<1>3. ASSUME NEW p \in Call, UpdateStudent(p) PROVE Fresh'
  <2>1. CASE WriteStatus(p, call[p].copy)
    BY <1>1, <2>1, FreshWrite
  <2>2. CASE /\ call[p].tries < maxUpdateRetries
             /\ Continue(p, Edit(call[p].patch, call[p].tries + 1))
             /\ UNCHANGED student
    <3>1. call[p] \in CallRow
      BY <1>1 DEF CallsOK
    <3>2. /\ call[p].patch \in StudentStatus \cup {None}
          /\ call[p].tries + 1 \in 0 .. maxUpdateRetries
      BY <2>2, <3>1, RetryAssumption DEF CallRow
    <3> QED BY <1>1, <2>2, <3>2, EditFields, FreshContinue
  <2>3. CASE Return(p) /\ UNCHANGED student
    BY <1>1, <2>3, FreshReturn
  <2> QED BY <1>3, <2>1, <2>2, <2>3 DEF UpdateStudent
<1>4. ASSUME NEW p \in Call, NEW l \in Leave, NEW long \in BOOLEAN,
             NEW covers \in SUBSET Semester, CreateLeave(p, l, long, covers)
      PROVE  Fresh'
  BY <1>1, <1>4, FreshBegin DEF CreateLeave, Steps
<1>5. ASSUME NEW p \in Call, NEW s \in Semester, AddLeaveSemester(p, s) PROVE Fresh'
  <2>1. call[p].covers \ {s} \in SUBSET Semester
    BY <1>1 DEF CallsOK, CallRow
  <2> QED BY <1>1, <1>5, <2>1, FreshOnward DEF AddLeaveSemester, Steps
<1>6. ASSUME NEW p \in Call, RequestReturns(p) \/ StatementFails(p) PROVE Fresh'
  BY <1>1, <1>6, FreshReturn DEF RequestReturns, StatementFails
<1>7. ASSUME NEW p \in Call, NEW l \in Leave, ApproveLeave(p, l) \/ EndLeave(p, l)
      PROVE  Fresh'
  BY <1>1, <1>7, FreshBegin DEF ApproveLeave, EndLeave, Steps
<1>8. ASSUME NEW p \in Call, GetLeaveSemesters(p) PROVE Fresh'
  <2>1. leave[call[p].leave].covers \in SUBSET Semester
    BY <1>1, <1>8 DEF GetLeaveSemesters, At, AboutALeave, LeaveSteps, LeavesOK, LeaveRow
  <2> QED BY <1>1, <1>8, <2>1, FreshReturn, FreshOnward DEF GetLeaveSemesters, Steps
<1>9. ASSUME NEW p \in Call, WithdrawEnrollments(p) PROVE Fresh'
  BY <1>1, <1>9, FreshOnward DEF WithdrawEnrollments, Steps
<1>10. ASSUME NEW p \in Call, SetOnLeave(p) \/ Reactivate(p) PROVE Fresh'
  BY <1>1, <1>10, FreshStatus DEF SetOnLeave, Reactivate
<1>11. CASE UNCHANGED <<student, call>>
  BY <1>11 DEF Fresh, At
<1> QED BY <1>2, <1>3, <1>4, <1>5, <1>6, <1>7, <1>8, <1>9, <1>10, <1>11
        DEF Next, CallStep, OtherWriter, vars

(* A step after which the row and the leaves in force are as before, and no *)
(* call has stopped to act on one.                                          *)
LEMMA StatusFrame ==
    ASSUME SuspendedIsPatched, OnLeaveOrDisturbed, OnLeaveHasLeave,
           NEW p \in Call, Elsewhere(p),
           \/ call[p].step \notin {"reading", "withdrawing", "leaving", "reactivating"}
           \/ "broken" \in disturbance'
           \/ call'[p].leave = call[p].leave
              /\ call[p].step \in {"reading", "withdrawing"}
              /\ call'[p].step \in {"withdrawing", "leaving"},
           \A l \in Leave : InForce(l)' <=> InForce(l),
           UNCHANGED student, disturbance \subseteq disturbance'
    PROVE  SuspendedIsPatched' /\ OnLeaveOrDisturbed' /\ OnLeaveHasLeave'
<1>1. SuspendedIsPatched'
  BY DEF SuspendedIsPatched
<1>2. OnLeaveOrDisturbed'
  <2> SUFFICES ASSUME NEW l \in Leave, InForce(l), "broken" \notin disturbance',
                      \A q \in Call : ~Approving(q, l)'
               PROVE  student = "on_leave" \/ disturbance' \cap {"patched", "crossed"} # {}
    BY DEF OnLeaveOrDisturbed
  <2>1. \A q \in Call : ~Approving(q, l)
    BY DEF Approving, Elsewhere
  <2> QED BY <2>1 DEF OnLeaveOrDisturbed
<1>3. OnLeaveHasLeave'
  <2> SUFFICES ASSUME student = "on_leave", disturbance' = {}
               PROVE  (\E l \in Leave : InForce(l)) \/ (\E q \in Call : Ending(q)')
    BY DEF OnLeaveHasLeave
  <2>1. \A q \in Call : Ending(q) => Ending(q)'
    BY DEF Ending, At, Elsewhere
  <2> QED BY <2>1 DEF OnLeaveHasLeave
<1> QED BY <1>1, <1>2, <1>3

LEMMA EditKeeps ==
    ASSUME TypeOK, Fresh, SuspendedIsPatched, OnLeaveOrDisturbed, OnLeaveHasLeave,
           NEW p \in Call, UpdateStudent(p)
    PROVE  SuspendedIsPatched' /\ OnLeaveOrDisturbed' /\ OnLeaveHasLeave'
<1>1. /\ Elsewhere(p) /\ call[p].step = "editing" /\ UNCHANGED leave
      /\ disturbance \subseteq disturbance'
  BY UpdateCases DEF UpdateStudent, NotePatch, At, Goes
<1>2. student' = student \/ "patched" \in disturbance'
  <2>1. CASE call[p].fresh /\ WriteStatus(p, call[p].copy) /\ NotePatch(p)
    <3>1. CASE call[p].patch = None
      BY <1>1, <2>1, <3>1 DEF WriteStatus, Fresh, At
    <3>2. CASE call[p].patch # None
      BY <2>1, <3>2 DEF NotePatch
    <3> QED BY <3>1, <3>2
  <2>2. CASE student' = student
    BY <2>2
  <2> QED BY <2>1, <2>2, UpdateCases
<1>3. \A l \in Leave : InForce(l)' <=> InForce(l)
  BY <1>1 DEF InForce
<1>4. CASE student' = student
  BY <1>1, <1>3, <1>4, StatusFrame
<1>5. CASE "patched" \in disturbance'
  BY <1>5 DEF SuspendedIsPatched, OnLeaveOrDisturbed, OnLeaveHasLeave
<1> QED BY <1>2, <1>4, <1>5

(* A call that acts on nothing, and a leave that is not in force. *)
LEMMA CreateKeeps ==
    ASSUME TypeOK, SuspendedIsPatched, OnLeaveOrDisturbed, OnLeaveHasLeave,
           NEW p \in Call, NEW l \in Leave, NEW long \in BOOLEAN,
           NEW covers \in SUBSET Semester, CreateLeave(p, l, long, covers)
    PROVE  SuspendedIsPatched' /\ OnLeaveOrDisturbed' /\ OnLeaveHasLeave'
<1>1. /\ Elsewhere(p) /\ call[p].step = "idle" /\ OtherLeaves(l)
      /\ leave[l].state = "none" /\ leave'[l].state = "requested"
      /\ UNCHANGED <<student, disturbance>>
  BY CreateEffect DEF Goes
<1>2. \A k \in Leave : InForce(k)' <=> InForce(k)
  BY <1>1 DEF InForce, OtherLeaves
<1> QED BY <1>1, <1>2, StatusFrame

LEMMA AddKeeps ==
    ASSUME TypeOK, SuspendedIsPatched, OnLeaveOrDisturbed, OnLeaveHasLeave,
           NEW p \in Call, NEW s \in Semester, AddLeaveSemester(p, s)
    PROVE  SuspendedIsPatched' /\ OnLeaveOrDisturbed' /\ OnLeaveHasLeave'
<1> DEFINE l == call[p].leave
<1>1. /\ l \in Leave /\ Elsewhere(p) /\ OtherLeaves(l) /\ call[p].step = "covering"
      /\ leave'[l].open = leave[l].open /\ leave'[l].state = leave[l].state
      /\ leave'[l].long = leave[l].long /\ UNCHANGED <<student, disturbance>>
  BY AddEffect DEF Goes
<1> HIDE DEF l
<1>2. \A k \in Leave : InForce(k)' <=> InForce(k)
  BY <1>1 DEF InForce, OtherLeaves
<1> QED BY <1>1, <1>2, StatusFrame

(* The leave approved now has an approver. *)
LEMMA ApproveKeeps ==
    ASSUME TypeOK, SuspendedIsPatched, OnLeaveOrDisturbed, OnLeaveHasLeave,
           NEW p \in Call, NEW l \in Leave, ApproveLeave(p, l)
    PROVE  SuspendedIsPatched' /\ OnLeaveOrDisturbed' /\ OnLeaveHasLeave'
<1>1. /\ Goes(p, "reading", l, {}) /\ OtherLeaves(l) /\ call[p].step = "idle"
      /\ leave[l].state = "requested" /\ UNCHANGED student
  BY ApproveEffect
<1>2. disturbance \subseteq disturbance'
  BY DEF ApproveLeave
<1>3. SuspendedIsPatched'
  BY <1>1, <1>2 DEF SuspendedIsPatched
<1>4. OnLeaveOrDisturbed'
  <2> SUFFICES ASSUME NEW k \in Leave, InForce(k)', "broken" \notin disturbance',
                      \A q \in Call : ~Approving(q, k)'
               PROVE  student = "on_leave" \/ disturbance' \cap {"patched", "crossed"} # {}
    BY <1>1 DEF OnLeaveOrDisturbed
  <2>1. k # l
    BY <1>1 DEF Approving, Goes
  <2>2. InForce(k) /\ \A q \in Call : ~Approving(q, k)
    BY <1>1, <2>1 DEF InForce, OtherLeaves, Approving, Goes, Elsewhere
  <2> QED BY <1>2, <2>2 DEF OnLeaveOrDisturbed
<1>5. OnLeaveHasLeave'
  <2>1. \A k \in Leave : InForce(k) => InForce(k)'
    BY <1>1 DEF InForce, OtherLeaves
  <2>2. \A q \in Call : Ending(q) => Ending(q)'
    BY <1>1 DEF Ending, At, Goes, Elsewhere
  <2> QED BY <1>1, <1>2, <2>1, <2>2 DEF OnLeaveHasLeave
<1> QED BY <1>3, <1>4, <1>5

(* Its end is being acted on. *)
LEMMA EndKeeps ==
    ASSUME TypeOK, SuspendedIsPatched, OnLeaveOrDisturbed, OnLeaveHasLeave,
           NEW p \in Call, NEW l \in Leave, EndLeave(p, l)
    PROVE  SuspendedIsPatched' /\ OnLeaveOrDisturbed' /\ OnLeaveHasLeave'
<1>1. /\ Goes(p, "reactivating", l, {}) /\ OtherLeaves(l) /\ call[p].step = "idle"
      /\ ~leave'[l].open /\ UNCHANGED student
  BY EndEffect
<1>2. disturbance \subseteq disturbance'
  BY DEF EndLeave
<1>3. SuspendedIsPatched'
  BY <1>1, <1>2 DEF SuspendedIsPatched
<1>4. OnLeaveOrDisturbed'
  <2> SUFFICES ASSUME NEW k \in Leave, InForce(k)', "broken" \notin disturbance',
                      \A q \in Call : ~Approving(q, k)'
               PROVE  student = "on_leave" \/ disturbance' \cap {"patched", "crossed"} # {}
    BY <1>1 DEF OnLeaveOrDisturbed
  <2>1. InForce(k) /\ \A q \in Call : ~Approving(q, k)
    BY <1>1 DEF InForce, OtherLeaves, Approving, Goes, Elsewhere
  <2> QED BY <1>2, <2>1 DEF OnLeaveOrDisturbed
<1>5. OnLeaveHasLeave'
  BY <1>1 DEF OnLeaveHasLeave, Ending, At, Goes
<1> QED BY <1>3, <1>4, <1>5

(* The last step of an approval puts the student on leave: the leave is in *)
(* force, or was ended across it.                                          *)
LEMMA SetOnLeaveKeeps ==
    ASSUME TypeOK, Roles, SuspendedIsPatched, OnLeaveOrDisturbed, OnLeaveHasLeave,
           NEW p \in Call, SetOnLeave(p)
    PROVE  SuspendedIsPatched' /\ OnLeaveOrDisturbed' /\ OnLeaveHasLeave'
<1> DEFINE l == call[p].leave
<1>1. /\ call[p].step = "leaving" /\ Goes(p, "idle", None, {})
      /\ student' = IF student = "active" THEN "on_leave" ELSE student
      /\ UNCHANGED <<leave, disturbance>> /\ student \in StudentStatus
  BY SetOnLeaveEffect, TypeParts
<1>2. l \in Leave /\ Approving(p, l)
  BY <1>1, TypeParts DEF AboutALeave, LeaveSteps, Approving
<1> HIDE DEF l
<1>3. student' = "on_leave" \/ "patched" \in disturbance
  BY <1>1 DEF SuspendedIsPatched, StudentStatus
<1>4. SuspendedIsPatched'
  BY <1>1, <1>3 DEF SuspendedIsPatched
<1>5. OnLeaveOrDisturbed'
  BY <1>1, <1>3 DEF OnLeaveOrDisturbed
<1>6. OnLeaveHasLeave'
  <2>1. /\ leave[l].state = "approved" /\ (leave[l].open \/ "crossed" \in disturbance)
        /\ leave[l].long
    BY <1>1, <1>2 DEF Roles, ApproversHold
  <2>2. "crossed" \in disturbance \/ InForce(l)
    BY <2>1 DEF InForce
  <2>3. \A k \in Leave : InForce(k)' <=> InForce(k)
    BY <1>1 DEF InForce
  <2> QED BY <1>1, <1>2, <2>2, <2>3 DEF OnLeaveHasLeave
<1> QED BY <1>4, <1>5, <1>6

(* Whoever ends a leave finds none in force, or one approved across it. *)
LEMMA ReactivateKeeps ==
    ASSUME TypeOK, Roles, SuspendedIsPatched, OnLeaveOrDisturbed, OnLeaveHasLeave,
           NEW p \in Call, Reactivate(p)
    PROVE  SuspendedIsPatched' /\ OnLeaveOrDisturbed' /\ OnLeaveHasLeave'
<1>1. /\ call[p].step = "reactivating" /\ student' # "on_leave"
      /\ student' = IF student = "on_leave" THEN "active" ELSE student
      /\ UNCHANGED <<leave, disturbance>>
  BY ReactivateEffect
<1>2. SuspendedIsPatched'
  BY <1>1 DEF SuspendedIsPatched
<1>3. OnLeaveOrDisturbed'
  BY <1>1 DEF OnLeaveOrDisturbed, Roles, EndingAlone, Ending, At, InForce
<1>4. OnLeaveHasLeave'
  BY <1>1 DEF OnLeaveHasLeave
<1> QED BY <1>2, <1>3, <1>4

LEMMA StatusStep == TypeOK /\ Roles /\ Status /\ [Next]_vars => Status'
<1> SUFFICES ASSUME TypeOK, Roles, Status, [Next]_vars
             PROVE  SuspendedIsPatched' /\ OnLeaveOrDisturbed' /\ OnLeaveHasLeave'
  BY FreshStep DEF Status
<1> USE DEF Status
<1>1. CallsOK
  BY TypeParts
<1>2. ASSUME UNCHANGED leave PROVE \A l \in Leave : InForce(l)' <=> InForce(l)
  BY <1>2 DEF InForce
<1>3. ASSUME NEW p \in Call, NEW patch \in StudentStatus \cup {None},
             ReadStudent(p, patch)
      PROVE  SuspendedIsPatched' /\ OnLeaveOrDisturbed' /\ OnLeaveHasLeave'
  BY <1>2, <1>3, EditEffect, StatusFrame
<1>4. ASSUME NEW p \in Call, UpdateStudent(p)
      PROVE  SuspendedIsPatched' /\ OnLeaveOrDisturbed' /\ OnLeaveHasLeave'
  BY <1>4, EditKeeps
<1>5. ASSUME NEW p \in Call, NEW l \in Leave, NEW long \in BOOLEAN,
             NEW covers \in SUBSET Semester, CreateLeave(p, l, long, covers)
      PROVE  SuspendedIsPatched' /\ OnLeaveOrDisturbed' /\ OnLeaveHasLeave'
  BY <1>5, CreateKeeps
<1>6. ASSUME NEW p \in Call, NEW s \in Semester, AddLeaveSemester(p, s)
      PROVE  SuspendedIsPatched' /\ OnLeaveOrDisturbed' /\ OnLeaveHasLeave'
  BY <1>6, AddKeeps
<1>7. ASSUME NEW p \in Call, RequestReturns(p)
      PROVE  SuspendedIsPatched' /\ OnLeaveOrDisturbed' /\ OnLeaveHasLeave'
  <2>1. /\ Elsewhere(p) /\ call[p].step = "covering"
        /\ UNCHANGED <<student, leave, disturbance>>
    BY <1>1, <1>7, ReturnGoes DEF RequestReturns, At, Goes
  <2> QED BY <1>2, <2>1, StatusFrame
<1>8. ASSUME NEW p \in Call, NEW l \in Leave, ApproveLeave(p, l)
      PROVE  SuspendedIsPatched' /\ OnLeaveOrDisturbed' /\ OnLeaveHasLeave'
  BY <1>8, ApproveKeeps
<1>9. ASSUME NEW p \in Call, NEW l \in Leave, EndLeave(p, l)
      PROVE  SuspendedIsPatched' /\ OnLeaveOrDisturbed' /\ OnLeaveHasLeave'
  BY <1>9, EndKeeps
<1>10. ASSUME NEW p \in Call, GetLeaveSemesters(p)
       PROVE  SuspendedIsPatched' /\ OnLeaveOrDisturbed' /\ OnLeaveHasLeave'
  <2> DEFINE l == call[p].leave
  <2>1. l \in Leave /\ call[p].step = "reading" /\ UNCHANGED <<student, leave, disturbance>>
    BY <1>10, ReadEffect
  <2>2. \/ ~leave[l].long /\ Goes(p, "idle", None, {})
        \/ /\ Elsewhere(p) /\ call'[p].leave = l
           /\ call'[p].step \in {"withdrawing", "leaving"}
    BY <1>10, ReadEffect DEF Goes
  <2>3. CASE ~leave[l].long /\ Goes(p, "idle", None, {})
    <3> HIDE DEF l
    <3>1. ~InForce(l)
      BY <2>3 DEF InForce
    <3>2. SuspendedIsPatched' /\ OnLeaveHasLeave'
      BY <2>1, <2>3 DEF SuspendedIsPatched, OnLeaveHasLeave, InForce, Ending, At, Goes,
         Elsewhere
    <3>3. OnLeaveOrDisturbed'
      BY <2>1, <2>3, <3>1 DEF OnLeaveOrDisturbed, InForce, Approving, Goes, Elsewhere, l
    <3> QED BY <3>2, <3>3
  <2>4. CASE /\ Elsewhere(p) /\ call'[p].leave = l
             /\ call'[p].step \in {"withdrawing", "leaving"}
    BY <1>2, <2>1, <2>4, StatusFrame
  <2> QED BY <2>2, <2>3, <2>4
<1>11. ASSUME NEW p \in Call, WithdrawEnrollments(p)
       PROVE  SuspendedIsPatched' /\ OnLeaveOrDisturbed' /\ OnLeaveHasLeave'
  <2>1. /\ Elsewhere(p) /\ call[p].step = "withdrawing" /\ call'[p].step = "leaving"
        /\ call'[p].leave = call[p].leave /\ UNCHANGED <<student, leave, disturbance>>
    BY <1>11, WithdrawEffect DEF Goes
  <2> QED BY <1>2, <2>1, StatusFrame
<1>12. ASSUME NEW p \in Call, SetOnLeave(p)
       PROVE  SuspendedIsPatched' /\ OnLeaveOrDisturbed' /\ OnLeaveHasLeave'
  BY <1>12, SetOnLeaveKeeps
<1>13. ASSUME NEW p \in Call, Reactivate(p)
       PROVE  SuspendedIsPatched' /\ OnLeaveOrDisturbed' /\ OnLeaveHasLeave'
  BY <1>13, ReactivateKeeps
<1>14. ASSUME NEW p \in Call, StatementFails(p)
       PROVE  SuspendedIsPatched' /\ OnLeaveOrDisturbed' /\ OnLeaveHasLeave'
  <2>1. /\ Elsewhere(p) /\ UNCHANGED <<student, leave>> /\ disturbance \subseteq disturbance'
        /\ "broken" \in disturbance'
    BY <1>14, FailEffect DEF Goes
  <2> QED BY <1>2, <2>1, StatusFrame
<1>15. CASE UNCHANGED <<student, leave, call, disturbance>>
  BY <1>15 DEF SuspendedIsPatched, OnLeaveOrDisturbed, OnLeaveHasLeave, InForce,
     Approving, Ending, At
<1> QED BY <1>3, <1>4, <1>5, <1>6, <1>7, <1>8, <1>9, <1>10, <1>11, <1>12, <1>13, <1>14,
           <1>15 DEF Next, CallStep, OtherWriter, vars

-----------------------------------------------------------------------------
Inv == TypeOK /\ Roles /\ Covered /\ Status

LEMMA Inductive == Spec => []Inv
<1>1. Init => Inv
  BY TypeInit, RolesInit, CoveredInit, StatusInit DEF Inv
<1>2. Inv /\ [Next]_vars => Inv'
  BY TypeStep, RolesStep, CoveredStep, StatusStep DEF Inv
<1> QED BY <1>1, <1>2, PTL DEF Spec

(* A leave in force that was acted on to the end has withdrawn what it      *)
(* covers but for what came in behind it, and has put the student on leave, *)
(* unless an edit or a crossing call set the status (leave.go:24, 150-177). *)
THEOREM EveryLeaveTakesEffect == Spec => []LeaveTakesEffect
<1>1. Inv => LeaveTakesEffect
  <2> SUFFICES ASSUME Inv, NEW l \in Leave, InForce(l), "broken" \notin disturbance,
                      \A p \in Call : ~Approving(p, l)
               PROVE  /\ \A o \in Offering :
                            /\ enrollment[o] = "enrolled"
                            /\ SemesterOf[o] \in leave[l].covers
                            /\ <<l, SemesterOf[o]>> \notin late
                            => o \in slipped
                      /\ student = "on_leave" \/ disturbance \cap {"patched", "crossed"} # {}
    BY DEF LeaveTakesEffect
  <2>1. Withdrawn(l)
    BY DEF Withdrawn, Approving
  <2> QED BY <2>1 DEF Inv, Covered, Status, OnLeaveOrDisturbed
<1> QED BY <1>1, Inductive, PTL

(* Nobody is on leave without a leave in force or one whose end is being    *)
(* acted on, unless a named disturbance befell the student (leave.go:180).  *)
THEOREM NobodyStaysOnLeave == Spec => []OnLeaveHasLeave
<1>1. Inv => OnLeaveHasLeave
  BY DEF Inv, Status
<1> QED BY <1>1, Inductive, PTL

\* Leaves and the student's records agree, in both directions (leave.go).
THEOREM LeavesAgree == Spec => []LeavesAndRecordsAgree
<1>1. LeaveTakesEffect /\ OnLeaveHasLeave => LeavesAndRecordsAgree
  BY DEF LeavesAndRecordsAgree
<1> QED BY <1>1, EveryLeaveTakesEffect, NobodyStaysOnLeave, PTL

-----------------------------------------------------------------------------
(* Admission. *)

(* Who was approved is a student, and who reviews holds a pending row.  A    *)
(* resubmission that was not overtaken by a second sending back carries what *)
(* it does not bring as the row still has it.                                *)
AdmissionTables == Office!TypeOK

ReviewSound(c) ==
  admitting[c].op = "admit" =>
    /\ Office!Filed(admitting[c].on) /\ applications[admitting[c].on].status = "pending"
    /\ admitting[c].status \in {"approved", "rejected", "needs_revision"}
    /\ \A d \in Call : admitting[d].op = "admit" /\ admitting[d].on = admitting[c].on => d = c

ResubmissionSound(c) ==
  LET mine == admitting[c]
  IN  /\ mine.op \in {"resubmit", "withdraw", "review"} => Office!Filed(mine.on)
      /\ mine.op = "create" => mine.row.status = "pending"
      /\ mine.op = "review" => mine.status \in {"approved", "rejected", "needs_revision"}
      /\ mine.op = "resubmit" /\ ~mine.sentBack
           /\ applications[mine.on].status = "needs_revision" =>
            \A b \in Blob \ mine.brought : mine.blobs[b] = applications[mine.on].blobs[b]

AdmissionInv ==
  /\ AdmissionTables
  /\ Office!Admitted /\ Office!OneOpenEach
  /\ \A c \in Call : ReviewSound(c) /\ ResubmissionSound(c)
LEMMA MarkedSentBack ==
  ASSUME NEW L, NEW B, NEW P,
         NEW x \in [op : {"resubmit"}, on : L, blobs : B, brought : P, sentBack : BOOLEAN]
  PROVE  LET n == [x EXCEPT !.sentBack = TRUE]
         IN  /\ n \in [op : {"resubmit"}, on : L, blobs : B, brought : P, sentBack : BOOLEAN]
             /\ n.op = "resubmit" /\ n.on = x.on /\ n.sentBack
             /\ n.blobs = x.blobs /\ n.brought = x.brought
OBVIOUS

LEMMA ResubmittedFields ==
  ASSUME NEW L, NEW B, NEW P,
         NEW x \in [op : {"resubmit"}, on : L, blobs : B, brought : P, sentBack : BOOLEAN]
  PROVE  x.op = "resubmit" /\ x.on \in L /\ x.blobs \in B /\ x.brought \in P
OBVIOUS


LEMMA AdmissionCalls ==
  ASSUME AdmissionTables, NEW c \in Call
  PROVE  /\ admitting[c].op \in {"idle", "create", "resubmit", "withdraw", "review", "admit"}
         /\ admitting[c] # Office!Idle <=> admitting[c].op # "idle"
         /\ admitting[c].op = "create" => admitting[c].row \in Office!Row
         /\ admitting[c].op \in {"resubmit", "withdraw", "review", "admit"} =>
               admitting[c].on \in Leave
         /\ admitting[c].op = "resubmit" =>
               admitting[c] \in [op : {"resubmit"}, on : Leave, blobs : [Blob -> Text],
                                 brought : SUBSET Blob, sentBack : BOOLEAN]
         /\ admitting[c].op \in {"review", "admit"} =>
               admitting[c] \in [op : {"review", "admit"}, on : Leave, status : Office!Status]
<1>1. admitting[c] \in Office!Calls
  BY DEF AdmissionTables, Office!TypeOK
<1>2. \/ admitting[c] = Office!Idle
      \/ admitting[c] \in [op : {"create"}, row : Office!Row]
      \/ admitting[c] \in [op : {"resubmit"}, on : Leave, blobs : [Blob -> Text],
                           brought : SUBSET Blob, sentBack : BOOLEAN]
      \/ admitting[c] \in [op : {"withdraw"}, on : Leave]
      \/ admitting[c] \in [op : {"review", "admit"}, on : Leave, status : Office!Status]
  BY <1>1 DEF Office!Calls
<1>3. CASE admitting[c] = Office!Idle
  BY <1>3 DEF Office!Idle
<1>4. CASE admitting[c] \in [op : {"create"}, row : Office!Row]
  BY <1>4 DEF Office!Idle
<1>5. CASE admitting[c] \in [op : {"resubmit"}, on : Leave, blobs : [Blob -> Text],
                             brought : SUBSET Blob, sentBack : BOOLEAN]
  <2>1. admitting[c].op = "resubmit" /\ admitting[c].on \in Leave
    BY <1>5, ResubmittedFields
  <2>2. admitting[c] # Office!Idle
    BY <2>1 DEF Office!Idle
  <2> QED BY <1>5, <2>1, <2>2
<1>6. CASE admitting[c] \in [op : {"withdraw"}, on : Leave]
  <2>1. admitting[c].op = "withdraw" /\ admitting[c].on \in Leave
    BY <1>6
  <2>2. admitting[c] # Office!Idle
    BY <2>1 DEF Office!Idle
  <2> QED BY <1>6, <2>1, <2>2
<1>7. CASE admitting[c] \in [op : {"review", "admit"}, on : Leave, status : Office!Status]
  BY <1>7 DEF Office!Idle
<1> QED BY <1>2, <1>3, <1>4, <1>5, <1>6, <1>7

LEMMA AdmissionCallStep ==
  ASSUME AdmissionTables, NEW c \in Call, NEW n \in Office!Calls,
         admitting' = [admitting EXCEPT ![c] = n]
  PROVE  /\ admitting' \in [Call -> Office!Calls] /\ admitting'[c] = n
         /\ \A d \in Call \ {c} : admitting'[d] = admitting[d]
BY DEF AdmissionTables, Office!TypeOK

(* A call that goes on, or ends, and has written nothing. *)
LEMMA QuietAdmission ==
  ASSUME AdmissionInv, NEW c \in Call, NEW n \in Office!Calls,
         admitting' = [admitting EXCEPT ![c] = n], UNCHANGED <<applications, students>>,
         taking' \subseteq Program,
         n.op = "admit" =>
            /\ Office!Filed(n.on) /\ applications[n.on].status = "pending"
            /\ n.status \in {"approved", "rejected", "needs_revision"}
            /\ \A d \in Call \ {c} : admitting[d].op = "admit" => admitting[d].on # n.on,
         n.op \in {"resubmit", "withdraw", "review"} => Office!Filed(n.on),
         n.op = "create" => n.row.status = "pending",
         n.op = "review" => n.status \in {"approved", "rejected", "needs_revision"},
         n.op = "resubmit" => \A b \in Blob \ n.brought : n.blobs[b] = applications[n.on].blobs[b]
  PROVE  AdmissionInv'
<1>1. /\ admitting' \in [Call -> Office!Calls] /\ admitting'[c] = n
      /\ \A d \in Call \ {c} : admitting'[d] = admitting[d]
  BY AdmissionCallStep DEF AdmissionInv
<1>2. AdmissionTables'
  BY <1>1 DEF AdmissionInv, AdmissionTables, Office!TypeOK
<1>3. Office!Admitted' /\ Office!OneOpenEach'
  BY DEF AdmissionInv, Office!Admitted, Office!OneOpenEach, Office!Filed, Office!Open
<1>4. ASSUME NEW d \in Call PROVE ReviewSound(d)'
  <2>1. CASE d = c
    BY <1>1, <2>1 DEF AdmissionInv, ReviewSound, Office!Filed
  <2>2. CASE d # c
    <3>1. ReviewSound(d) /\ admitting'[d] = admitting[d]
      BY <1>1, <2>2 DEF AdmissionInv
    <3>2. admitting[d].op = "admit" /\ n.op = "admit" => n.on # admitting[d].on
      BY <2>2
    <3> QED BY <1>1, <3>1, <3>2 DEF ReviewSound, Office!Filed
  <2> QED BY <2>1, <2>2
<1>5. ASSUME NEW d \in Call PROVE ResubmissionSound(d)'
  <2>1. CASE d = c
    BY <1>1, <2>1 DEF ResubmissionSound, Office!Filed
  <2>2. CASE d # c
    <3>1. ResubmissionSound(d) /\ admitting'[d] = admitting[d]
      BY <1>1, <2>2 DEF AdmissionInv
    <3> QED BY <3>1 DEF ResubmissionSound, Office!Filed
  <2> QED BY <2>1, <2>2
<1> QED BY <1>2, <1>3, <1>4, <1>5 DEF AdmissionInv

(* The guarded UPDATE of a call that asked for an open, unlocked row. *)
LEMMA RowWritten ==
  ASSUME Office!AdmissionAssumption, AdmissionInv, NEW c \in Call, NEW a \in Leave, NEW r \in Office!Row,
         Office!Filed(a), ~ Office!Locked(a), Office!Open(applications[a]),
         r.user = applications[a].user, r.program = applications[a].program,
         r.status \in {"pending", "withdrawn"},
         applications' = [applications EXCEPT ![a] = r],
         admitting' = [admitting EXCEPT ![c] = Office!Idle], UNCHANGED <<students, taking>>
  PROVE  AdmissionInv'
<1>1. Office!Idle \in Office!Calls /\ Office!Idle.op = "idle"
  BY DEF Office!Calls, Office!Idle
<1>2. /\ admitting' \in [Call -> Office!Calls] /\ admitting'[c].op = "idle"
      /\ \A d \in Call \ {c} : admitting'[d] = admitting[d]
  BY <1>1, AdmissionCallStep DEF AdmissionInv
<1>3. /\ applications' \in [Leave -> Office!Row \cup {None}]
      /\ applications'[a] = r /\ r # None
      /\ \A b \in Leave \ {a} : applications'[b] = applications[b]
  BY DEF AdmissionInv, AdmissionTables, Office!TypeOK, Office!AdmissionAssumption
<1>4. AdmissionTables'
  BY <1>2, <1>3 DEF AdmissionInv, AdmissionTables, Office!TypeOK
<1>5. Office!Admitted'
  BY <1>3 DEF AdmissionInv, Office!Admitted, Office!Filed
<1>6. \A b \in Leave : /\ Office!Filed(b)' => Office!Filed(b)
                       /\ Office!Filed(b)' /\ Office!Open(applications'[b]) => Office!Open(applications[b])
                       /\ Office!Filed(b)' => /\ applications'[b].user = applications[b].user
                                              /\ applications'[b].program = applications[b].program
  BY <1>3 DEF Office!Filed
<1>7. Office!OneOpenEach'
  <2> SUFFICES ASSUME NEW x \in Leave, NEW y \in Leave, x # y,
                      Office!Filed(x)', Office!Filed(y)',
                      Office!Open(applications'[x]), Office!Open(applications'[y])
               PROVE  \/ applications'[x].user # applications'[y].user
                      \/ applications'[x].program # applications'[y].program
    BY DEF Office!OneOpenEach, Office!Open, Office!Filed
  <2>1. /\ Office!Filed(x) /\ Office!Filed(y)
        /\ Office!Open(applications[x]) /\ Office!Open(applications[y])
    BY <1>6
  <2> QED BY <1>6, <2>1 DEF AdmissionInv, Office!OneOpenEach
<1>8. ASSUME NEW d \in Call PROVE ReviewSound(d)'
  <2>1. CASE d = c
    BY <1>2, <2>1 DEF ReviewSound
  <2>2. CASE d # c
    <3>1. ReviewSound(d) /\ admitting'[d] = admitting[d]
      BY <1>2, <2>2 DEF AdmissionInv
    <3>2. admitting[d].op = "admit" => admitting[d].on # a
      BY DEF Office!Locked
    <3>3. admitting[d].op = "admit" => admitting[d].on \in Leave
      BY AdmissionCalls DEF AdmissionInv
    <3>4. admitting[d].op = "admit" => applications'[admitting[d].on] = applications[admitting[d].on]
      BY <1>3, <3>2, <3>3
    <3>5. \A e \in Call : admitting'[e].op = "admit" => admitting'[e] = admitting[e]
      BY <1>2
    <3> QED BY <3>1, <3>4, <3>5 DEF ReviewSound, Office!Filed
  <2> QED BY <2>1, <2>2
<1>9. ASSUME NEW d \in Call PROVE ResubmissionSound(d)'
  <2>1. CASE d = c
    BY <1>2, <2>1 DEF ResubmissionSound
  <2>2. CASE d # c
    <3>1. ResubmissionSound(d) /\ admitting'[d] = admitting[d]
      BY <1>2, <2>2 DEF AdmissionInv
    <3>2. admitting[d].op \in {"resubmit", "withdraw", "review"} => admitting[d].on \in Leave
      BY AdmissionCalls DEF AdmissionInv
    <3>3. \A b \in Leave : /\ Office!Filed(b) => applications'[b] # None
                           /\ b = a => applications'[b].status # "needs_revision"
      BY <1>3 DEF Office!Filed
    <3> QED BY <1>3, <3>1, <3>2, <3>3 DEF ResubmissionSound, Office!Filed
  <2> QED BY <2>1, <2>2
<1> QED BY <1>4, <1>5, <1>7, <1>8, <1>9 DEF AdmissionInv

(* The insert, where no open row of his to the program is in the way. *)
LEMMA RowInserted ==
  ASSUME Office!AdmissionAssumption, AdmissionInv, NEW c \in Call, NEW a \in Leave, NEW r \in Office!Row,
         ~ Office!Filed(a), ~ Office!Duplicate(r), r.status = "pending",
         applications' = [applications EXCEPT ![a] = r],
         admitting' = [admitting EXCEPT ![c] = Office!Idle], UNCHANGED <<students, taking>>
  PROVE  AdmissionInv'
<1>1. Office!Idle \in Office!Calls /\ Office!Idle.op = "idle"
  BY DEF Office!Calls, Office!Idle
<1>2. /\ admitting' \in [Call -> Office!Calls] /\ admitting'[c].op = "idle"
      /\ \A d \in Call \ {c} : admitting'[d] = admitting[d]
  BY <1>1, AdmissionCallStep DEF AdmissionInv
<1>3. /\ applications' \in [Leave -> Office!Row \cup {None}]
      /\ applications'[a] = r /\ r # None
      /\ \A b \in Leave \ {a} : applications'[b] = applications[b]
  BY DEF AdmissionInv, AdmissionTables, Office!TypeOK, Office!AdmissionAssumption
<1>4. AdmissionTables'
  BY <1>2, <1>3 DEF AdmissionInv, AdmissionTables, Office!TypeOK
<1>5. Office!Admitted'
  BY <1>3 DEF AdmissionInv, Office!Admitted, Office!Filed
<1>7. Office!OneOpenEach'
  <2> SUFFICES ASSUME NEW x \in Leave, NEW y \in Leave, x # y,
                      Office!Filed(x)', Office!Filed(y)',
                      Office!Open(applications'[x]), Office!Open(applications'[y])
               PROVE  \/ applications'[x].user # applications'[y].user
                      \/ applications'[x].program # applications'[y].program
    BY DEF Office!OneOpenEach, Office!Open, Office!Filed
  <2>1. CASE x # a /\ y # a
    BY <1>3, <2>1 DEF AdmissionInv, Office!OneOpenEach, Office!Filed
  <2>2. \A b \in Leave \ {a} : Office!Filed(b)' /\ Office!Open(applications'[b]) =>
           \/ applications'[b].user # r.user \/ applications'[b].program # r.program
    BY <1>3 DEF Office!Duplicate, Office!Filed
  <2> QED BY <1>3, <2>1, <2>2
<1>8. ASSUME NEW d \in Call PROVE ReviewSound(d)'
  <2>1. CASE d = c
    BY <1>2, <2>1 DEF ReviewSound
  <2>2. CASE d # c
    <3>1. ReviewSound(d) /\ admitting'[d] = admitting[d]
      BY <1>2, <2>2 DEF AdmissionInv
    <3>3. admitting[d].op = "admit" => admitting[d].on \in Leave
      BY AdmissionCalls DEF AdmissionInv
    <3>4. admitting[d].op = "admit" => applications'[admitting[d].on] = applications[admitting[d].on]
      BY <1>3, <3>1, <3>3 DEF ReviewSound
    <3>5. \A e \in Call : admitting'[e].op = "admit" => admitting'[e] = admitting[e]
      BY <1>2
    <3> QED BY <3>1, <3>4, <3>5 DEF ReviewSound, Office!Filed
  <2> QED BY <2>1, <2>2
<1>9. ASSUME NEW d \in Call PROVE ResubmissionSound(d)'
  <2>1. CASE d = c
    BY <1>2, <2>1 DEF ResubmissionSound
  <2>2. CASE d # c
    <3>1. ResubmissionSound(d) /\ admitting'[d] = admitting[d]
      BY <1>2, <2>2 DEF AdmissionInv
    <3>2. admitting[d].op \in {"resubmit", "withdraw", "review"} => admitting[d].on \in Leave
      BY AdmissionCalls DEF AdmissionInv
    <3>3. \A b \in Leave : Office!Filed(b) => applications'[b] = applications[b]
      BY <1>3
    <3> QED BY <3>1, <3>2, <3>3 DEF ResubmissionSound, Office!Filed
  <2> QED BY <2>1, <2>2
<1> QED BY <1>4, <1>5, <1>7, <1>8, <1>9 DEF AdmissionInv

(* A step of the registry or of the program's settings beside the calls. *)
LEMMA BesideCalls ==
  ASSUME AdmissionInv, UNCHANGED <<applications, admitting>>, taking' \subseteq Program,
         students' \in [Applicant -> Program \cup {None}],
         \A u \in Applicant : students[u] # None => students'[u] = students[u],
         None \notin Program
  PROVE  AdmissionInv'
<1>1. AdmissionTables' /\ Office!OneOpenEach'
  BY DEF AdmissionInv, AdmissionTables, Office!TypeOK, Office!OneOpenEach, Office!Open, Office!Filed
<1>2. Office!Admitted'
  <2> SUFFICES ASSUME NEW a \in Leave, Office!Filed(a), applications[a].status = "approved"
               PROVE  students'[applications[a].user] = applications[a].program
    BY DEF Office!Admitted, Office!Filed
  <2>1. applications[a] \in Office!Row
    BY DEF AdmissionInv, AdmissionTables, Office!TypeOK, Office!Filed
  <2>2. applications[a].user \in Applicant /\ applications[a].program \in Program
    BY <2>1 DEF Office!Row
  <2>3. students[applications[a].user] = applications[a].program
    BY DEF AdmissionInv, Office!Admitted
  <2> QED BY <2>2, <2>3
<1>3. \A d \in Call : ReviewSound(d)' /\ ResubmissionSound(d)'
  BY DEF AdmissionInv, ReviewSound, ResubmissionSound, Office!Filed
<1> QED BY <1>1, <1>2, <1>3 DEF AdmissionInv

(* The rest of a review that succeeds: the row is decided, and who had read it *)
(* as it was sent back before is marked.                                       *)
LEMMA Committed ==
  ASSUME Office!AdmissionAssumption, AdmissionInv, NEW c \in Call, Office!Commit(c),
         Office!Admits(c)
  PROVE  AdmissionInv'
<1> DEFINE a == admitting[c].on
           s == admitting[c].status
           r == [applications[a] EXCEPT !.status = s]
<1>1. /\ admitting[c].op = "admit" /\ a \in Leave /\ s \in Office!Status
      /\ admitting[c] \in [op : {"review", "admit"}, on : Leave, status : Office!Status]
  <2>1. admitting[c].op = "admit"
    BY DEF Office!Commit
  <2> QED BY <2>1, AdmissionCalls DEF AdmissionInv
<1>2. /\ Office!Filed(a) /\ applications[a].status = "pending"
      /\ s \in {"approved", "rejected", "needs_revision"}
      /\ \A d \in Call : admitting[d].op = "admit" /\ admitting[d].on = a => d = c
  BY <1>1 DEF AdmissionInv, ReviewSound
<1>3. applications[a] \in Office!Row
  BY <1>1, <1>2 DEF AdmissionInv, AdmissionTables, Office!TypeOK, Office!Filed
<1>4. /\ r \in Office!Row /\ r.status = s /\ r.user = applications[a].user
      /\ r.program = applications[a].program /\ r.blobs = applications[a].blobs
      /\ r.user \in Applicant /\ r.program \in Program
  BY <1>1, <1>3 DEF Office!Row
<1>5. r # None /\ None \notin Program
  BY <1>4 DEF Office!AdmissionAssumption
<1>6. /\ applications' = [applications EXCEPT ![a] = r]
      /\ students' = IF s = "approved"
                     THEN [students EXCEPT ![applications[a].user] = applications[a].program]
                     ELSE students
      /\ admitting' = [d \in Call |-> IF d = c THEN Office!Idle
                                     ELSE IF Office!SentBack(d, c)
                                          THEN [admitting[d] EXCEPT !.sentBack = TRUE]
                                          ELSE admitting[d]]
      /\ taking' = taking
  BY <1>1, <1>2 DEF Office!Commit
<1> HIDE DEF r
<1>7. /\ applications' \in [Leave -> Office!Row \cup {None}]
      /\ applications'[a] = r
      /\ \A b \in Leave \ {a} : applications'[b] = applications[b]
  BY <1>1, <1>4, <1>6 DEF AdmissionInv, AdmissionTables, Office!TypeOK
<1>8. /\ students' \in [Applicant -> Program \cup {None}]
      /\ \A u \in Applicant : students[u] # None => students'[u] = students[u]
      /\ s = "approved" => /\ students[r.user] = None /\ students'[r.user] = r.program
  <2>1. students \in [Applicant -> Program \cup {None}]
    BY DEF AdmissionInv, AdmissionTables, Office!TypeOK
  <2>2. s = "approved" => students[r.user] = None
    BY <1>4 DEF Office!Admits
  <2> QED BY <1>4, <1>6, <2>1, <2>2
<1>9. ASSUME NEW d \in Call \ {c}
      PROVE  /\ admitting'[d] \in Office!Calls
             /\ admitting'[d].op = admitting[d].op
             /\ admitting[d].op # "resubmit" => admitting'[d] = admitting[d]
             /\ admitting[d].op = "resubmit" =>
                   /\ admitting'[d].on = admitting[d].on
                   /\ admitting'[d].blobs = admitting[d].blobs
                   /\ admitting'[d].brought = admitting[d].brought
                   /\ ~ admitting'[d].sentBack =>
                         ~ Office!SentBack(d, c) /\ admitting'[d] = admitting[d]
  <2>1. CASE ~ Office!SentBack(d, c)
    <3>1. admitting'[d] = admitting[d] /\ admitting[d] \in Office!Calls
      BY <1>6, <2>1 DEF AdmissionInv, AdmissionTables, Office!TypeOK
    <3> QED BY <2>1, <3>1
  <2>2. CASE Office!SentBack(d, c)
    <3> DEFINE n == [admitting[d] EXCEPT !.sentBack = TRUE]
    <3>1. admitting'[d] = n /\ admitting[d].op = "resubmit"
      BY <1>6, <2>2 DEF Office!SentBack
    <3>2. admitting[d] \in [op : {"resubmit"}, on : Leave, blobs : [Blob -> Text],
                            brought : SUBSET Blob, sentBack : BOOLEAN]
      BY <3>1, AdmissionCalls DEF AdmissionInv
    <3>3. /\ n \in [op : {"resubmit"}, on : Leave, blobs : [Blob -> Text],
                    brought : SUBSET Blob, sentBack : BOOLEAN]
          /\ n.op = "resubmit" /\ n.on = admitting[d].on /\ n.sentBack
          /\ n.blobs = admitting[d].blobs /\ n.brought = admitting[d].brought
      BY <3>2, MarkedSentBack
    <3> HIDE DEF n
    <3>4. n \in Office!Calls
      BY <3>3 DEF Office!Calls
    <3> QED BY <3>1, <3>3, <3>4
  <2> QED BY <2>1, <2>2
<1>10. admitting'[c] = Office!Idle /\ Office!Idle \in Office!Calls /\ Office!Idle.op = "idle"
  BY <1>6 DEF Office!Calls, Office!Idle
<1>11. admitting' \in [Call -> Office!Calls]
  <2>1. \A d \in Call : admitting'[d] \in Office!Calls
    BY <1>9, <1>10
  <2>2. admitting' = [d \in Call |-> admitting'[d]]
    BY <1>6
  <2> QED BY <2>1, <2>2
<1>12. AdmissionTables'
  BY <1>6, <1>7, <1>8, <1>11 DEF AdmissionInv, AdmissionTables, Office!TypeOK
<1>13. Office!Admitted'
  <2> SUFFICES ASSUME NEW b \in Leave, applications'[b] # None,
                      applications'[b].status = "approved"
               PROVE  students'[applications'[b].user] = applications'[b].program
    BY DEF Office!Admitted, Office!Filed
  <2>1. CASE b = a
    BY <1>4, <1>7, <1>8, <2>1
  <2>2. CASE b # a
    <3>1. applications'[b] = applications[b] /\ applications[b] \in Office!Row
      BY <1>7, <2>2
    <3>2. applications[b].user \in Applicant /\ applications[b].program \in Program
      BY <3>1 DEF Office!Row
    <3>3. students[applications[b].user] = applications[b].program
      BY <3>1 DEF AdmissionInv, Office!Admitted, Office!Filed
    <3> QED BY <1>5, <1>8, <3>1, <3>2, <3>3
  <2> QED BY <2>1, <2>2
<1>14. \A b \in Leave :
          /\ applications'[b] # None => applications[b] # None
          /\ applications[b] # None => applications'[b] # None
          /\ applications'[b] # None /\ Office!Open(applications'[b]) => Office!Open(applications[b])
          /\ applications'[b] # None => /\ applications'[b].user = applications[b].user
                                        /\ applications'[b].program = applications[b].program
  <2> TAKE b \in Leave
  <2>1. CASE b = a
    BY <1>2, <1>4, <1>5, <1>7, <2>1 DEF Office!Filed, Office!Open
  <2>2. CASE b # a
    BY <1>7, <2>2
  <2> QED BY <2>1, <2>2
<1>15. Office!OneOpenEach'
  <2> SUFFICES ASSUME NEW x \in Leave, NEW y \in Leave, x # y,
                      applications'[x] # None, applications'[y] # None,
                      Office!Open(applications'[x]), Office!Open(applications'[y])
               PROVE  \/ applications'[x].user # applications'[y].user
                      \/ applications'[x].program # applications'[y].program
    BY DEF Office!OneOpenEach, Office!Open, Office!Filed
  <2>1. /\ Office!Filed(x) /\ Office!Filed(y)
        /\ Office!Open(applications[x]) /\ Office!Open(applications[y])
    BY <1>14 DEF Office!Filed
  <2> QED BY <1>14, <2>1 DEF AdmissionInv, Office!OneOpenEach
<1>16. ASSUME NEW d \in Call PROVE ReviewSound(d)'
  <2>1. CASE d = c
    BY <1>10, <2>1 DEF ReviewSound
  <2>2. CASE d # c /\ admitting[d].op = "admit"
    <3>1. ReviewSound(d) /\ admitting'[d] = admitting[d] /\ admitting[d].on # a
      BY <1>2, <1>9, <2>2 DEF AdmissionInv
    <3>2. admitting[d].on \in Leave
      BY <2>2, AdmissionCalls DEF AdmissionInv
    <3>3. \A e \in Call : admitting'[e].op = "admit" => admitting'[e] = admitting[e]
      BY <1>9, <1>10
    <3>4. applications'[admitting[d].on] = applications[admitting[d].on]
      BY <1>7, <3>1, <3>2
    <3> QED BY <3>1, <3>3, <3>4 DEF ReviewSound, Office!Filed
  <2>3. CASE d # c /\ admitting[d].op # "admit"
    BY <1>9, <2>3 DEF ReviewSound
  <2> QED BY <2>1, <2>2, <2>3
<1>17. ASSUME NEW d \in Call PROVE ResubmissionSound(d)'
  <2>1. CASE d = c
    BY <1>10, <2>1 DEF ResubmissionSound
  <2>2. CASE d # c /\ admitting[d].op = "resubmit"
    <3>1. ResubmissionSound(d) /\ admitting[d].on \in Leave
      BY <2>2, AdmissionCalls DEF AdmissionInv
    <3>2. /\ admitting'[d].op = "resubmit" /\ admitting'[d].on = admitting[d].on
          /\ admitting'[d].blobs = admitting[d].blobs
          /\ admitting'[d].brought = admitting[d].brought
          /\ ~ admitting'[d].sentBack =>
                ~ Office!SentBack(d, c) /\ admitting'[d] = admitting[d]
      BY <1>9, <2>2
    <3>3. applications'[admitting[d].on] # None
      BY <1>14, <2>2, <3>1 DEF ResubmissionSound, Office!Filed
    <3>4. ~ admitting'[d].sentBack /\ applications'[admitting[d].on].status = "needs_revision" =>
             /\ ~ admitting[d].sentBack
             /\ applications'[admitting[d].on] = applications[admitting[d].on]
      <4>1. CASE admitting[d].on = a
        BY <1>4, <1>7, <2>2, <3>2, <4>1 DEF Office!SentBack
      <4>2. CASE admitting[d].on # a
        BY <1>7, <3>1, <3>2, <4>2
      <4> QED BY <4>1, <4>2
    <3> QED BY <2>2, <3>1, <3>2, <3>3, <3>4 DEF ResubmissionSound, Office!Filed
  <2>3. CASE d # c /\ admitting[d].op # "resubmit"
    <3>1. ResubmissionSound(d) /\ admitting'[d] = admitting[d]
      BY <1>9, <2>3 DEF AdmissionInv
    <3>2. admitting[d].op \in {"withdraw", "review"} => admitting[d].on \in Leave
      BY AdmissionCalls DEF AdmissionInv
    <3> QED BY <1>14, <2>3, <3>1, <3>2 DEF ResubmissionSound, Office!Filed
  <2> QED BY <2>1, <2>2, <2>3
<1> QED BY <1>12, <1>13, <1>15, <1>16, <1>17 DEF AdmissionInv

LEMMA AdmissionInitially ==
  ASSUME Office!Init, None \notin Program
  PROVE  AdmissionInv
<1>1. /\ applications = [a \in Leave |-> None] /\ students = [u \in Applicant |-> None]
      /\ taking \in SUBSET Program /\ admitting = [c \in Call |-> Office!Idle]
  BY DEF Office!Init
<1>2. Office!Idle \in Office!Calls /\ Office!Idle.op = "idle"
  BY DEF Office!Calls, Office!Idle
<1> QED
  BY <1>1, <1>2 DEF AdmissionInv, AdmissionTables, Office!TypeOK, Office!Admitted,
                    Office!OneOpenEach, Office!Filed, ReviewSound, ResubmissionSound

(* The reads that begin a call. *)
LEMMA AdmissionBegins ==
  ASSUME AdmissionInv, NEW c \in Call,
         \/ Office!BeginCreate(c) \/ Office!BeginUpdate(c)
         \/ Office!BeginWithdraw(c) \/ Office!BeginReview(c)
  PROVE  AdmissionInv'
<1>0. taking \subseteq Program
  BY DEF AdmissionInv, AdmissionTables, Office!TypeOK
<1>1. CASE Office!BeginCreate(c)
  <2>1. PICK u \in Applicant, p \in taking, blobs \in [Blob -> Text] :
           Office!Starts(c, [op |-> "create", row |-> [user |-> u, program |-> p,
                                              status |-> "pending", blobs |-> blobs]])
    BY <1>1 DEF Office!BeginCreate
  <2> DEFINE row == [user |-> u, program |-> p, status |-> "pending", blobs |-> blobs]
             n == [op |-> "create", row |-> row]
  <2>2. row \in Office!Row /\ row.status = "pending"
    BY <1>0, <2>1 DEF Office!Row, Office!Status
  <2> HIDE DEF row
  <2>3. n \in Office!Calls /\ n.op = "create" /\ n.row = row
    BY <2>2 DEF Office!Calls
  <2>4. admitting' = [admitting EXCEPT ![c] = n]
    BY <2>1 DEF Office!Starts, row
  <2>5. UNCHANGED <<applications, students, taking>>
    BY <1>1 DEF Office!BeginCreate
  <2> HIDE DEF n
  <2> QED BY <1>0, <2>2, <2>3, <2>4, <2>5, QuietAdmission
<1>2. CASE Office!BeginUpdate(c)
  <2>1. PICK a \in Leave, brought \in SUBSET Blob, text \in Text :
           /\ Office!Filed(a)
           /\ Office!Starts(c, [op |-> "resubmit", on |-> a, brought |-> brought,
                                sentBack |-> FALSE,
                                blobs |-> [b \in Blob |-> IF b \in brought THEN text
                                                          ELSE applications[a].blobs[b]]])
    BY <1>2 DEF Office!BeginUpdate
  <2> DEFINE blobs == [b \in Blob |-> IF b \in brought THEN text
                                      ELSE applications[a].blobs[b]]
             n == [op |-> "resubmit", on |-> a, brought |-> brought,
                   sentBack |-> FALSE, blobs |-> blobs]
  <2>2. applications[a].blobs \in [Blob -> Text]
    BY <2>1 DEF AdmissionInv, AdmissionTables, Office!TypeOK, Office!Filed, Office!Row
  <2>3. /\ blobs \in [Blob -> Text]
        /\ \A b \in Blob \ brought : blobs[b] = applications[a].blobs[b]
    BY <2>1, <2>2
  <2>4. admitting' = [admitting EXCEPT ![c] = n]
    BY <2>1 DEF Office!Starts
  <2> HIDE DEF blobs
  <2>5. /\ n.op = "resubmit" /\ n.on = a /\ n.brought = brought /\ n.blobs = blobs
        /\ n \in [op : {"resubmit"}, on : Leave, blobs : [Blob -> Text],
                  brought : SUBSET Blob, sentBack : BOOLEAN]
    BY <2>1, <2>3
  <2> HIDE DEF n
  <2>6. n \in Office!Calls
    BY <2>5 DEF Office!Calls
  <2>7. UNCHANGED <<applications, students, taking>>
    BY <1>2 DEF Office!BeginUpdate
  <2> QED BY <1>0, <2>1, <2>3, <2>4, <2>5, <2>6, <2>7, QuietAdmission
<1>3. CASE Office!BeginWithdraw(c)
  <2>1. PICK a \in Leave : Office!Filed(a) /\ Office!Starts(c, [op |-> "withdraw", on |-> a])
    BY <1>3 DEF Office!BeginWithdraw
  <2> DEFINE n == [op |-> "withdraw", on |-> a]
  <2>2. /\ n \in Office!Calls /\ n.op = "withdraw" /\ n.on = a
        /\ admitting' = [admitting EXCEPT ![c] = n]
    BY <2>1 DEF Office!Calls, Office!Starts
  <2>3. UNCHANGED <<applications, students, taking>>
    BY <1>3 DEF Office!BeginWithdraw
  <2> HIDE DEF n
  <2> QED BY <1>0, <2>1, <2>2, <2>3, QuietAdmission
<1>4. CASE Office!BeginReview(c)
  <2>1. PICK a \in Leave, by \in Staff, s \in Office!Status :
           /\ Office!ValidReviewStatus(s) /\ Office!Filed(a)
           /\ Office!Starts(c, [op |-> "review", on |-> a, status |-> s])
    BY <1>4 DEF Office!BeginReview
  <2> DEFINE n == [op |-> "review", on |-> a, status |-> s]
  <2>2. /\ n \in Office!Calls /\ n.op = "review" /\ n.on = a /\ n.status = s
        /\ admitting' = [admitting EXCEPT ![c] = n]
    BY <2>1 DEF Office!Calls, Office!Starts
  <2>3. UNCHANGED <<applications, students, taking>>
    BY <1>4 DEF Office!BeginReview
  <2> HIDE DEF n
  <2> QED BY <1>0, <2>1, <2>2, <2>3, QuietAdmission DEF Office!ValidReviewStatus
<1> QED BY <1>1, <1>2, <1>3, <1>4

(* A call that ends and has written nothing. *)
LEMMA AdmissionEnds ==
  ASSUME AdmissionInv, NEW c \in Call, Office!Ends(c), UNCHANGED <<applications, students, taking>>
  PROVE  AdmissionInv'
<1>1. /\ Office!Idle \in Office!Calls /\ Office!Idle.op = "idle"
      /\ admitting' = [admitting EXCEPT ![c] = Office!Idle] /\ taking' \subseteq Program
  BY DEF Office!Calls, Office!Idle, Office!Ends, AdmissionInv, AdmissionTables, Office!TypeOK
<1> QED BY <1>1, QuietAdmission

LEMMA CreateSound ==
  ASSUME Office!AdmissionAssumption, AdmissionInv, NEW c \in Call, Office!Create(c)
  PROVE  AdmissionInv'
<1>1. /\ admitting[c].row \in Office!Row /\ admitting[c].row.status = "pending"
      /\ Office!Ends(c) /\ UNCHANGED <<students, taking>>
  BY AdmissionCalls DEF AdmissionInv, ResubmissionSound, Office!Create
<1>2. CASE UNCHANGED applications
  BY <1>1, <1>2, AdmissionEnds
<1>3. CASE ~ UNCHANGED applications
  <2>1. PICK a \in Leave : /\ ~ Office!Filed(a) /\ ~ Office!Duplicate(admitting[c].row)
                           /\ applications' = [applications EXCEPT ![a] = admitting[c].row]
    BY <1>3 DEF Office!Create
  <2> QED BY <1>1, <2>1, RowInserted DEF Office!Ends
<1> QED BY <1>2, <1>3

LEMMA ResubmitSound ==
  ASSUME Office!AdmissionAssumption, AdmissionInv, NEW c \in Call, Office!ResubmitApplication(c)
  PROVE  AdmissionInv'
<1> DEFINE a == admitting[c].on
           r == [applications[a] EXCEPT !.status = "pending", !.blobs = admitting[c].blobs]
<1>1. /\ admitting[c].op = "resubmit" /\ ~ Office!Locked(a)
      /\ Office!Ends(c) /\ UNCHANGED <<students, taking>>
  BY DEF Office!ResubmitApplication
<1>2. /\ a \in Leave /\ Office!Filed(a) /\ applications[a] \in Office!Row
      /\ admitting[c].blobs \in [Blob -> Text]
  <2>1. admitting[c] \in [op : {"resubmit"}, on : Leave, blobs : [Blob -> Text],
                          brought : SUBSET Blob, sentBack : BOOLEAN]
    BY <1>1, AdmissionCalls DEF AdmissionInv
  <2>2. a \in Leave /\ admitting[c].blobs \in [Blob -> Text]
    BY <2>1, ResubmittedFields
  <2> QED BY <1>1, <2>2 DEF AdmissionInv, ResubmissionSound, AdmissionTables, Office!TypeOK, Office!Filed
<1>3. CASE UNCHANGED applications
  BY <1>1, <1>3, AdmissionEnds
<1>4. CASE ~ UNCHANGED applications
  <2>1. applications[a].status = "needs_revision"
        /\ applications' = [applications EXCEPT ![a].status = "pending",
                                                ![a].blobs = admitting[c].blobs]
    BY <1>4 DEF Office!ResubmitApplication, Office!CanUpdateApplication
  <2>2. applications' = [applications EXCEPT ![a] = r]
    BY <1>2, <2>1 DEF AdmissionInv, AdmissionTables, Office!TypeOK
  <2>3. /\ r \in Office!Row /\ r.user = applications[a].user
        /\ r.program = applications[a].program /\ r.status = "pending"
    BY <1>2 DEF Office!Row, Office!Status
  <2> HIDE DEF r
  <2> QED BY <1>1, <1>2, <2>1, <2>2, <2>3, RowWritten DEF Office!Ends, Office!Open
<1> QED BY <1>3, <1>4

LEMMA WithdrawSound ==
  ASSUME Office!AdmissionAssumption, AdmissionInv, NEW c \in Call, Office!WithdrawApplication(c)
  PROVE  AdmissionInv'
<1> DEFINE a == admitting[c].on
           r == [applications[a] EXCEPT !.status = "withdrawn"]
<1>1. /\ admitting[c].op = "withdraw" /\ ~ Office!Locked(a)
      /\ Office!Ends(c) /\ UNCHANGED <<students, taking>>
  BY DEF Office!WithdrawApplication
<1>2. a \in Leave /\ Office!Filed(a) /\ applications[a] \in Office!Row
  <2>1. a \in Leave
    BY <1>1, AdmissionCalls DEF AdmissionInv
  <2> QED BY <1>1, <2>1 DEF AdmissionInv, ResubmissionSound, AdmissionTables, Office!TypeOK, Office!Filed
<1>3. CASE UNCHANGED applications
  BY <1>1, <1>3, AdmissionEnds
<1>4. CASE ~ UNCHANGED applications
  <2>1. /\ Office!Open(applications[a])
        /\ applications' = [applications EXCEPT ![a].status = "withdrawn"]
    BY <1>4 DEF Office!WithdrawApplication, Office!CanWithdrawApplication, Office!Open
  <2>2. applications' = [applications EXCEPT ![a] = r]
    BY <1>2, <2>1 DEF AdmissionInv, AdmissionTables, Office!TypeOK
  <2>3. /\ r \in Office!Row /\ r.user = applications[a].user
        /\ r.program = applications[a].program /\ r.status = "withdrawn"
    BY <1>2 DEF Office!Row, Office!Status
  <2> HIDE DEF r
  <2> QED BY <1>1, <1>2, <2>1, <2>2, <2>3, RowWritten DEF Office!Ends
<1> QED BY <1>3, <1>4

LEMMA DecideSound ==
  ASSUME AdmissionInv, NEW c \in Call, Office!Decide(c)
  PROVE  AdmissionInv'
<1> DEFINE n == [admitting[c] EXCEPT !.op = "admit"]
<1>1. /\ admitting[c].op = "review" /\ ~ Office!Locked(admitting[c].on)
      /\ UNCHANGED <<applications, students, taking>>
  BY DEF Office!Decide
<1>2. /\ admitting[c] \in [op : {"review", "admit"}, on : Leave, status : Office!Status]
      /\ Office!Filed(admitting[c].on)
      /\ admitting[c].status \in {"approved", "rejected", "needs_revision"}
  BY <1>1, AdmissionCalls DEF AdmissionInv, ResubmissionSound
<1>3. CASE Office!Ends(c)
  BY <1>1, <1>3, AdmissionEnds
<1>4. CASE ~ Office!Ends(c)
  <2>1. /\ applications[admitting[c].on].status = "pending"
        /\ admitting' = [admitting EXCEPT ![c].op = "admit"]
    BY <1>4 DEF Office!Decide, Office!CanReviewApplication
  <2>2. admitting' = [admitting EXCEPT ![c] = n]
    BY <2>1 DEF AdmissionInv, AdmissionTables, Office!TypeOK
  <2>3. /\ n \in [op : {"review", "admit"}, on : Leave, status : Office!Status]
        /\ n.op = "admit" /\ n.on = admitting[c].on /\ n.status = admitting[c].status
    BY <1>2
  <2> HIDE DEF n
  <2>4. n \in Office!Calls
    BY <2>3 DEF Office!Calls
  <2>5. \A d \in Call \ {c} : admitting[d].op = "admit" => admitting[d].on # n.on
    BY <1>1, <2>3 DEF Office!Locked
  <2>6. taking' \subseteq Program
    BY <1>1 DEF AdmissionInv, AdmissionTables, Office!TypeOK
  <2>7. /\ Office!Filed(n.on) /\ applications[n.on].status = "pending" /\ n.op = "admit"
        /\ n.status \in {"approved", "rejected", "needs_revision"}
    BY <1>2, <2>1, <2>3
  <2>8. UNCHANGED <<applications, students, taking>>
    BY <1>1
  <2> QED BY <2>2, <2>4, <2>5, <2>6, <2>7, <2>8, QuietAdmission
<1> QED BY <1>3, <1>4

LEMMA CommitSound ==
  ASSUME Office!AdmissionAssumption, AdmissionInv, NEW c \in Call, Office!Commit(c)
  PROVE  AdmissionInv'
<1>1. CASE Office!Admits(c)
  BY <1>1, Committed
<1>2. CASE ~ Office!Admits(c)
  <2>1. Office!Ends(c) /\ UNCHANGED <<applications, students, taking>>
    BY <1>2 DEF Office!Commit
  <2> QED BY <2>1, AdmissionEnds
<1> QED BY <1>1, <1>2

LEMMA AdmissionStep ==
  ASSUME Office!AdmissionAssumption, AdmissionInv, [Office!Next]_(Office!vars)
  PROVE  AdmissionInv'
<1>1. ASSUME NEW c \in Call,
             \/ Office!BeginCreate(c) \/ Office!BeginUpdate(c)
             \/ Office!BeginWithdraw(c) \/ Office!BeginReview(c)
      PROVE  AdmissionInv'
  BY <1>1, AdmissionBegins
<1>2. ASSUME NEW c \in Call, Office!Create(c) PROVE AdmissionInv'
  BY <1>2, CreateSound
<1>3. ASSUME NEW c \in Call, Office!ResubmitApplication(c) PROVE AdmissionInv'
  BY <1>3, ResubmitSound
<1>4. ASSUME NEW c \in Call, Office!WithdrawApplication(c) PROVE AdmissionInv'
  BY <1>4, WithdrawSound
<1>5. ASSUME NEW c \in Call, Office!Decide(c) PROVE AdmissionInv'
  BY <1>5, DecideSound
<1>6. ASSUME NEW c \in Call, Office!Commit(c) PROVE AdmissionInv'
  BY <1>6, CommitSound
<1>7. ASSUME NEW c \in Call, Office!Fail(c) PROVE AdmissionInv'
  BY <1>7, AdmissionEnds DEF Office!Fail
<1>8. None \notin Program /\ taking \subseteq Program /\ students \in [Applicant -> Program \cup {None}]
  BY DEF Office!AdmissionAssumption, AdmissionInv, AdmissionTables, Office!TypeOK
<1>9. CASE Office!CreateStudent
  <2>1. PICK u \in Applicant, p \in Program :
           students[u] = None /\ students' = [students EXCEPT ![u] = p]
    BY <1>9 DEF Office!CreateStudent
  <2>2. UNCHANGED <<applications, admitting>> /\ taking' \subseteq Program
    BY <1>8, <1>9 DEF Office!CreateStudent
  <2>3. /\ students' \in [Applicant -> Program \cup {None}]
        /\ \A v \in Applicant : students[v] # None => students'[v] = students[v]
    BY <1>8, <2>1
  <2> QED BY <1>8, <2>2, <2>3, BesideCalls
<1>10. CASE Office!UpdateProgram
  BY <1>8, <1>10, BesideCalls DEF Office!UpdateProgram
<1>11. CASE UNCHANGED Office!vars
  BY <1>8, <1>11, BesideCalls DEF Office!vars
<1> QED
  BY <1>1, <1>2, <1>3, <1>4, <1>5, <1>6, <1>7, <1>9, <1>10, <1>11 DEF Office!Next

(* A closed application is never written again: who writes asks for an open *)
(* one, a review commits on the pending row it holds.                       *)
LEMMA ClosedStays ==
  ASSUME AdmissionInv, [Office!Next]_(Office!vars), NEW a \in Leave,
         Office!Filed(a), ~ Office!Open(applications[a])
  PROVE  applications'[a] = applications[a]
<1>0. applications \in [Leave -> Office!Row \cup {None}]
  BY DEF AdmissionInv, AdmissionTables, Office!TypeOK
<1>1. ASSUME NEW c \in Call, Office!Create(c) PROVE applications'[a] = applications[a]
  BY <1>0, <1>1 DEF Office!Create, Office!Filed
<1>2. ASSUME NEW c \in Call, Office!ResubmitApplication(c) PROVE applications'[a] = applications[a]
  <2>1. CASE admitting[c].on = a
    BY <1>2, <2>1 DEF Office!ResubmitApplication, Office!CanUpdateApplication, Office!Open
  <2>2. CASE admitting[c].on # a
    BY <1>0, <1>2, <2>2 DEF Office!ResubmitApplication
  <2> QED BY <2>1, <2>2
<1>3. ASSUME NEW c \in Call, Office!WithdrawApplication(c) PROVE applications'[a] = applications[a]
  <2>1. CASE admitting[c].on = a
    BY <1>3, <2>1 DEF Office!WithdrawApplication, Office!CanWithdrawApplication, Office!Open
  <2>2. CASE admitting[c].on # a
    BY <1>0, <1>3, <2>2 DEF Office!WithdrawApplication
  <2> QED BY <2>1, <2>2
<1>4. ASSUME NEW c \in Call, Office!Commit(c) PROVE applications'[a] = applications[a]
  <2>1. admitting[c].on # a
    BY <1>4 DEF AdmissionInv, ReviewSound, Office!Commit, Office!Open
  <2> QED BY <1>0, <1>4, <2>1 DEF Office!Commit
<1>5. ASSUME NEW c \in Call,
             \/ Office!BeginCreate(c) \/ Office!BeginUpdate(c) \/ Office!BeginWithdraw(c)
             \/ Office!BeginReview(c) \/ Office!Decide(c) \/ Office!Fail(c)
      PROVE  applications'[a] = applications[a]
  BY <1>5 DEF Office!BeginCreate, Office!BeginUpdate, Office!BeginWithdraw,
              Office!BeginReview, Office!Decide, Office!Fail
<1>6. CASE Office!CreateStudent \/ Office!UpdateProgram \/ UNCHANGED Office!vars
  BY <1>6 DEF Office!CreateStudent, Office!UpdateProgram, Office!vars
<1> QED BY <1>1, <1>2, <1>3, <1>4, <1>5, <1>6 DEF Office!Next

(* A resubmission the sending back did not overtake ends with what it read. *)
LEMMA ResubmissionKeeps ==
  ASSUME AdmissionInv, Office!Next, NEW c \in Call,
         admitting[c].op = "resubmit", ~ admitting[c].sentBack, admitting'[c] = Office!Idle
  PROVE  Office!Keeps(c)
<1> DEFINE a == admitting[c].on
<1>0. /\ applications \in [Leave -> Office!Row \cup {None}] /\ a \in Leave
      /\ admitting \in [Call -> Office!Calls]
      /\ admitting[c] \in [op : {"resubmit"}, on : Leave, blobs : [Blob -> Text],
                          brought : SUBSET Blob, sentBack : BOOLEAN]
      /\ admitting[c] # Office!Idle
  BY AdmissionCalls DEF AdmissionInv, AdmissionTables, Office!TypeOK
<1>1. CASE UNCHANGED applications
  BY <1>1 DEF Office!Keeps
<1>2. CASE Office!ResubmitApplication(c) /\ ~ UNCHANGED applications
  <2>1. applications[a].status = "needs_revision"
        /\ applications' = [applications EXCEPT ![a].status = "pending",
                                                ![a].blobs = admitting[c].blobs]
    BY <1>2 DEF Office!ResubmitApplication, Office!CanUpdateApplication
  <2>2. Office!Filed(a)
    BY DEF AdmissionInv, ResubmissionSound
  <2>3. applications[a] \in Office!Row
    BY <1>0, <2>2 DEF Office!Filed
  <2>4. applications'[a].blobs = admitting[c].blobs
    BY <1>0, <2>1, <2>3 DEF Office!Row
  <2>5. \A b \in Blob \ admitting[c].brought : admitting[c].blobs[b] = applications[a].blobs[b]
    BY <2>1 DEF AdmissionInv, ResubmissionSound
  <2> QED BY <2>4, <2>5 DEF Office!Keeps
<1>3. CASE ~ UNCHANGED applications /\ ~ Office!ResubmitApplication(c)
  <2>1. ASSUME NEW d \in Call,
               \/ Office!Create(d) \/ Office!ResubmitApplication(d)
               \/ Office!WithdrawApplication(d)
        PROVE  FALSE
    <3>1. d # c
      BY <1>3, <2>1 DEF Office!Create, Office!WithdrawApplication
    <3>2. admitting' = [admitting EXCEPT ![d] = Office!Idle]
      BY <2>1 DEF Office!Create, Office!ResubmitApplication, Office!WithdrawApplication, Office!Ends
    <3> QED BY <1>0, <3>1, <3>2
  <2>2. ASSUME NEW d \in Call, Office!Commit(d) PROVE FALSE
    <3>1. /\ d # c /\ Office!Admits(d)
          /\ admitting' = [e \in Call |-> IF e = d THEN Office!Idle
                                         ELSE IF Office!SentBack(e, d)
                                              THEN [admitting[e] EXCEPT !.sentBack = TRUE]
                                              ELSE admitting[e]]
      BY <1>3, <2>2 DEF Office!Commit
    <3>2. admitting'[c] = admitting[c] \/ admitting'[c] = [admitting[c] EXCEPT !.sentBack = TRUE]
      BY <3>1
    <3>3. [admitting[c] EXCEPT !.sentBack = TRUE].op = "resubmit"
      BY <1>0, MarkedSentBack
    <3>4. Office!Idle.op = "idle"
      BY DEF Office!Idle
    <3> QED BY <1>0, <3>2, <3>3, <3>4
  <2>3. ASSUME NEW d \in Call,
               \/ Office!BeginCreate(d) \/ Office!BeginUpdate(d) \/ Office!BeginWithdraw(d)
               \/ Office!BeginReview(d) \/ Office!Decide(d) \/ Office!Fail(d)
        PROVE  FALSE
    BY <1>3, <2>3 DEF Office!BeginCreate, Office!BeginUpdate, Office!BeginWithdraw,
                      Office!BeginReview, Office!Decide, Office!Fail
  <2>4. ~ (Office!CreateStudent \/ Office!UpdateProgram)
    BY <1>3 DEF Office!CreateStudent, Office!UpdateProgram
  <2> QED BY <2>1, <2>2, <2>3, <2>4 DEF Office!Next
<1> QED BY <1>1, <1>2, <1>3

(* Whatever interleaving of applicants, reviewers and the registry: what is   *)
(* decided or withdrawn stays so, an approved applicant is a student of his   *)
(* program, nobody has two open applications to one, and a resubmission loses *)
(* nothing another one wrote unless the application was sent back once more   *)
(* meanwhile (application.go, postgres/application.go).                       *)
THEOREM AdmissionAlwaysSound == Office!Spec => AdmissionIsSound
<1>1. Office!AdmissionAssumption
  BY OfficeAssumption
<1>2. None \notin Program
  BY <1>1 DEF Office!AdmissionAssumption
<1>3. Office!Init => AdmissionInv
  BY <1>2, AdmissionInitially
<1>4. AdmissionInv /\ [Office!Next]_(Office!vars) => AdmissionInv'
  BY <1>1, AdmissionStep
<1>5. AdmissionInv /\ [Office!Next]_(Office!vars) =>
        [/\ Office!Admitted' /\ Office!OneOpenEach'
         /\ \A a \in Leave : Office!Filed(a) /\ ~ Office!Open(applications[a]) =>
               applications'[a] = applications[a]
         /\ \A c \in Call :
              admitting[c].op = "resubmit" /\ ~ admitting[c].sentBack /\ admitting'[c] = Office!Idle =>
                 Office!Keeps(c)]_(Office!vars)
  <2> SUFFICES ASSUME AdmissionInv, Office!Next
               PROVE  /\ Office!Admitted' /\ Office!OneOpenEach'
                      /\ \A a \in Leave : Office!Filed(a) /\ ~ Office!Open(applications[a]) =>
                            applications'[a] = applications[a]
                      /\ \A c \in Call :
                           /\ admitting[c].op = "resubmit" /\ ~ admitting[c].sentBack
                           /\ admitting'[c] = Office!Idle
                           => Office!Keeps(c)
    OBVIOUS
  <2>1. Office!Admitted' /\ Office!OneOpenEach'
    BY <1>4 DEF AdmissionInv
  <2>2. \A a \in Leave : Office!Filed(a) /\ ~ Office!Open(applications[a]) =>
           applications'[a] = applications[a]
    BY ClosedStays
  <2>3. ASSUME NEW c \in Call, admitting[c].op = "resubmit", ~ admitting[c].sentBack,
               admitting'[c] = Office!Idle
        PROVE  Office!Keeps(c)
    BY <2>3, ResubmissionKeeps
  <2> QED BY <2>1, <2>2, <2>3
<1> QED
  BY <1>3, <1>4, <1>5, PTL DEF Office!Spec, AdmissionIsSound, Office!AdmissionIsSound

-----------------------------------------------------------------------------
(* Enrollment.  A request waits when it is approved, its approval has returned, *)
(* nobody had a reason to skip it and its enrollment is not there.              *)

Waits(r) ==
  /\ request[r] = "approved" /\ r \notin unserved
  /\ ~ Entry!Approving(r) /\ ~ Entry!HasRow(r)

Waiting == {r \in Requests : Waits(r)}
Begun == {s \in Terms : status[s] # "upcoming"}

(* The course of the request is still before the pass, or the one it is at. *)
Reaches(c, r) ==
  LET offered == \E o \in c.found : CourseTaught[o] = r.course
      at == c.step \in {"asking", "inserting"} /\ CourseTaught[c.offering] = r.course
  IN  \/ c.step \in {"students", "offerings"}
      \/ c.step = "passed" /\ offered
      \/ /\ c.next = "curriculum" /\ offered /\ r.course \notin c.passed
         /\ r.course \in Curriculum[c.pass] => r.course \in c.todo \/ at
      \/ c.next = "retakes" /\ (r.course \in c.todo \/ at)

Approval(c) ==
  c.request # None =>
    /\ c.step \in {"filing", "activating", "finding", "checking", "inserting"}
    /\ c.next = "idle" /\ ~ c.whole
    /\ c.step \in {"checking", "inserting"} =>
          /\ c.offering \in Offerings
          /\ CourseTaught[c.offering] = c.request.course
          /\ Term[c.offering] = c.request.semester

PassSteps == {"students", "offerings", "passed", "curriculum", "asking", "retakes"}

Pass(c) ==
  /\ c.step \in PassSteps \/ c.next # "idle" => c.pass \in Terms
  /\ c.whole =>
       /\ \/ c.step \in {"students", "offerings", "passed"} /\ c.next = "idle"
          \/ c.step \in {"curriculum", "asking", "inserting"} /\ c.next = "curriculum"
          \/ c.step \in {"retakes", "inserting"} /\ c.next = "retakes"
       /\ \A o \in c.found : Term[o] = c.pass
       /\ c.step \in {"asking", "inserting"} => c.offering \in c.found
       /\ c.step = "asking" => Prerequisite[CourseTaught[c.offering]] # None

(* A pass that began while its semester was active, and has met no error, is on *)
(* its way to whatever waits; nothing begins to wait once a semester is active.  *)
Sweeps(c, begun, waiting) ==
  c.whole =>
    /\ c.pass \in begun
    /\ \A r \in waiting : r.semester = c.pass /\ ~ Entry!NoBranch(r) => Reaches(c, r)

EntryTables ==
  /\ attempts \in [Offerings -> Entry!EnrollmentStatus]
  /\ status \in [Terms -> Entry!SemesterStatus]
  /\ request \in [Requests -> {"none", "pending", "approved", "rejected"}]
  /\ enrolling \in [Call -> Entry!CallRow]

EntryInv ==
  /\ EntryTables
  /\ \A p \in Call : /\ Approval(enrolling[p]) /\ Pass(enrolling[p])
                     /\ Sweeps(enrolling[p], Begun, Waiting)
  /\ swept \subseteq Begun
  /\ \A r \in Waiting : r.semester \in swept => Entry!NoBranch(r)

LEMMA EntryRow ==
  ASSUME NEW c \in Entry!CallRow
  PROVE  /\ c.step \in {"idle", "filing", "activating", "finding", "checking", "inserting",
                        "students", "offerings", "passed", "curriculum", "asking", "retakes"}
         /\ c.request \in Requests \cup {None} /\ c.offering \in Offerings \cup {None}
         /\ c.pass \in Terms \cup {None} /\ c.whole \in BOOLEAN
         /\ c.found \in SUBSET Offerings /\ c.passed \in SUBSET Courses
         /\ c.todo \in SUBSET Courses /\ c.next \in {"idle", "curriculum", "retakes"}
BY DEF Entry!CallRow

LEMMA IdleEntry ==
  /\ Entry!Idle \in Entry!CallRow /\ Entry!Idle.step = "idle" /\ Entry!Idle.request = None
  /\ Entry!Idle.offering = None /\ Entry!Idle.whole = FALSE /\ Entry!Idle.found = {}
  /\ Entry!Idle.next = "idle"
BY DEF Entry!Idle, Entry!CallRow

LEMMA EntryCallStep ==
  ASSUME EntryTables, NEW p \in Call, NEW n \in Entry!CallRow,
         enrolling' = [enrolling EXCEPT ![p] = n]
  PROVE  /\ enrolling' \in [Call -> Entry!CallRow] /\ enrolling'[p] = n
         /\ \A q \in Call \ {p} : enrolling'[q] = enrolling[q]
BY DEF EntryTables

(* No statement deletes an enrollment. *)
LEMMA RowsStay ==
  ASSUME EntryTables, [Entry!Next]_(Entry!vars)
  PROVE  /\ attempts' \in [Offerings -> Entry!EnrollmentStatus]
         /\ \A o \in Offerings : attempts[o] # "none" => attempts'[o] # "none"
<1>1. CASE UNCHANGED attempts
  BY <1>1 DEF EntryTables
<1>2. ASSUME NEW p \in Call, Entry!InsertEnrollment(p)
      PROVE  /\ attempts' \in [Offerings -> Entry!EnrollmentStatus]
             /\ \A o \in Offerings : attempts[o] # "none" => attempts'[o] # "none"
  <2>1. "enrolled" \in Entry!EnrollmentStatus
    BY DEF Entry!EnrollmentStatus
  <2> QED BY <1>2, <2>1 DEF EntryTables, Entry!InsertEnrollment, Entry!CreateEnrollment
<1>3. ASSUME NEW o \in Offerings, Entry!OtherWriter(o)
      PROVE  /\ attempts' \in [Offerings -> Entry!EnrollmentStatus]
             /\ \A k \in Offerings : attempts[k] # "none" => attempts'[k] # "none"
  <2>1. /\ "enrolled" \in Entry!EnrollmentStatus /\ "dropped" \in Entry!EnrollmentStatus
        /\ "withdrawn_leave" \in Entry!EnrollmentStatus /\ "completed" \in Entry!EnrollmentStatus
        /\ "failed" \in Entry!EnrollmentStatus
    BY DEF Entry!EnrollmentStatus
  <2>2. CASE Entry!DropEnrollment(o) \/ Entry!ClearFinalGrades(o)
    BY <2>1, <2>2 DEF EntryTables, Entry!DropEnrollment, Entry!ClearFinalGrades
  <2>3. CASE Entry!WithdrawEnrollmentsForLeave({Term[o]})
    BY <2>1, <2>3 DEF EntryTables, Entry!WithdrawEnrollmentsForLeave
  <2>4. ASSUME NEW outcome \in {"completed", "failed"}, Entry!SetFinalGrade(o, outcome)
        PROVE  /\ attempts' \in [Offerings -> Entry!EnrollmentStatus]
               /\ \A k \in Offerings : attempts[k] # "none" => attempts'[k] # "none"
    BY <2>1, <2>4 DEF EntryTables, Entry!SetFinalGrade
  <2> QED BY <1>3, <2>2, <2>3, <2>4 DEF Entry!OtherWriter
<1>4. ASSUME NEW p \in Call, Entry!CallStep(p), ~ Entry!InsertEnrollment(p)
      PROVE  UNCHANGED attempts
  BY <1>4 DEF Entry!CallStep, Entry!ReadStanding, Entry!ApproveRequest, Entry!EnrollStudent,
     Entry!GetSemester, Entry!CreateRequest, Entry!IsSemesterActive,
     Entry!GetOfferingIDForEnrollment, Entry!OfferingExists, Entry!GetActiveStudents,
     Entry!GetOfferingsInfoBySemester, Entry!GetPassedCourseIDs, Entry!EnrollInCurriculum,
     Entry!EnrollInRetake, Entry!HasApprovedPretake, Entry!GetRetakeRequestInfos,
     Entry!BulkEnrollReturns, Entry!StatementFails, Entry!Unchanged
<1>5. ASSUME NEW r \in Requests, Entry!RejectRequest(r) PROVE UNCHANGED attempts
  BY <1>5 DEF Entry!RejectRequest
<1>6. ASSUME NEW o \in Offerings, Entry!CreateOffering(o) \/ Entry!DeleteOffering(o)
      PROVE  UNCHANGED attempts
  BY <1>6 DEF Entry!CreateOffering, Entry!DeleteOffering
<1>7. ASSUME NEW s \in Terms, Entry!UpdateStatus(s) PROVE UNCHANGED attempts
  BY <1>7 DEF Entry!UpdateStatus
<1>8. CASE Entry!UpdateStudent \/ UNCHANGED Entry!vars
  BY <1>1, <1>8 DEF Entry!UpdateStudent, Entry!vars
<1> QED BY <1>1, <1>2, <1>3, <1>4, <1>5, <1>6, <1>7, <1>8 DEF Entry!Next

(* A step writes requests by their guarded statements, and forgets no skip. *)
LEMMA RequestsStep ==
  ASSUME EntryTables, [Entry!Next]_(Entry!vars)
  PROVE  /\ request' \in [Requests -> {"none", "pending", "approved", "rejected"}]
         /\ unserved \subseteq unserved'
         /\ \A r \in Requests : request[r] = "approved" => request'[r] = "approved"
         /\ \A r \in Requests : request'[r] = "approved" /\ request[r] # "approved" =>
               \E p \in Call : Entry!ApproveRequest(p, r)
<1> DEFINE G == /\ request' \in [Requests -> {"none", "pending", "approved", "rejected"}]
                /\ unserved \subseteq unserved'
                /\ \A r \in Requests : request[r] = "approved" => request'[r] = "approved"
                /\ \A r \in Requests : request'[r] = "approved" /\ request[r] # "approved" =>
                      \E p \in Call : Entry!ApproveRequest(p, r)
<1>1. CASE UNCHANGED request /\ unserved \subseteq unserved'
  BY <1>1 DEF EntryTables
<1>2. ASSUME NEW p \in Call, NEW r \in Requests, Entry!ApproveRequest(p, r) PROVE G
  BY <1>2 DEF EntryTables, Entry!ApproveRequest
<1>3. ASSUME NEW p \in Call, Entry!CreateRequest(p) PROVE G
  BY <1>3 DEF EntryTables, Entry!CreateRequest
<1>4. ASSUME NEW r \in Requests, Entry!RejectRequest(r) PROVE G
  BY <1>4 DEF EntryTables, Entry!RejectRequest
<1>5. ASSUME NEW p \in Call, Entry!CallStep(p), ~ Entry!CreateRequest(p),
             \A r \in Requests : ~ Entry!ApproveRequest(p, r)
      PROVE  UNCHANGED request /\ unserved \subseteq unserved'
  <2>1. CASE Entry!StatementFails(p)
    BY <2>1 DEF Entry!StatementFails, Entry!CourseFails, Entry!CallFails
  <2>2. CASE Entry!IsSemesterActive(p) \/ Entry!GetOfferingIDForEnrollment(p) \/ Entry!OfferingExists(p)
    BY <2>2 DEF Entry!IsSemesterActive, Entry!GetOfferingIDForEnrollment, Entry!OfferingExists
  <2>3. CASE Entry!GetOfferingsInfoBySemester(p) \/ Entry!GetPassedCourseIDs(p)
    BY <2>3 DEF Entry!GetOfferingsInfoBySemester, Entry!GetPassedCourseIDs, Entry!Skips, Entry!Unchanged
  <2>4. CASE ~ Entry!StatementFails(p) /\ ~ Entry!IsSemesterActive(p)
             /\ ~ Entry!GetOfferingIDForEnrollment(p) /\ ~ Entry!OfferingExists(p)
             /\ ~ Entry!GetOfferingsInfoBySemester(p) /\ ~ Entry!GetPassedCourseIDs(p)
    BY <1>5, <2>4 DEF Entry!CallStep, Entry!ReadStanding, Entry!EnrollStudent,
       Entry!GetSemester, Entry!InsertEnrollment, Entry!GetActiveStudents,
       Entry!EnrollInCurriculum, Entry!EnrollInRetake, Entry!HasApprovedPretake,
       Entry!GetRetakeRequestInfos, Entry!BulkEnrollReturns, Entry!Unchanged
  <2> QED BY <2>1, <2>2, <2>3, <2>4
<1>6. ASSUME NEW o \in Offerings,
             Entry!CreateOffering(o) \/ Entry!DeleteOffering(o) \/ Entry!OtherWriter(o)
      PROVE  UNCHANGED <<request, unserved>>
  BY <1>6 DEF Entry!CreateOffering, Entry!DeleteOffering, Entry!OtherWriter
<1>7. ASSUME NEW s \in Terms, Entry!UpdateStatus(s) PROVE UNCHANGED <<request, unserved>>
  BY <1>7 DEF Entry!UpdateStatus
<1>8. CASE Entry!UpdateStudent \/ UNCHANGED Entry!vars
  BY <1>1, <1>8 DEF Entry!UpdateStudent, Entry!vars
<1> QED
  BY <1>1, <1>2, <1>3, <1>4, <1>5, <1>6, <1>7, <1>8 DEF Entry!Next

(* An approval that ends, once the semester is active, has enrolled the *)
(* student or seen why not.                                             *)
LEMMA ApprovalEnds ==
  ASSUME None \notin Requests, EntryTables, NEW p \in Call, Entry!CallStep(p),
         Approval(enrolling[p]), NEW r \in Requests, enrolling[p].request = r,
         enrolling[p].step # "filing", r.semester \in Terms, status[r.semester] # "upcoming"
  PROVE  \/ enrolling'[p].request = r /\ enrolling'[p].step # "filing"
         \/ r \in unserved'
         \/ Entry!HasRow(r)'
<1> DEFINE c == enrolling[p]
           G == \/ enrolling'[p].request = r /\ enrolling'[p].step # "filing"
                \/ r \in unserved'
                \/ Entry!HasRow(r)'
<1>1. /\ c \in Entry!CallRow /\ r # None /\ c.next = "idle"
      /\ c.step \in {"activating", "finding", "checking", "inserting"}
      /\ c.step \in {"checking", "inserting"} =>
            /\ c.offering \in Offerings /\ CourseTaught[c.offering] = r.course
            /\ Term[c.offering] = r.semester
  BY DEF EntryTables, Approval
<1>2. ASSUME NEW n, enrolling' = [enrolling EXCEPT ![p] = n]
      PROVE  enrolling'[p] = n
  BY <1>2 DEF EntryTables
<1>3. CASE Entry!IsSemesterActive(p)
  <2>1. CASE status[r.semester] = "active"
    <3> DEFINE n == [c EXCEPT !.step = "finding"]
    <3>1. enrolling' = [enrolling EXCEPT ![p] = n]
      BY <1>3, <2>1 DEF Entry!IsSemesterActive, Entry!Continue
    <3>2. n.request = r /\ n.step = "finding"
      BY <1>1 DEF Entry!CallRow
    <3> QED BY <1>2, <3>1, <3>2
  <2>2. CASE status[r.semester] # "active"
    <3>1. status[r.semester] = "over"
      BY <2>2 DEF EntryTables, Entry!SemesterStatus
    <3> QED BY <1>3, <3>1 DEF Entry!IsSemesterActive
  <2> QED BY <2>1, <2>2
<1>4. CASE Entry!GetOfferingIDForEnrollment(p)
  <2>1. CASE r \in unserved'
    BY <2>1
  <2>2. CASE r \notin unserved'
    <3>1. PICK o \in Offerings \cup Cohort :
             enrolling' = [enrolling EXCEPT ![p] = [c EXCEPT !.step = "checking", !.offering = o]]
      BY <1>4, <2>2 DEF Entry!GetOfferingIDForEnrollment, Entry!Continue, Entry!InCourse, Entry!LiveOfferings
    <3> DEFINE n == [c EXCEPT !.step = "checking", !.offering = o]
    <3>2. n.request = r /\ n.step = "checking"
      BY <1>1 DEF Entry!CallRow
    <3> QED BY <1>2, <3>1, <3>2
  <2> QED BY <2>1, <2>2
<1>5. CASE Entry!OfferingExists(p)
  <2> DEFINE n == [c EXCEPT !.step = "inserting"]
  <2>1. r \in unserved' \/ enrolling' = [enrolling EXCEPT ![p] = n]
    BY <1>1, <1>5 DEF Entry!OfferingExists, Entry!Continue
  <2>2. n.request = r /\ n.step = "inserting"
    BY <1>1 DEF Entry!CallRow
  <2> QED BY <1>2, <2>1, <2>2
<1>6. CASE Entry!InsertEnrollment(p)
  <2>1. c.step = "inserting"
    BY <1>6 DEF Entry!InsertEnrollment, Entry!At
  <2>2. attempts'[c.offering] # "none"
    BY <1>1, <1>6, <2>1 DEF Entry!InsertEnrollment, Entry!CreateEnrollment, EntryTables
  <2> QED BY <1>1, <2>1, <2>2 DEF Entry!HasRow
<1>7. CASE Entry!StatementFails(p)
  BY <1>1, <1>7 DEF Entry!StatementFails, Entry!CourseFails, Entry!CallFails, Entry!At
<1>8. CASE ~ Entry!IsSemesterActive(p) /\ ~ Entry!GetOfferingIDForEnrollment(p)
           /\ ~ Entry!OfferingExists(p) /\ ~ Entry!InsertEnrollment(p) /\ ~ Entry!StatementFails(p)
  BY <1>1, <1>8 DEF Entry!CallStep, Entry!ReadStanding, Entry!ApproveRequest, Entry!EnrollStudent,
     Entry!GetSemester, Entry!CreateRequest, Entry!GetActiveStudents,
     Entry!GetOfferingsInfoBySemester, Entry!GetPassedCourseIDs, Entry!EnrollInCurriculum,
     Entry!EnrollInRetake, Entry!HasApprovedPretake, Entry!GetRetakeRequestInfos,
     Entry!BulkEnrollReturns, Entry!At
<1> QED BY <1>3, <1>4, <1>5, <1>6, <1>7, <1>8

(* A step of the calls moves one of them. *)
LEMMA OneCallMoves ==
  ASSUME EntryTables, [Entry!Next]_(Entry!vars), NEW p \in Call, enrolling'[p] # enrolling[p]
  PROVE  Entry!CallStep(p)
<1>1. ASSUME NEW q \in Call, Entry!CallStep(q), q # p PROVE enrolling'[p] = enrolling[p]
  <2>1. CASE Entry!StatementFails(q)
    BY <1>1, <2>1 DEF Entry!StatementFails, Entry!CourseFails, Entry!CallFails,
       Entry!Return, Entry!Continue, EntryTables
  <2>2. ASSUME NEW c \in Courses, Entry!EnrollInCurriculum(q, c) \/ Entry!EnrollInRetake(q, c)
        PROVE  enrolling'[p] = enrolling[p]
    BY <1>1, <2>2 DEF Entry!EnrollInCurriculum, Entry!EnrollInRetake, Entry!Continue, EntryTables
  <2>3. CASE Entry!InsertEnrollment(q) \/ Entry!GetOfferingIDForEnrollment(q)
    BY <1>1, <2>3 DEF Entry!InsertEnrollment, Entry!GetOfferingIDForEnrollment,
       Entry!Return, Entry!Continue, EntryTables
  <2>4. ASSUME NEW r \in Requests, Entry!ReadStanding(q, r) \/ Entry!ApproveRequest(q, r)
        PROVE  enrolling'[p] = enrolling[p]
    BY <1>1, <2>4 DEF Entry!ReadStanding, Entry!ApproveRequest, Entry!Continue, EntryTables
  <2>5. ASSUME NEW o \in Offerings, Entry!EnrollStudent(q, o) PROVE enrolling'[p] = enrolling[p]
    BY <1>1, <2>5 DEF Entry!EnrollStudent, Entry!Continue, EntryTables
  <2>6. ASSUME NEW s \in Terms, Entry!GetSemester(q, s) PROVE enrolling'[p] = enrolling[p]
    BY <1>1, <2>6 DEF Entry!GetSemester, Entry!Continue, EntryTables
  <2>7. CASE Entry!CreateRequest(q) \/ Entry!IsSemesterActive(q) \/ Entry!OfferingExists(q)
             \/ Entry!GetActiveStudents(q) \/ Entry!GetOfferingsInfoBySemester(q)
    BY <1>1, <2>7 DEF Entry!CreateRequest, Entry!IsSemesterActive, Entry!OfferingExists,
       Entry!GetActiveStudents, Entry!GetOfferingsInfoBySemester,
       Entry!Return, Entry!Continue, EntryTables
  <2>8. CASE Entry!GetPassedCourseIDs(q) \/ Entry!HasApprovedPretake(q)
             \/ Entry!GetRetakeRequestInfos(q) \/ Entry!BulkEnrollReturns(q)
    BY <1>1, <2>8 DEF Entry!GetPassedCourseIDs, Entry!HasApprovedPretake,
       Entry!GetRetakeRequestInfos, Entry!BulkEnrollReturns,
       Entry!Return, Entry!Continue, EntryTables
  <2> QED
    BY <1>1, <2>1, <2>2, <2>3, <2>4, <2>5, <2>6, <2>7, <2>8 DEF Entry!CallStep
<1>2. ASSUME NEW r \in Requests, Entry!RejectRequest(r) PROVE UNCHANGED enrolling
  BY <1>2 DEF Entry!RejectRequest
<1>3. ASSUME NEW o \in Offerings,
             Entry!CreateOffering(o) \/ Entry!DeleteOffering(o) \/ Entry!OtherWriter(o)
      PROVE  UNCHANGED enrolling
  BY <1>3 DEF Entry!CreateOffering, Entry!DeleteOffering, Entry!OtherWriter
<1>4. ASSUME NEW s \in Terms, Entry!UpdateStatus(s) PROVE UNCHANGED enrolling
  BY <1>4 DEF Entry!UpdateStatus
<1>5. CASE Entry!UpdateStudent \/ UNCHANGED Entry!vars
  BY <1>5 DEF Entry!UpdateStudent, Entry!vars
<1> QED BY <1>1, <1>2, <1>3, <1>4, <1>5 DEF Entry!Next

(* Nothing begins to wait once its semester is active. *)
LEMMA NothingWaitsLate ==
  ASSUME Entry!CourseAssumption, EntryInv, [Entry!Next]_(Entry!vars),
         NEW r \in Requests, status[r.semester] # "upcoming", Waits(r)'
  PROVE  Waits(r)
<1>1. EntryTables /\ None \notin Requests /\ r.semester \in Terms
  BY DEF EntryInv, Entry!CourseAssumption
<1>2. r \notin unserved /\ ~ Entry!HasRow(r)
  <2>1. r \notin unserved
    BY <1>1, RequestsStep DEF Waits
  <2>2. ASSUME Entry!HasRow(r) PROVE FALSE
    BY <1>1, <2>2, RowsStay DEF Waits, Entry!HasRow
  <2> QED BY <2>1, <2>2
<1>3. request[r] = "approved"
  <2> SUFFICES ASSUME request[r] # "approved" PROVE FALSE
    OBVIOUS
  <2>1. PICK p \in Call : Entry!ApproveRequest(p, r)
    BY <1>1, RequestsStep DEF Waits
  <2> DEFINE n == [Entry!Idle EXCEPT !.step = "activating", !.request = r]
  <2>2. enrolling'[p] = n
    BY <1>1, <2>1 DEF Entry!ApproveRequest, Entry!Continue, EntryTables
  <2>3. n.step = "activating" /\ n.request = r
    BY IdleEntry DEF Entry!CallRow
  <2> HIDE DEF n
  <2> QED BY <2>2, <2>3 DEF Waits, Entry!Approving, Entry!At
<1>4. ~ Entry!Approving(r)
  <2> SUFFICES ASSUME Entry!Approving(r) PROVE FALSE
    OBVIOUS
  <2>1. PICK p \in Call : enrolling[p].request = r /\ enrolling[p].step # "filing"
    BY DEF Entry!Approving, Entry!At
  <2>2. ~ (enrolling'[p].request = r /\ enrolling'[p].step # "filing")
    BY DEF Waits, Entry!Approving, Entry!At
  <2>3. Entry!CallStep(p)
    BY <1>1, <2>1, <2>2, OneCallMoves
  <2>4. Approval(enrolling[p])
    BY DEF EntryInv
  <2>5. r \in unserved' \/ Entry!HasRow(r)'
    BY <1>1, <2>1, <2>2, <2>3, <2>4, ApprovalEnds
  <2> QED BY <2>5 DEF Waits
<1> QED BY <1>2, <1>3, <1>4 DEF Waits

LEMMA EntryMoves ==
  ASSUME Entry!CourseAssumption, EntryInv, Entry!Next, NEW p \in Call, NEW n \in Entry!CallRow,
         enrolling' = [enrolling EXCEPT ![p] = n], UNCHANGED status,
         Approval(n), Pass(n),
         n.whole => n.pass \in Begun,
         \A r \in Waiting' : n.whole /\ r.semester = n.pass /\ ~ Entry!NoBranch(r) => Reaches(n, r),
         swept' \subseteq Begun,
         \A r \in Waiting' : r.semester \in swept' \ swept => Entry!NoBranch(r)
  PROVE  EntryInv'
<1>1. /\ enrolling' \in [Call -> Entry!CallRow] /\ enrolling'[p] = n
      /\ \A q \in Call \ {p} : enrolling'[q] = enrolling[q]
  BY EntryCallStep DEF EntryInv
<1>2. EntryTables'
  BY <1>1, RowsStay, RequestsStep DEF EntryInv, EntryTables
<1>3. Begun' = Begun
  BY DEF Begun
<1>4. ASSUME NEW r \in Waiting', r.semester \in Begun PROVE r \in Waiting
  BY <1>4, NothingWaitsLate DEF Waiting, Begun
<1>5. ASSUME NEW q \in Call
      PROVE  /\ Approval(enrolling'[q]) /\ Pass(enrolling'[q])
             /\ Sweeps(enrolling'[q], Begun, Waiting')
  <2>1. CASE q = p
    BY <1>1, <2>1 DEF Sweeps
  <2>2. CASE q # p
    BY <1>1, <1>4, <2>2 DEF EntryInv, Sweeps
  <2> QED BY <2>1, <2>2
<1>6. \A r \in Waiting' : r.semester \in swept' => Entry!NoBranch(r)
  BY <1>4 DEF EntryInv
<1> QED BY <1>2, <1>3, <1>5, <1>6 DEF EntryInv

LEMMA EntryGoesOn ==
  ASSUME Entry!CourseAssumption, EntryInv, Entry!Next, NEW p \in Call, NEW n \in Entry!CallRow,
         enrolling' = [enrolling EXCEPT ![p] = n], UNCHANGED <<status, swept>>,
         Approval(n), Pass(n),
         n.whole => enrolling[p].whole /\ n.pass = enrolling[p].pass,
         \A r \in Requests : /\ n.whole /\ r.semester = n.pass /\ ~ Entry!NoBranch(r)
                             /\ Waits(r) /\ Waits(r)' /\ Reaches(enrolling[p], r)
                             => Reaches(n, r)
  PROVE  EntryInv'
<1>1. n.whole => n.pass \in Begun
  BY DEF EntryInv, Sweeps
<1>2. ASSUME NEW r \in Waiting', n.whole, r.semester = n.pass, ~ Entry!NoBranch(r)
      PROVE  Reaches(n, r)
  <2>1. r \in Requests /\ Waits(r)' /\ Waits(r)
    BY <1>1, <1>2, NothingWaitsLate DEF Waiting, Begun
  <2>2. Reaches(enrolling[p], r)
    BY <1>2, <2>1 DEF EntryInv, Sweeps, Waiting
  <2> QED BY <1>2, <2>1, <2>2
<1>3. swept' \subseteq Begun /\ swept' \ swept = {}
  BY DEF EntryInv
<1> QED BY <1>1, <1>2, <1>3, EntryMoves

(* A call that ends, and was not a pass to be counted. *)
LEMMA EntryReturns ==
  ASSUME Entry!CourseAssumption, EntryInv, Entry!Next, NEW p \in Call, Entry!Return(p),
         UNCHANGED <<status, swept>>
  PROVE  EntryInv'
<1>1. /\ enrolling' = [enrolling EXCEPT ![p] = Entry!Idle] /\ Approval(Entry!Idle)
      /\ Pass(Entry!Idle) /\ ~ Entry!Idle.whole /\ Entry!Idle \in Entry!CallRow
  BY IdleEntry DEF Entry!Return, Entry!Continue, Approval, Pass, PassSteps
<1> QED BY <1>1, EntryGoesOn

(* A call begins: a request read or approved, a direct enrollment, a pass. *)
LEMMA EntryBegins ==
  ASSUME Entry!CourseAssumption, EntryInv, Entry!Next, NEW p \in Call,
         \/ \E r \in Requests : Entry!ReadStanding(p, r) \/ Entry!ApproveRequest(p, r)
         \/ \E o \in Offerings : Entry!EnrollStudent(p, o)
         \/ \E s \in Terms : Entry!GetSemester(p, s)
  PROVE  EntryInv'
<1>1. ASSUME NEW r \in Requests, Entry!ReadStanding(p, r) \/ Entry!ApproveRequest(p, r)
      PROVE  EntryInv'
  <2> DEFINE n(step) == [Entry!Idle EXCEPT !.step = step, !.request = r]
  <2>1. PICK step \in {"filing", "activating"} : enrolling' = [enrolling EXCEPT ![p] = n(step)]
    BY <1>1 DEF Entry!ReadStanding, Entry!ApproveRequest, Entry!Continue
  <2>2. /\ n(step) \in Entry!CallRow /\ n(step).step = step /\ n(step).request = r
        /\ n(step).whole = FALSE /\ n(step).next = "idle"
    BY <2>1, IdleEntry DEF Entry!CallRow
  <2>3. Approval(n(step)) /\ Pass(n(step))
    <3> HIDE DEF n
    <3> QED BY <2>1, <2>2 DEF Approval, Pass, PassSteps
  <2>4. UNCHANGED <<status, swept>>
    BY <1>1 DEF Entry!ReadStanding, Entry!ApproveRequest
  <2> HIDE DEF n
  <2> QED BY <2>1, <2>2, <2>3, <2>4, EntryGoesOn
<1>2. ASSUME NEW o \in Offerings, Entry!EnrollStudent(p, o) PROVE EntryInv'
  <2> DEFINE n == [Entry!Idle EXCEPT !.step = "checking", !.offering = o]
  <2>1. enrolling' = [enrolling EXCEPT ![p] = n] /\ UNCHANGED <<status, swept>>
    BY <1>2 DEF Entry!EnrollStudent, Entry!Continue
  <2>2. /\ n \in Entry!CallRow /\ n.step = "checking" /\ n.request = None
        /\ n.whole = FALSE /\ n.next = "idle"
    BY IdleEntry DEF Entry!CallRow
  <2> HIDE DEF n
  <2>3. Approval(n) /\ Pass(n)
    BY <2>2 DEF Approval, Pass, PassSteps
  <2> QED BY <2>1, <2>2, <2>3, EntryGoesOn
<1>3. ASSUME NEW s \in Terms, Entry!GetSemester(p, s) PROVE EntryInv'
  <2> DEFINE n == [Entry!Idle EXCEPT !.step = "students", !.pass = s, !.whole = status[s] = "active"]
  <2>1. enrolling' = [enrolling EXCEPT ![p] = n] /\ UNCHANGED <<status, swept>>
    BY <1>3 DEF Entry!GetSemester, Entry!Continue, Entry!Unchanged
  <2>2. /\ n \in Entry!CallRow /\ n.step = "students" /\ n.request = None
        /\ n.whole = (status[s] = "active") /\ n.next = "idle" /\ n.pass = s /\ n.found = {}
    BY IdleEntry DEF Entry!CallRow
  <2> HIDE DEF n
  <2>3. Approval(n) /\ Pass(n)
    BY <2>2 DEF Approval, Pass, PassSteps
  <2>4. n.whole => n.pass \in Begun
    BY <2>2 DEF Begun
  <2>5. \A r \in Waiting' : Reaches(n, r)
    BY <2>2 DEF Reaches
  <2>6. swept' \subseteq Begun /\ swept' \ swept = {}
    BY <2>1 DEF EntryInv
  <2> QED BY <2>1, <2>2, <2>3, <2>4, <2>5, <2>6, EntryMoves
<1> QED BY <1>1, <1>2, <1>3

(* The approval of a request, and a direct enrollment. *)
LEMMA ApprovalMoves ==
  ASSUME Entry!CourseAssumption, EntryInv, Entry!Next, NEW p \in Call,
         \/ Entry!CreateRequest(p) \/ Entry!IsSemesterActive(p)
         \/ Entry!GetOfferingIDForEnrollment(p) \/ Entry!OfferingExists(p)
         \/ Entry!InsertEnrollment(p) /\ enrolling[p].next = "idle"
  PROVE  EntryInv'
<1> DEFINE c == enrolling[p]
<1>1. c \in Entry!CallRow /\ Approval(c) /\ Pass(c)
  BY DEF EntryInv, EntryTables
<1>2. UNCHANGED <<status, swept>>
  BY DEF Entry!CreateRequest, Entry!IsSemesterActive, Entry!GetOfferingIDForEnrollment,
         Entry!OfferingExists, Entry!InsertEnrollment
<1>3. CASE Entry!Return(p)
  BY <1>2, <1>3, EntryReturns
<1>4. CASE ~ Entry!Return(p)
  <2>1. c.step \in {"activating", "finding", "checking"}
    BY <1>4 DEF Entry!CreateRequest, Entry!IsSemesterActive, Entry!GetOfferingIDForEnrollment,
                Entry!OfferingExists, Entry!InsertEnrollment, Entry!At
  <2>2. ~ c.whole
    BY <1>1, <2>1 DEF Pass
  <2>3. c.next \in {"idle", "curriculum", "retakes"} /\ (c.next # "idle" => c.pass \in Terms)
    BY <1>1, EntryRow DEF Pass
  <2>4. CASE Entry!IsSemesterActive(p) \/ Entry!OfferingExists(p)
    <3>1. PICK step \in {"finding", "inserting"} :
             /\ enrolling' = [enrolling EXCEPT ![p] = [c EXCEPT !.step = step]]
             /\ step = "inserting" <=> c.step = "checking"
      BY <1>4, <2>4 DEF Entry!IsSemesterActive, Entry!OfferingExists, Entry!Continue, Entry!At
    <3> DEFINE n == [c EXCEPT !.step = step]
    <3>2. /\ n \in Entry!CallRow /\ n.step = step /\ n.request = c.request /\ n.next = c.next
          /\ n.whole = c.whole /\ n.offering = c.offering /\ n.pass = c.pass
      BY <1>1, <3>1 DEF Entry!CallRow
    <3> HIDE DEF n
    <3>3. Approval(n) /\ Pass(n)
      BY <1>1, <2>1, <2>2, <2>3, <3>1, <3>2 DEF Approval, Pass, PassSteps
    <3>4. enrolling' = [enrolling EXCEPT ![p] = n] /\ ~ n.whole
      BY <2>2, <3>1, <3>2 DEF n
    <3> QED BY <1>2, <3>2, <3>3, <3>4, EntryGoesOn
  <2>5. CASE Entry!GetOfferingIDForEnrollment(p)
    <3>1. PICK o \in Entry!InCourse(Entry!LiveOfferings(c.request.semester), c.request.course) :
             enrolling' = [enrolling EXCEPT ![p] = [c EXCEPT !.step = "checking", !.offering = o]]
      BY <1>4, <2>5 DEF Entry!GetOfferingIDForEnrollment, Entry!Continue
    <3> DEFINE n == [c EXCEPT !.step = "checking", !.offering = o]
    <3>2. /\ o \in Offerings /\ CourseTaught[o] = c.request.course
          /\ Term[o] = c.request.semester
      BY <3>1 DEF Entry!InCourse, Entry!LiveOfferings, Entry!CourseAssumption
    <3>3. /\ n \in Entry!CallRow /\ n.step = "checking" /\ n.request = c.request /\ n.next = c.next
          /\ n.whole = c.whole /\ n.offering = o /\ n.pass = c.pass
      BY <1>1, <3>2 DEF Entry!CallRow
    <3>4. enrolling' = [enrolling EXCEPT ![p] = n]
      BY <3>1
    <3> HIDE DEF n
    <3>5. Approval(n) /\ Pass(n)
      BY <1>1, <2>2, <2>3, <3>2, <3>3 DEF Approval, Pass, PassSteps
    <3>6. ~ n.whole
      BY <2>2, <3>3
    <3> QED BY <1>2, <3>3, <3>4, <3>5, <3>6, EntryGoesOn
  <2>6. CASE Entry!CreateRequest(p) \/ Entry!InsertEnrollment(p)
    BY <1>4, <2>1, <2>6 DEF Entry!CreateRequest, Entry!InsertEnrollment, Entry!At
  <2> QED BY <2>4, <2>5, <2>6
<1> QED BY <1>3, <1>4

(* Who the pass is for, what is offered, and what he has passed: what is     *)
(* not offered, or is passed, waits no longer.                               *)
LEMMA PassReads ==
  ASSUME Entry!CourseAssumption, EntryInv, Entry!Next, NEW p \in Call,
         \/ Entry!GetActiveStudents(p) \/ Entry!GetOfferingsInfoBySemester(p)
         \/ Entry!GetPassedCourseIDs(p)
  PROVE  EntryInv'
<1> DEFINE c == enrolling[p]
<1>1. c \in Entry!CallRow /\ Approval(c) /\ Pass(c)
  BY DEF EntryInv, EntryTables
<1>2. c.step \in {"students", "offerings", "passed"} /\ c.request = None
  BY <1>1 DEF Approval, Entry!GetActiveStudents, Entry!GetOfferingsInfoBySemester,
              Entry!GetPassedCourseIDs, Entry!At
<1>3. /\ c.pass \in Terms /\ c.next \in {"idle", "curriculum", "retakes"}
      /\ c.whole => c.next = "idle" /\ \A o \in c.found : Term[o] = c.pass
  BY <1>1, <1>2, EntryRow DEF Pass, PassSteps
<1>4. UNCHANGED <<status, swept, attempts, request>>
  BY DEF Entry!GetActiveStudents, Entry!GetOfferingsInfoBySemester,
         Entry!GetPassedCourseIDs, Entry!Unchanged
<1>5. CASE Entry!GetActiveStudents(p)
  <2>1. CASE Entry!Return(p)
    BY <1>4, <2>1, EntryReturns
  <2>2. CASE ~ Entry!Return(p)
    <3> DEFINE n == [c EXCEPT !.step = "offerings"]
    <3>1. enrolling' = [enrolling EXCEPT ![p] = n]
      BY <1>5, <2>2 DEF Entry!GetActiveStudents, Entry!Continue
    <3>2. /\ n \in Entry!CallRow /\ n.step = "offerings" /\ n.request = None /\ n.next = c.next
          /\ n.whole = c.whole /\ n.pass = c.pass /\ n.found = c.found
      BY <1>1, <1>2 DEF Entry!CallRow
    <3> HIDE DEF n
    <3>3. Approval(n) /\ Pass(n) /\ \A r \in Requests : Reaches(n, r)
      BY <1>3, <3>2 DEF Approval, Pass, PassSteps, Reaches
    <3> QED BY <1>4, <3>1, <3>2, <3>3, EntryGoesOn
  <2> QED BY <2>1, <2>2
<1>6. CASE Entry!GetOfferingsInfoBySemester(p)
  <2> DEFINE found == Entry!LiveOfferings(c.pass)
             n == [c EXCEPT !.step = "passed", !.found = found]
  <2>1. enrolling' = [enrolling EXCEPT ![p] = n]
    BY <1>6 DEF Entry!GetOfferingsInfoBySemester, Entry!Continue
  <2>2. found \in SUBSET Offerings /\ \A o \in found : Term[o] = c.pass
    BY DEF Entry!LiveOfferings, Entry!CourseAssumption
  <2>3. \A r \in Requests :
           r.semester = c.pass /\ request[r] = "approved"
             /\ r.course \in Courses \ {CourseTaught[o] : o \in found} => r \in unserved'
    BY <1>6 DEF Entry!GetOfferingsInfoBySemester, Entry!Skips
  <2> HIDE DEF found
  <2>4. /\ n \in Entry!CallRow /\ n.step = "passed" /\ n.request = None /\ n.next = c.next
        /\ n.whole = c.whole /\ n.pass = c.pass /\ n.found = found
    BY <1>1, <1>2, <2>2 DEF Entry!CallRow
  <2> HIDE DEF n
  <2>5. Approval(n) /\ Pass(n)
    BY <1>3, <2>2, <2>4 DEF Approval, Pass, PassSteps
  <2>6. ASSUME NEW r \in Requests, Waits(r)', r.semester = n.pass PROVE Reaches(n, r)
    <3>1. request[r] = "approved" /\ r \notin unserved'
      BY <1>4, <2>6 DEF Waits
    <3>2. r.course \in Courses
      BY DEF Entry!CourseAssumption
    <3>3. \E o \in found : CourseTaught[o] = r.course
      BY <2>3, <2>4, <2>6, <3>1, <3>2
    <3> QED BY <2>4, <3>3 DEF Reaches
  <2> QED BY <1>4, <2>1, <2>4, <2>5, <2>6, EntryGoesOn
<1>7. CASE Entry!GetPassedCourseIDs(p)
  <2> DEFINE passed == Entry!Completed
             todo == Curriculum[c.pass]
             n == [c EXCEPT !.step = "curriculum", !.passed = passed,
                            !.todo = todo, !.next = "curriculum"]
  <2>1. enrolling' = [enrolling EXCEPT ![p] = n]
    BY <1>7 DEF Entry!GetPassedCourseIDs, Entry!Continue
  <2>2. passed \in SUBSET Courses /\ todo \in SUBSET Courses
    BY <1>3 DEF Entry!Completed, Entry!CourseAssumption
  <2>3. \A r \in Requests :
           r.semester = c.pass /\ request[r] = "approved" /\ r.course \in passed => r \in unserved'
    BY <1>7 DEF Entry!GetPassedCourseIDs, Entry!Skips
  <2>0. c.step = "passed"
    BY <1>7 DEF Entry!GetPassedCourseIDs, Entry!At
  <2> HIDE DEF passed
  <2>4. /\ n \in Entry!CallRow /\ n.step = "curriculum" /\ n.request = None
        /\ n.next = "curriculum" /\ n.whole = c.whole /\ n.pass = c.pass /\ n.found = c.found
        /\ n.passed = passed /\ n.todo = Curriculum[n.pass]
    BY <1>1, <1>2, <2>2 DEF Entry!CallRow
  <2> HIDE DEF n
  <2>5. Approval(n) /\ Pass(n)
    BY <1>3, <2>4 DEF Approval, Pass, PassSteps
  <2>6. ASSUME NEW r \in Requests, Waits(r)', n.whole, r.semester = n.pass, Reaches(c, r)
        PROVE  Reaches(n, r)
    <3>1. request[r] = "approved" /\ r \notin unserved'
      BY <1>4, <2>6 DEF Waits
    <3>2. r.course \notin passed
      BY <2>3, <2>4, <2>6, <3>1
    <3>3. \E o \in c.found : CourseTaught[o] = r.course
      BY <1>3, <2>0, <2>4, <2>6 DEF Reaches
    <3> QED BY <2>4, <3>2, <3>3 DEF Reaches
  <2> QED BY <1>4, <2>1, <2>4, <2>5, <2>6, EntryGoesOn
<1> QED BY <1>5, <1>6, <1>7

(* A request inside the curriculum is a pretake when the course has a *)
(* prerequisite, and one outside it a retake.                         *)
LEMMA Branches ==
  ASSUME Entry!CourseAssumption, NEW r \in Requests, ~ Entry!NoBranch(r)
  PROVE  /\ r.type = "pretake" => r.course \in Curriculum[r.semester]
         /\ r.type = "retake" /\ r.course \in Curriculum[r.semester] =>
               Prerequisite[r.course] = None
         /\ r.type \in {"pretake", "retake"} /\ r.course \in Courses /\ r.semester \in Terms
BY DEF Entry!NoBranch, Entry!CourseAssumption

(* One course: skipped because he is enrolled or has passed it, or the call *)
(* is at it from now on.                                                    *)
LEMMA CourseTaken ==
  ASSUME Entry!CourseAssumption, EntryInv, Entry!Next, NEW p \in Call, NEW k \in Courses,
         Entry!EnrollInCurriculum(p, k) \/ Entry!EnrollInRetake(p, k)
  PROVE  EntryInv'
<1> DEFINE c == enrolling[p]
           O == Entry!InCourse(c.found, k)
           skip == [c EXCEPT !.todo = @ \ {k}]
<1>1. c \in Entry!CallRow /\ Approval(c) /\ Pass(c)
  BY DEF EntryInv, EntryTables
<1>2. /\ c.step \in {"curriculum", "retakes"} /\ c.request = None /\ k \in c.todo
      /\ Entry!EnrollInCurriculum(p, k) => c.step = "curriculum"
      /\ Entry!EnrollInRetake(p, k) => c.step = "retakes"
  BY <1>1 DEF Approval, Entry!EnrollInCurriculum, Entry!EnrollInRetake, Entry!At
<1>3. /\ c.pass \in Terms /\ c.next \in {"idle", "curriculum", "retakes"}
      /\ c.todo \in SUBSET Courses /\ c.found \in SUBSET Offerings
      /\ c.whole => c.next = c.step /\ \A o \in c.found : Term[o] = c.pass
  BY <1>1, <1>2, EntryRow DEF Pass, PassSteps
<1>4. UNCHANGED <<status, swept, attempts>>
  BY DEF Entry!EnrollInCurriculum, Entry!EnrollInRetake, Entry!Unchanged
<1>5. \A o \in O : o \in c.found /\ o \in Offerings /\ CourseTaught[o] = k
  BY <1>3 DEF Entry!InCourse
<1>6. ASSUME NEW r \in Requests, c.whole, r.semester = c.pass, Waits(r), r.course = k,
             NEW o \in O, attempts[o] = "enrolled"
      PROVE  FALSE
  BY <1>3, <1>5, <1>6 DEF Waits, Entry!HasRow
<1>7. CASE /\ enrolling' = [enrolling EXCEPT ![p] = skip]
           /\ \/ Entry!EnrollInCurriculum(p, k) /\ (O = {} \/ k \in c.passed)
              \/ \E o \in O : attempts[o] = "enrolled"
  <2>1. /\ skip \in Entry!CallRow /\ skip.step = c.step /\ skip.request = None
        /\ skip.next = c.next /\ skip.whole = c.whole /\ skip.pass = c.pass
        /\ skip.found = c.found /\ skip.passed = c.passed /\ skip.todo = c.todo \ {k}
    BY <1>1, <1>2 DEF Entry!CallRow
  <2> DEFINE n == skip
  <2> HIDE DEF skip
  <2>2. Approval(n) /\ Pass(n)
    BY <1>2, <1>3, <2>1 DEF Approval, Pass, PassSteps
  <2>3. ASSUME NEW r \in Requests, n.whole, r.semester = n.pass, Waits(r), Reaches(c, r)
        PROVE  Reaches(n, r)
    <3>1. CASE r.course # k
      BY <1>2, <2>1, <2>3, <3>1 DEF Reaches
    <3>2. CASE r.course = k
      <4>1. Entry!EnrollInCurriculum(p, k) /\ (O = {} \/ k \in c.passed)
        BY <1>6, <1>7, <2>1, <2>3, <3>2
      <4>2. c.step = "curriculum" /\ c.next = "curriculum"
        BY <1>2, <1>3, <2>1, <2>3, <4>1
      <4>3. (\E o \in c.found : CourseTaught[o] = k) /\ k \notin c.passed
        BY <2>3, <3>2, <4>2 DEF Reaches
      <4> QED BY <4>1, <4>3 DEF Entry!InCourse
    <3> QED BY <3>1, <3>2
  <2> QED BY <1>4, <1>7, <2>1, <2>2, <2>3, EntryGoesOn
<1>8. ASSUME NEW o \in O, NEW step \in {"asking", "inserting"},
             step = "asking" => c.step = "curriculum" /\ Prerequisite[k] # None,
             enrolling' = [enrolling EXCEPT ![p] = [skip EXCEPT !.offering = o, !.step = step]]
      PROVE  EntryInv'
  <2> DEFINE n == [skip EXCEPT !.offering = o, !.step = step]
  <2>1. /\ n \in Entry!CallRow /\ n.step = step /\ n.request = None /\ n.offering = o
        /\ n.next = c.next /\ n.whole = c.whole /\ n.pass = c.pass
        /\ n.found = c.found /\ n.passed = c.passed /\ n.todo = c.todo \ {k}
    BY <1>1, <1>2, <1>5 DEF Entry!CallRow
  <2>2. enrolling' = [enrolling EXCEPT ![p] = n]
    BY <1>8
  <2> HIDE DEF n
  <2>3. Approval(n)
    BY <2>1 DEF Approval
  <2>4. Pass(n)
    BY <1>2, <1>3, <1>5, <1>8, <2>1 DEF Pass, PassSteps
  <2>5. ASSUME NEW r \in Requests, n.whole, r.semester = n.pass, Reaches(c, r)
        PROVE  Reaches(n, r)
    <3>1. c.next = c.step /\ c.step \in {"curriculum", "retakes"}
      BY <1>2, <1>3, <2>1, <2>5
    <3>2. CASE r.course # k
      BY <1>2, <2>1, <2>5, <3>1, <3>2 DEF Reaches
    <3>3. CASE r.course = k
      BY <1>5, <2>1, <2>5, <3>1, <3>3 DEF Reaches
    <3> QED BY <3>2, <3>3
  <2> QED BY <1>4, <2>1, <2>2, <2>3, <2>4, <2>5, EntryGoesOn
<1>9. CASE Entry!EnrollInCurriculum(p, k)
  <2>1. CASE /\ enrolling' = [enrolling EXCEPT ![p] = skip]
             /\ O = {} \/ k \in c.passed \/ \E o \in O : attempts[o] = "enrolled"
    BY <1>7, <1>9, <2>1
  <2>2. ASSUME NEW o \in O,
               enrolling' = [enrolling EXCEPT ![p] =
                 [skip EXCEPT !.offering = o,
                              !.step = IF Entry!Blocked(p, k) THEN "asking" ELSE "inserting"]]
        PROVE  EntryInv'
    <3> DEFINE step == IF Entry!Blocked(p, k) THEN "asking" ELSE "inserting"
    <3>1. /\ step \in {"asking", "inserting"}
          /\ step = "asking" => c.step = "curriculum" /\ Prerequisite[k] # None
      BY <1>2, <1>9 DEF Entry!Blocked
    <3> HIDE DEF step
    <3> QED BY <1>8, <2>2, <3>1 DEF step
  <2> QED BY <1>9, <2>1, <2>2 DEF Entry!EnrollInCurriculum, Entry!Continue
<1>10. CASE Entry!EnrollInRetake(p, k)
  <2>1. PICK o \in O :
           enrolling' = [enrolling EXCEPT ![p] =
             IF attempts[o] = "enrolled" THEN skip
             ELSE [skip EXCEPT !.step = "inserting", !.offering = o]]
    BY <1>10 DEF Entry!EnrollInRetake, Entry!Continue
  <2>2. CASE attempts[o] = "enrolled"
    BY <1>7, <2>1, <2>2
  <2>3. CASE attempts[o] # "enrolled"
    <3>1. [skip EXCEPT !.step = "inserting", !.offering = o]
          = [skip EXCEPT !.offering = o, !.step = "inserting"]
      BY <1>1 DEF Entry!CallRow
    <3> QED BY <1>8, <2>1, <2>3, <3>1
  <2> QED BY <2>2, <2>3
<1> QED BY <1>9, <1>10

(* The question about a pretake.  What waits for the course is one: behind a *)
(* prerequisite, a retake of the curriculum has no branch.                   *)
LEMMA PretakeAsked ==
  ASSUME Entry!CourseAssumption, EntryInv, Entry!Next, NEW p \in Call, Entry!HasApprovedPretake(p)
  PROVE  EntryInv'
<1> DEFINE c == enrolling[p]
           yes == CourseTaught[c.offering] \in Entry!ApprovedFor("pretake", c.pass)
<1>1. c \in Entry!CallRow /\ Approval(c) /\ Pass(c)
  BY DEF EntryInv, EntryTables
<1>2. c.step = "asking" /\ c.request = None
  BY <1>1 DEF Approval, Entry!HasApprovedPretake, Entry!At
<1>3. /\ c.pass \in Terms /\ c.next \in {"idle", "curriculum", "retakes"}
      /\ c.whole => /\ c.next = "curriculum" /\ \A o \in c.found : Term[o] = c.pass
                    /\ c.offering \in c.found /\ Prerequisite[CourseTaught[c.offering]] # None
  BY <1>1, <1>2, EntryRow DEF Pass, PassSteps
<1>4. UNCHANGED <<status, swept>>
  BY DEF Entry!HasApprovedPretake, Entry!Unchanged
<1>5. CASE yes
  <2> DEFINE n == [c EXCEPT !.step = "inserting"]
  <2>1. enrolling' = [enrolling EXCEPT ![p] = n]
    BY <1>5 DEF Entry!HasApprovedPretake, Entry!Continue
  <2>2. /\ n \in Entry!CallRow /\ n.step = "inserting" /\ n.request = None
        /\ n.offering = c.offering /\ n.next = c.next /\ n.whole = c.whole
        /\ n.pass = c.pass /\ n.found = c.found /\ n.passed = c.passed /\ n.todo = c.todo
    BY <1>1, <1>2 DEF Entry!CallRow
  <2> HIDE DEF n
  <2>3. Approval(n) /\ Pass(n)
    BY <1>3, <2>2 DEF Approval, Pass, PassSteps
  <2>4. ASSUME NEW r \in Requests, n.whole, Reaches(c, r) PROVE Reaches(n, r)
    BY <1>2, <1>3, <2>2, <2>4 DEF Reaches
  <2> QED BY <1>4, <2>1, <2>2, <2>3, <2>4, EntryGoesOn
<1>6. CASE ~ yes
  <2> DEFINE n == [c EXCEPT !.step = "curriculum", !.offering = None]
  <2>1. enrolling' = [enrolling EXCEPT ![p] = n]
    BY <1>6 DEF Entry!HasApprovedPretake, Entry!Continue
  <2>2. /\ n \in Entry!CallRow /\ n.step = "curriculum" /\ n.request = None
        /\ n.next = c.next /\ n.whole = c.whole
        /\ n.pass = c.pass /\ n.found = c.found /\ n.passed = c.passed /\ n.todo = c.todo
    BY <1>1, <1>2 DEF Entry!CallRow
  <2> HIDE DEF n
  <2>3. Approval(n) /\ Pass(n)
    BY <1>3, <2>2 DEF Approval, Pass, PassSteps
  <2>4. ASSUME NEW r \in Requests, n.whole, r.semester = n.pass, ~ Entry!NoBranch(r),
               Waits(r), Reaches(c, r)
        PROVE  Reaches(n, r)
    <3>1. c.next = "curriculum" /\ Prerequisite[CourseTaught[c.offering]] # None
      BY <1>3, <2>2, <2>4
    <3>2. CASE r.course \in Curriculum[n.pass] /\ CourseTaught[c.offering] = r.course
      <4>1. r.type = "pretake"
        BY <2>4, <3>1, <3>2, Branches
      <4>2. r.course \in Entry!ApprovedFor("pretake", c.pass)
        BY <2>2, <2>4, <4>1 DEF Entry!ApprovedFor, Waits
      <4> QED BY <1>6, <3>2, <4>2
    <3>3. CASE ~ (r.course \in Curriculum[n.pass] /\ CourseTaught[c.offering] = r.course)
      BY <1>2, <2>2, <2>4, <3>1, <3>3 DEF Reaches
    <3> QED BY <3>2, <3>3
  <2> QED BY <1>4, <2>1, <2>2, <2>3, <2>4, EntryGoesOn
<1> QED BY <1>5, <1>6

(* The curriculum is done, so what still waits is outside it, and a retake. *)
LEMMA RetakesRead ==
  ASSUME Entry!CourseAssumption, EntryInv, Entry!Next, NEW p \in Call, Entry!GetRetakeRequestInfos(p)
  PROVE  EntryInv'
<1> DEFINE c == enrolling[p]
           todo == (Entry!ApprovedFor("retake", c.pass) \ (Curriculum[c.pass] \cup c.passed))
                   \cap {CourseTaught[o] : o \in c.found}
           n == [c EXCEPT !.step = "retakes", !.next = "retakes", !.todo = todo]
<1>1. c \in Entry!CallRow /\ Approval(c) /\ Pass(c)
  BY DEF EntryInv, EntryTables
<1>2. c.step = "curriculum" /\ c.request = None /\ c.todo = {}
  BY <1>1 DEF Approval, Entry!GetRetakeRequestInfos, Entry!At
<1>3. /\ c.pass \in Terms /\ c.found \in SUBSET Offerings
      /\ c.whole => c.next = "curriculum" /\ \A o \in c.found : Term[o] = c.pass
  BY <1>1, <1>2, EntryRow DEF Pass, PassSteps
<1>4. UNCHANGED <<status, swept>>
  BY DEF Entry!GetRetakeRequestInfos, Entry!Unchanged
<1>5. enrolling' = [enrolling EXCEPT ![p] = n]
  BY DEF Entry!GetRetakeRequestInfos, Entry!Continue
<1>6. todo \in SUBSET Courses
  BY <1>3 DEF Entry!CourseAssumption
<1>7. ASSUME NEW r \in Requests, c.whole, r.semester = c.pass, ~ Entry!NoBranch(r),
             Waits(r), Reaches(c, r)
      PROVE  r.course \in todo
  <2>1. /\ \E o \in c.found : CourseTaught[o] = r.course
        /\ r.course \notin c.passed /\ r.course \notin Curriculum[c.pass]
    BY <1>2, <1>3, <1>7 DEF Reaches
  <2>2. r.type = "retake"
    BY <1>7, <2>1, Branches
  <2>3. r.course \in Entry!ApprovedFor("retake", c.pass)
    BY <1>7, <2>2 DEF Entry!ApprovedFor, Waits
  <2> QED BY <2>1, <2>3
<1> HIDE DEF todo
<1>8. /\ n \in Entry!CallRow /\ n.step = "retakes" /\ n.request = None
      /\ n.next = "retakes" /\ n.whole = c.whole /\ n.pass = c.pass
      /\ n.found = c.found /\ n.todo = todo
  BY <1>1, <1>2, <1>6 DEF Entry!CallRow
<1> HIDE DEF n
<1>9. Approval(n) /\ Pass(n)
  BY <1>3, <1>8 DEF Approval, Pass, PassSteps
<1>10. ASSUME NEW r \in Requests, n.whole, r.semester = n.pass, ~ Entry!NoBranch(r),
              Waits(r), Reaches(c, r)
       PROVE  Reaches(n, r)
  BY <1>7, <1>8, <1>10 DEF Reaches
<1> QED BY <1>4, <1>5, <1>8, <1>9, <1>10, EntryGoesOn

(* The insert of a pass serves what waited for the course it is at. *)
LEMMA PassInserts ==
  ASSUME Entry!CourseAssumption, EntryInv, Entry!Next, NEW p \in Call, Entry!InsertEnrollment(p),
         enrolling[p].next # "idle"
  PROVE  EntryInv'
<1> DEFINE c == enrolling[p]
           n == [c EXCEPT !.step = c.next, !.offering = None]
<1>1. c \in Entry!CallRow /\ Approval(c) /\ Pass(c)
  BY DEF EntryInv, EntryTables
<1>2. c.step = "inserting" /\ c.request = None /\ c.next \in {"curriculum", "retakes"}
  BY <1>1, EntryRow DEF Approval, Entry!InsertEnrollment, Entry!At
<1>3. /\ c.pass \in Terms /\ c.found \in SUBSET Offerings
      /\ c.whole => /\ \A o \in c.found : Term[o] = c.pass
                    /\ c.offering \in c.found
  BY <1>1, <1>2, EntryRow DEF Pass, PassSteps
<1>4. UNCHANGED <<status, swept>>
  BY DEF Entry!InsertEnrollment
<1>5. enrolling' = [enrolling EXCEPT ![p] = n]
  BY <1>2 DEF Entry!InsertEnrollment, Entry!Continue
<1>6. ASSUME NEW r \in Requests, c.whole, r.semester = c.pass, Waits(r)',
             CourseTaught[c.offering] = r.course
      PROVE  FALSE
  <2>1. c.offering \in Offerings /\ Term[c.offering] = r.semester
    BY <1>3, <1>6
  <2>2. attempts'[c.offering] # "none"
    BY <2>1 DEF Entry!InsertEnrollment, Entry!CreateEnrollment, EntryInv, EntryTables
  <2> QED BY <1>6, <2>1, <2>2 DEF Waits, Entry!HasRow
<1>7. /\ n \in Entry!CallRow /\ n.step = c.next /\ n.request = None
      /\ n.next = c.next /\ n.whole = c.whole /\ n.pass = c.pass
      /\ n.found = c.found /\ n.passed = c.passed /\ n.todo = c.todo
  BY <1>1, <1>2 DEF Entry!CallRow
<1> HIDE DEF n
<1>8. Approval(n) /\ Pass(n)
  BY <1>2, <1>3, <1>7 DEF Approval, Pass, PassSteps
<1>9. ASSUME NEW r \in Requests, n.whole, r.semester = n.pass, Waits(r)', Reaches(c, r)
      PROVE  Reaches(n, r)
  <2>1. CourseTaught[c.offering] # r.course
    BY <1>6, <1>7, <1>9
  <2> QED BY <1>2, <1>7, <1>9, <2>1 DEF Reaches
<1> QED BY <1>4, <1>5, <1>7, <1>8, <1>9, EntryGoesOn

(* A pass is through: nothing waits any more that it had a branch for. *)
LEMMA PassReturns ==
  ASSUME Entry!CourseAssumption, EntryInv, Entry!Next, NEW p \in Call, Entry!BulkEnrollReturns(p)
  PROVE  EntryInv'
<1> DEFINE c == enrolling[p]
<1>1. /\ c \in Entry!CallRow /\ Pass(c) /\ Sweeps(c, Begun, Waiting)
      /\ c.step = "retakes" /\ c.todo = {} /\ Entry!Return(p) /\ UNCHANGED status
      /\ swept' = IF c.whole THEN swept \cup {c.pass} ELSE swept
  BY DEF EntryInv, EntryTables, Entry!BulkEnrollReturns, Entry!At, Entry!Unchanged
<1>2. CASE ~ c.whole
  BY <1>1, <1>2, EntryReturns
<1>3. CASE c.whole
  <2>1. swept' = swept \cup {c.pass} /\ c.pass \in Begun /\ c.next = "retakes"
    BY <1>1, <1>3 DEF Sweeps, Pass
  <2>2. swept' \subseteq Begun
    BY <2>1 DEF EntryInv
  <2>3. ASSUME NEW r \in Waiting', r.semester \in swept' \ swept PROVE Entry!NoBranch(r)
    <3>1. r.semester = c.pass /\ r \in Requests /\ Waits(r)'
      BY <2>1, <2>3 DEF Waiting
    <3>2. r \in Waiting
      BY <2>1, <3>1, NothingWaitsLate DEF Waiting, Begun
    <3>3. ~ Reaches(c, r)
      BY <1>1, <2>1 DEF Reaches
    <3> QED BY <1>1, <1>3, <3>1, <3>2, <3>3 DEF Sweeps
  <2>4. /\ enrolling' = [enrolling EXCEPT ![p] = Entry!Idle] /\ Approval(Entry!Idle)
        /\ Pass(Entry!Idle) /\ ~ Entry!Idle.whole /\ Entry!Idle \in Entry!CallRow
    BY <1>1, IdleEntry DEF Entry!Return, Entry!Continue, Approval, Pass, PassSteps
  <2> QED BY <1>1, <2>2, <2>3, <2>4, EntryMoves
<1> QED BY <1>2, <1>3

(* A failing statement ends the call, or takes the pass out of the count. *)
LEMMA EntryFails ==
  ASSUME Entry!CourseAssumption, EntryInv, Entry!Next, NEW p \in Call, Entry!StatementFails(p)
  PROVE  EntryInv'
<1> DEFINE c == enrolling[p]
<1>1. /\ c \in Entry!CallRow /\ Approval(c) /\ Pass(c) /\ UNCHANGED <<status, swept>>
  BY DEF EntryInv, EntryTables, Entry!StatementFails
<1>2. CASE Entry!CallFails(p)
  BY <1>1, <1>2, EntryReturns DEF Entry!CallFails
<1>3. CASE Entry!CourseFails(p)
  <2> DEFINE on == [c EXCEPT !.offering = None, !.whole = FALSE]
  <2>1. c.next # "idle" /\ c.request = None /\ c.pass \in Terms
        /\ c.next \in {"curriculum", "retakes"}
    BY <1>1, <1>3, EntryRow DEF Entry!CourseFails, Approval, Pass
  <2>2. /\ on \in Entry!CallRow /\ on.request = None /\ on.whole = FALSE
        /\ on.pass = c.pass /\ on.step = c.step /\ on.next = c.next
    BY <1>1, <2>1 DEF Entry!CallRow
  <2> HIDE DEF on
  <2>3. ASSUME enrolling' = [enrolling EXCEPT ![p] = [on EXCEPT !.step = c.next]]
        PROVE  EntryInv'
    <3> DEFINE n == [on EXCEPT !.step = c.next]
    <3>1. /\ n \in Entry!CallRow /\ n.request = None /\ n.whole = FALSE
          /\ n.pass = c.pass
      BY <2>1, <2>2 DEF Entry!CallRow
    <3>2. enrolling' = [enrolling EXCEPT ![p] = n]
      BY <2>3
    <3> HIDE DEF n
    <3>3. Approval(n) /\ Pass(n)
      BY <2>1, <3>1 DEF Approval, Pass
    <3> QED BY <1>1, <3>1, <3>2, <3>3, EntryGoesOn
  <2>4. ASSUME NEW k \in c.todo,
               enrolling' = [enrolling EXCEPT ![p] = [on EXCEPT !.todo = @ \ {k}]]
        PROVE  EntryInv'
    <3> DEFINE n == [on EXCEPT !.todo = @ \ {k}]
    <3>1. /\ n \in Entry!CallRow /\ n.request = None /\ n.whole = FALSE
          /\ n.pass = c.pass
      BY <2>1, <2>2 DEF Entry!CallRow
    <3>2. enrolling' = [enrolling EXCEPT ![p] = n]
      BY <2>4
    <3> HIDE DEF n
    <3>3. Approval(n) /\ Pass(n)
      BY <2>1, <3>1 DEF Approval, Pass
    <3> QED BY <1>1, <3>1, <3>2, <3>3, EntryGoesOn
  <2> QED
    BY <1>3, <2>3, <2>4 DEF Entry!CourseFails, Entry!Continue, on
<1> QED BY <1>2, <1>3 DEF Entry!StatementFails

(* A step beside the calls: nothing begins to wait late, nothing ends a semester's *)
(* being begun.                                                                    *)
LEMMA BesideEntry ==
  ASSUME Entry!CourseAssumption, EntryInv, [Entry!Next]_(Entry!vars),
         UNCHANGED <<enrolling, swept>>,
         status' \in [Terms -> Entry!SemesterStatus],
         \A s \in Terms : status[s] # "upcoming" => status'[s] # "upcoming"
  PROVE  EntryInv'
<1>1. EntryTables'
  BY RowsStay, RequestsStep DEF EntryInv, EntryTables
<1>2. Begun \subseteq Begun'
  BY DEF Begun
<1>3. ASSUME NEW r \in Waiting', r.semester \in Begun PROVE r \in Waiting
  BY <1>3, NothingWaitsLate DEF Waiting, Begun
<1>4. ASSUME NEW q \in Call
      PROVE  /\ Approval(enrolling'[q]) /\ Pass(enrolling'[q])
             /\ Sweeps(enrolling'[q], Begun', Waiting')
  BY <1>2, <1>3 DEF EntryInv, Sweeps
<1>5. swept' \subseteq Begun' /\ \A r \in Waiting' : r.semester \in swept' => Entry!NoBranch(r)
  BY <1>2, <1>3 DEF EntryInv
<1> QED BY <1>1, <1>4, <1>5 DEF EntryInv

LEMMA EntryInitially ==
  ASSUME Entry!StatusAssumption, Entry!CourseAssumption, Entry!Init
  PROVE  EntryInv
<1>1. /\ status = InitialStatus /\ attempts \in [Offerings -> Graded \cup {"none"}]
      /\ request = [r \in Requests |-> "none"] /\ enrolling = [p \in Call |-> Entry!Idle]
      /\ swept = {}
  BY DEF Entry!Init
<1>2. Graded \cup {"none"} \subseteq Entry!EnrollmentStatus
  BY DEF Entry!CourseAssumption, Entry!EnrollmentStatus
<1>3. EntryTables
  BY <1>1, <1>2, IdleEntry DEF EntryTables, Entry!StatusAssumption
<1>4. \A p \in Call : /\ Approval(enrolling[p]) /\ Pass(enrolling[p])
                      /\ Sweeps(enrolling[p], Begun, Waiting)
  BY <1>1, IdleEntry DEF Approval, Pass, PassSteps, Sweeps
<1>5. Waiting = {}
  BY <1>1 DEF Waiting, Waits
<1> QED BY <1>1, <1>3, <1>4, <1>5 DEF EntryInv

LEMMA EntryStep ==
  ASSUME Entry!CourseAssumption, EntryInv, [Entry!Next]_(Entry!vars)
  PROVE  EntryInv'
<1>1. CASE UNCHANGED Entry!vars
  <2>1. UNCHANGED <<enrolling, swept, status>>
    BY <1>1 DEF Entry!vars
  <2> QED BY <2>1, BesideEntry DEF EntryInv, EntryTables
<1>2. ASSUME Entry!Next, NEW p \in Call, Entry!CallStep(p) PROVE EntryInv'
  <2>1. CASE \/ \E r \in Requests : Entry!ReadStanding(p, r) \/ Entry!ApproveRequest(p, r)
             \/ \E o \in Offerings : Entry!EnrollStudent(p, o)
             \/ \E s \in Terms : Entry!GetSemester(p, s)
    BY <1>2, <2>1, EntryBegins
  <2>2. CASE \/ Entry!CreateRequest(p) \/ Entry!IsSemesterActive(p)
             \/ Entry!GetOfferingIDForEnrollment(p) \/ Entry!OfferingExists(p)
    BY <1>2, <2>2, ApprovalMoves
  <2>3. CASE Entry!InsertEnrollment(p)
    BY <1>2, <2>3, ApprovalMoves, PassInserts
  <2>4. CASE \/ Entry!GetActiveStudents(p) \/ Entry!GetOfferingsInfoBySemester(p)
             \/ Entry!GetPassedCourseIDs(p)
    BY <1>2, <2>4, PassReads
  <2>5. CASE \E k \in Courses : Entry!EnrollInCurriculum(p, k) \/ Entry!EnrollInRetake(p, k)
    BY <1>2, <2>5, CourseTaken
  <2>6. CASE Entry!HasApprovedPretake(p)
    BY <1>2, <2>6, PretakeAsked
  <2>7. CASE Entry!GetRetakeRequestInfos(p)
    BY <1>2, <2>7, RetakesRead
  <2>8. CASE Entry!BulkEnrollReturns(p)
    BY <1>2, <2>8, PassReturns
  <2>9. CASE Entry!StatementFails(p)
    BY <1>2, <2>9, EntryFails
  <2> QED
    BY <1>2, <2>1, <2>2, <2>3, <2>4, <2>5, <2>6, <2>7, <2>8, <2>9 DEF Entry!CallStep
<1>3. ASSUME UNCHANGED <<enrolling, swept, status>> PROVE EntryInv'
  BY <1>3, BesideEntry DEF EntryInv, EntryTables
<1>4. ASSUME NEW r \in Requests, Entry!RejectRequest(r) PROVE EntryInv'
  BY <1>3, <1>4 DEF Entry!RejectRequest
<1>5. ASSUME NEW o \in Offerings,
             Entry!CreateOffering(o) \/ Entry!DeleteOffering(o) \/ Entry!OtherWriter(o)
      PROVE  EntryInv'
  BY <1>3, <1>5 DEF Entry!CreateOffering, Entry!DeleteOffering, Entry!OtherWriter
<1>6. ASSUME NEW s \in Terms, Entry!UpdateStatus(s) PROVE EntryInv'
  <2>1. UNCHANGED <<enrolling, swept>>
    BY <1>6 DEF Entry!UpdateStatus
  <2>2. /\ status' \in [Terms -> Entry!SemesterStatus]
        /\ \A t \in Terms : status[t] # "upcoming" => status'[t] # "upcoming"
    BY <1>6 DEF Entry!UpdateStatus, EntryInv, EntryTables, Entry!SemesterStatus
  <2> QED BY <2>1, <2>2, BesideEntry
<1>7. CASE Entry!UpdateStudent
  BY <1>3, <1>7 DEF Entry!UpdateStudent
<1> QED BY <1>1, <1>2, <1>4, <1>5, <1>6, <1>7 DEF Entry!Next

(* After a bulk enrollment over the active semester that met no error, every *)
(* approved request whose approval has returned has its enrollment, unless   *)
(* somebody looked at it and had a reason to skip it, for any number of      *)
(* courses, requests, approvals and passes (enrollment_request.go:335-337).  *)
THEOREM SweptAlwaysServed == Entry!Spec => []SweptIsServed
<1>1. Entry!Init => EntryInv
  BY EntryAssumption, EntryInitially
<1>2. EntryInv /\ [Entry!Next]_(Entry!vars) => EntryInv'
  BY EntryAssumption, EntryStep
<1>3. EntryInv => SweptIsServed
  BY DEF EntryInv, Waiting, Waits, SweptIsServed, Entry!SweptIsServed
<1> QED BY <1>1, <1>2, <1>3, PTL DEF Entry!Spec
=============================================================================
