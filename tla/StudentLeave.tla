---------------------------- MODULE StudentLeave ----------------------------
(***************************************************************************)
(* Leaves of one student (internal/management/leave.go): a request, its    *)
(* approval, which withdraws the covered enrollments and puts the student  *)
(* on leave, and its end, which reactivates the student.                   *)
(*                                                                         *)
(* A leave call is several statements without a transaction, each of them  *)
(* a step, and one that fails leaves those before it done.  Beside them    *)
(* run edits of the student row, compare-and-swap with retries, and every  *)
(* other writer of the student's enrollments, at any moment.               *)
(***************************************************************************)
EXTENDS EnrollmentTable, Naturals

CONSTANTS
    Leave,             \* the uuids a leave can get
    Call,              \* the calls in flight
    maxUpdateRetries,  \* rounds of UpdateStudent
    MaxFaults,         \* bound on the statements that fail
    None

ASSUME RetryAssumption == maxUpdateRetries \in Nat \ {0}
ASSUME FaultAssumption == MaxFaults \in Nat

\* "suspended" stands for withdrawn and graduated too: no leave touches those.
StudentStatus == {"active", "on_leave", "suspended"}

ASSUME NoneAssumption == None \notin Leave \cup StudentStatus

VARIABLES
    student,      \* students.status
    leave,        \* student_leaves with leave_semesters
    call,         \* the local state of each call
    faults,
    slipped,      \* history: offerings that became enrolled while an approved
                  \* leave covered their semester, and were not withdrawn since
    late,         \* history: semesters a leave covers since after its approval
                  \* had read them
    disturbance   \* history: what else befell the student's status

vars == <<enrollment, student, leave, call, faults, slipped, late, disturbance>>

LeaveRow ==
    [state : {"none", "requested", "approved"}, open : BOOLEAN, long : BOOLEAN,
     covers : SUBSET Semester]

(* "patched": an edit set the status.  "crossed": a leave was ended while it *)
(* was being approved, or one approved while another's end was under way.    *)
(* "broken": a leave call failed after its first statement.                  *)
Disturbance == {"patched", "crossed", "broken"}

CallRow ==
    [step : {"idle", "covering", "reading", "withdrawing", "leaving",
             "reactivating", "editing"},
     leave : Leave \cup {None}, covers : SUBSET Semester,
     patch : StudentStatus \cup {None}, copy : StudentStatus, fresh : BOOLEAN,
     tries : 0 .. maxUpdateRetries]

LeaveCall(step, l, covers) ==
    [step |-> step, leave |-> l, covers |-> covers, patch |-> None,
     copy |-> "active", fresh |-> FALSE, tries |-> 0]

Idle == LeaveCall("idle", None, {})

Onward(c, step, covers) == [c EXCEPT !.step = step, !.covers = covers]

\* The row as read, with the patch laid over it: a new status, or another column.
Edit(patch, tries) ==
    [step |-> "editing", leave |-> None, covers |-> {}, patch |-> patch,
     copy |-> IF patch = None THEN student ELSE patch, fresh |-> TRUE, tries |-> tries]
Stale(c) == [c EXCEPT !.fresh = FALSE]

At(p, step) == call[p].step = step
Continue(p, c) == call' = [call EXCEPT ![p] = c]
Return(p) == Continue(p, Idle)

LeaveSteps == {"covering", "reading", "withdrawing", "leaving", "reactivating"}

\* The approval of a leave has been recorded and is still being acted on.
Approving(p, l) ==
    call[p].leave = l /\ call[p].step \in {"reading", "withdrawing", "leaving"}
Ending(p) == At(p, "reactivating")

\* An approved leave that moves the student: LeaveWithdrawsEnrollments.
InForce(l) == leave[l].state = "approved" /\ leave[l].open /\ leave[l].long

\* The columns keep their types, at most one leave is open, and a call holds
\* the leave it is about: the open one as long as it has not been ended.
TypeOK ==
    /\ enrollment \in [Offering -> EnrollmentStatus]
    /\ student \in StudentStatus
    /\ leave \in [Leave -> LeaveRow]
    /\ call \in [Call -> CallRow]
    /\ faults \in 0 .. MaxFaults
    /\ slipped \subseteq Offering
    /\ late \subseteq Leave \X Semester
    /\ disturbance \subseteq Disturbance
    /\ \A p \in Call : call[p].step \in LeaveSteps => call[p].leave \in Leave
    /\ \A l, k \in Leave : leave[l].open /\ leave[k].open => l = k

Init ==
    /\ enrollment \in [Offering -> {"none", "enrolled"}]
    /\ student = "active"
    /\ leave = [l \in Leave |->
          [state |-> "none", open |-> FALSE, long |-> FALSE, covers |-> {}]]
    /\ call = [p \in Call |-> Idle]
    /\ faults = 0
    /\ slipped = {} /\ late = {} /\ disturbance = {}

-----------------------------------------------------------------------------
(* The student row. *)

(* A write bumps the version: what the other calls have read is stale. *)
WriteStatus(p, status) ==
    /\ student' = status
    /\ call' = [q \in Call |-> IF q = p THEN Idle ELSE Stale(call[q])]

(* UPDATE .. WHERE status = from; a miss is no error. *)
SetStudentStatus(p, from, to) ==
    IF student = from THEN WriteStatus(p, to)
    ELSE Return(p) /\ UNCHANGED student

(* GetStudent, and the patch. *)
ReadStudent(p, patch) ==
    /\ At(p, "idle")
    /\ Continue(p, Edit(patch, 1))
    /\ UNCHANGED <<enrollment, student, leave, faults, slipped, late, disturbance>>

NotePatch(p) ==
    disturbance' = IF call[p].patch = None THEN disturbance
                   ELSE disturbance \cup {"patched"}

(* Mutant: the last writer wins. *)
UpdateBlindly(p) ==
    /\ At(p, "editing")
    /\ WriteStatus(p, call[p].copy) /\ NotePatch(p)
    /\ UNCHANGED <<enrollment, leave, faults, slipped, late>>

(* WHERE version = $7; a conflict reads again, up to maxUpdateRetries rounds. *)
UpdateStudent(p) ==
    /\ At(p, "editing")
    /\ \/ /\ call[p].fresh
          /\ WriteStatus(p, call[p].copy) /\ NotePatch(p)
       \/ /\ ~call[p].fresh
          /\ IF call[p].tries < maxUpdateRetries
             THEN Continue(p, Edit(call[p].patch, call[p].tries + 1))
             ELSE Return(p)
          /\ UNCHANGED <<student, disturbance>>
    /\ UNCHANGED <<enrollment, leave, faults, slipped, late>>

-----------------------------------------------------------------------------
(* RequestLeave. *)

(* Mutant: no index keeps a second leave from being opened. *)
CreateBeside(p, l, long, covers) ==
    /\ At(p, "idle")
    /\ leave[l].state = "none"
    /\ leave' = [leave EXCEPT ![l] =
          [state |-> "requested", open |-> TRUE, long |-> long, covers |-> {}]]
    /\ Continue(p, LeaveCall("covering", l, covers))
    /\ UNCHANGED <<enrollment, student, faults, slipped, late, disturbance>>

(* The partial unique index allows one open leave of a student. *)
CreateLeave(p, l, long, covers) ==
    /\ At(p, "idle")
    /\ leave[l].state = "none" /\ \A k \in Leave : ~leave[k].open
    /\ leave' = [leave EXCEPT ![l] =
          [state |-> "requested", open |-> TRUE, long |-> long, covers |-> {}]]
    /\ Continue(p, LeaveCall("covering", l, covers))
    /\ UNCHANGED <<enrollment, student, faults, slipped, late, disturbance>>

(* One INSERT for each semester; nothing tells an approver that more follow. *)
AddLeaveSemester(p, s) ==
    LET l == call[p].leave
    IN  /\ At(p, "covering") /\ s \in call[p].covers
        /\ leave' = [leave EXCEPT ![l].covers = @ \cup {s}]
        /\ Continue(p, Onward(call[p], "covering", call[p].covers \ {s}))
        /\ late' = IF leave[l].state = "approved"
                      /\ ~\E q \in Call : call[q].leave = l /\ At(q, "reading")
                   THEN late \cup {<<l, s>>} ELSE late
        /\ UNCHANGED <<enrollment, student, faults, slipped, disturbance>>

RequestReturns(p) ==
    /\ At(p, "covering") /\ call[p].covers = {}
    /\ Return(p)
    /\ UNCHANGED <<enrollment, student, leave, faults, slipped, late, disturbance>>

-----------------------------------------------------------------------------
(* ApproveLeave. *)

(* Mutant: a leave is approved again, or after it was ended. *)
ApproveAnyLeave(p, l) ==
    /\ At(p, "idle") /\ leave[l].state # "none"
    /\ leave' = [leave EXCEPT ![l].state = "approved"]
    /\ Continue(p, LeaveCall("reading", l, {}))
    /\ disturbance' = IF \E q \in Call : Ending(q)
                      THEN disturbance \cup {"crossed"} ELSE disturbance
    /\ UNCHANGED <<enrollment, student, faults, slipped, late>>

(* WHERE approved_at IS NULL AND closed_at IS NULL. *)
ApproveLeave(p, l) ==
    /\ At(p, "idle")
    /\ leave[l].state = "requested" /\ leave[l].open
    /\ leave' = [leave EXCEPT ![l].state = "approved"]
    /\ Continue(p, LeaveCall("reading", l, {}))
    /\ disturbance' = IF \E q \in Call : Ending(q)
                      THEN disturbance \cup {"crossed"} ELSE disturbance
    /\ UNCHANGED <<enrollment, student, faults, slipped, late>>

(* A short leave ends here; one without semesters withdraws nothing. *)
GetLeaveSemesters(p) ==
    LET l == call[p].leave
    IN  /\ At(p, "reading")
        /\ IF ~leave[l].long THEN Return(p)
           ELSE Continue(p, Onward(call[p],
                    IF leave[l].covers = {} THEN "leaving" ELSE "withdrawing",
                    leave[l].covers))
        /\ UNCHANGED <<enrollment, student, leave, faults, slipped, late, disturbance>>

WithdrawEnrollments(p) ==
    /\ At(p, "withdrawing")
    /\ WithdrawEnrollmentsForLeave(call[p].covers)
    /\ slipped' = {o \in slipped : enrollment'[o] = "enrolled"}
    /\ Continue(p, Onward(call[p], "leaving", {}))
    /\ UNCHANGED <<student, leave, faults, late, disturbance>>

SetOnLeave(p) ==
    /\ At(p, "leaving")
    /\ SetStudentStatus(p, "active", "on_leave")
    /\ UNCHANGED <<enrollment, leave, faults, slipped, late, disturbance>>

-----------------------------------------------------------------------------
(* EndLeave. *)

(* WHERE closed_at IS NULL: any open leave, approved or not. *)
EndLeave(p, l) ==
    /\ At(p, "idle") /\ leave[l].open
    /\ leave' = [leave EXCEPT ![l].open = FALSE]
    /\ Continue(p, LeaveCall("reactivating", l, {}))
    /\ disturbance' = IF \E q \in Call : Approving(q, l)
                      THEN disturbance \cup {"crossed"} ELSE disturbance
    /\ UNCHANGED <<enrollment, student, faults, slipped, late>>

Reactivate(p) ==
    /\ At(p, "reactivating")
    /\ SetStudentStatus(p, "on_leave", "active")
    /\ UNCHANGED <<enrollment, leave, faults, slipped, late, disturbance>>

(* A statement of a leave call fails and the call returns the error.  One of *)
(* an edit that fails is as if the edit had not been made.                   *)
StatementFails(p) ==
    /\ call[p].step \in LeaveSteps /\ faults < MaxFaults
    /\ faults' = faults + 1
    /\ disturbance' = disturbance \cup {"broken"}
    /\ Return(p)
    /\ UNCHANGED <<enrollment, student, leave, slipped, late>>

-----------------------------------------------------------------------------
(* The other writers of the enrollments: enroll, bulk-enroll and approved  *)
(* requests, drops, finalized and reopened grades.                         *)
OtherWriter(o) ==
    /\ \/ CreateEnrollment(o)
       \/ DropEnrollment(o)
       \/ \E outcome \in {"completed", "failed"} : SetFinalGrade(o, outcome)
       \/ ClearFinalGrades(o)
    /\ slipped' = IF /\ enrollment[o] # "enrolled" /\ enrollment'[o] = "enrolled"
                     /\ \E l \in Leave : InForce(l) /\ SemesterOf[o] \in leave[l].covers
                  THEN slipped \cup {o} ELSE slipped
    /\ UNCHANGED <<student, leave, call, faults, late, disturbance>>

CallStep(p) ==
    \/ \E patch \in StudentStatus \cup {None} : ReadStudent(p, patch)
    \/ UpdateStudent(p)
    \/ \E l \in Leave, long \in BOOLEAN, covers \in SUBSET Semester :
          CreateLeave(p, l, long, covers)
    \/ \E s \in Semester : AddLeaveSemester(p, s)
    \/ RequestReturns(p)
    \/ \E l \in Leave : ApproveLeave(p, l) \/ EndLeave(p, l)
    \/ GetLeaveSemesters(p)
    \/ WithdrawEnrollments(p)
    \/ SetOnLeave(p)
    \/ Reactivate(p)
    \/ StatementFails(p)

Next ==
    \/ \E p \in Call : CallStep(p)
    \/ \E o \in Offering : OtherWriter(o)

Spec == Init /\ [][Next]_vars

-----------------------------------------------------------------------------
(* A leave that is in force and acted on has done what leave.go:24 says:   *)
(* its semesters hold no enrollment but those that slipped in behind it,   *)
(* and the student is on leave, unless something else set the status.      *)
LeaveTakesEffect ==
    \A l \in Leave :
        InForce(l) /\ "broken" \notin disturbance /\ (\A p \in Call : ~Approving(p, l)) =>
            /\ \A o \in Offering :
                  /\ enrollment[o] = "enrolled" /\ SemesterOf[o] \in leave[l].covers
                  /\ <<l, SemesterOf[o]>> \notin late
                  => o \in slipped
            /\ student = "on_leave" \/ disturbance \cap {"patched", "crossed"} # {}

(* Nobody stays on leave without one (leave.go:180-191): a student on leave  *)
(* holds a leave in force, or its end is just being acted on.                *)
OnLeaveHasLeave ==
    student = "on_leave" /\ disturbance = {} =>
        \/ \E l \in Leave : InForce(l)
        \/ \E p \in Call : Ending(p)

(* Leaves and the student's records agree, in both directions (leave.go).  *)
LeavesAndRecordsAgree == LeaveTakesEffect /\ OnLeaveHasLeave

(* What a comment says: an approval is acted on, or its error reaches the  *)
(* caller instead of leaving "an approved leave the system did not act on" *)
(* (leave.go:152-155).                                                     *)
ApprovedIsActedOn ==
    \A l \in Leave : InForce(l) /\ "patched" \notin disturbance =>
        student = "on_leave" \/ \E p \in Call : Approving(p, l)
=============================================================================
