------------------------- MODULE SemesterEndProofs -------------------------
(***************************************************************************)
(* Theorems about SemesterEnd: the types, that calls on the row serialize, *)
(* that an archived semester stays archived and a successful EndSemester   *)
(* leaves one, that finalizes of an offering agree, and that progression   *)
(* moves each student once and wholly.  They hold for any number of        *)
(* concurrent calls, retries, offerings and students.  And about the       *)
(* cohort groups of who is held back (CohortGroups, in MCSemesterEnd).     *)
(***************************************************************************)
EXTENDS MCSemesterEnd, FiniteSetTheorems, TLAPS

(* The fields a call carries are those of its kind. *)
LEMMA OperationFields ==
    ASSUME NEW op \in Operation
    PROVE  /\ op.call = "updateStatus" => op.to \in SemesterStatus
           /\ op.call = "update" => op.passThreshold \in Nat
           /\ op.call = "override" => op.student \in Student
           /\ op.call = "updateStudent" => op.student \in Student /\ op.cohort \in Nat
BY OperationAssumption DEF Operations

(* The local state a call starts from has the type. *)
LEMMA IdleTyped == IdleRequest \in RequestState
<1>1. NoRow \in SemesterRow
  BY DEF NoRow, SemesterRow, SemesterStatus, SemesterType
<1>2. "idle" \in RequestPc /\ "none" \in Result
  BY DEF RequestPc, Result
<1>3. 0 \in 0 .. MaxUpdateRetries - 1
  BY BoundAssumption
<1> QED BY <1>1, <1>2, <1>3, InitialAssumption DEF IdleRequest, RequestState

(* Storing a local state of the type keeps the type. *)
LEMMA ContinueTyped ==
    ASSUME req \in [Request -> RequestState], NEW r \in Request,
           NEW n \in RequestState, Continue(r, n)
    PROVE  req' \in [Request -> RequestState]
BY DEF Continue

(* So does the end of a call with any result. *)
LEMMA FinishTyped ==
    ASSUME req \in [Request -> RequestState], NEW r \in Request,
           NEW result \in Result, Finish(r, result)
    PROVE  req' \in [Request -> RequestState]
<1> DEFINE n == [IdleRequest EXCEPT !.pc = "done", !.op = req[r].op, !.result = result]
<1>1. "done" \in RequestPc
  BY DEF RequestPc
<1>2. req[r].op \in Operation \cup {None}
  BY DEF RequestState
<1>3. n \in RequestState
  BY <1>1, <1>2, IdleTyped DEF RequestState
<1>4. Continue(r, n)
  BY DEF Finish
<1> HIDE DEF n
<1> QED BY <1>3, <1>4, ContinueTyped

(* And a move to another statement. *)
LEMMA GotoTyped ==
    ASSUME req \in [Request -> RequestState], NEW r \in Request,
           NEW pc \in RequestPc, Goto(r, pc)
    PROVE  req' \in [Request -> RequestState]
<1> DEFINE n == [req[r] EXCEPT !.pc = pc]
<1>1. n \in RequestState
  BY DEF RequestState
<1>2. Continue(r, n)
  BY DEF Goto
<1> HIDE DEF n
<1> QED BY <1>1, <1>2, ContinueTyped

(* The tables' part of the type invariant, and the requests'. *)
TablesOK ==
    /\ semester \in SemesterRow
    /\ student \in [Student -> StudentRow]
    /\ enrollment \in [Offering -> [Student -> {"none", "enrolled"} \cup Outcomes]]
    /\ cohortHistory \in [Student -> Seq([from : Nat, to : Nat])]
    /\ cohortGroups \in [Student -> Nat]

HistoryOK == overlapped \in BOOLEAN /\ failures \in SUBSET Student

RequestsOK == req \in [Request -> RequestState]

LEMMA TypeParts == TypeOK <=> TablesOK /\ HistoryOK /\ RequestsOK
BY DEF TypeOK, TablesOK, HistoryOK, RequestsOK

LEMMA SameTables ==
    ASSUME TablesOK, UNCHANGED tables
    PROVE  TablesOK'
BY DEF TablesOK, tables

LEMMA SameHistory ==
    ASSUME HistoryOK, UNCHANGED history
    PROVE  HistoryOK'
BY DEF HistoryOK, history

LEMMA InitTyped == Init => TypeOK
<1> SUFFICES ASSUME Init PROVE TypeOK
  OBVIOUS
<1>1. semester \in SemesterRow /\ student \in [Student -> StudentRow]
  BY InitialAssumption DEF Init
<1>2. enrollment \in [Offering -> [Student -> {"none", "enrolled"} \cup Outcomes]]
  BY DEF Init, PassStatus, Outcomes
<1>3. cohortHistory \in [Student -> Seq([from : Nat, to : Nat])]
  BY DEF Init
<1>4. cohortGroups \in [Student -> Nat]
  BY InitialAssumption DEF Init, StudentRow
<1>5. req \in [Request -> RequestState]
  BY IdleTyped DEF Init
<1> QED BY <1>1, <1>2, <1>3, <1>4, <1>5 DEF Init, TypeOK

-----------------------------------------------------------------------------
(* Type correctness.  A request that runs has a call, and a student while it *)
(* processes one: without them the types of the row an Update writes and of  *)
(* the failures counted are not inductive.                                   *)

ProcessingPc == {"promote", "repeat", "remain", "record", "regroup"}

HasCall == \A r \in Request : /\ req[r].pc # "idle" => req[r].op \in Operation
                              /\ req[r].pc \in ProcessingPc => req[r].current \in Student

TypeInv == TypeOK /\ HasCall

(* A step of one running request leaves every request with its call. *)
LEMMA KeepsCall ==
    ASSUME TypeInv, NEW r \in Request, req[r].pc # "idle", NEW n,
           Continue(r, n), n.op = req[r].op, n.pc \in ProcessingPc => n.current \in Student
    PROVE  HasCall'
<1>1. req'[r] = n /\ \A q \in Request \ {r} : req'[q] = req[q]
  BY DEF Continue, TypeInv, TypeOK
<1> QED BY <1>1 DEF HasCall, TypeInv

LEMMA GotoKeepsCall ==
    ASSUME TypeInv, NEW r \in Request, req[r].pc # "idle", NEW pc, Goto(r, pc),
           pc \in ProcessingPc => req[r].current \in Student
    PROVE  HasCall'
<1> DEFINE n == [req[r] EXCEPT !.pc = pc]
<1>1. n.op = req[r].op /\ n.pc = pc /\ n.current = req[r].current
  BY DEF TypeInv, TypeOK, RequestState
<1>2. Continue(r, n)
  BY DEF Goto
<1> HIDE DEF n
<1> QED BY <1>1, <1>2, KeepsCall

LEMMA FinishKeepsCall ==
    ASSUME TypeInv, NEW r \in Request, req[r].pc # "idle", NEW result, Finish(r, result)
    PROVE  HasCall'
<1> DEFINE n == [IdleRequest EXCEPT !.pc = "done", !.op = req[r].op, !.result = result]
<1>1. n.op = req[r].op /\ n.pc \notin ProcessingPc
  BY DEF IdleRequest, ProcessingPc
<1>2. Continue(r, n)
  BY DEF Finish
<1> HIDE DEF n
<1> QED BY <1>1, <1>2, KeepsCall

(* What the three ways to move a request on establish. *)
LocalOK == RequestsOK /\ HasCall

LEMMA FinishOK ==
    ASSUME TypeInv, NEW r \in Request, req[r].pc # "idle", NEW result \in Result,
           Finish(r, result)
    PROVE  LocalOK'
BY FinishTyped, FinishKeepsCall DEF LocalOK, RequestsOK, TypeInv, TypeOK

LEMMA GotoOK ==
    ASSUME TypeInv, NEW r \in Request, req[r].pc # "idle", NEW pc \in RequestPc, Goto(r, pc),
           pc \in ProcessingPc => req[r].current \in Student
    PROVE  LocalOK'
BY GotoTyped, GotoKeepsCall DEF LocalOK, RequestsOK, TypeInv, TypeOK

LEMMA ContinueOK ==
    ASSUME TypeInv, NEW r \in Request, req[r].pc # "idle", NEW n \in RequestState,
           n.op = req[r].op, n.pc \in ProcessingPc => n.current \in Student, Continue(r, n)
    PROVE  LocalOK'
BY ContinueTyped, KeepsCall DEF LocalOK, RequestsOK, TypeInv, TypeOK

LEMMA InvParts == TypeInv <=> TablesOK /\ HistoryOK /\ LocalOK
BY TypeParts DEF TypeInv, LocalOK

(* A step that writes no table. *)
LEMMA LocalStep ==
    ASSUME TypeInv, LocalOK', UNCHANGED <<tables, history>>
    PROVE  TypeInv'
<1>1. TablesOK' /\ HistoryOK'
  BY InvParts, SameTables, SameHistory
<1> QED BY <1>1 DEF TypeInv, TypeOK, LocalOK, RequestsOK, TablesOK, HistoryOK

LEMMA Names ==
    /\ {"read", "write", "done", "count", "students", "progress", "promote", "repeat",
        "remain", "record", "regroup", "refresh", "finalized", "threshold", "enrolled",
        "grade", "clear"} \subseteq RequestPc
    /\ {"ok", "refused", "not_found", "conflict", "failed"} \subseteq Result
BY DEF RequestPc, Result

LEMMA StartTyped ==
    ASSUME TypeInv, NEW r \in Request, NEW op \in Operation, Start(r, op)
    PROVE  TypeInv'
<1> DEFINE n == [IdleRequest EXCEPT !.pc = "read", !.op = op]
<1>1. n \in RequestState /\ n.op = op /\ n.pc \notin ProcessingPc
  BY IdleTyped, Names DEF RequestState, ProcessingPc
<1>2. Continue(r, n)
  BY DEF Start
<1> HIDE DEF n
<1>3. RequestsOK'
  BY <1>1, <1>2, ContinueTyped DEF RequestsOK, TypeInv, TypeOK
<1>4. HasCall'
  <2>1. req'[r] = n /\ \A q \in Request \ {r} : req'[q] = req[q]
    BY <1>2 DEF Continue, TypeInv, TypeOK
  <2> QED BY <2>1, <1>1 DEF HasCall, TypeInv
<1> QED BY <1>3, <1>4, LocalStep DEF Start, LocalOK

LEMMA FailTyped ==
    ASSUME TypeInv, NEW r \in Request, Fail(r)
    PROVE  TypeInv'
<1>1. LocalOK'
  BY FinishOK, Names DEF Fail, Running
<1> QED BY <1>1, LocalStep DEF Fail

(* The row a lifecycle call read has the type, and so has the one it writes. *)
LEMMA PatchTyped ==
    ASSUME NEW op \in Operation, op.call \in WritesSemester, NEW row \in SemesterRow
    PROVE  /\ Patched(op, row) \in SemesterRow
           /\ Patched(op, row).version = row.version
<1>1. {"grading", "archived"} \subseteq SemesterStatus
  BY DEF SemesterStatus
<1>2. CASE op.call = "updateStatus"
  BY <1>2, OperationFields DEF Patched, SemesterRow
<1>3. CASE op.call = "definalize"
  BY <1>1, <1>3 DEF Patched, SemesterRow
<1>4. CASE op.call = "end"
  BY <1>1, <1>4 DEF Patched, SemesterRow
<1>5. CASE op.call = "update"
  BY <1>5, OperationFields DEF Patched, SemesterRow
<1> QED BY <1>2, <1>3, <1>4, <1>5 DEF WritesSemester

LEMMA ReadSemesterTyped ==
    ASSUME TypeInv, NEW r \in Request, ReadSemester(r)
    PROVE  TypeInv'
<1>1. LocalOK'
  <2>1. CASE semester.deleted /\ Finish(r, "not_found")
    BY <2>1, FinishOK, Names DEF ReadSemester, At
  <2>2. CASE Finish(r, "refused")
    BY <2>2, FinishOK, Names DEF ReadSemester, At
  <2>3. ASSUME NEW pc \in RequestPc, pc \notin ProcessingPc,
               Continue(r, [req[r] EXCEPT !.row = semester, !.pc = pc])
        PROVE  LocalOK'
    <3> DEFINE n == [req[r] EXCEPT !.row = semester, !.pc = pc]
    <3>1. n \in RequestState /\ n.op = req[r].op /\ n.pc \notin ProcessingPc
      BY <2>3 DEF TypeInv, TypeOK, RequestState
    <3>2. Continue(r, n)
      BY <2>3
    <3> HIDE DEF n
    <3> QED BY <3>1, <3>2, ContinueOK DEF ReadSemester, At
  <2>4. CASE Continue(r, [req[r] EXCEPT !.row = semester,
                 !.pc = IF Calls(r, {"end"}) THEN "count" ELSE "write"])
    BY <2>3, <2>4, Names DEF ProcessingPc
  <2> QED BY <2>1, <2>2, <2>4 DEF ReadSemester
<1>2. TablesOK'
  BY InvParts, SameTables DEF ReadSemester
<1>3. HistoryOK'
  BY InvParts DEF ReadSemester, HistoryOK
<1> QED BY <1>1, <1>2, <1>3 DEF TypeInv, TypeOK, LocalOK, RequestsOK, TablesOK, HistoryOK

(* Lemma for a step that writes tables: their new values have their types. *)
LEMMA TableStep ==
    ASSUME TypeInv, LocalOK', TablesOK', UNCHANGED history
    PROVE  TypeInv'
<1>1. HistoryOK'
  BY InvParts, SameHistory
<1> QED BY <1>1 DEF TypeInv, TypeOK, LocalOK, RequestsOK, TablesOK, HistoryOK

(* The next attempt of a call counts up to the bound. *)
LEMMA TriesTyped ==
    ASSUME TypeInv, NEW r \in Request, req[r].tries + 1 < MaxUpdateRetries
    PROVE  req[r].tries + 1 \in 0 .. MaxUpdateRetries - 1
BY BoundAssumption DEF TypeInv, TypeOK, RequestState

LEMMA UpdateSemesterTyped ==
    ASSUME TypeInv, NEW r \in Request, UpdateSemester(r)
    PROVE  TypeInv'
<1>1. req[r].pc # "idle" /\ req[r].op \in Operation /\ req[r].row \in SemesterRow
  BY DEF UpdateSemester, At, TypeInv, HasCall, TypeOK, RequestState
<1>2. LocalOK'
  <2>1. CASE Finish(r, "not_found") \/ Finish(r, "ok") \/ Finish(r, "conflict")
    BY <1>1, <2>1, FinishOK, Names
  <2>2. CASE Goto(r, "refresh")
    BY <1>1, <2>2, GotoOK, Names DEF ProcessingPc
  <2>3. CASE /\ req[r].tries + 1 < MaxUpdateRetries
             /\ Continue(r, [req[r] EXCEPT !.pc = "read", !.tries = @ + 1])
    <3> DEFINE n == [req[r] EXCEPT !.pc = "read", !.tries = @ + 1]
    <3>1. n \in RequestState /\ n.op = req[r].op /\ n.pc \notin ProcessingPc
      BY <2>3, TriesTyped, Names DEF TypeInv, TypeOK, RequestState, ProcessingPc
    <3>2. Continue(r, n)
      BY <2>3
    <3> HIDE DEF n
    <3> QED BY <1>1, <3>1, <3>2, ContinueOK
  <2> QED BY <2>1, <2>2, <2>3 DEF UpdateSemester
<1>3. semester' \in SemesterRow
  <2>1. CASE UNCHANGED semester
    BY <2>1 DEF TypeInv, TypeOK
  <2>2. CASE Swapped(Patched(req[r].op, req[r].row))
    <3>1. Patched(req[r].op, req[r].row) \in SemesterRow
      BY <1>1, PatchTyped DEF UpdateSemester, Calls
    <3>2. semester.version + 1 \in Nat
      BY DEF TypeInv, TypeOK, SemesterRow
    <3> QED BY <2>2, <3>1, <3>2 DEF Swapped, SemesterRow
  <2> QED BY <2>1, <2>2 DEF UpdateSemester
<1>4. TablesOK'
  BY <1>3 DEF UpdateSemester, TypeInv, TypeOK, TablesOK
<1> QED BY <1>2, <1>4, TableStep DEF UpdateSemester

LEMMA RefreshVersionTyped ==
    ASSUME TypeInv, NEW r \in Request, RefreshVersion(r)
    PROVE  TypeInv'
<1>1. req[r].pc # "idle"
  BY DEF RefreshVersion, At
<1>2. LocalOK'
  <2>1. CASE Finish(r, "not_found") \/ Finish(r, "conflict")
    BY <1>1, <2>1, FinishOK, Names
  <2>2. CASE /\ req[r].tries + 1 < MaxUpdateRetries
             /\ Continue(r, [req[r] EXCEPT !.pc = "write", !.tries = @ + 1,
                                          !.row.version = semester.version])
    <3> DEFINE n == [req[r] EXCEPT !.pc = "write", !.tries = @ + 1,
                                  !.row.version = semester.version]
    <3>1. req[r] \in RequestState /\ semester.version \in Nat
      BY DEF TypeInv, TypeOK, SemesterRow
    <3>2. [req[r].row EXCEPT !.version = semester.version] \in SemesterRow
      BY <3>1 DEF RequestState, SemesterRow
    <3>3. n \in RequestState /\ n.op = req[r].op /\ n.pc \notin ProcessingPc
      BY <2>2, <3>1, <3>2, TriesTyped, Names DEF RequestState, ProcessingPc
    <3>4. Continue(r, n)
      BY <2>2
    <3> HIDE DEF n
    <3> QED BY <1>1, <3>3, <3>4, ContinueOK
  <2> QED BY <2>1, <2>2 DEF RefreshVersion
<1> QED BY <1>2, LocalStep DEF RefreshVersion

LEMMA DeleteSemesterTyped ==
    ASSUME TypeInv, NEW r \in Request, DeleteSemester(r)
    PROVE  TypeInv'
<1>1. LocalOK'
  BY FinishOK, Names DEF DeleteSemester, At
<1>2. TablesOK'
  BY DEF DeleteSemester, TypeInv, TypeOK, TablesOK, SemesterRow
<1> QED BY <1>1, <1>2, TableStep DEF DeleteSemester

(* The reads that only finish a call or move it to its next statement. *)
LEMMA MovesTyped ==
    ASSUME TypeInv, NEW r \in Request,
           \/ CountUnfinalized(r) \/ EndProcessing(r)
           \/ ReadSemesterStatus(r) \/ ReadFinalized(r)
    PROVE  TypeInv'
<1>1. CASE CountUnfinalized(r)
  <2>1. Finish(r, "refused") \/ Goto(r, "students")
    BY <1>1 DEF CountUnfinalized
  <2>2. LocalOK'
    BY <1>1, <2>1, FinishOK, GotoOK, Names DEF CountUnfinalized, At, ProcessingPc
  <2> QED BY <1>1, <2>2, LocalStep DEF CountUnfinalized
<1>2. CASE EndProcessing(r)
  <2>1. LocalOK'
    BY <1>2, GotoOK, Names DEF EndProcessing, At, ProcessingPc
  <2> QED BY <1>2, <2>1, LocalStep DEF EndProcessing
<1>3. CASE ReadSemesterStatus(r)
  <2>1. Finish(r, "refused") \/ Goto(r, "threshold") \/ Goto(r, "finalized")
    BY <1>3 DEF ReadSemesterStatus
  <2>2. LocalOK'
    BY <1>3, <2>1, FinishOK, GotoOK, Names DEF ReadSemesterStatus, At, ProcessingPc
  <2> QED BY <1>3, <2>2, LocalStep DEF ReadSemesterStatus
<1>4. CASE ReadFinalized(r)
  <2>1. Finish(r, "refused") \/ Goto(r, "threshold") \/ Goto(r, "clear")
    BY <1>4 DEF ReadFinalized
  <2>2. LocalOK'
    BY <1>4, <2>1, FinishOK, GotoOK, Names DEF ReadFinalized, At, ProcessingPc
  <2> QED BY <1>4, <2>2, LocalStep DEF ReadFinalized
<1> QED BY <1>1, <1>2, <1>3, <1>4

(* A request that reads rows or picks students keeps its type and its call. *)
LEMMA RosterReadsTyped ==
    ASSUME TypeInv, NEW r \in Request, ReadStudents(r) \/ ReadStudent(r)
    PROVE  TypeInv'
<1>1. CASE ReadStudents(r)
  <2> DEFINE chosen == {s \in Student : /\ student[s].status = "active"
                                        /\ \E o \in Offering : enrollment[o][s] # "none"}
             n == [req[r] EXCEPT !.pc = "progress", !.roster = student, !.left = chosen]
  <2>1. n \in RequestState /\ n.op = req[r].op /\ n.pc \notin ProcessingPc
    BY Names DEF TypeInv, TypeOK, RequestState, ProcessingPc
  <2>2. Continue(r, n)
    BY <1>1 DEF ReadStudents
  <2> HIDE DEF n
  <2>3. LocalOK'
    BY <1>1, <2>1, <2>2, ContinueOK DEF ReadStudents, At
  <2> QED BY <1>1, <2>3, LocalStep DEF ReadStudents
<1>2. CASE ReadStudent(r)
  <2> DEFINE n == [req[r] EXCEPT !.pc = "write", !.roster = student]
  <2>1. n \in RequestState /\ n.op = req[r].op /\ n.pc \notin ProcessingPc
    BY Names DEF TypeInv, TypeOK, RequestState, ProcessingPc
  <2>2. Continue(r, n)
    BY <1>2 DEF ReadStudent
  <2> HIDE DEF n
  <2>3. LocalOK'
    BY <1>2, <2>1, <2>2, ContinueOK DEF ReadStudent, At
  <2> QED BY <1>2, <2>3, LocalStep DEF ReadStudent
<1> QED BY <1>1, <1>2

LEMMA ProcessStudentTyped ==
    ASSUME TypeInv, NEW r \in Request, ProcessStudent(r)
    PROVE  TypeInv'
<1>1. PICK s \in req[r].left, minCredits \in Minimum :
          Continue(r, [req[r] EXCEPT !.pc = Outcome(r, s, minCredits), !.left = @ \ {s},
                                     !.current = s])
  BY DEF ProcessStudent
<1> DEFINE pc == Outcome(r, s, minCredits)
           n == [req[r] EXCEPT !.pc = pc, !.left = @ \ {s}, !.current = s]
<1>2. pc \in RequestPc
  BY Names DEF Outcome
<1> HIDE DEF pc
<1>3. n \in RequestState /\ n.op = req[r].op /\ n.current \in Student
  BY <1>2 DEF TypeInv, TypeOK, RequestState
<1>4. Continue(r, n)
  BY <1>1 DEF pc
<1> HIDE DEF n
<1>5. LocalOK'
  BY <1>3, <1>4, ContinueOK DEF ProcessStudent, At
<1> QED BY <1>5, LocalStep DEF ProcessStudent

LEMMA ProgressionTyped ==
    ASSUME TypeInv, NEW r \in Request,
           UpdateStudentProgression(r) \/ RecordCohortChange(r) \/ ReassignCohortGroups(r)
    PROVE  TypeInv'
<1> DEFINE s == req[r].current
           was == req[r].roster[s]
<1>0. s \in Student
  BY DEF UpdateStudentProgression, RecordCohortChange, ReassignCohortGroups, At, TypeInv,
         HasCall, ProcessingPc
<1>1. was \in StudentRow /\ was.year \in Nat /\ was.cohort \in Nat
  BY <1>0 DEF TypeInv, TypeOK, RequestState, StudentRow
<1>2. CASE UpdateStudentProgression(r)
  <2> DEFINE year == IF At(r, "promote") THEN was.year + 1 ELSE was.year
             cohort == IF At(r, "promote") THEN was.cohort ELSE was.cohort + 1
             row == [year |-> year, cohort |-> cohort, status |-> student[s].status,
                     version |-> student[s].version + 1]
  <2>1. year \in Nat /\ cohort \in Nat
    BY <1>1
  <2>2. student' = [student EXCEPT ![s] = row]
    BY <1>2 DEF UpdateStudentProgression
  <2>3. student' \in [Student -> StudentRow]
    <3>1. student[s] \in StudentRow
      BY <1>0 DEF TypeInv, TypeOK
    <3> HIDE DEF year, cohort, s
    <3>2. row \in StudentRow
      BY <2>1, <3>1 DEF StudentRow
    <3> HIDE DEF row
    <3> QED BY <2>2, <3>2 DEF TypeInv, TypeOK
  <2>4. TablesOK'
    BY <1>2, <2>3 DEF UpdateStudentProgression, TypeInv, TypeOK, TablesOK
  <2>5. LocalOK'
    <3>1. Goto(r, "progress") \/ Goto(r, "record")
      BY <1>2 DEF UpdateStudentProgression
    <3> QED BY <1>0, <1>2, <3>1, GotoOK, Names DEF UpdateStudentProgression, ProcessingPc
  <2> QED BY <1>2, <2>4, <2>5, TableStep DEF UpdateStudentProgression
<1>3. CASE RecordCohortChange(r)
  <2> DEFINE to == IF At(r, "record") THEN was.cohort + 1 ELSE was.cohort
             change == [from |-> was.cohort, to |-> to]
  <2>1. change \in [from : Nat, to : Nat]
    BY <1>1
  <2>2. cohortHistory' = [cohortHistory EXCEPT ![s] = Append(@, change)]
    BY <1>3 DEF RecordCohortChange
  <2>3. cohortHistory' \in [Student -> Seq([from : Nat, to : Nat])]
    <3>1. cohortHistory[s] \in Seq([from : Nat, to : Nat])
      BY <1>0 DEF TypeInv, TypeOK
    <3> HIDE DEF change, s
    <3>2. Append(cohortHistory[s], change) \in Seq([from : Nat, to : Nat])
      BY <2>1, <3>1
    <3> QED BY <2>2, <3>2 DEF TypeInv, TypeOK
  <2>4. TablesOK'
    BY <1>3, <2>3 DEF RecordCohortChange, TypeInv, TypeOK, TablesOK
  <2>5. LocalOK'
    <3>1. Goto(r, "progress") \/ Goto(r, "regroup")
      BY <1>3 DEF RecordCohortChange
    <3> QED BY <1>0, <1>3, <3>1, GotoOK, Names DEF RecordCohortChange, ProcessingPc
  <2> QED BY <1>3, <2>4, <2>5, TableStep DEF RecordCohortChange
<1>4. CASE ReassignCohortGroups(r)
  <2>1. cohortGroups' \in [Student -> Nat]
    BY <1>0, <1>1, <1>4 DEF ReassignCohortGroups, TypeInv, TypeOK
  <2>2. TablesOK'
    BY <1>4, <2>1 DEF ReassignCohortGroups, TypeInv, TypeOK, TablesOK
  <2>3. LocalOK'
    BY <1>4, GotoOK, Names DEF ReassignCohortGroups, At, ProcessingPc
  <2> QED BY <1>4, <2>2, <2>3, TableStep DEF ReassignCohortGroups
<1> QED BY <1>2, <1>3, <1>4

(* An error is counted against the student being processed. *)
LEMMA ProcessErrorTyped ==
    ASSUME TypeInv, NEW r \in Request, ProcessError(r)
    PROVE  TypeInv'
<1>1. LocalOK'
  BY GotoOK, Names DEF ProcessError, ProcessingPc
<1>2. HistoryOK'
  BY DEF ProcessError, HistoryOK, TypeInv, TypeOK, HasCall, ProcessingPc
<1>3. TablesOK'
  BY InvParts, SameTables DEF ProcessError
<1> QED BY <1>1, <1>2, <1>3 DEF TypeInv, TypeOK, LocalOK, RequestsOK, TablesOK, HistoryOK

LEMMA GradeReadsTyped ==
    ASSUME TypeInv, NEW r \in Request, ReadPassThreshold(r) \/ ReadEnrolled(r)
    PROVE  TypeInv'
<1>0. req[r].pc # "idle" => req[r].op \in Operation
  BY DEF TypeInv, HasCall
<1>1. CASE ReadPassThreshold(r)
  <2> DEFINE pc == IF Calls(r, {"override"}) THEN "grade" ELSE "enrolled"
             left == IF Calls(r, {"override"}) THEN {req[r].op.student} ELSE {}
             n == [req[r] EXCEPT !.threshold = semester.passThreshold, !.pc = pc, !.left = left]
  <2>1. pc \in RequestPc /\ pc \notin ProcessingPc
    BY Names DEF ProcessingPc
  <2>2. left \subseteq Student
    BY <1>0, <1>1, OperationFields DEF ReadPassThreshold, At, Calls
  <2>3. Continue(r, n)
    BY <1>1 DEF ReadPassThreshold
  <2> HIDE DEF pc, left
  <2>4. n \in RequestState /\ n.op = req[r].op /\ n.pc \notin ProcessingPc
    BY <2>1, <2>2 DEF TypeInv, TypeOK, RequestState, SemesterRow
  <2> HIDE DEF n
  <2>5. LocalOK'
    BY <1>1, <2>3, <2>4, ContinueOK DEF ReadPassThreshold, At
  <2> QED BY <1>1, <2>5, LocalStep DEF ReadPassThreshold
<1>2. CASE ReadEnrolled(r)
  <2> DEFINE roster == {s \in Student : enrollment[req[r].op.offering][s] = "enrolled"}
             n == [req[r] EXCEPT !.pc = "grade", !.left = roster]
  <2>1. n \in RequestState /\ n.op = req[r].op /\ n.pc \notin ProcessingPc
    BY Names DEF TypeInv, TypeOK, RequestState, ProcessingPc
  <2>2. Finish(r, "refused") \/ Continue(r, n)
    BY <1>2 DEF ReadEnrolled
  <2> HIDE DEF n
  <2>3. LocalOK'
    BY <1>2, <2>1, <2>2, ContinueOK, FinishOK, Names DEF ReadEnrolled, At
  <2> QED BY <1>2, <2>3, LocalStep DEF ReadEnrolled
<1> QED BY <1>1, <1>2

LEMMA GradeWritesTyped ==
    ASSUME TypeInv, NEW r \in Request,
           (\E s \in Student : SetFinalGrade(r, s)) \/ ClearFinalGrades(r)
    PROVE  TypeInv'
<1> DEFINE o == req[r].op.offering
<1>1. ASSUME NEW s \in Student, SetFinalGrade(r, s)
      PROVE  TypeInv'
  <2>1. LocalOK'
    <3> DEFINE n == [req[r] EXCEPT !.left = @ \ {s}]
    <3>0. req[r] \in RequestState /\ req[r].pc \notin ProcessingPc
      BY <1>1 DEF SetFinalGrade, At, TypeInv, TypeOK, ProcessingPc
    <3>1. n \in RequestState /\ n.op = req[r].op /\ n.pc \notin ProcessingPc
      BY <3>0 DEF RequestState
    <3>2. Finish(r, "refused") \/ Finish(r, "ok") \/ Continue(r, n)
      BY <1>1 DEF SetFinalGrade
    <3> HIDE DEF n
    <3> QED BY <1>1, <3>1, <3>2, ContinueOK, FinishOK, Names DEF SetFinalGrade, At
  <2> DEFINE outcome == PassStatus(GradeOf(r, s), req[r].threshold)
  <2>2. outcome \in Outcomes
    BY DEF PassStatus, Outcomes
  <2>3. enrollment' \in [Offering -> [Student -> {"none", "enrolled"} \cup Outcomes]]
    <3>1. enrollment' = enrollment \/ enrollment' = [enrollment EXCEPT ![o][s] = outcome]
      BY <1>1 DEF SetFinalGrade
    <3> HIDE DEF outcome, o
    <3>2. o \in Offering => [enrollment[o] EXCEPT ![s] = outcome]
                                \in [Student -> {"none", "enrolled"} \cup Outcomes]
      BY <2>2 DEF TypeInv, TypeOK
    <3>3. [enrollment EXCEPT ![o][s] = outcome]
              = [enrollment EXCEPT ![o] = [enrollment[o] EXCEPT ![s] = outcome]]
      OBVIOUS
    <3> QED BY <3>1, <3>2, <3>3 DEF TypeInv, TypeOK
  <2>4. TablesOK'
    BY <1>1, <2>3 DEF SetFinalGrade, TypeInv, TypeOK, TablesOK
  <2> QED BY <1>1, <2>1, <2>4, TableStep DEF SetFinalGrade
<1>2. CASE ClearFinalGrades(r)
  <2>1. LocalOK'
    BY <1>2, FinishOK, Names DEF ClearFinalGrades, At
  <2>2. enrollment' \in [Offering -> [Student -> {"none", "enrolled"} \cup Outcomes]]
    <3> DEFINE cleared == [s \in Student |->
                  IF enrollment[o][s] \in Outcomes THEN "enrolled" ELSE enrollment[o][s]]
    <3>1. enrollment' = [enrollment EXCEPT ![o] = cleared]
      BY <1>2 DEF ClearFinalGrades
    <3>2. o \in Offering => cleared \in [Student -> {"none", "enrolled"} \cup Outcomes]
      BY DEF TypeInv, TypeOK
    <3> HIDE DEF cleared, o
    <3> QED BY <3>1, <3>2 DEF TypeInv, TypeOK
  <2>3. TablesOK'
    BY <1>2, <2>2 DEF ClearFinalGrades, TypeInv, TypeOK, TablesOK
  <2> QED BY <1>2, <2>1, <2>3, TableStep DEF ClearFinalGrades
<1> QED BY <1>1, <1>2

LEMMA UpdateStudentTyped ==
    ASSUME TypeInv, NEW r \in Request, UpdateStudent(r)
    PROVE  TypeInv'
<1> DEFINE s == req[r].op.student
           was == req[r].roster[s]
<1>1. req[r].pc # "idle" /\ s \in Student /\ req[r].op.cohort \in Nat /\ was \in StudentRow
  BY OperationFields DEF UpdateStudent, At, Calls, TypeInv, HasCall, TypeOK, RequestState
<1>2. LocalOK'
  <2> DEFINE n == [req[r] EXCEPT !.pc = "read", !.tries = @ + 1]
  <2>1. CASE Finish(r, "ok") \/ Finish(r, "conflict")
    BY <1>1, <2>1, FinishOK, Names
  <2>2. CASE req[r].tries + 1 < MaxUpdateRetries /\ Continue(r, n)
    <3>1. n \in RequestState /\ n.op = req[r].op /\ n.pc \notin ProcessingPc
      BY <2>2, TriesTyped, Names DEF TypeInv, TypeOK, RequestState, ProcessingPc
    <3> HIDE DEF n
    <3> QED BY <1>1, <2>2, <3>1, ContinueOK
  <2> QED BY <2>1, <2>2 DEF UpdateStudent
<1>3. student' \in [Student -> StudentRow]
  <2> DEFINE version == was.version + 1
             row == [was EXCEPT !.cohort = req[r].op.cohort, !.version = version]
  <2>1. row \in StudentRow
    <3>1. version \in Nat
      BY <1>1 DEF StudentRow
    <3> HIDE DEF version
    <3> QED BY <1>1, <3>1 DEF StudentRow
  <2>2. student' = student \/ student' = [student EXCEPT ![s] = row]
    BY DEF UpdateStudent
  <2> HIDE DEF row
  <2> QED BY <2>1, <2>2 DEF TypeInv, TypeOK
<1>4. TablesOK'
  BY <1>3 DEF UpdateStudent, TypeInv, TypeOK, TablesOK
<1> QED BY <1>2, <1>4, TableStep DEF UpdateStudent

LEMMA StepTyped == TypeInv /\ [Next]_vars => TypeInv'
<1> SUFFICES ASSUME TypeInv, [Next]_vars PROVE TypeInv'
  OBVIOUS
<1>1. CASE UNCHANGED vars
  BY <1>1 DEF vars, tables, history, TypeInv, TypeOK, HasCall
<1>2. ASSUME NEW r \in Request, NEW op \in Operation, Start(r, op)
      PROVE  TypeInv'
  BY <1>2, StartTyped
<1>3. ASSUME NEW r \in Request, Fail(r)
      PROVE  TypeInv'
  BY <1>3, FailTyped
<1>4. ASSUME NEW r \in Request, Statement(r)
      PROVE  TypeInv'
  <2>1. CASE ReadSemester(r) \/ UpdateSemester(r) \/ RefreshVersion(r) \/ DeleteSemester(r)
    BY <2>1, ReadSemesterTyped, UpdateSemesterTyped, RefreshVersionTyped, DeleteSemesterTyped
  <2>2. CASE \/ CountUnfinalized(r) \/ EndProcessing(r)
             \/ ReadSemesterStatus(r) \/ ReadFinalized(r)
    BY <2>2, MovesTyped
  <2>3. CASE ReadStudents(r) \/ ReadStudent(r) \/ ProcessStudent(r) \/ ProcessError(r)
    BY <2>3, RosterReadsTyped, ProcessStudentTyped, ProcessErrorTyped
  <2>4. CASE UpdateStudentProgression(r) \/ RecordCohortChange(r) \/ ReassignCohortGroups(r)
    BY <2>4, ProgressionTyped
  <2>5. CASE \/ ReadPassThreshold(r) \/ ReadEnrolled(r) \/ ClearFinalGrades(r)
             \/ \E s \in Student : SetFinalGrade(r, s)
    BY <2>5, GradeReadsTyped, GradeWritesTyped
  <2>6. CASE UpdateStudent(r)
    BY <2>6, UpdateStudentTyped
  <2> QED BY <1>4, <2>1, <2>2, <2>3, <2>4, <2>5, <2>6 DEF Statement
<1> QED BY <1>1, <1>2, <1>3, <1>4 DEF Next

LEMMA InitInv == Init => TypeInv
<1>1. Init => HasCall
  BY DEF Init, HasCall, IdleRequest, ProcessingPc
<1> QED BY <1>1, InitTyped DEF TypeInv

LEMMA Typed == Spec => []TypeInv
BY InitInv, StepTyped, PTL DEF Spec

(* Every table and every request always has its type, and the attempts of a *)
(* call stay under maxUpdateRetries.                                        *)
THEOREM TypeCorrect == Spec => []TypeOK
<1>1. TypeInv => TypeOK
  BY DEF TypeInv
<1> QED BY <1>1, Typed, PTL

-----------------------------------------------------------------------------
(* The row of the semester.  A call about to write carries the version of a *)
(* row it has read and checked; as long as the semester has that version,   *)
(* neither status nor threshold has changed since, so the check still holds *)
(* and what the call writes back unchanged undoes nothing.  An EndSemester  *)
(* that retries carries the version of a row it has not read.               *)

EndPc == {"count", "students", "progress", "refresh"} \cup ProcessingPc
GradingPc == {"finalized", "threshold", "enrolled", "grade", "clear"}

\* A lifecycle call in state s holds a row it has read.
Holding(s) == s.pc \notin {"idle", "read", "done"} /\ s.op.call \in WritesSemester

Checked(s, sem) ==
    /\ s.row.version <= sem.version
    /\ s.row.version = sem.version /\ ~(s.op.call = "end" /\ s.tries > 0)
       => s.row.status = sem.status /\ s.row.passThreshold = sem.passThreshold
    /\ Permits(s.op, s.row)

CallInv(s, sem) ==
    /\ s.pc \in EndPc => s.op.call = "end"
    /\ s.pc \in GradingPc => s.op.call \in ReadsStatus
    /\ Holding(s) => Checked(s, sem)
    /\ s.pc = "done" /\ s.op.call = "end" /\ s.result = "ok" => sem.status = "archived"

CallsInv == \A r \in Request : CallInv(req[r], semester)

Inv == TypeInv /\ CallsInv

\* The status follows the table and a column changes only by its own edit,
\* unless an EndSemester writes over a row it has not read.
Serial ==
    \/ \E r \in Request : Overwrites(r) /\ req'[r].result = "ok"
    \/ /\ semester'.status # semester.status
          => CanTransitionSemester(semester.status, semester'.status)
       /\ semester'.passThreshold # semester.passThreshold
          => \E r \in Request :
                /\ At(r, "write") /\ Calls(r, {"update"}) /\ req'[r].result = "ok"
                /\ semester'.passThreshold = req[r].op.passThreshold

\* What a step may do to the row.
RowStep ==
    /\ semester.status = "archived" => semester'.status = "archived"
    /\ Serial

(* A step of r to n, after which every call still agrees with the row. *)
LEMMA StepInv ==
    ASSUME Inv, NEW r \in Request, NEW n, Continue(r, n), CallInv(n, semester'),
           \A q \in Request : CallInv(req[q], semester) => CallInv(req[q], semester')
    PROVE  CallsInv'
<1>1. req'[r] = n /\ \A q \in Request \ {r} : req'[q] = req[q]
  BY DEF Continue, Inv, TypeInv, TypeOK
<1>2. \A q \in Request : CallInv(req'[q], semester')
  BY <1>1 DEF Inv, CallsInv
<1> QED BY <1>2 DEF CallsInv

LEMMA SameRow ==
    ASSUME Inv, NEW r \in Request, NEW n, Continue(r, n), CallInv(n, semester),
           UNCHANGED semester
    PROVE  CallsInv' /\ RowStep
BY StepInv DEF RowStep, Serial

(* Only an EndSemester that succeeds has to leave the semester archived. *)
LEMMA FinishInv ==
    ASSUME Inv, NEW r \in Request, NEW result, Finish(r, result),
           req[r].op.call = "end" /\ result = "ok" => semester'.status = "archived",
           \A q \in Request : CallInv(req[q], semester) => CallInv(req[q], semester')
    PROVE  CallsInv'
<1> DEFINE n == [IdleRequest EXCEPT !.pc = "done", !.op = req[r].op, !.result = result]
<1>1. Continue(r, n)
  BY DEF Finish
<1>2. n.pc = "done" /\ n.op = req[r].op /\ n.result = result
  BY DEF IdleRequest
<1> HIDE DEF n
<1>3. CallInv(n, semester')
  BY <1>2 DEF CallInv, Holding, EndPc, GradingPc, ProcessingPc
<1> QED BY <1>1, <1>3, StepInv

LEMMA FinishSame ==
    ASSUME Inv, NEW r \in Request, NEW result, Finish(r, result), UNCHANGED semester,
           req[r].op.call # "end" \/ result # "ok"
    PROVE  CallsInv' /\ RowStep
BY FinishInv DEF RowStep, Serial

(* A call that keeps the row it holds, or holds none, may move on. *)
LEMMA MoveInv ==
    ASSUME Inv, NEW r \in Request, NEW n, Continue(r, n), UNCHANGED semester,
           n.op = req[r].op, n.row = req[r].row, n.tries = req[r].tries,
           n.pc \notin {"idle", "read", "done"},
           Holding(req[r]) \/ req[r].op.call \notin WritesSemester,
           n.pc \in EndPc => n.op.call = "end",
           n.pc \in GradingPc => n.op.call \in ReadsStatus
    PROVE  CallsInv' /\ RowStep
<1>1. CallInv(req[r], semester)
  BY DEF Inv, CallsInv
<1>2. Holding(n) => Checked(n, semester)
  BY <1>1 DEF CallInv, Holding, Checked
<1>3. CallInv(n, semester)
  BY <1>2 DEF CallInv
<1> QED BY <1>3, SameRow

LEMMA GotoInv ==
    ASSUME Inv, NEW r \in Request, NEW pc, Goto(r, pc), UNCHANGED semester,
           pc \notin {"idle", "read", "done"},
           Holding(req[r]) \/ req[r].op.call \notin WritesSemester,
           pc \in EndPc => req[r].op.call = "end",
           pc \in GradingPc => req[r].op.call \in ReadsStatus
    PROVE  CallsInv' /\ RowStep
<1> DEFINE n == [req[r] EXCEPT !.pc = pc]
<1>1. n.op = req[r].op /\ n.row = req[r].row /\ n.tries = req[r].tries /\ n.pc = pc
  BY DEF Inv, TypeInv, TypeOK, RequestState
<1>2. Continue(r, n)
  BY DEF Goto
<1> HIDE DEF n
<1> QED BY <1>1, <1>2, MoveInv

(* The statements of EndSemester after its read, and of the grading calls: they *)
(* leave the semester alone.                                                    *)
LEMMA EndStatementsInv ==
    ASSUME Inv, NEW r \in Request,
           \/ CountUnfinalized(r) \/ ReadStudents(r) \/ ProcessStudent(r)
           \/ UpdateStudentProgression(r) \/ RecordCohortChange(r)
           \/ ReassignCohortGroups(r) \/ ProcessError(r) \/ EndProcessing(r)
    PROVE  CallsInv' /\ RowStep
<1>1. req[r].pc \in EndPc /\ UNCHANGED semester
  BY DEF CountUnfinalized, ReadStudents, ProcessStudent, UpdateStudentProgression,
         RecordCohortChange, ReassignCohortGroups, ProcessError, EndProcessing, At,
         EndPc, ProcessingPc, tables
<1>2. req[r].op.call = "end" /\ Holding(req[r])
  BY <1>1 DEF Inv, CallsInv, CallInv, Holding, EndPc, ProcessingPc, WritesSemester
<1>3. ASSUME NEW pc \in EndPc \cup {"write"}, Goto(r, pc)
      PROVE  CallsInv' /\ RowStep
  <2>1. pc \notin {"idle", "read", "done"} /\ pc \notin GradingPc
    BY <1>3 DEF EndPc, ProcessingPc, GradingPc
  <2> QED BY <1>1, <1>2, <1>3, <2>1, GotoInv
<1>4. ASSUME NEW n, Continue(r, n), n.op = req[r].op, n.row = req[r].row,
             n.tries = req[r].tries, n.pc \in EndPc
      PROVE  CallsInv' /\ RowStep
  <2>1. n.pc \notin {"idle", "read", "done"} /\ n.pc \notin GradingPc
    BY <1>4 DEF EndPc, ProcessingPc, GradingPc
  <2> QED BY <1>1, <1>2, <1>4, <2>1, MoveInv
<1>5. CASE CountUnfinalized(r)
  <2>1. Finish(r, "refused") \/ Goto(r, "students")
    BY <1>5 DEF CountUnfinalized
  <2> QED BY <1>1, <1>3, <2>1, FinishSame DEF EndPc
<1>6. CASE ReadStudents(r)
  <2> DEFINE n == [req[r] EXCEPT
                 !.pc = "progress", !.roster = student,
                 !.left = {s \in Student : /\ student[s].status = "active"
                                           /\ \E o \in Offering : enrollment[o][s] # "none"}]
  <2>1. n.op = req[r].op /\ n.row = req[r].row /\ n.tries = req[r].tries /\ n.pc \in EndPc
    BY DEF Inv, TypeInv, TypeOK, RequestState, EndPc
  <2>2. Continue(r, n)
    BY <1>6 DEF ReadStudents
  <2> HIDE DEF n
  <2> QED BY <1>4, <2>1, <2>2
<1>7. CASE ProcessStudent(r)
  <2>1. PICK s \in req[r].left, minCredits \in Minimum :
            Continue(r, [req[r] EXCEPT !.pc = Outcome(r, s, minCredits), !.left = @ \ {s},
                                       !.current = s])
    BY <1>7 DEF ProcessStudent
  <2> DEFINE pc == Outcome(r, s, minCredits)
             n == [req[r] EXCEPT !.pc = pc, !.left = @ \ {s}, !.current = s]
  <2>2. pc \in EndPc
    BY DEF Outcome, EndPc, ProcessingPc
  <2> HIDE DEF pc
  <2>3. n.op = req[r].op /\ n.row = req[r].row /\ n.tries = req[r].tries /\ n.pc \in EndPc
    BY <2>2 DEF Inv, TypeInv, TypeOK, RequestState
  <2>4. Continue(r, n)
    BY <2>1 DEF pc
  <2> HIDE DEF n
  <2> QED BY <1>4, <2>3, <2>4
<1>8. CASE UpdateStudentProgression(r) \/ RecordCohortChange(r) \/ ReassignCohortGroups(r)
           \/ ProcessError(r) \/ EndProcessing(r)
  <2>1. \/ Goto(r, "progress") \/ Goto(r, "record") \/ Goto(r, "regroup") \/ Goto(r, "write")
    BY <1>8 DEF UpdateStudentProgression, RecordCohortChange, ReassignCohortGroups,
                ProcessError, EndProcessing
  <2> QED BY <1>3, <2>1 DEF EndPc, ProcessingPc
<1> QED BY <1>5, <1>6, <1>7, <1>8

LEMMA GradeStatementsInv ==
    ASSUME Inv, NEW r \in Request,
           \/ ReadSemesterStatus(r) \/ ReadFinalized(r) \/ ReadPassThreshold(r)
           \/ ReadEnrolled(r) \/ ClearFinalGrades(r) \/ \E s \in Student : SetFinalGrade(r, s)
    PROVE  CallsInv' /\ RowStep
<1>1. UNCHANGED semester
  BY DEF ReadSemesterStatus, ReadFinalized, ReadPassThreshold, ReadEnrolled,
         ClearFinalGrades, SetFinalGrade, tables
<1>2. /\ req[r].op.call \in ReadsStatus
      /\ req[r].op.call # "end" /\ req[r].op.call \notin WritesSemester
  <2>1. req[r].op.call \in ReadsStatus
    BY DEF ReadSemesterStatus, ReadFinalized, ReadPassThreshold, ReadEnrolled,
           ClearFinalGrades, SetFinalGrade, At, Calls, Inv, CallsInv, CallInv, GradingPc
  <2> QED BY <2>1 DEF ReadsStatus, WritesSemester
<1>3. ASSUME NEW pc \in GradingPc, Goto(r, pc)
      PROVE  CallsInv' /\ RowStep
  <2>1. pc \notin {"idle", "read", "done"} /\ pc \notin EndPc
    BY <1>3 DEF EndPc, ProcessingPc, GradingPc
  <2> QED BY <1>1, <1>2, <1>3, <2>1, GotoInv
<1>4. ASSUME NEW n, Continue(r, n), n.op = req[r].op, n.row = req[r].row,
             n.tries = req[r].tries, n.pc \in GradingPc
      PROVE  CallsInv' /\ RowStep
  <2>1. n.pc \notin {"idle", "read", "done"} /\ n.pc \notin EndPc
    BY <1>4 DEF EndPc, ProcessingPc, GradingPc
  <2> QED BY <1>1, <1>2, <1>4, <2>1, MoveInv
<1>5. ASSUME NEW result, Finish(r, result)
      PROVE  CallsInv' /\ RowStep
  BY <1>1, <1>2, <1>5, FinishSame
<1>6. CASE ReadSemesterStatus(r) \/ ReadFinalized(r) \/ ClearFinalGrades(r)
  <2>1. \/ Finish(r, "refused") \/ Finish(r, "ok")
        \/ Goto(r, "threshold") \/ Goto(r, "finalized") \/ Goto(r, "clear")
    BY <1>6 DEF ReadSemesterStatus, ReadFinalized, ClearFinalGrades
  <2> QED BY <1>3, <1>5, <2>1 DEF GradingPc
<1>7. CASE ReadPassThreshold(r)
  <2> DEFINE pc == IF Calls(r, {"override"}) THEN "grade" ELSE "enrolled"
             left == IF Calls(r, {"override"}) THEN {req[r].op.student} ELSE {}
             n == [req[r] EXCEPT !.threshold = semester.passThreshold, !.pc = pc, !.left = left]
  <2>1. pc \in GradingPc
    BY DEF GradingPc
  <2>2. Continue(r, n)
    BY <1>7 DEF ReadPassThreshold
  <2> HIDE DEF pc, left
  <2>3. n.op = req[r].op /\ n.row = req[r].row /\ n.tries = req[r].tries /\ n.pc \in GradingPc
    BY <2>1 DEF Inv, TypeInv, TypeOK, RequestState
  <2> HIDE DEF n
  <2> QED BY <1>4, <2>2, <2>3
<1>8. CASE ReadEnrolled(r)
  <2> DEFINE roster == {s \in Student : enrollment[req[r].op.offering][s] = "enrolled"}
             n == [req[r] EXCEPT !.pc = "grade", !.left = roster]
  <2>1. n.op = req[r].op /\ n.row = req[r].row /\ n.tries = req[r].tries /\ n.pc \in GradingPc
    BY DEF Inv, TypeInv, TypeOK, RequestState, GradingPc
  <2>2. Finish(r, "refused") \/ Continue(r, n)
    BY <1>8 DEF ReadEnrolled
  <2> HIDE DEF n
  <2> QED BY <1>4, <1>5, <2>1, <2>2
<1>9. ASSUME NEW s \in Student, SetFinalGrade(r, s)
      PROVE  CallsInv' /\ RowStep
  <2> DEFINE n == [req[r] EXCEPT !.left = @ \ {s}]
  <2>1. n.op = req[r].op /\ n.row = req[r].row /\ n.tries = req[r].tries /\ n.pc \in GradingPc
    <3>1. req[r].pc \in GradingPc
      BY <1>9 DEF SetFinalGrade, At, GradingPc
    <3> QED BY <3>1 DEF Inv, TypeInv, TypeOK, RequestState
  <2>2. Finish(r, "refused") \/ Finish(r, "ok") \/ Continue(r, n)
    BY <1>9 DEF SetFinalGrade
  <2> HIDE DEF n
  <2> QED BY <1>4, <1>5, <2>1, <2>2
<1> QED BY <1>6, <1>7, <1>8, <1>9

LEMMA StudentStatementsInv ==
    ASSUME Inv, NEW r \in Request, ReadStudent(r) \/ UpdateStudent(r)
    PROVE  CallsInv' /\ RowStep
<1>1. /\ UNCHANGED semester
      /\ req[r].op.call # "end" /\ req[r].op.call \notin WritesSemester \cup ReadsStatus
  BY DEF ReadStudent, UpdateStudent, Calls, WritesSemester, ReadsStatus, tables
<1>2. ASSUME NEW n, Continue(r, n), n.op = req[r].op, n.row = req[r].row,
             n.pc \in {"read", "write"}
      PROVE  CallsInv' /\ RowStep
  <2>1. CallInv(n, semester)
    BY <1>1, <1>2 DEF CallInv, Holding, EndPc, GradingPc, ProcessingPc
  <2> QED BY <1>1, <1>2, <2>1, SameRow
<1>3. CASE ReadStudent(r)
  <2> DEFINE n == [req[r] EXCEPT !.pc = "write", !.roster = student]
  <2>1. n.op = req[r].op /\ n.row = req[r].row /\ n.pc = "write"
    BY DEF Inv, TypeInv, TypeOK, RequestState
  <2>2. Continue(r, n)
    BY <1>3 DEF ReadStudent
  <2> HIDE DEF n
  <2> QED BY <1>2, <2>1, <2>2
<1>4. CASE UpdateStudent(r)
  <2> DEFINE n == [req[r] EXCEPT !.pc = "read", !.tries = @ + 1]
  <2>1. n.op = req[r].op /\ n.row = req[r].row /\ n.pc = "read"
    BY DEF Inv, TypeInv, TypeOK, RequestState
  <2>2. Finish(r, "ok") \/ Finish(r, "conflict") \/ Continue(r, n)
    BY <1>4 DEF UpdateStudent
  <2> HIDE DEF n
  <2> QED BY <1>1, <1>2, <2>1, <2>2, FinishSame
<1> QED BY <1>3, <1>4

LEMMA StartInv ==
    ASSUME Inv, NEW r \in Request, NEW op \in Operation, Start(r, op) \/ Fail(r)
    PROVE  CallsInv' /\ RowStep
<1>1. CASE Start(r, op)
  <2> DEFINE n == [IdleRequest EXCEPT !.pc = "read", !.op = op]
  <2>1. n.pc = "read"
    BY DEF IdleRequest
  <2>2. Continue(r, n) /\ UNCHANGED semester
    BY <1>1 DEF Start, tables
  <2> HIDE DEF n
  <2>3. CallInv(n, semester)
    BY <2>1 DEF CallInv, Holding, EndPc, GradingPc, ProcessingPc
  <2> QED BY <2>2, <2>3, SameRow
<1>2. CASE Fail(r)
  BY <1>2, FinishSame DEF Fail, tables
<1> QED BY <1>1, <1>2

LEMMA ReadSemesterInv ==
    ASSUME Inv, NEW r \in Request, ReadSemester(r)
    PROVE  CallsInv' /\ RowStep
<1>1. UNCHANGED semester /\ req[r].op.call \in WritesSemester /\ semester.version \in Nat
  BY DEF ReadSemester, Calls, tables, Inv, TypeInv, TypeOK, SemesterRow
<1>2. CASE Finish(r, "not_found") \/ Finish(r, "refused")
  BY <1>1, <1>2, FinishSame
<1>3. CASE /\ Permits(req[r].op, semester)
           /\ Continue(r, [req[r] EXCEPT !.row = semester,
                  !.pc = IF Calls(r, {"end"}) THEN "count" ELSE "write"])
  <2> DEFINE pc == IF Calls(r, {"end"}) THEN "count" ELSE "write"
             n == [req[r] EXCEPT !.row = semester, !.pc = pc]
  <2>1. pc \in {"count", "write"} /\ (pc = "count" => req[r].op.call = "end")
    BY DEF Calls
  <2>2. Continue(r, n)
    BY <1>3
  <2> HIDE DEF pc
  <2>3. n.op = req[r].op /\ n.row = semester /\ n.pc = pc
    BY DEF Inv, TypeInv, TypeOK, RequestState
  <2> HIDE DEF n
  <2>4. Checked(n, semester)
    BY <1>1, <1>3, <2>3 DEF Checked
  <2>5. CallInv(n, semester)
    BY <2>1, <2>3, <2>4 DEF CallInv, EndPc, GradingPc, ProcessingPc
  <2> QED BY <1>1, <2>2, <2>5, SameRow
<1> QED BY <1>2, <1>3 DEF ReadSemester

LEMMA RefreshVersionInv ==
    ASSUME Inv, NEW r \in Request, RefreshVersion(r)
    PROVE  CallsInv' /\ RowStep
<1>1. /\ UNCHANGED semester /\ semester.version \in Nat
      /\ CallInv(req[r], semester) /\ req[r] \in RequestState
  BY DEF RefreshVersion, tables, Inv, CallsInv, TypeInv, TypeOK, SemesterRow
<1>2. req[r].op.call = "end" /\ Checked(req[r], semester)
  BY <1>1 DEF RefreshVersion, At, CallInv, EndPc, Holding, WritesSemester
<1>3. CASE Finish(r, "not_found") \/ Finish(r, "conflict")
  BY <1>1, <1>3, FinishSame
<1>4. CASE Continue(r, [req[r] EXCEPT !.pc = "write", !.tries = @ + 1,
                                     !.row.version = semester.version])
  <2> DEFINE row == [req[r].row EXCEPT !.version = semester.version]
             n == [req[r] EXCEPT !.pc = "write", !.tries = @ + 1, !.row = row]
  <2>1. row.version = semester.version /\ row.status = req[r].row.status
    BY <1>1 DEF RequestState, SemesterRow
  <2>2. Continue(r, n)
    BY <1>4
  <2> HIDE DEF row
  <2>3. n.op = req[r].op /\ n.row = row /\ n.pc = "write" /\ n.tries > 0
    BY <1>1, BoundAssumption DEF RequestState
  <2> HIDE DEF n
  <2>4. Checked(n, semester)
    BY <1>1, <1>2, <2>1, <2>3 DEF Checked, Permits
  <2>5. CallInv(n, semester)
    BY <2>3, <2>4 DEF CallInv, EndPc, GradingPc, ProcessingPc
  <2> QED BY <1>1, <2>2, <2>5, SameRow
<1> QED BY <1>3, <1>4 DEF RefreshVersion

(* Deletion keeps status and version. *)
LEMMA DeleteSemesterInv ==
    ASSUME Inv, NEW r \in Request, DeleteSemester(r)
    PROVE  CallsInv' /\ RowStep
<1>1. /\ semester'.status = semester.status /\ semester'.version = semester.version
      /\ semester'.passThreshold = semester.passThreshold
  BY DEF DeleteSemester, Inv, TypeInv, TypeOK, SemesterRow
<1>2. \A q \in Request : CallInv(req[q], semester) => CallInv(req[q], semester')
  BY <1>1 DEF CallInv, Checked
<1>3. Finish(r, "ok") /\ req[r].op.call # "end"
  BY DEF DeleteSemester, Calls
<1> QED BY <1>1, <1>2, <1>3, FinishInv DEF RowStep, Serial

(* The swap: a row read at the current version is the current row, so the check *)
(* made when it was read holds of the status overwritten.                      *)
LEMMA SwapInv ==
    ASSUME Inv, NEW r \in Request, UpdateSemester(r), ~semester.deleted,
           semester.version = req[r].row.version,
           Swapped(Patched(req[r].op, req[r].row)), Finish(r, "ok")
    PROVE  CallsInv' /\ RowStep
<1> DEFINE op == req[r].op
           row == req[r].row
<1>1. /\ op \in Operation /\ op.call \in WritesSemester /\ row \in SemesterRow
      /\ semester \in SemesterRow
  BY DEF UpdateSemester, At, Calls, Inv, TypeInv, HasCall, TypeOK, RequestState
<1>2. Checked(req[r], semester)
  BY <1>1 DEF UpdateSemester, At, Inv, CallsInv, CallInv, Holding
<1>3. semester' = [Patched(op, row) EXCEPT !.version = semester.version + 1]
  BY DEF Swapped
<1>4. /\ semester'.version = semester.version + 1
      /\ semester'.status = Patched(op, row).status
      /\ semester'.passThreshold = Patched(op, row).passThreshold
  BY <1>1, <1>3, PatchTyped DEF SemesterRow
<1>5. op.call = "end" => semester'.status = "archived"
  BY <1>1, <1>4 DEF Patched, SemesterRow
<1>6. semester.status = "archived" => semester'.status = "archived"
  <2> SUFFICES ASSUME semester.status = "archived", op.call # "end"
               PROVE  semester'.status = "archived"
    BY <1>5
  <2>1. row.status = "archived" /\ Permits(op, row)
    BY <1>2 DEF Checked
  <2>2. op.call \notin {"updateStatus", "definalize"}
    BY <2>1 DEF Permits, CanTransitionSemester
  <2> QED BY <1>1, <1>4, <2>1, <2>2 DEF Patched, WritesSemester, SemesterRow
<1>7. ASSUME NEW q \in Request, CallInv(req[q], semester)
      PROVE  CallInv(req[q], semester')
  <2>1. ASSUME Holding(req[q]) PROVE Checked(req[q], semester')
    <3>1. Checked(req[q], semester) /\ semester.version \in Nat /\ req[q].row.version \in Nat
      BY <1>1, <1>7, <2>1 DEF CallInv, Inv, TypeInv, TypeOK, RequestState, SemesterRow
    <3>2. /\ req[q].row.version <= semester'.version
          /\ req[q].row.version # semester'.version
      BY <1>4, <3>1 DEF Checked
    <3>3. Permits(req[q].op, req[q].row)
      BY <3>1 DEF Checked
    <3> QED BY <3>2, <3>3 DEF Checked
  <2> QED BY <1>6, <1>7, <2>1 DEF CallInv
<1>8. Serial
  <2>1. req'[r].result = "ok" /\ At(r, "write")
    BY DEF Finish, Continue, IdleRequest, UpdateSemester, Inv, TypeInv, TypeOK
  <2>2. CASE op.call = "end" /\ req[r].tries > 0
    BY <2>1, <2>2 DEF Serial, Overwrites, Calls
  <2>3. CASE ~(op.call = "end" /\ req[r].tries > 0)
    <3>1. row.status = semester.status /\ row.passThreshold = semester.passThreshold
      BY <1>2, <2>3 DEF Checked
    <3>2. CASE op.call = "updateStatus"
      <4>1. CanTransitionSemester(row.status, op.to)
        BY <1>2, <3>2 DEF Checked, Permits
      <4> QED BY <1>1, <1>4, <3>1, <3>2, <4>1 DEF Serial, Patched, SemesterRow
    <3>3. CASE op.call \in {"definalize", "end"}
      <4>1. row.status = "finalized"
        BY <1>2, <3>3 DEF Checked, Permits
      <4> QED BY <1>1, <1>4, <3>1, <3>3, <4>1
              DEF Serial, Patched, SemesterRow, CanTransitionSemester
    <3>4. CASE op.call = "update"
      BY <1>1, <1>4, <2>1, <3>1, <3>4 DEF Serial, Patched, SemesterRow, Calls
    <3> QED BY <1>1, <3>2, <3>3, <3>4 DEF WritesSemester
  <2> QED BY <2>2, <2>3
<1> QED BY <1>5, <1>6, <1>7, <1>8, FinishInv DEF RowStep

LEMMA UpdateSemesterInv ==
    ASSUME Inv, NEW r \in Request, UpdateSemester(r)
    PROVE  CallsInv' /\ RowStep
<1>1. req[r].pc = "write" /\ req[r].op.call \in WritesSemester
  BY DEF UpdateSemester, At, Calls
<1>2. CASE UNCHANGED semester /\ (Finish(r, "not_found") \/ Finish(r, "conflict"))
  BY <1>2, FinishSame
<1>3. CASE UNCHANGED semester /\ Calls(r, {"end"}) /\ Goto(r, "refresh")
  BY <1>1, <1>3, GotoInv DEF Calls, Holding, GradingPc
<1>4. CASE UNCHANGED semester /\ Continue(r, [req[r] EXCEPT !.pc = "read", !.tries = @ + 1])
  <2> DEFINE n == [req[r] EXCEPT !.pc = "read", !.tries = @ + 1]
  <2>1. n.pc = "read"
    BY DEF Inv, TypeInv, TypeOK, RequestState
  <2>2. Continue(r, n)
    BY <1>4
  <2> HIDE DEF n
  <2>3. CallInv(n, semester)
    BY <2>1 DEF CallInv, Holding, EndPc, GradingPc, ProcessingPc
  <2> QED BY <1>4, <2>2, <2>3, SameRow
<1>5. CASE /\ ~semester.deleted /\ semester.version = req[r].row.version
           /\ Swapped(Patched(req[r].op, req[r].row))
           /\ Finish(r, "ok")
  BY <1>5, SwapInv
<1> QED BY <1>2, <1>3, <1>4, <1>5 DEF UpdateSemester

LEMMA InvStep == Inv /\ [Next]_vars => Inv' /\ RowStep
<1> SUFFICES ASSUME Inv, [Next]_vars PROVE CallsInv' /\ RowStep
  BY StepTyped DEF Inv
<1>1. CASE UNCHANGED vars
  BY <1>1 DEF vars, tables, Inv, CallsInv, RowStep, Serial, CallInv, Holding, Checked
<1>2. ASSUME NEW r \in Request, NEW op \in Operation, Start(r, op)
      PROVE  CallsInv' /\ RowStep
  BY <1>2, StartInv
<1>3. ASSUME NEW r \in Request, Fail(r)
      PROVE  CallsInv' /\ RowStep
  BY <1>3, FinishSame DEF Fail, tables
<1>4. ASSUME NEW r \in Request, Statement(r)
      PROVE  CallsInv' /\ RowStep
  <2>1. CASE ReadSemester(r) \/ UpdateSemester(r) \/ RefreshVersion(r) \/ DeleteSemester(r)
    BY <2>1, ReadSemesterInv, UpdateSemesterInv, RefreshVersionInv, DeleteSemesterInv
  <2>2. CASE \/ CountUnfinalized(r) \/ ReadStudents(r) \/ ProcessStudent(r)
             \/ UpdateStudentProgression(r) \/ RecordCohortChange(r)
             \/ ReassignCohortGroups(r) \/ ProcessError(r) \/ EndProcessing(r)
    BY <2>2, EndStatementsInv
  <2>3. CASE \/ ReadSemesterStatus(r) \/ ReadFinalized(r) \/ ReadPassThreshold(r)
             \/ ReadEnrolled(r) \/ ClearFinalGrades(r)
             \/ \E s \in Student : SetFinalGrade(r, s)
    BY <2>3, GradeStatementsInv
  <2>4. CASE ReadStudent(r) \/ UpdateStudent(r)
    BY <2>4, StudentStatementsInv
  <2> QED BY <1>4, <2>1, <2>2, <2>3, <2>4 DEF Statement
<1> QED BY <1>1, <1>2, <1>3, <1>4 DEF Next

LEMMA InvHolds == Spec => []Inv
<1>1. Init => CallsInv
  <2> SUFFICES ASSUME Init, NEW r \in Request PROVE CallInv(req[r], semester)
    BY DEF CallsInv
  <2>1. req[r].pc = "idle"
    BY DEF Init, IdleRequest
  <2> QED BY <2>1 DEF CallInv, Holding, EndPc, GradingPc, ProcessingPc
<1>2. Init => Inv
  BY <1>1, InitInv DEF Inv
<1> QED BY <1>2, InvStep, PTL DEF Spec

(* An archived semester stays archived under any number of concurrent calls,  *)
(* whatever they read before it was archived and however often they retry     *)
(* (semester.go:423-449, 745-768).                                            *)
THEOREM ArchivedIsTerminal == Spec => ArchivedForever
<1>1. RowStep => [semester.status = "archived" => semester'.status = "archived"]_semester
  BY DEF RowStep
<1> QED BY <1>1, InvStep, InvHolds, PTL DEF Spec, ArchivedForever

(* Transitions and edits of any number of concurrent calls serialize: a      *)
(* status follows the table from the status it replaces, and a threshold     *)
(* changes only when the call whose patch sets it succeeds.  The exception   *)
(* is an EndSemester that retries, which writes the row of its first attempt *)
(* (semester.go:368-477, 745-768).                                           *)
THEOREM CallsAlwaysSerialize == Spec => CallsSerialize
<1>1. RowStep => [Serial]_semester
  BY DEF RowStep
<1> QED BY <1>1, InvStep, InvHolds, PTL DEF Spec, CallsSerialize, Serial

(* An EndSemester that returned its result leaves the semester archived for   *)
(* good, also when another call wrote the row while it ran                    *)
(* (semester.go:745-768).                                                     *)
THEOREM EndArchives == Spec => []EndedIsArchived
<1>1. Inv => EndedIsArchived
  BY DEF Inv, CallsInv, CallInv, EndedIsArchived, Ended, Calls
<1> QED BY <1>1, InvHolds, PTL

-----------------------------------------------------------------------------
(* A step is one call's, and leaves it the call it is.                      *)

LEMMA FinishFields ==
    ASSUME Inv, NEW r \in Request, NEW result, Finish(r, result)
    PROVE  req'[r].pc = "done" /\ req'[r].op = req[r].op /\ req'[r].result = result
<1> DEFINE n == [IdleRequest EXCEPT !.pc = "done", !.op = req[r].op, !.result = result]
<1>1. Continue(r, n) /\ n.pc = "done" /\ n.op = req[r].op /\ n.result = result
  BY DEF Finish, IdleRequest
<1> HIDE DEF n
<1> QED BY <1>1 DEF Continue, Inv, TypeInv, TypeOK

LEMMA GotoFields ==
    ASSUME Inv, NEW r \in Request, NEW pc, Goto(r, pc)
    PROVE  /\ req'[r].pc = pc /\ req'[r].op = req[r].op /\ req'[r].row = req[r].row
           /\ req'[r].left = req[r].left /\ req'[r].current = req[r].current
           /\ req'[r].roster = req[r].roster
<1> DEFINE n == [req[r] EXCEPT !.pc = pc]
<1>1. req[r] \in RequestState /\ Continue(r, n)
  BY DEF Goto, Inv, TypeInv, TypeOK
<1>2. /\ n.pc = pc /\ n.op = req[r].op /\ n.row = req[r].row /\ n.left = req[r].left
      /\ n.current = req[r].current /\ n.roster = req[r].roster
  BY <1>1 DEF RequestState
<1> HIDE DEF n
<1> QED BY <1>1, <1>2 DEF Continue, Inv, TypeInv, TypeOK

(* One request takes a step that ends no call twice. *)
Alone(r) ==
    /\ req[r].pc # "done"
    /\ \A q \in Request \ {r} : req'[q] = req[q]
    /\ overlapped => overlapped'

LEMMA StepAlone ==
    ASSUME Inv, NEW r \in Request,
           (\E op \in Operation : Start(r, op)) \/ Statement(r) \/ Fail(r)
    PROVE  Alone(r)
<1> DEFINE Steps == \E n : Continue(r, n)
           Runs == req[r].pc # "done" /\ (overlapped => overlapped')
<1>1. ASSUME \E op \in Operation : Start(r, op) PROVE Steps /\ Runs
  <2>1. Steps
    BY <1>1, Zenon DEF Finish, Goto, Start
  <2>2. Runs
    <3>1. PICK op \in Operation : Start(r, op)
      BY <1>1
    <3> QED BY <3>1 DEF At, history, Start
  <2> QED BY <2>1, <2>2
<1>2. ASSUME Fail(r) PROVE Steps /\ Runs
  <2>1. Steps
    BY <1>2, Zenon DEF Finish, Goto, Fail
  <2>2. Runs
    BY <1>2 DEF At, history, Fail, Running
  <2> QED BY <2>1, <2>2
<1>3. ASSUME ReadSemester(r) PROVE Steps /\ Runs
  <2>1. Steps
    BY <1>3, Zenon DEF Finish, Goto, ReadSemester
  <2>2. Runs
    BY <1>3 DEF At, history, ReadSemester
  <2> QED BY <2>1, <2>2
<1>4. ASSUME UpdateSemester(r) PROVE Steps /\ Runs
  <2>1. Steps
    BY <1>4, Zenon DEF Finish, Goto, UpdateSemester
  <2>2. Runs
    BY <1>4 DEF At, history, UpdateSemester
  <2> QED BY <2>1, <2>2
<1>5. ASSUME RefreshVersion(r) \/ DeleteSemester(r) PROVE Steps /\ Runs
  <2>1. Steps
    BY <1>5, Zenon DEF Finish, Goto, RefreshVersion, DeleteSemester
  <2>2. Runs
    BY <1>5 DEF At, history, RefreshVersion, DeleteSemester
  <2> QED BY <2>1, <2>2
<1>6. ASSUME CountUnfinalized(r) \/ ReadStudents(r) \/ ProcessStudent(r) PROVE Steps /\ Runs
  <2>1. Steps
    BY <1>6, Zenon DEF Finish, Goto, CountUnfinalized, ReadStudents, ProcessStudent
  <2>2. Runs
    <3>1. req[r].pc \in {"count", "students", "progress"} /\ UNCHANGED history
      BY <1>6, Zenon DEF At, CountUnfinalized, ReadStudents, ProcessStudent
    <3> QED BY <3>1 DEF history
  <2> QED BY <2>1, <2>2
<1>7. ASSUME UpdateStudentProgression(r) \/ RecordCohortChange(r) \/ ReassignCohortGroups(r)
      PROVE  Steps /\ Runs
  <2>1. Steps
    BY <1>7, Zenon DEF Finish, Goto, UpdateStudentProgression, RecordCohortChange,
       ReassignCohortGroups
  <2>2. Runs
    BY <1>7 DEF At, history, UpdateStudentProgression, RecordCohortChange, ReassignCohortGroups
  <2> QED BY <2>1, <2>2
<1>8. ASSUME ProcessError(r) \/ EndProcessing(r) PROVE Steps /\ Runs
  <2>1. Steps
    BY <1>8, Zenon DEF Finish, Goto, ProcessError, EndProcessing
  <2>2. Runs
    BY <1>8 DEF At, history, ProcessError, EndProcessing
  <2> QED BY <2>1, <2>2
<1>9. ASSUME ReadSemesterStatus(r) \/ ReadFinalized(r) \/ ReadPassThreshold(r)
      PROVE  Steps /\ Runs
  <2>1. Steps
    BY <1>9, Zenon DEF Finish, Goto, ReadSemesterStatus, ReadFinalized, ReadPassThreshold
  <2>2. Runs
    BY <1>9 DEF At, history, ReadSemesterStatus, ReadFinalized, ReadPassThreshold
  <2> QED BY <2>1, <2>2
<1>10. ASSUME ReadEnrolled(r) \/ ClearFinalGrades(r) PROVE Steps /\ Runs
  <2>1. Steps
    BY <1>10, Zenon DEF Finish, Goto, ReadEnrolled, ClearFinalGrades
  <2>2. Runs
    BY <1>10 DEF At, history, ReadEnrolled, ClearFinalGrades
  <2> QED BY <2>1, <2>2
<1>11. ASSUME \E s \in Student : SetFinalGrade(r, s) PROVE Steps /\ Runs
  <2>1. Steps
    BY <1>11, Zenon DEF Finish, Goto, SetFinalGrade
  <2>2. Runs
    BY <1>11 DEF At, history, SetFinalGrade
  <2> QED BY <2>1, <2>2
<1>12. ASSUME ReadStudent(r) \/ UpdateStudent(r) PROVE Steps /\ Runs
  <2>1. Steps
    BY <1>12, Zenon DEF Finish, Goto, ReadStudent, UpdateStudent
  <2>2. Runs
    BY <1>12 DEF At, history, ReadStudent, UpdateStudent
  <2> QED BY <2>1, <2>2
<1>13. Steps /\ Runs
  BY <1>1, <1>2, <1>3, <1>4, <1>5, <1>6, <1>7, <1>8, <1>9, <1>10, <1>11, <1>12
     DEF Statement
<1>14. PICK n : Continue(r, n)
  BY <1>13
<1> QED BY <1>13, <1>14 DEF Alone, Continue, Inv, TypeInv, TypeOK

(* A step of a running call leaves it the call it is. *)
LEMMA CallKept ==
    ASSUME Inv, NEW r \in Request, Statement(r) \/ Fail(r)
    PROVE  req'[r].op = req[r].op /\ req'[r].pc # "idle"
<1> DEFINE Kept == req'[r].op = req[r].op /\ req'[r].pc # "idle"
<1>1. req[r] \in RequestState /\ req \in [Request -> RequestState]
  BY DEF Inv, TypeInv, TypeOK
<1>2. \A result : Finish(r, result) => Kept
  BY FinishFields
<1>3. \A pc : Goto(r, pc) /\ pc # "idle" => Kept
  BY GotoFields
<1>4. \A n : Continue(r, n) /\ n.op = req[r].op /\ n.pc # "idle" => Kept
  BY <1>1 DEF Continue
<1>5. CASE Fail(r)
  BY <1>2, <1>5 DEF Fail
<1>6. CASE ReadSemester(r)
  <2> DEFINE pc == IF Calls(r, {"end"}) THEN "count" ELSE "write"
             n == [req[r] EXCEPT !.row = semester, !.pc = pc]
  <2>1. n.op = req[r].op /\ n.pc # "idle"
    BY <1>1 DEF RequestState
  <2>2. Finish(r, "not_found") \/ Finish(r, "refused") \/ Continue(r, n)
    BY <1>6 DEF ReadSemester
  <2> HIDE DEF n
  <2> QED BY <1>2, <2>1, <2>2, <1>1 DEF Continue
<1>7. CASE UpdateSemester(r)
  <2> DEFINE n == [req[r] EXCEPT !.pc = "read", !.tries = @ + 1]
  <2>1. n.op = req[r].op /\ n.pc # "idle"
    BY <1>1 DEF RequestState
  <2>2. \/ Finish(r, "not_found") \/ Finish(r, "ok") \/ Finish(r, "conflict")
        \/ Goto(r, "refresh") \/ Continue(r, n)
    BY <1>7 DEF UpdateSemester
  <2> HIDE DEF n
  <2> QED BY <1>2, <1>3, <2>1, <2>2, <1>1 DEF Continue
<1>8. CASE RefreshVersion(r)
  <2> DEFINE n == [req[r] EXCEPT !.pc = "write", !.tries = @ + 1,
                                 !.row.version = semester.version]
  <2>1. n.op = req[r].op /\ n.pc # "idle"
    BY <1>1 DEF RequestState
  <2>2. Finish(r, "not_found") \/ Finish(r, "conflict") \/ Continue(r, n)
    BY <1>8 DEF RefreshVersion
  <2> HIDE DEF n
  <2> QED BY <1>2, <2>1, <2>2, <1>1 DEF Continue
<1>9. CASE \/ CountUnfinalized(r) \/ UpdateStudentProgression(r) \/ RecordCohortChange(r)
           \/ ReassignCohortGroups(r) \/ ProcessError(r) \/ EndProcessing(r)
           \/ ReadSemesterStatus(r) \/ ReadFinalized(r) \/ ClearFinalGrades(r)
           \/ DeleteSemester(r)
  <2>1. \/ Finish(r, "refused") \/ Finish(r, "ok")
        \/ \E pc \in {"students", "progress", "record", "regroup", "write", "threshold",
                      "finalized", "clear"} : Goto(r, pc)
    BY <1>9 DEF CountUnfinalized, UpdateStudentProgression, RecordCohortChange,
       ReassignCohortGroups, ProcessError, EndProcessing, ReadSemesterStatus, ReadFinalized,
       ClearFinalGrades, DeleteSemester
  <2> QED BY <1>2, <1>3, <2>1
<1>10. CASE ReadStudents(r)
  <2> DEFINE left == {s \in Student : /\ student[s].status = "active"
                                      /\ \E o \in Offering : enrollment[o][s] # "none"}
             n == [req[r] EXCEPT !.pc = "progress", !.roster = student, !.left = left]
  <2>1. n.op = req[r].op /\ n.pc # "idle"
    BY <1>1 DEF RequestState
  <2>2. Continue(r, n)
    BY <1>10 DEF ReadStudents
  <2> HIDE DEF n
  <2> QED BY <1>4, <2>1, <2>2, <1>1 DEF Continue
<1>11. CASE ProcessStudent(r)
  <2>1. PICK s \in req[r].left, minCredits \in Minimum :
            Continue(r, [req[r] EXCEPT !.pc = Outcome(r, s, minCredits), !.left = @ \ {s},
                                       !.current = s])
    BY <1>11 DEF ProcessStudent
  <2> DEFINE n == [req[r] EXCEPT !.pc = Outcome(r, s, minCredits), !.left = @ \ {s},
                                 !.current = s]
  <2>2. n.op = req[r].op /\ n.pc # "idle"
    BY <1>1 DEF RequestState, Outcome
  <2>3. Continue(r, n)
    BY <2>1
  <2> HIDE DEF n
  <2> QED BY <2>2, <2>3, <1>1 DEF Continue
<1>12. CASE ReadPassThreshold(r)
  <2> DEFINE over == Calls(r, {"override"})
             pc == IF over THEN "grade" ELSE "enrolled"
             left == IF over THEN {req[r].op.student} ELSE {}
             n == [req[r] EXCEPT !.threshold = semester.passThreshold, !.pc = pc, !.left = left]
  <2>1. n.op = req[r].op /\ n.pc # "idle"
    BY <1>1 DEF RequestState
  <2>2. Continue(r, n)
    BY <1>12 DEF ReadPassThreshold
  <2> HIDE DEF n
  <2> QED BY <2>1, <2>2, <1>1 DEF Continue
<1>13. CASE ReadEnrolled(r)
  <2> DEFINE roster == {s \in Student : enrollment[req[r].op.offering][s] = "enrolled"}
             n == [req[r] EXCEPT !.pc = "grade", !.left = roster]
  <2>1. n.op = req[r].op /\ n.pc # "idle"
    BY <1>1 DEF RequestState
  <2>2. Finish(r, "refused") \/ Continue(r, n)
    BY <1>13 DEF ReadEnrolled
  <2> HIDE DEF n
  <2> QED BY <1>2, <2>1, <2>2, <1>1 DEF Continue
<1>14. ASSUME NEW s \in Student, SetFinalGrade(r, s) PROVE Kept
  <2> DEFINE n == [req[r] EXCEPT !.left = @ \ {s}]
  <2>1. n.op = req[r].op /\ n.pc # "idle"
    BY <1>1, <1>14 DEF RequestState, SetFinalGrade, At
  <2>2. Finish(r, "refused") \/ Finish(r, "ok") \/ Continue(r, n)
    BY <1>14 DEF SetFinalGrade
  <2> HIDE DEF n
  <2> QED BY <1>2, <2>1, <2>2, <1>1 DEF Continue
<1>15. CASE ReadStudent(r) \/ UpdateStudent(r)
  <2> DEFINE n == [req[r] EXCEPT !.pc = "write", !.roster = student]
             again == [req[r] EXCEPT !.pc = "read", !.tries = @ + 1]
  <2>1. n.op = req[r].op /\ n.pc = "write" /\ again.op = req[r].op /\ again.pc = "read"
    BY <1>1 DEF RequestState
  <2>2. Finish(r, "ok") \/ Finish(r, "conflict") \/ Continue(r, n) \/ Continue(r, again)
    BY <1>15 DEF ReadStudent, UpdateStudent
  <2> HIDE DEF n, again
  <2> QED BY <1>2, <2>1, <2>2, <1>1 DEF Continue
<1> QED BY <1>5, <1>6, <1>7, <1>8, <1>9, <1>10, <1>11, <1>12, <1>13, <1>14, <1>15 DEF Statement

(* So a call once made stays made. *)
LEMMA StaysAsked ==
    ASSUME Inv, [Next]_vars, NEW calls, Asked(calls)
    PROVE  Asked(calls)'
<1>1. PICK r \in Request : req[r].pc # "idle" /\ req[r].op.call \in calls
  BY DEF Asked, At, Calls
<1>2. CASE UNCHANGED vars
  BY <1>1, <1>2 DEF vars, Asked, At, Calls
<1>3. ASSUME NEW q \in Request, (\E op \in Operation : Start(q, op)) \/ Statement(q) \/ Fail(q)
      PROVE  Asked(calls)'
  <2>1. CASE q = r
    <3>1. ~\E op \in Operation : Start(q, op)
      BY <1>1, <2>1 DEF Start, At
    <3>2. req'[r].op = req[r].op /\ req'[r].pc # "idle"
      BY <1>3, <2>1, <3>1, CallKept
    <3> QED BY <1>1, <3>2 DEF Asked, At, Calls
  <2>2. CASE q # r
    <3>1. req'[r] = req[r]
      BY <1>3, <2>2, StepAlone DEF Alone
    <3> QED BY <1>1, <3>1 DEF Asked, At, Calls
  <2> QED BY <2>1, <2>2
<1> QED BY <1>2, <1>3 DEF Next

-----------------------------------------------------------------------------
(* Grades agree.  Where no call edits the threshold or overrides a grade,   *)
(* the threshold never changes: every call holds the threshold of the       *)
(* semester, in the row it has read or as the one it grades by.             *)

NoRegrading == ~Asked({"update", "override"})

GradesBy(call, threshold) ==
    /\ Holding(call) => call.row.passThreshold = threshold
    /\ call.pc \in {"enrolled", "grade"} => call.threshold = threshold

GradingInv ==
    /\ \A r \in Request : GradesBy(req[r], semester.passThreshold)
    /\ OutcomesOfMarks

LEMMA GradesByStep ==
    ASSUME Inv, GradingInv, NEW r \in Request, NEW n, Continue(r, n),
           semester'.passThreshold = semester.passThreshold,
           GradesBy(n, semester.passThreshold)
    PROVE  \A q \in Request : GradesBy(req'[q], semester'.passThreshold)
<1>1. req'[r] = n /\ \A q \in Request \ {r} : req'[q] = req[q]
  BY DEF Continue, Inv, TypeInv, TypeOK
<1> QED BY <1>1 DEF GradingInv

LEMMA FinishGradesBy ==
    ASSUME Inv, GradingInv, NEW r \in Request, NEW result, Finish(r, result),
           semester'.passThreshold = semester.passThreshold
    PROVE  \A q \in Request : GradesBy(req'[q], semester'.passThreshold)
<1> DEFINE n == [IdleRequest EXCEPT !.pc = "done", !.op = req[r].op, !.result = result]
<1>1. Continue(r, n) /\ n.pc = "done"
  BY DEF Finish, IdleRequest
<1> HIDE DEF n
<1>2. GradesBy(n, semester.passThreshold)
  BY <1>1 DEF GradesBy, Holding
<1> QED BY <1>1, <1>2, GradesByStep

(* A call that holds a row goes on holding it, and starts no grading. *)
LEMMA HoldGradesBy ==
    ASSUME Inv, GradingInv, NEW r \in Request, NEW n, Continue(r, n),
           semester'.passThreshold = semester.passThreshold,
           Holding(n) => Holding(req[r]) /\ n.row.passThreshold = req[r].row.passThreshold,
           n.pc \notin {"enrolled", "grade"}
    PROVE  \A q \in Request : GradesBy(req'[q], semester'.passThreshold)
<1>1. GradesBy(n, semester.passThreshold)
  BY DEF GradingInv, GradesBy
<1> QED BY <1>1, GradesByStep

LEMMA EndGradesBy ==
    ASSUME Inv, GradingInv, NEW r \in Request,
           \/ CountUnfinalized(r) \/ ReadStudents(r) \/ ProcessStudent(r)
           \/ UpdateStudentProgression(r) \/ RecordCohortChange(r)
           \/ ReassignCohortGroups(r) \/ ProcessError(r) \/ EndProcessing(r)
    PROVE  /\ \A q \in Request : GradesBy(req'[q], semester'.passThreshold)
           /\ UNCHANGED <<semester, enrollment>>
<1>1. req[r].pc \in EndPc /\ UNCHANGED <<semester, enrollment>> /\ req[r] \in RequestState
  BY DEF CountUnfinalized, ReadStudents, ProcessStudent, UpdateStudentProgression,
         RecordCohortChange, ReassignCohortGroups, ProcessError, EndProcessing, At,
         EndPc, ProcessingPc, tables, Inv, TypeInv, TypeOK
<1>2. Holding(req[r])
  BY <1>1 DEF Inv, CallsInv, CallInv, Holding, EndPc, ProcessingPc, WritesSemester
<1>3. ASSUME NEW pc \in EndPc \cup {"write"}, Goto(r, pc)
      PROVE  \A q \in Request : GradesBy(req'[q], semester'.passThreshold)
  <2> DEFINE n == [req[r] EXCEPT !.pc = pc]
  <2>1. n.row = req[r].row /\ n.pc = pc /\ Continue(r, n)
    BY <1>1, <1>3 DEF RequestState, Goto
  <2> HIDE DEF n
  <2> QED BY <1>1, <1>2, <2>1, HoldGradesBy DEF EndPc, ProcessingPc
<1>4. CASE CountUnfinalized(r)
  <2>1. Finish(r, "refused") \/ Goto(r, "students")
    BY <1>4 DEF CountUnfinalized
  <2> QED BY <1>1, <1>3, <2>1, FinishGradesBy DEF EndPc
<1>5. CASE ReadStudents(r)
  <2> DEFINE n == [req[r] EXCEPT
                 !.pc = "progress", !.roster = student,
                 !.left = {s \in Student : /\ student[s].status = "active"
                                           /\ \E o \in Offering : enrollment[o][s] # "none"}]
  <2>1. n.row = req[r].row /\ n.pc = "progress"
    BY <1>1 DEF RequestState
  <2>2. Continue(r, n)
    BY <1>5 DEF ReadStudents
  <2> HIDE DEF n
  <2> QED BY <1>1, <1>2, <2>1, <2>2, HoldGradesBy
<1>6. CASE ProcessStudent(r)
  <2>1. PICK s \in req[r].left, minCredits \in Minimum :
            Continue(r, [req[r] EXCEPT !.pc = Outcome(r, s, minCredits), !.left = @ \ {s},
                                       !.current = s])
    BY <1>6 DEF ProcessStudent
  <2> DEFINE pc == Outcome(r, s, minCredits)
             n == [req[r] EXCEPT !.pc = pc, !.left = @ \ {s}, !.current = s]
  <2>2. pc \notin {"enrolled", "grade"}
    BY DEF Outcome
  <2> HIDE DEF pc
  <2>3. n.row = req[r].row /\ n.pc = pc
    BY <1>1 DEF RequestState
  <2>4. Continue(r, n)
    BY <2>1 DEF pc
  <2> HIDE DEF n
  <2> QED BY <1>1, <1>2, <2>2, <2>3, <2>4, HoldGradesBy
<1>7. CASE UpdateStudentProgression(r) \/ RecordCohortChange(r) \/ ReassignCohortGroups(r)
           \/ ProcessError(r) \/ EndProcessing(r)
  <2>1. \/ Goto(r, "progress") \/ Goto(r, "record") \/ Goto(r, "regroup") \/ Goto(r, "write")
    BY <1>7 DEF UpdateStudentProgression, RecordCohortChange, ReassignCohortGroups,
                ProcessError, EndProcessing
  <2> QED BY <1>1, <1>3, <2>1 DEF EndPc, ProcessingPc
<1> QED BY <1>4, <1>5, <1>6, <1>7

(* The calls on the row write back the threshold they hold. *)
LEMMA RowGradesBy ==
    ASSUME Inv, NoRegrading, GradingInv, NEW r \in Request,
           ReadSemester(r) \/ UpdateSemester(r) \/ RefreshVersion(r) \/ DeleteSemester(r)
    PROVE  /\ \A q \in Request : GradesBy(req'[q], semester'.passThreshold)
           /\ semester'.passThreshold = semester.passThreshold
           /\ UNCHANGED enrollment
<1> USE DEF GradingInv
<1>1. /\ req[r] \in RequestState /\ req[r].row \in SemesterRow /\ semester \in SemesterRow
      /\ UNCHANGED enrollment
  BY DEF ReadSemester, UpdateSemester, RefreshVersion, DeleteSemester, tables,
         Inv, TypeInv, TypeOK, RequestState
<1>2. CASE ReadSemester(r)
  <2> DEFINE pc == IF Calls(r, {"end"}) THEN "count" ELSE "write"
             n == [req[r] EXCEPT !.row = semester, !.pc = pc]
  <2>1. Finish(r, "not_found") \/ Finish(r, "refused") \/ Continue(r, n)
    BY <1>2 DEF ReadSemester
  <2>2. pc \notin {"enrolled", "grade"}
    OBVIOUS
  <2> HIDE DEF pc
  <2>3. n.row = semester /\ n.pc = pc
    BY <1>1 DEF RequestState
  <2> HIDE DEF n
  <2>4. GradesBy(n, semester.passThreshold)
    BY <2>2, <2>3 DEF GradesBy
  <2>5. UNCHANGED semester
    BY <1>2 DEF ReadSemester, tables
  <2> QED BY <1>1, <2>1, <2>4, <2>5, GradesByStep, FinishGradesBy
<1>3. CASE RefreshVersion(r)
  <2> DEFINE row == [req[r].row EXCEPT !.version = semester.version]
             n == [req[r] EXCEPT !.pc = "write", !.tries = @ + 1, !.row = row]
  <2>1. row.passThreshold = req[r].row.passThreshold
    BY <1>1 DEF SemesterRow
  <2>2. Finish(r, "not_found") \/ Finish(r, "conflict") \/ Continue(r, n)
    BY <1>3 DEF RefreshVersion
  <2> HIDE DEF row
  <2>3. n.row = row /\ n.pc = "write"
    BY <1>1 DEF RequestState
  <2> HIDE DEF n
  <2>4. Holding(req[r]) /\ UNCHANGED semester
    BY <1>3 DEF RefreshVersion, At, tables, Inv, CallsInv, CallInv, EndPc, Holding,
                WritesSemester
  <2>5. Continue(r, n) => \A q \in Request : GradesBy(req'[q], semester'.passThreshold)
    BY <2>1, <2>3, <2>4, HoldGradesBy
  <2> QED BY <1>1, <2>2, <2>4, <2>5, FinishGradesBy
<1>4. CASE DeleteSemester(r)
  BY <1>1, <1>4, FinishGradesBy DEF DeleteSemester, SemesterRow
<1>5. CASE UpdateSemester(r)
  <2> DEFINE op == req[r].op
             again == [req[r] EXCEPT !.pc = "read", !.tries = @ + 1]
             on == [req[r] EXCEPT !.pc = "refresh"]
  <2>1. /\ op \in Operation /\ op.call \in WritesSemester /\ op.call # "update"
        /\ Holding(req[r])
    BY <1>5 DEF UpdateSemester, At, Calls, Inv, TypeInv, HasCall, NoRegrading, Asked, Holding
  <2>2. again.pc = "read" /\ on.pc = "refresh" /\ on.row = req[r].row
    BY <1>1 DEF RequestState
  <2>3. CASE UNCHANGED semester
    <3>1. \/ Finish(r, "not_found") \/ Finish(r, "conflict") \/ Finish(r, "ok")
          \/ Continue(r, again) \/ Continue(r, on)
      BY <1>5 DEF UpdateSemester, Goto
    <3> HIDE DEF again, on
    <3>2. ~Holding(again)
      BY <2>2 DEF Holding
    <3>3. Continue(r, again) => \A q \in Request : GradesBy(req'[q], semester'.passThreshold)
      BY <2>2, <2>3, <3>2, HoldGradesBy
    <3>4. Continue(r, on) => \A q \in Request : GradesBy(req'[q], semester'.passThreshold)
      BY <2>1, <2>2, <2>3, HoldGradesBy
    <3> QED BY <1>1, <2>3, <3>1, <3>3, <3>4, FinishGradesBy
  <2>4. CASE Swapped(Patched(op, req[r].row)) /\ Finish(r, "ok")
    <3>1. Patched(op, req[r].row).passThreshold = req[r].row.passThreshold
      BY <1>1, <2>1 DEF Patched, WritesSemester, SemesterRow
    <3>2. semester'.passThreshold = Patched(op, req[r].row).passThreshold
      BY <1>1, <2>1, <2>4, PatchTyped DEF Swapped, SemesterRow
    <3>3. req[r].row.passThreshold = semester.passThreshold
      BY <2>1 DEF GradesBy
    <3> QED BY <1>1, <2>4, <3>1, <3>2, <3>3, FinishGradesBy
  <2> QED BY <1>5, <2>3, <2>4 DEF UpdateSemester
<1> QED BY <1>2, <1>3, <1>4, <1>5

LEMMA GradeGradesBy ==
    ASSUME Inv, NoRegrading, GradingInv, NEW r \in Request,
           \/ ReadSemesterStatus(r) \/ ReadFinalized(r) \/ ReadPassThreshold(r)
           \/ ReadEnrolled(r) \/ ClearFinalGrades(r) \/ \E s \in Student : SetFinalGrade(r, s)
           \/ ReadStudent(r) \/ UpdateStudent(r)
    PROVE  \A q \in Request : GradesBy(req'[q], semester'.passThreshold)
<1> USE DEF GradingInv
<1>1. UNCHANGED semester /\ req[r] \in RequestState
  BY DEF ReadSemesterStatus, ReadFinalized, ReadPassThreshold, ReadEnrolled,
         ClearFinalGrades, SetFinalGrade, ReadStudent, UpdateStudent, tables,
         Inv, TypeInv, TypeOK
<1>2. req[r].op.call \notin WritesSemester
  BY DEF ReadSemesterStatus, ReadFinalized, ReadPassThreshold, ReadEnrolled, ReadStudent,
         ClearFinalGrades, SetFinalGrade, UpdateStudent, At, Calls, Inv, CallsInv, CallInv,
         GradingPc, ReadsStatus, WritesSemester
<1>3. ASSUME NEW n, Continue(r, n), n.op = req[r].op,
             n.pc \in {"enrolled", "grade"} => n.threshold = semester.passThreshold
      PROVE  \A q \in Request : GradesBy(req'[q], semester'.passThreshold)
  <2>1. GradesBy(n, semester.passThreshold)
    BY <1>2, <1>3 DEF GradesBy, Holding
  <2> QED BY <1>1, <1>3, <2>1, GradesByStep
<1>4. ASSUME NEW pc, pc \notin {"enrolled", "grade"}, Goto(r, pc)
      PROVE  \A q \in Request : GradesBy(req'[q], semester'.passThreshold)
  <2> DEFINE n == [req[r] EXCEPT !.pc = pc]
  <2>1. n.op = req[r].op /\ n.pc = pc /\ Continue(r, n)
    BY <1>1, <1>4 DEF RequestState, Goto
  <2> HIDE DEF n
  <2> QED BY <1>3, <1>4, <2>1
<1>5. ASSUME NEW result, Finish(r, result)
      PROVE  \A q \in Request : GradesBy(req'[q], semester'.passThreshold)
  BY <1>1, <1>5, FinishGradesBy
<1>6. CASE ReadSemesterStatus(r) \/ ReadFinalized(r) \/ ClearFinalGrades(r)
  <2>1. \/ Finish(r, "refused") \/ Finish(r, "ok")
        \/ Goto(r, "threshold") \/ Goto(r, "finalized") \/ Goto(r, "clear")
    BY <1>6 DEF ReadSemesterStatus, ReadFinalized, ClearFinalGrades
  <2> QED BY <1>4, <1>5, <2>1
<1>7. CASE ReadPassThreshold(r)
  <2> DEFINE pc == IF Calls(r, {"override"}) THEN "grade" ELSE "enrolled"
             left == IF Calls(r, {"override"}) THEN {req[r].op.student} ELSE {}
             n == [req[r] EXCEPT !.threshold = semester.passThreshold, !.pc = pc, !.left = left]
  <2>1. Continue(r, n)
    BY <1>7 DEF ReadPassThreshold
  <2> HIDE DEF pc, left
  <2>2. n.op = req[r].op /\ n.threshold = semester.passThreshold
    BY <1>1 DEF RequestState
  <2> HIDE DEF n
  <2> QED BY <1>3, <2>1, <2>2
<1>8. CASE ReadEnrolled(r)
  <2> DEFINE roster == {s \in Student : enrollment[req[r].op.offering][s] = "enrolled"}
             n == [req[r] EXCEPT !.pc = "grade", !.left = roster]
  <2>1. n.op = req[r].op /\ n.threshold = req[r].threshold
    BY <1>1 DEF RequestState
  <2>2. Finish(r, "refused") \/ Continue(r, n)
    BY <1>8 DEF ReadEnrolled
  <2> HIDE DEF n
  <2>3. req[r].threshold = semester.passThreshold
    BY <1>8 DEF ReadEnrolled, At, GradesBy
  <2> QED BY <1>3, <1>5, <2>1, <2>2, <2>3
<1>9. ASSUME NEW s \in Student, SetFinalGrade(r, s)
      PROVE  \A q \in Request : GradesBy(req'[q], semester'.passThreshold)
  <2> DEFINE n == [req[r] EXCEPT !.left = @ \ {s}]
  <2>1. n.op = req[r].op /\ n.threshold = req[r].threshold
    BY <1>1 DEF RequestState
  <2>2. Finish(r, "refused") \/ Finish(r, "ok") \/ Continue(r, n)
    BY <1>9 DEF SetFinalGrade
  <2> HIDE DEF n
  <2>3. req[r].threshold = semester.passThreshold
    BY <1>9 DEF SetFinalGrade, At, GradesBy
  <2> QED BY <1>3, <1>5, <2>1, <2>2, <2>3
<1>10. CASE ReadStudent(r) \/ UpdateStudent(r)
  <2> DEFINE read == [req[r] EXCEPT !.pc = "write", !.roster = student]
             again == [req[r] EXCEPT !.pc = "read", !.tries = @ + 1]
  <2>1. read.op = req[r].op /\ read.pc = "write" /\ again.op = req[r].op /\ again.pc = "read"
    BY <1>1 DEF RequestState
  <2>2. Continue(r, read) \/ Continue(r, again) \/ Finish(r, "ok") \/ Finish(r, "conflict")
    BY <1>10 DEF ReadStudent, UpdateStudent
  <2> HIDE DEF read, again
  <2> QED BY <1>3, <1>5, <2>1, <2>2
<1> QED BY <1>6, <1>7, <1>8, <1>9, <1>10

(* The outcomes these write are of the threshold they hold. *)
LEMMA OutcomesAgree ==
    ASSUME Inv, NoRegrading, GradingInv, NEW r \in Request,
           \/ ReadSemesterStatus(r) \/ ReadFinalized(r) \/ ReadPassThreshold(r)
           \/ ReadEnrolled(r) \/ ClearFinalGrades(r) \/ \E s \in Student : SetFinalGrade(r, s)
           \/ ReadStudent(r) \/ UpdateStudent(r)
    PROVE  OutcomesOfMarks'
<1>1. /\ UNCHANGED semester /\ req[r] \in RequestState
      /\ enrollment \in [Offering -> [Student -> {"none", "enrolled"} \cup Outcomes]]
      /\ OutcomesOfMarks
  BY DEF ReadSemesterStatus, ReadFinalized, ReadPassThreshold, ReadEnrolled,
         ClearFinalGrades, SetFinalGrade, ReadStudent, UpdateStudent, tables,
         Inv, TypeInv, TypeOK, GradingInv
<1>2. CASE UNCHANGED enrollment
  BY <1>1, <1>2 DEF OutcomesOfMarks
<1>3. CASE ClearFinalGrades(r)
  <2> DEFINE o == req[r].op.offering
             cleared == [s \in Student |-> IF enrollment[o][s] \in Outcomes THEN "enrolled"
                                           ELSE enrollment[o][s]]
  <2>1. enrollment' = [enrollment EXCEPT ![o] = cleared]
    BY <1>3 DEF ClearFinalGrades
  <2>2. \A s \in Student : cleared[s] \notin Outcomes
    BY DEF Outcomes
  <2> HIDE DEF cleared
  <2>3. \A p \in Offering, s \in Student :
            enrollment'[p][s] \in Outcomes => enrollment'[p][s] = enrollment[p][s]
    BY <1>1, <2>1, <2>2
  <2> QED BY <1>1, <2>3 DEF OutcomesOfMarks
<1>4. ASSUME NEW s \in Student, SetFinalGrade(r, s), enrollment' # enrollment
      PROVE  OutcomesOfMarks'
  <2> DEFINE o == req[r].op.offering
             outcome == PassStatus(GradeOf(r, s), req[r].threshold)
  <2>1. enrollment' = [enrollment EXCEPT ![o][s] = outcome]
    BY <1>4 DEF SetFinalGrade
  <2>2. req[r].threshold = semester.passThreshold
    BY <1>4 DEF SetFinalGrade, At, GradingInv, GradesBy
  <2>3. GradeOf(r, s) = Mark[o][s]
    BY <1>4 DEF SetFinalGrade, At, GradeOf, Calls, NoRegrading, Asked
  <2>4. outcome = "completed" <=> Mark[o][s] >= semester.passThreshold
    BY <2>2, <2>3 DEF PassStatus
  <2> HIDE DEF outcome
  <2> SUFFICES ASSUME NEW p \in Offering, NEW t \in Student, enrollment'[p][t] \in Outcomes
               PROVE  enrollment'[p][t] = "completed" <=> Mark[p][t] >= semester.passThreshold
    BY <1>1 DEF OutcomesOfMarks
  <2>5. CASE p = o /\ t = s
    BY <1>1, <2>1, <2>4, <2>5
  <2>6. CASE ~(p = o /\ t = s)
    <3>1. enrollment'[p][t] = enrollment[p][t]
      BY <1>1, <2>1, <2>6
    <3> QED BY <1>1, <3>1 DEF OutcomesOfMarks
  <2> QED BY <2>5, <2>6
<1> QED BY <1>2, <1>3, <1>4 DEF ReadSemesterStatus, ReadFinalized, ReadPassThreshold,
        ReadEnrolled, ReadStudent, UpdateStudent, tables

LEMMA GradingStep ==
    ASSUME Inv, NoRegrading, GradingInv, [Next]_vars
    PROVE  GradingInv'
<1> DEFINE Graded == \A q \in Request : GradesBy(req'[q], semester'.passThreshold)
<1>1. CASE UNCHANGED vars
  BY <1>1 DEF vars, tables, GradingInv, OutcomesOfMarks, GradesBy, Holding
<1>2. ASSUME UNCHANGED enrollment, semester'.passThreshold = semester.passThreshold
      PROVE  OutcomesOfMarks'
  BY <1>2 DEF GradingInv, OutcomesOfMarks
<1>3. ASSUME NEW r \in Request, NEW op \in Operation, Start(r, op)
      PROVE  GradingInv'
  <2> DEFINE n == [IdleRequest EXCEPT !.pc = "read", !.op = op]
  <2>1. n.pc = "read" /\ Continue(r, n) /\ UNCHANGED tables
    BY <1>3 DEF IdleRequest, Start
  <2> HIDE DEF n
  <2>2. GradesBy(n, semester.passThreshold)
    BY <2>1 DEF GradesBy, Holding
  <2>3. Graded
    BY <2>1, <2>2, GradesByStep DEF tables
  <2> QED BY <1>2, <2>1, <2>3 DEF tables, GradingInv
<1>4. ASSUME NEW r \in Request, Fail(r)
      PROVE  GradingInv'
  <2>1. Graded
    BY <1>4, FinishGradesBy DEF Fail, tables
  <2> QED BY <1>2, <1>4, <2>1 DEF Fail, tables, GradingInv
<1>5. ASSUME NEW r \in Request, Statement(r)
      PROVE  GradingInv'
  <2>1. CASE ReadSemester(r) \/ UpdateSemester(r) \/ RefreshVersion(r) \/ DeleteSemester(r)
    BY <1>2, <2>1, RowGradesBy DEF GradingInv
  <2>2. CASE \/ CountUnfinalized(r) \/ ReadStudents(r) \/ ProcessStudent(r)
             \/ UpdateStudentProgression(r) \/ RecordCohortChange(r)
             \/ ReassignCohortGroups(r) \/ ProcessError(r) \/ EndProcessing(r)
    BY <1>2, <2>2, EndGradesBy DEF GradingInv
  <2>3. CASE \/ ReadSemesterStatus(r) \/ ReadFinalized(r) \/ ReadPassThreshold(r)
             \/ ReadEnrolled(r) \/ ClearFinalGrades(r)
             \/ \E s \in Student : SetFinalGrade(r, s)
             \/ ReadStudent(r) \/ UpdateStudent(r)
    <3>1. OutcomesOfMarks'
      BY <2>3, OutcomesAgree
    <3>2. Graded
      BY <2>3, GradeGradesBy
    <3> QED BY <3>1, <3>2 DEF GradingInv
  <2> QED BY <1>5, <2>1, <2>2, <2>3 DEF Statement
<1> QED BY <1>1, <1>3, <1>4, <1>5 DEF Next

LEMMA GradingInit == Init => GradingInv
<1> SUFFICES ASSUME Init PROVE GradingInv
  OBVIOUS
<1>1. \A r \in Request : GradesBy(req[r], semester.passThreshold)
  BY DEF Init, IdleRequest, GradesBy, Holding
<1>2. OutcomesOfMarks
  BY DEF Init, OutcomesOfMarks, PassStatus, Outcomes
<1> QED BY <1>1, <1>2 DEF GradingInv

(* Finalizes of an offering that overlap, fail half way, are repeated or      *)
(* undone agree on every grade: it is the one the marks and the threshold of  *)
(* the semester give, unless some call edits the threshold or overrides a     *)
(* grade (grading.go:261-300).                                                *)
THEOREM GradesAlwaysAgree == Spec => []FinalizesAgree
<1> DEFINE Graded == Inv /\ (NoRegrading => GradingInv)
<1>1. Init /\ Inv => Graded
  BY GradingInit
<1>2. Graded /\ [Next]_vars => Graded'
  <2>1. Inv /\ [Next]_vars /\ NoRegrading' => NoRegrading
    BY StaysAsked DEF NoRegrading
  <2> QED BY <2>1, GradingStep, InvStep
<1>3. Graded => FinalizesAgree
  BY DEF GradingInv, FinalizesAgree, NoRegrading
<1> QED BY <1>1, <1>2, <1>3, InvHolds, PTL DEF Spec

-----------------------------------------------------------------------------
(* Moved once and wholly.  Of two EndSemester calls past their read one has *)
(* overlapped the other, so in an undisturbed history one call at most is   *)
(* acting.  It takes each student it has listed through the statements of   *)
(* his case; whoever is still listed is untouched, and his row on its list  *)
(* is the one he started with.  When no call is acting, either nobody has   *)
(* been touched or the semester is archived or deleted, which bars the next *)
(* call at its read.                                                        *)

Acting(r) == req[r].pc \in EndPc \cup {"write"} /\ Calls(r, {"end"})

Barred == semester.deleted \/ semester.status = "archived"

Home(row, s) == row.year = InitialStudent[s].year /\ row.cohort = InitialStudent[s].cohort

Untouched(s) == Home(student[s], s) /\ cohortHistory[s] = <<>>

Repeating(s) ==
    /\ student[s].year = InitialStudent[s].year
    /\ student[s].cohort = InitialStudent[s].cohort + 1

Change(s) == <<[from |-> InitialStudent[s].cohort, to |-> student[s].cohort]>>

Settled(s) ==
    /\ Moves(s) <= 1
    /\ s \notin failures /\ student[s].cohort # InitialStudent[s].cohort
       => cohortGroups[s] = student[s].cohort /\ cohortHistory[s] = Change(s)

\* Between a repeater's new cohort and his groups.
HalfWay(call, s) == call.pc \in {"record", "regroup"} /\ call.current = s

\* How far a call has taken student s.
Taken(call, s) ==
    /\ call.pc \in {"count", "students"} => Untouched(s)
    /\ call.pc \in ProcessingPc \cup {"progress"} /\ s \in call.left
       => Untouched(s) /\ Home(call.roster[s], s)
    /\ call.pc \in ProcessingPc /\ s = call.current
       => s \notin call.left /\ Home(call.roster[s], s)
    /\ call.pc \in {"promote", "repeat", "remain"} /\ s = call.current => Untouched(s)
    /\ HalfWay(call, s) => Repeating(s)
    /\ call.pc = "record" /\ s = call.current => cohortHistory[s] = <<>>
    /\ call.pc = "regroup" /\ s = call.current => cohortHistory[s] = Change(s)
    /\ ~HalfWay(call, s) => Settled(s)

OneActs == \A r, q \in Request : Acting(r) /\ Acting(q) => r = q

EachTaken == \A r \in Request : Acting(r) => \A s \in Student : Taken(req[r], s)

AtRest ==
    (\A r \in Request : ~Acting(r)) =>
        \A s \in Student : Settled(s) /\ (~Barred => Untouched(s))

MovesInv == OneActs /\ EachTaken /\ AtRest

YearInv == Undisturbed => MovesInv

LEMMA UntouchedSettled ==
    ASSUME Inv, NEW s \in Student, Untouched(s)
    PROVE  Settled(s)
<1>1. InitialStudent[s].year \in Nat /\ InitialStudent[s].cohort \in Nat
  BY InitialAssumption DEF StudentRow
<1> QED BY <1>1 DEF Untouched, Home, Settled, Moves

(* What has disturbed the year once has disturbed it for good. *)
LEMMA UndisturbedBefore ==
    ASSUME Inv, [Next]_vars, NEW r \in Request, Alone(r), Undisturbed'
    PROVE  Undisturbed
<1>1. ~overlapped /\ ~Asked({"updateStudent"})
  BY StaysAsked DEF Alone, Undisturbed
<1>2. ASSUME NEW q \in Request, Ended(q)
      PROVE  req[q].result \notin {"failed", "conflict"}
  <2>1. req'[q] = req[q]
    BY <1>2 DEF Ended, Alone
  <2> QED BY <1>2, <2>1 DEF Ended, Calls, Undisturbed
<1> QED BY <1>1, <1>2 DEF Undisturbed

(* Steps beside the year end: nothing it writes changes. *)
LEMMA StepAside ==
    ASSUME Inv, MovesInv, NEW r \in Request, Alone(r), ~Acting(r), ~Acting(r)',
           UNCHANGED <<student, cohortHistory, cohortGroups, failures>>, Barred => Barred'
    PROVE  MovesInv'
<1>1. \A q \in Request : /\ Acting(q)' <=> Acting(q)
                         /\ Acting(q) => req'[q] = req[q]
  BY DEF Alone, Acting, Calls
<1>2. \A s \in Student : /\ Settled(s)' <=> Settled(s)
                         /\ Untouched(s)' <=> Untouched(s)
  BY DEF Settled, Moves, Change, Untouched, Home
<1>3. OneActs'
  BY <1>1 DEF MovesInv, OneActs
<1>4. EachTaken'
  <2> SUFFICES ASSUME NEW q \in Request, Acting(q)', NEW s \in Student
               PROVE  Taken(req[q], s)'
    BY DEF EachTaken
  <2>1. Taken(req[q], s) /\ req'[q] = req[q]
    BY <1>1 DEF MovesInv, EachTaken
  <2> QED BY <1>2, <2>1 DEF Taken, HalfWay, Repeating, Change
<1>5. AtRest'
  BY <1>1, <1>2 DEF MovesInv, AtRest
<1> QED BY <1>3, <1>4, <1>5 DEF MovesInv

(* A step of the call that acts, after which it still does. *)
LEMMA StepOnward ==
    ASSUME Inv, MovesInv, NEW r \in Request, Alone(r), Acting(r), Acting(r)',
           \A s \in Student : Taken(req[r], s)'
    PROVE  MovesInv'
<1>1. \A q \in Request \ {r} : ~Acting(q)'
  BY DEF MovesInv, OneActs, Alone, Acting, Calls
<1> QED BY <1>1 DEF MovesInv, OneActs, EachTaken, AtRest

(* Its last step. *)
LEMMA StepToRest ==
    ASSUME Inv, MovesInv, NEW r \in Request, Alone(r), Acting(r), ~Acting(r)',
           \A s \in Student : Settled(s)' /\ (~Barred => Untouched(s))'
    PROVE  MovesInv'
<1>1. \A q \in Request : ~Acting(q)'
  BY DEF MovesInv, OneActs, Alone, Acting, Calls
<1> QED BY <1>1 DEF MovesInv, OneActs, EachTaken, AtRest

(* A call that fails, or gives up after its retries, has disturbed the year *)
(* if it was an EndSemester.                                                *)
LEMMA LosersDisturb ==
    ASSUME Inv, NEW r \in Request, Finish(r, "failed") \/ Finish(r, "conflict"),
           Undisturbed', req[r].pc # "idle"
    PROVE  ~Calls(r, {"end"})
<1>1. req'[r].pc = "done" /\ req'[r].op = req[r].op /\ req'[r].result \in {"failed", "conflict"}
  BY FinishFields
<1>2. req[r].op # None
  BY NoneAssumption, OperationAssumption DEF Inv, TypeInv, HasCall
<1> QED BY <1>1, <1>2 DEF Undisturbed, Ended, Calls

LEMMA StartMoves ==
    ASSUME Inv, MovesInv, NEW r \in Request, Alone(r), NEW op \in Operation, Start(r, op)
    PROVE  MovesInv'
<1> DEFINE n == [IdleRequest EXCEPT !.pc = "read", !.op = op]
<1>1. n.pc = "read" /\ Continue(r, n) /\ UNCHANGED <<tables, history>> /\ req[r].pc = "idle"
  BY DEF IdleRequest, Start, At
<1> HIDE DEF n
<1>2. req'[r].pc = "read"
  BY <1>1 DEF Continue, Inv, TypeInv, TypeOK
<1> QED BY <1>1, <1>2, StepAside
        DEF Acting, EndPc, ProcessingPc, tables, history, Barred

LEMMA FailMoves ==
    ASSUME Inv, MovesInv, NEW r \in Request, Alone(r), Undisturbed', Fail(r)
    PROVE  MovesInv'
<1>1. ~Calls(r, {"end"})
  BY LosersDisturb DEF Fail, Running
<1>2. req'[r].pc = "done"
  BY FinishFields DEF Fail
<1> QED BY <1>1, <1>2, StepAside
        DEF Acting, EndPc, ProcessingPc, tables, history, Barred, Fail

(* A read that lets an EndSemester begin finds the semester finalized and no *)
(* other one running, so nobody has been touched.                           *)
LEMMA ReadMoves ==
    ASSUME Inv, MovesInv, NEW r \in Request, Alone(r), Undisturbed', ReadSemester(r)
    PROVE  MovesInv'
<1>1. /\ req[r].pc = "read" /\ Calls(r, WritesSemester) /\ UNCHANGED <<tables, failures>>
      /\ ~Acting(r) /\ req[r] \in RequestState
  BY DEF ReadSemester, At, Acting, EndPc, ProcessingPc, Inv, TypeInv, TypeOK
<1>2. CASE ~Acting(r)'
  BY <1>1, <1>2, StepAside DEF tables, Barred
<1>3. CASE Acting(r)'
  <2> DEFINE pc == IF Calls(r, {"end"}) THEN "count" ELSE "write"
             n == [req[r] EXCEPT !.row = semester, !.pc = pc]
  <2>1. /\ ~semester.deleted /\ Permits(req[r].op, semester) /\ Continue(r, n)
    BY <1>3, FinishFields DEF ReadSemester, Acting, EndPc, ProcessingPc
  <2>2. n.op = req[r].op /\ n.pc = pc
    BY <1>1 DEF RequestState
  <2> HIDE DEF n
  <2>3. req'[r] = n
    BY <2>1 DEF Continue, Inv, TypeInv, TypeOK
  <2>4. Calls(r, {"end"}) /\ req'[r].pc = "count"
    BY <1>3, <2>2, <2>3 DEF Acting, Calls
  <2>5. ~Barred
    BY <2>1, <2>4 DEF Permits, Calls, Barred
  <2>6. \A q \in Request \ {r} : ~(Running(q) /\ Calls(q, {"end"}))
    BY <2>4 DEF ReadSemester, Undisturbed
  <2>7. \A q \in Request \ {r} : ~Acting(q)
    BY <2>6 DEF Acting, Running, EndPc, ProcessingPc
  <2>8. \A s \in Student : Untouched(s) /\ Settled(s)
    BY <1>1, <2>5, <2>7 DEF MovesInv, AtRest
  <2>9. \A s \in Student : Taken(req[r], s)'
    BY <1>1, <2>4, <2>8 DEF Taken, HalfWay, ProcessingPc, Untouched, Home, Settled, Moves,
                            Change, tables
  <2>10. \A q \in Request \ {r} : ~Acting(q)'
    BY <2>7 DEF Alone, Acting, Calls
  <2> QED BY <1>3, <2>9, <2>10 DEF MovesInv, OneActs, EachTaken, AtRest
<1> QED BY <1>2, <1>3

(* The write that ends the call archives the semester, finds it deleted, or   *)
(* loses to another write and is tried again.                                *)
LEMMA UpdateMoves ==
    ASSUME Inv, MovesInv, NEW r \in Request, Alone(r), Undisturbed', UpdateSemester(r)
    PROVE  MovesInv'
<1>1. /\ req[r].pc = "write" /\ Calls(r, WritesSemester)
      /\ UNCHANGED <<student, cohortHistory, cohortGroups, failures>>
      /\ req[r] \in RequestState /\ req[r].op \in Operation
      /\ semester \in SemesterRow /\ req[r].row \in SemesterRow
  BY DEF UpdateSemester, At, history, Inv, TypeInv, HasCall, TypeOK, RequestState
<1>2. Barred => Barred'
  <2>1. semester.status = "archived" => semester'.status = "archived"
    BY UpdateSemesterInv DEF RowStep
  <2>2. semester.deleted => semester' = semester
    BY DEF UpdateSemester
  <2> QED BY <2>1, <2>2 DEF Barred
<1>3. CASE ~Calls(r, {"end"})
  <2>1. ~Acting(r)
    BY <1>3 DEF Acting
  <2> DEFINE again == [req[r] EXCEPT !.pc = "read", !.tries = @ + 1]
  <2>2. again.pc = "read"
    BY <1>1 DEF RequestState
  <2>3. \/ Finish(r, "not_found") \/ Finish(r, "conflict") \/ Finish(r, "ok")
        \/ Continue(r, again)
    BY <1>3 DEF UpdateSemester
  <2> HIDE DEF again
  <2>4. Continue(r, again) => req'[r].pc = "read"
    BY <2>2 DEF Continue, Inv, TypeInv, TypeOK
  <2>5. ~Acting(r)'
    BY <2>3, <2>4, FinishFields DEF Acting, EndPc, ProcessingPc
  <2> QED BY <1>1, <1>2, <2>1, <2>5, StepAside
<1>4. CASE Calls(r, {"end"})
  <2>1. Acting(r) /\ \A s \in Student : Settled(s)
    <3>1. Acting(r)
      BY <1>1, <1>4 DEF Acting
    <3> QED BY <1>1, <3>1 DEF MovesInv, EachTaken, Taken, HalfWay
  <2>2. \A s \in Student : Settled(s)'
    BY <1>1, <2>1 DEF Settled, Moves, Change
  <2>3. CASE Finish(r, "not_found") \/ Finish(r, "ok")
    <3>1. ~Acting(r)'
      BY <2>3, FinishFields DEF Acting, EndPc, ProcessingPc
    <3>2. CASE semester.deleted
      <4>1. Barred'
        BY <1>2, <3>2 DEF Barred
      <4> QED BY <2>1, <2>2, <3>1, <4>1, StepToRest
    <3>3. CASE ~semester.deleted
      <4>1. Swapped(Patched(req[r].op, req[r].row))
        BY <1>4, <2>3, <3>3, FinishFields, GotoFields DEF UpdateSemester, Calls
      <4>2. Patched(req[r].op, req[r].row).status = "archived"
        BY <1>1, <1>4 DEF Patched, Calls, SemesterRow
      <4>3. semester'.status = "archived"
        BY <1>1, <4>1, <4>2, PatchTyped DEF Swapped, SemesterRow, Calls
      <4> QED BY <2>1, <2>2, <3>1, <4>3, StepToRest DEF Barred
    <3> QED BY <3>2, <3>3
  <2>4. CASE Goto(r, "refresh")
    <3>1. req'[r].pc = "refresh" /\ req'[r].op = req[r].op
      BY <2>4, GotoFields
    <3>2. Acting(r)'
      BY <1>4, <3>1 DEF Acting, Calls, EndPc
    <3>3. \A s \in Student : Taken(req[r], s)'
      BY <2>2, <3>1 DEF Taken, HalfWay, ProcessingPc
    <3> QED BY <2>1, <3>2, <3>3, StepOnward
  <2> QED BY <1>4, <2>3, <2>4 DEF UpdateSemester
<1> QED BY <1>3, <1>4

LEMMA RefreshMoves ==
    ASSUME Inv, MovesInv, NEW r \in Request, Alone(r), Undisturbed', RefreshVersion(r)
    PROVE  MovesInv'
<1>1. /\ req[r].pc = "refresh" /\ Calls(r, {"end"}) /\ Acting(r)
      /\ UNCHANGED <<tables, failures>> /\ req[r] \in RequestState
  BY DEF RefreshVersion, At, Calls, history, Acting, EndPc, Inv, TypeInv, TypeOK, CallsInv,
         CallInv
<1>2. \A s \in Student : Settled(s)
  BY <1>1 DEF MovesInv, EachTaken, Taken, HalfWay
<1>3. \A s \in Student : Settled(s)'
  BY <1>1, <1>2 DEF Settled, Moves, Change, tables
<1>4. CASE Finish(r, "not_found") /\ semester.deleted
  <2>1. ~Acting(r)' /\ Barred'
    BY <1>1, <1>4, FinishFields DEF Acting, EndPc, ProcessingPc, Barred, tables
  <2> QED BY <1>1, <1>3, <2>1, StepToRest
<1>5. CASE Finish(r, "conflict")
  BY <1>1, <1>5, LosersDisturb
<1>6. CASE Continue(r, [req[r] EXCEPT !.pc = "write", !.tries = @ + 1,
                                     !.row.version = semester.version])
  <2> DEFINE row == [req[r].row EXCEPT !.version = semester.version]
             n == [req[r] EXCEPT !.pc = "write", !.tries = @ + 1, !.row = row]
  <2>1. Continue(r, n)
    BY <1>6
  <2> HIDE DEF row
  <2>2. n.op = req[r].op /\ n.pc = "write"
    BY <1>1 DEF RequestState
  <2> HIDE DEF n
  <2>3. req'[r] = n
    BY <2>1 DEF Continue, Inv, TypeInv, TypeOK
  <2>4. Acting(r)'
    BY <1>1, <2>2, <2>3 DEF Acting, Calls
  <2>5. \A s \in Student : Taken(req[r], s)'
    BY <1>3, <2>2, <2>3 DEF Taken, HalfWay, ProcessingPc
  <2> QED BY <1>1, <2>4, <2>5, StepOnward
<1> QED BY <1>4, <1>5, <1>6 DEF RefreshVersion

LEMMA DeleteMoves ==
    ASSUME Inv, MovesInv, NEW r \in Request, Alone(r), DeleteSemester(r)
    PROVE  MovesInv'
<1>1. /\ ~Acting(r) /\ UNCHANGED <<student, cohortHistory, cohortGroups, failures>>
      /\ semester'.deleted
  BY DEF DeleteSemester, At, Acting, EndPc, ProcessingPc, history, Inv, TypeInv, TypeOK,
         SemesterRow
<1>2. ~Acting(r)'
  BY FinishFields DEF DeleteSemester, Acting, EndPc, ProcessingPc
<1> QED BY <1>1, <1>2, StepAside DEF Barred

(* The statements of EndSemester on the students. *)
LEMMA CountMoves ==
    ASSUME Inv, MovesInv, NEW r \in Request, Alone(r), Acting(r),
           CountUnfinalized(r) \/ EndProcessing(r)
    PROVE  MovesInv'
<1>1. /\ req[r].pc \in {"count", "progress"} /\ UNCHANGED <<tables, failures>>
      /\ Calls(r, {"end"})
  BY DEF CountUnfinalized, EndProcessing, At, history, Acting
<1>2. \A s \in Student : Settled(s) /\ (req[r].pc = "count" => Untouched(s))
  BY <1>1 DEF MovesInv, EachTaken, Taken, HalfWay
<1>3. \A s \in Student : Settled(s)' /\ (req[r].pc = "count" => Untouched(s)')
  BY <1>1, <1>2 DEF Settled, Moves, Change, Untouched, Home, tables
<1>4. CASE Finish(r, "refused") /\ req[r].pc = "count"
  <2>1. ~Acting(r)'
    BY <1>4, FinishFields DEF Acting, EndPc, ProcessingPc
  <2> QED BY <1>3, <1>4, <2>1, StepToRest
<1>5. ASSUME NEW pc \in {"students", "write"}, Goto(r, pc),
             pc = "students" => req[r].pc = "count"
      PROVE  MovesInv'
  <2>1. req'[r].pc = pc /\ req'[r].op = req[r].op
    BY <1>5, GotoFields
  <2>2. Acting(r)'
    BY <1>1, <2>1 DEF Acting, Calls, EndPc
  <2>3. \A s \in Student : Taken(req[r], s)'
    BY <1>3, <1>5, <2>1 DEF Taken, HalfWay, ProcessingPc
  <2> QED BY <2>2, <2>3, StepOnward
<1> QED BY <1>4, <1>5 DEF CountUnfinalized, EndProcessing, At

LEMMA ListMoves ==
    ASSUME Inv, MovesInv, NEW r \in Request, Alone(r), Acting(r), ReadStudents(r)
    PROVE  MovesInv'
<1> DEFINE chosen == {s \in Student : /\ student[s].status = "active"
                                      /\ \E o \in Offering : enrollment[o][s] # "none"}
           n == [req[r] EXCEPT !.pc = "progress", !.roster = student, !.left = chosen]
<1>1. /\ req[r].pc = "students" /\ Continue(r, n) /\ UNCHANGED <<tables, failures>>
      /\ Calls(r, {"end"}) /\ req[r] \in RequestState
  BY DEF ReadStudents, At, history, Acting, Inv, TypeInv, TypeOK
<1> HIDE DEF chosen
<1>2. n.pc = "progress" /\ n.roster = student /\ n.op = req[r].op
  BY <1>1 DEF RequestState
<1> HIDE DEF n
<1>3. req'[r] = n
  BY <1>1 DEF Continue, Inv, TypeInv, TypeOK
<1>4. \A s \in Student : Settled(s)' /\ Untouched(s)' /\ student'[s] = student[s]
  BY <1>1 DEF MovesInv, EachTaken, Taken, HalfWay, Settled, Moves, Change, Untouched, Home,
              tables
<1>5. Acting(r)'
  BY <1>1, <1>2, <1>3 DEF Acting, Calls, EndPc
<1>6. \A s \in Student : Taken(req[r], s)'
  <2> SUFFICES ASSUME NEW s \in Student PROVE Taken(req[r], s)'
    OBVIOUS
  <2>1. req'[r].pc = "progress" /\ req'[r].roster[s] = student'[s]
    BY <1>2, <1>3, <1>4
  <2>2. Home(req'[r].roster[s], s)
    BY <1>4, <2>1 DEF Untouched, Home
  <2> QED BY <1>4, <2>1, <2>2 DEF Taken, HalfWay, ProcessingPc, Home
<1> QED BY <1>5, <1>6, StepOnward

LEMMA ProcessMoves ==
    ASSUME Inv, MovesInv, NEW r \in Request, Alone(r), Acting(r), ProcessStudent(r)
    PROVE  MovesInv'
<1>1. PICK c \in req[r].left, minCredits \in Minimum :
          Continue(r, [req[r] EXCEPT !.pc = Outcome(r, c, minCredits), !.left = @ \ {c},
                                     !.current = c])
  BY DEF ProcessStudent
<1> DEFINE pc == Outcome(r, c, minCredits)
           n == [req[r] EXCEPT !.pc = pc, !.left = @ \ {c}, !.current = c]
<1>2. /\ req[r].pc = "progress" /\ UNCHANGED <<tables, failures>>
      /\ Calls(r, {"end"}) /\ req[r] \in RequestState
  BY DEF ProcessStudent, At, history, Acting, Inv, TypeInv, TypeOK
<1>3. pc \in {"progress", "promote", "repeat", "remain"} /\ Continue(r, n)
  BY <1>1 DEF Outcome
<1> HIDE DEF pc
<1>4. /\ n.pc = pc /\ n.left = req[r].left \ {c} /\ n.current = c /\ n.op = req[r].op
      /\ n.roster = req[r].roster
  BY <1>2 DEF RequestState
<1> HIDE DEF n
<1>5. req'[r] = n
  BY <1>3 DEF Continue, Inv, TypeInv, TypeOK
<1>6. Acting(r)'
  BY <1>2, <1>3, <1>4, <1>5 DEF Acting, Calls, EndPc, ProcessingPc
<1>7. ASSUME NEW s \in Student PROVE Taken(req[r], s)'
  <2>1. /\ Settled(s)
        /\ s \in req[r].left => Untouched(s) /\ Home(req[r].roster[s], s)
    BY <1>2 DEF MovesInv, EachTaken, Taken, HalfWay
  <2>2. /\ Settled(s)' /\ (Untouched(s) => Untouched(s)')
    BY <1>2, <2>1 DEF Settled, Moves, Change, Untouched, Home, tables
  <2>3. /\ req'[r].pc \in {"progress", "promote", "repeat", "remain"}
        /\ req'[r].left = req[r].left \ {c} /\ req'[r].current = c
        /\ req'[r].roster = req[r].roster
    BY <1>3, <1>4, <1>5
  <2> QED BY <2>1, <2>2, <2>3 DEF Taken, HalfWay, Home
<1> QED BY <1>6, <1>7, StepOnward

(* While a student is processed he is no longer listed, and what the call does *)
(* to him touches nobody else.                                                *)
LEMMA OthersTaken ==
    ASSUME Inv, MovesInv, NEW r \in Request, Acting(r), req[r].pc \in ProcessingPc,
           NEW s \in Student, s # req[r].current, failures \subseteq failures',
           student'[s] = student[s], cohortHistory'[s] = cohortHistory[s],
           cohortGroups'[s] = cohortGroups[s],
           req'[r].left = req[r].left, req'[r].roster = req[r].roster,
           req'[r].current = req[r].current,
           req'[r].pc \in ProcessingPc \cup {"progress"}
    PROVE  Taken(req[r], s)'
<1>1. Taken(req[r], s)
  BY DEF MovesInv, EachTaken
<1>2. /\ Settled(s) /\ Settled(s)'
      /\ s \in req[r].left => Untouched(s) /\ Home(req[r].roster[s], s)
      /\ Untouched(s) => Untouched(s)'
  BY <1>1 DEF Taken, HalfWay, ProcessingPc, Settled, Moves, Change, Untouched, Home
<1> QED BY <1>2 DEF Taken, HalfWay, ProcessingPc, Home

(* What is known of the student processed, and of a step that goes on. *)
LEMMA ProcessedTaken ==
    ASSUME Inv, MovesInv, NEW r \in Request, Acting(r), req[r].pc \in ProcessingPc
    PROVE  /\ req[r].current \in Student /\ req[r] \in RequestState
           /\ Taken(req[r], req[r].current)
           /\ req[r].current \notin req[r].left
           /\ Home(req[r].roster[req[r].current], req[r].current)
           /\ Calls(r, {"end"})
           /\ InitialStudent[req[r].current] \in StudentRow
<1>1. req[r].current \in Student /\ req[r] \in RequestState
  BY DEF Inv, TypeInv, TypeOK, HasCall
<1> QED BY <1>1, InitialAssumption DEF MovesInv, EachTaken, Taken, Acting

LEMMA GoOn ==
    ASSUME Inv, MovesInv, NEW r \in Request, Alone(r), Acting(r), req[r].pc \in ProcessingPc,
           NEW pc \in {"progress", "record", "regroup"}, Goto(r, pc),
           failures \subseteq failures', NEW c \in Student, c = req[r].current,
           \A s \in Student \ {c} :
               /\ student'[s] = student[s] /\ cohortHistory'[s] = cohortHistory[s]
               /\ cohortGroups'[s] = cohortGroups[s],
           Taken(req[r], c)'
    PROVE  MovesInv'
<1>1. /\ req'[r].pc = pc /\ req'[r].op = req[r].op
      /\ req'[r].left = req[r].left /\ req'[r].current = req[r].current
      /\ req'[r].roster = req[r].roster
  BY GotoFields
<1>2. Acting(r)'
  BY <1>1, ProcessedTaken DEF Acting, Calls, EndPc, ProcessingPc
<1>3. \A s \in Student \ {c} : Taken(req[r], s)'
  BY <1>1, OthersTaken DEF ProcessingPc
<1>4. \A s \in Student : Taken(req[r], s)'
  BY <1>1, <1>3
<1> QED BY <1>2, <1>4, StepOnward

LEMMA ProgressionMoves ==
    ASSUME Inv, MovesInv, NEW r \in Request, Alone(r), Acting(r), UpdateStudentProgression(r)
    PROVE  MovesInv'
<1>1. PICK c \in Student : c = req[r].current
  BY ProcessedTaken DEF UpdateStudentProgression, ProcessingPc
<1> DEFINE was == req[r].roster[c]
           promoted == At(r, "promote")
           year == IF promoted THEN was.year + 1 ELSE was.year
           cohort == IF promoted THEN was.cohort ELSE was.cohort + 1
           row == [year |-> year, cohort |-> cohort, status |-> student[c].status,
                   version |-> student[c].version + 1]
           pc == IF promoted THEN "progress" ELSE "record"
<1>2. req[r].pc \in ProcessingPc /\ req[r].pc \in {"promote", "repeat"}
  BY DEF UpdateStudentProgression, ProcessingPc
<1>3. /\ c \in Student /\ req[r] \in RequestState /\ Taken(req[r], c)
      /\ c \notin req[r].left /\ Home(was, c) /\ InitialStudent[c] \in StudentRow
  BY <1>2, <1>1, ProcessedTaken
<1>4. /\ student' = [student EXCEPT ![c] = row] /\ Goto(r, pc)
      /\ UNCHANGED <<cohortHistory, cohortGroups, failures>>
      /\ student \in [Student -> StudentRow]
  BY <1>1 DEF UpdateStudentProgression, history, Inv, TypeInv, TypeOK
<1>5. row.year = year /\ row.cohort = cohort
  OBVIOUS
<1> HIDE DEF row
<1>6. student'[c].year = year /\ student'[c].cohort = cohort
  BY <1>3, <1>4, <1>5
<1>7. \A s \in Student \ {c} : student'[s] = student[s]
  BY <1>3, <1>4
<1>8. cohortHistory[c] = <<>>
  BY <1>2, <1>3, <1>1 DEF Taken, Untouched
<1>9. Taken(req[r], c)'
  <2>1. /\ req'[r].pc = pc /\ req'[r].left = req[r].left /\ req'[r].current = c
        /\ req'[r].roster = req[r].roster
    BY <1>4, <1>1, GotoFields
  <2>2. InitialStudent[c].year \in Nat /\ InitialStudent[c].cohort \in Nat
    BY <1>3 DEF StudentRow
  <2>3. CASE promoted
    <3>1. Settled(c)'
      BY <1>3, <1>6, <2>2, <2>3 DEF Settled, Moves, Home
    <3>2. req'[r].pc = "progress" /\ c \notin req'[r].left
      BY <1>3, <2>1, <2>3
    <3> QED BY <2>1, <3>1, <3>2 DEF Taken, HalfWay, ProcessingPc
  <2>4. CASE ~promoted
    <3>1. Repeating(c)'
      BY <1>3, <1>6, <2>2, <2>4 DEF Repeating, Home
    <3>2. req'[r].pc = "record" /\ c \notin req'[r].left /\ cohortHistory'[c] = <<>>
      BY <1>3, <1>4, <1>8, <2>1, <2>4
    <3> QED BY <1>3, <2>1, <3>1, <3>2 DEF Taken, HalfWay, ProcessingPc, Home
  <2> QED BY <2>3, <2>4
<1>10. pc \in {"progress", "record"}
  OBVIOUS
<1> HIDE DEF pc
<1> QED BY <1>2, <1>4, <1>7, <1>9, <1>10, <1>1, GoOn

LEMMA RecordMoves ==
    ASSUME Inv, MovesInv, NEW r \in Request, Alone(r), Acting(r), RecordCohortChange(r)
    PROVE  MovesInv'
<1>1. PICK c \in Student : c = req[r].current
  BY ProcessedTaken DEF RecordCohortChange, ProcessingPc
<1> DEFINE from == req[r].roster[c].cohort
           to == IF At(r, "record") THEN from + 1 ELSE from
           pc == IF At(r, "record") THEN "regroup" ELSE "progress"
<1>2. req[r].pc \in ProcessingPc /\ req[r].pc \in {"record", "remain"}
  BY DEF RecordCohortChange, ProcessingPc
<1>3. /\ c \in Student /\ req[r] \in RequestState /\ Taken(req[r], c)
      /\ c \notin req[r].left /\ Home(req[r].roster[c], c) /\ InitialStudent[c] \in StudentRow
  BY <1>2, <1>1, ProcessedTaken
<1>4. /\ cohortHistory' = [cohortHistory EXCEPT ![c] = Append(@, [from |-> from, to |-> to])]
      /\ Goto(r, pc) /\ UNCHANGED <<student, cohortGroups, failures>>
      /\ cohortHistory \in [Student -> Seq([from : Nat, to : Nat])]
  BY <1>1 DEF RecordCohortChange, history, Inv, TypeInv, TypeOK
<1>5. cohortHistory[c] = <<>>
  BY <1>2, <1>3, <1>1 DEF Taken, Untouched
<1>6. cohortHistory'[c] = <<[from |-> from, to |-> to]>>
  BY <1>3, <1>4, <1>5
<1>7. \A s \in Student \ {c} : cohortHistory'[s] = cohortHistory[s]
  BY <1>3, <1>4
<1>8. Taken(req[r], c)'
  <2>1. /\ req'[r].pc = pc /\ req'[r].left = req[r].left /\ req'[r].current = c
        /\ req'[r].roster = req[r].roster
    BY <1>4, <1>1, GotoFields
  <2>2. /\ InitialStudent[c].year \in Nat /\ InitialStudent[c].cohort \in Nat
        /\ from = InitialStudent[c].cohort
    BY <1>3 DEF StudentRow, Home
  <2>3. CASE At(r, "record")
    <3>1. Repeating(c) /\ Repeating(c)'
      BY <1>3, <1>4, <1>1, <2>3 DEF Taken, HalfWay, At, Repeating
    <3>2. cohortHistory'[c] = Change(c)'
      BY <1>4, <1>6, <2>2, <2>3, <3>1 DEF Change, Repeating
    <3>3. req'[r].pc = "regroup"
      BY <2>1, <2>3
    <3> QED BY <1>3, <2>1, <3>1, <3>2, <3>3 DEF Taken, HalfWay, ProcessingPc, Home
  <2>4. CASE ~At(r, "record")
    <3>1. Untouched(c)
      BY <1>2, <1>3, <1>1, <2>4 DEF Taken, At
    <3>2. Settled(c)'
      BY <1>4, <2>2, <3>1 DEF Untouched, Settled, Moves, Home
    <3>3. req'[r].pc = "progress"
      BY <2>1, <2>4
    <3> QED BY <1>3, <2>1, <3>2, <3>3 DEF Taken, HalfWay, ProcessingPc
  <2> QED BY <2>3, <2>4
<1>9. pc \in {"progress", "regroup"}
  OBVIOUS
<1> HIDE DEF pc
<1> QED BY <1>2, <1>4, <1>7, <1>8, <1>9, <1>1, GoOn

LEMMA RegroupMoves ==
    ASSUME Inv, MovesInv, NEW r \in Request, Alone(r), Acting(r), ReassignCohortGroups(r)
    PROVE  MovesInv'
<1>1. PICK c \in Student : c = req[r].current
  BY ProcessedTaken DEF ReassignCohortGroups, At, ProcessingPc
<1>2. req[r].pc \in ProcessingPc /\ req[r].pc = "regroup"
  BY DEF ReassignCohortGroups, At, ProcessingPc
<1>3. /\ c \in Student /\ req[r] \in RequestState /\ Taken(req[r], c)
      /\ c \notin req[r].left /\ Home(req[r].roster[c], c) /\ InitialStudent[c] \in StudentRow
  BY <1>2, <1>1, ProcessedTaken
<1>4. /\ cohortGroups' = [cohortGroups EXCEPT ![c] = req[r].roster[c].cohort + 1]
      /\ Goto(r, "progress") /\ UNCHANGED <<student, cohortHistory, failures>>
      /\ cohortGroups \in [Student -> Nat]
  BY <1>1 DEF ReassignCohortGroups, history, Inv, TypeInv, TypeOK
<1>5. Repeating(c) /\ cohortHistory[c] = Change(c)
  BY <1>2, <1>3, <1>1 DEF Taken, HalfWay
<1>6. Settled(c)'
  <2>1. InitialStudent[c].year \in Nat /\ InitialStudent[c].cohort \in Nat
    BY <1>3 DEF StudentRow
  <2>2. cohortGroups'[c] = student[c].cohort
    BY <1>3, <1>4, <1>5 DEF Repeating, Home
  <2> QED BY <1>4, <1>5, <2>1, <2>2 DEF Settled, Moves, Repeating, Change
<1>7. Taken(req[r], c)'
  <2>1. req'[r].pc = "progress" /\ req'[r].left = req[r].left
    BY <1>4, GotoFields
  <2> QED BY <1>3, <1>6, <2>1 DEF Taken, HalfWay, ProcessingPc
<1>8. \A s \in Student \ {c} : cohortGroups'[s] = cohortGroups[s]
  BY <1>3, <1>4
<1> QED BY <1>2, <1>4, <1>7, <1>8, <1>1, GoOn

(* An error leaves the student where he is, counted. *)
LEMMA ErrorMoves ==
    ASSUME Inv, MovesInv, NEW r \in Request, Alone(r), Acting(r), ProcessError(r)
    PROVE  MovesInv'
<1>1. PICK c \in Student : c = req[r].current
  BY ProcessedTaken DEF ProcessError, ProcessingPc
<1>2. req[r].pc \in ProcessingPc
  BY DEF ProcessError, ProcessingPc
<1>3. /\ c \in Student /\ Taken(req[r], c) /\ c \notin req[r].left
      /\ InitialStudent[c] \in StudentRow
  BY <1>2, <1>1, ProcessedTaken
<1>4. /\ Goto(r, "progress") /\ UNCHANGED <<student, cohortHistory, cohortGroups>>
      /\ failures' = failures \cup {c}
  BY <1>1 DEF ProcessError, tables
<1>5. Settled(c)'
  <2>1. InitialStudent[c].year \in Nat /\ InitialStudent[c].cohort \in Nat
    BY <1>3 DEF StudentRow
  <2>2. Moves(c) <= 1
    BY <1>2, <1>3, <2>1 DEF Taken, HalfWay, Repeating, Settled, Moves
  <2> QED BY <1>4, <2>2 DEF Settled, Moves
<1>6. Taken(req[r], c)'
  <2>1. req'[r].pc = "progress" /\ req'[r].left = req[r].left
    BY <1>4, GotoFields
  <2> QED BY <1>3, <1>5, <2>1 DEF Taken, HalfWay, ProcessingPc
<1> QED BY <1>2, <1>4, <1>6, <1>1, GoOn

(* The grading calls write neither rows of students nor the semester's. *)
LEMMA GradeMoves ==
    ASSUME Inv, MovesInv, NEW r \in Request, Alone(r),
           \/ ReadSemesterStatus(r) \/ ReadFinalized(r) \/ ReadPassThreshold(r)
           \/ ReadEnrolled(r) \/ ClearFinalGrades(r) \/ \E s \in Student : SetFinalGrade(r, s)
    PROVE  MovesInv'
<1>1. UNCHANGED <<semester, student, cohortHistory, cohortGroups, failures>>
  BY DEF ReadSemesterStatus, ReadFinalized, ReadPassThreshold, ReadEnrolled,
         ClearFinalGrades, SetFinalGrade, tables, history
<1>2. req[r].op.call # "end"
  BY DEF ReadSemesterStatus, ReadFinalized, ReadPassThreshold, ReadEnrolled,
         ClearFinalGrades, SetFinalGrade, At, Calls, Inv, CallsInv, CallInv, GradingPc,
         ReadsStatus
<1>3. req[r].pc # "done" /\ req[r] \in RequestState
  BY DEF Alone, Inv, TypeInv, TypeOK
<1>4. req'[r].op = req[r].op
  <2>1. CASE ReadSemesterStatus(r) \/ ReadFinalized(r) \/ ClearFinalGrades(r)
    <3>1. \/ Finish(r, "refused") \/ Finish(r, "ok")
          \/ Goto(r, "threshold") \/ Goto(r, "finalized") \/ Goto(r, "clear")
      BY <2>1 DEF ReadSemesterStatus, ReadFinalized, ClearFinalGrades
    <3> QED BY <3>1, FinishFields, GotoFields
  <2>2. CASE ReadPassThreshold(r)
    <3> DEFINE pc == IF Calls(r, {"override"}) THEN "grade" ELSE "enrolled"
               left == IF Calls(r, {"override"}) THEN {req[r].op.student} ELSE {}
               n == [req[r] EXCEPT !.threshold = semester.passThreshold, !.pc = pc,
                                   !.left = left]
    <3>1. Continue(r, n)
      BY <2>2 DEF ReadPassThreshold
    <3> HIDE DEF pc, left
    <3>2. n.op = req[r].op
      BY <1>3 DEF RequestState
    <3> HIDE DEF n
    <3> QED BY <3>1, <3>2 DEF Continue, Inv, TypeInv, TypeOK
  <2>3. CASE ReadEnrolled(r)
    <3> DEFINE roster == {s \in Student : enrollment[req[r].op.offering][s] = "enrolled"}
               n == [req[r] EXCEPT !.pc = "grade", !.left = roster]
    <3>1. Finish(r, "refused") \/ Continue(r, n)
      BY <2>3 DEF ReadEnrolled
    <3>2. n.op = req[r].op
      BY <1>3 DEF RequestState
    <3> HIDE DEF n
    <3>3. Continue(r, n) => req'[r].op = req[r].op
      BY <3>2 DEF Continue, Inv, TypeInv, TypeOK
    <3> QED BY <3>1, <3>3, FinishFields
  <2>4. ASSUME NEW s \in Student, SetFinalGrade(r, s)
        PROVE  req'[r].op = req[r].op
    <3> DEFINE n == [req[r] EXCEPT !.left = @ \ {s}]
    <3>1. Finish(r, "refused") \/ Finish(r, "ok") \/ Continue(r, n)
      BY <2>4 DEF SetFinalGrade
    <3>2. n.op = req[r].op
      BY <1>3 DEF RequestState
    <3> HIDE DEF n
    <3>3. Continue(r, n) => req'[r].op = req[r].op
      BY <3>2 DEF Continue, Inv, TypeInv, TypeOK
    <3> QED BY <3>1, <3>3, FinishFields
  <2> QED BY <2>1, <2>2, <2>3, <2>4
<1> QED BY <1>1, <1>2, <1>4, StepAside DEF Acting, Calls, Barred

LEMMA StepMoves ==
    ASSUME Inv, Undisturbed', YearInv, NEW r \in Request,
           (\E op \in Operation : Start(r, op)) \/ Statement(r) \/ Fail(r)
    PROVE  MovesInv'
<1>0. Undisturbed /\ Alone(r)
  BY StepAlone, UndisturbedBefore DEF Next
<1>1. Alone(r) /\ MovesInv
  BY <1>0 DEF YearInv
<1>2. CASE \E op \in Operation : Start(r, op)
  BY <1>1, <1>2, StartMoves
<1>3. CASE Fail(r)
  BY <1>1, <1>3, FailMoves
<1>4. CASE Statement(r)
  <2>1. CASE ReadSemester(r) \/ UpdateSemester(r) \/ RefreshVersion(r) \/ DeleteSemester(r)
    BY <1>1, <2>1, ReadMoves, UpdateMoves, RefreshMoves, DeleteMoves
  <2>2. CASE \/ CountUnfinalized(r) \/ ReadStudents(r) \/ ProcessStudent(r)
             \/ UpdateStudentProgression(r) \/ RecordCohortChange(r)
             \/ ReassignCohortGroups(r) \/ ProcessError(r) \/ EndProcessing(r)
    <3>1. Acting(r)
      BY <2>2 DEF CountUnfinalized, ReadStudents, ProcessStudent, UpdateStudentProgression,
         RecordCohortChange, ReassignCohortGroups, ProcessError, EndProcessing, At,
         Acting, Calls, EndPc, ProcessingPc, Inv, CallsInv, CallInv
    <3> QED BY <1>1, <2>2, <3>1, CountMoves, ListMoves, ProcessMoves, ProgressionMoves,
               RecordMoves, RegroupMoves, ErrorMoves
  <2>3. CASE \/ ReadSemesterStatus(r) \/ ReadFinalized(r) \/ ReadPassThreshold(r)
             \/ ReadEnrolled(r) \/ ClearFinalGrades(r)
             \/ \E s \in Student : SetFinalGrade(r, s)
    BY <1>1, <2>3, GradeMoves
  <2>4. ~ReadStudent(r) /\ ~UpdateStudent(r)
    BY <1>0 DEF ReadStudent, UpdateStudent, At, Calls, Asked, Undisturbed
  <2> QED BY <1>4, <2>1, <2>2, <2>3, <2>4 DEF Statement
<1> QED BY <1>2, <1>3, <1>4

LEMMA YearStep == Inv /\ YearInv /\ [Next]_vars => YearInv'
<1> SUFFICES ASSUME Inv, YearInv, [Next]_vars, Undisturbed'
             PROVE  MovesInv'
  BY DEF YearInv
<1>1. CASE UNCHANGED vars
  <2>1. Undisturbed
    BY <1>1 DEF vars, history, Undisturbed, Ended, Calls, Asked, At
  <2>2. \A r \in Request : Acting(r)' <=> Acting(r)
    BY <1>1 DEF vars, Acting, Calls
  <2>3. \A s \in Student : (Settled(s)' <=> Settled(s)) /\ (Untouched(s)' <=> Untouched(s))
    BY <1>1 DEF vars, tables, history, Settled, Moves, Change, Untouched, Home
  <2>4. ASSUME NEW r \in Request, NEW s \in Student, Taken(req[r], s)
        PROVE  Taken(req[r], s)'
    BY <1>1, <2>3, <2>4 DEF vars, tables, Taken, HalfWay, Change, Home, Repeating
  <2> QED BY <1>1, <2>1, <2>2, <2>3, <2>4
          DEF vars, tables, YearInv, MovesInv, OneActs, EachTaken, AtRest, Barred
<1>2. CASE Next
  <2>1. PICK r \in Request :
            (\E op \in Operation : Start(r, op)) \/ Statement(r) \/ Fail(r)
    BY <1>2 DEF Next
  <2> QED BY <2>1, StepMoves
<1> QED BY <1>1, <1>2

LEMMA YearInit == Init => MovesInv
<1> SUFFICES ASSUME Init PROVE MovesInv
  OBVIOUS
<1>1. \A r \in Request : ~Acting(r)
  BY DEF Init, IdleRequest, Acting, EndPc, ProcessingPc
<1>2. \A s \in Student : Untouched(s)
  BY DEF Init, Untouched, Home
<1>3. \A s \in Student : Settled(s)
  BY <1>2, InitialAssumption DEF Untouched, Settled, Moves, Home, StudentRow
<1> QED BY <1>1, <1>2, <1>3 DEF MovesInv, OneActs, EachTaken, AtRest

LEMMA YearHolds == Spec => [](Inv /\ YearInv)
<1>1. Init => YearInv
  BY YearInit DEF YearInv
<1> QED BY <1>1, YearStep, InvStep, InvHolds, PTL DEF Spec

(* However many students a semester has and however often EndSemester is      *)
(* called for it, each is moved by one year or one cohort at most, if no two  *)
(* calls overlap, none stops half way and nobody is moved by hand: archiving, *)
(* or deletion, bars every later call at its read (semester.go:698-769).  In  *)
(* the same histories a student who repeats has changed cohort, history and   *)
(* groups together once no EndSemester runs, or is among the failures it      *)
(* counts, whichever statement failed (semester.go:831-857).                  *)
THEOREM MovedOnceAlways == Spec => []MovedOnceAndWholly
<1>1. Inv /\ YearInv => MovedOnceIfUndisturbed
  <2> SUFFICES ASSUME Inv, MovesInv, NEW s \in Student PROVE Moves(s) <= 1
    BY DEF YearInv, MovedOnceIfUndisturbed
  <2>1. InitialStudent[s].year \in Nat /\ InitialStudent[s].cohort \in Nat
    BY InitialAssumption DEF StudentRow
  <2>2. Settled(s) \/ Repeating(s)
    BY DEF MovesInv, EachTaken, AtRest, Taken
  <2> QED BY <2>1, <2>2 DEF Settled, Repeating, Moves
<1>2. Inv /\ YearInv => RepeatIsWhole
  <2> SUFFICES ASSUME Inv, MovesInv, \A r \in Request : ~Ending(r),
                      NEW s \in Student \ failures,
                      student[s].cohort # InitialStudent[s].cohort
               PROVE  /\ cohortGroups[s] = student[s].cohort
                      /\ cohortHistory[s] = Change(s)
    BY DEF YearInv, RepeatIsWhole, Change
  <2>1. \A r \in Request : ~Acting(r)
    BY DEF Ending, Running, Acting, EndPc, ProcessingPc
  <2> QED BY <2>1 DEF MovesInv, AtRest, Settled
<1> QED BY <1>1, <1>2, YearHolds, PTL DEF MovedOnceAndWholly

-----------------------------------------------------------------------------
(* The groups of who is held back.  The rows a reassignment has deleted are  *)
(* its student's and nobody else's to delete, and all he has unless he was   *)
(* put into a group since it looked; and a count it holds is not exceeded    *)
(* unless it waited while somebody came in.                                  *)

Place == Student \X StandingGroups
In(g, places) == {s \in Student : <<s, g>> \in places}
Counts == UNION {[D -> Nat] : D \in SUBSET StandingGroups}

MoveRow ==
  {Places!Idle}
  \cup [pc : {"delete"}, student : Student, cohort : Cohorts, found : SUBSET Place]
  \cup [pc : {"count"}, student : Student, cohort : Cohorts, deleted : SUBSET Place]
  \cup [pc : {"lock"}, student : Student, deleted : SUBSET Place, count : Counts]
  \cup [pc : {"insert"}, student : Student, deleted : SUBSET Place, count : Counts,
        picked : SUBSET StandingGroups]

Deletes(n) == IF n.pc \in {"count", "lock", "insert"} THEN n.deleted ELSE {}
Locks(n) == IF n.pc = "insert" THEN DOMAIN n.count ELSE {}

OwnRows(n) ==
  /\ n.pc = "delete" => \A place \in n.found : place[1] = n.student
  /\ \A place \in Deletes(n) : place[1] = n.student
  /\ n.pc = "insert" => n.picked \subseteq DOMAIN n.count

AllRows(n, places) ==
  LET own == {place \in places : place[1] = n.student} IN
  /\ n.pc = "delete" => own \subseteq n.found
  /\ n.pc \in {"count", "lock", "insert"} => own \subseteq n.deleted

CountHolds(n, places) ==
  n.pc \in {"lock", "insert"} =>
    \A g \in DOMAIN n.count : Cardinality(In(g, places) \ {n.student}) <= n.count[g]

GroupInv ==
  /\ membership \subseteq Place /\ standing \subseteq StandingGroups
  /\ moving \in [Move -> MoveRow]
  /\ \A m \in Move : /\ OwnRows(moving[m]) /\ Deletes(moving[m]) \subseteq membership
                     /\ m \notin crossing => AllRows(moving[m], membership)
                     /\ m \notin outdated => CountHolds(moving[m], membership)
  /\ \A m, k \in Move : m # k => /\ Deletes(moving[m]) \cap Deletes(moving[k]) = {}
                                 /\ Locks(moving[m]) \cap Locks(moving[k]) = {}

LEMMA MoveFields ==
  ASSUME NEW n \in MoveRow
  PROVE  /\ n.pc \in {"idle", "delete", "count", "lock", "insert"}
         /\ n.pc # "idle" => n.student \in Student
         /\ n.pc = "idle" <=> n = Places!Idle
         /\ n.pc = "delete" => n.cohort \in Cohorts /\ n.found \in SUBSET Place
         /\ n.pc = "count" => n.cohort \in Cohorts
         /\ n.pc \in {"count", "lock", "insert"} => n.deleted \in SUBSET Place
         /\ n.pc \in {"lock", "insert"} => n.count \in Counts
         /\ n.pc = "insert" => n.picked \in SUBSET StandingGroups
BY DEF MoveRow, Places!Idle

LEMMA CountFields ==
  ASSUME NEW count \in Counts
  PROVE  /\ DOMAIN count \in SUBSET StandingGroups
         /\ \A g \in DOMAIN count : count[g] \in Nat
BY DEF Counts

LEMMA IdleMove ==
  /\ Places!Idle \in MoveRow /\ Places!Idle.pc = "idle" /\ OwnRows(Places!Idle)
  /\ Deletes(Places!Idle) = {} /\ Locks(Places!Idle) = {}
  /\ \A places : AllRows(Places!Idle, places) /\ CountHolds(Places!Idle, places)
BY DEF MoveRow, Places!Idle, OwnRows, Deletes, Locks, AllRows, CountHolds

LEMMA SameCardinality == \A S : Places!Cardinality(S) = Cardinality(S)
BY Zenon DEF Places!Cardinality, Cardinality

LEMMA GroupsFinite ==
  ASSUME Places!GroupsAssumption
  PROVE  IsFiniteSet(Student)
<1>1. \A S : Places!IsFiniteSet(S) <=> IsFiniteSet(S)
  BY Zenon DEF Places!IsFiniteSet, IsFiniteSet
<1> QED BY <1>1 DEF Places!GroupsAssumption

LEMMA FewerIn ==
  ASSUME IsFiniteSet(Student), NEW A \in SUBSET Student, NEW B \in SUBSET Student, A \subseteq B
  PROVE  /\ Cardinality(A) \in Nat /\ Cardinality(B) \in Nat
         /\ Cardinality(A) <= Cardinality(B)
<1>1. IsFiniteSet(B) /\ IsFiniteSet(A)
  BY FS_Subset
<1> QED BY <1>1, FS_Subset, FS_CardinalityType

(* The rows a call has found it finds no less when others only take rows away. *)
LEMMA MoveOn ==
  ASSUME GroupInv, NEW m \in Move, NEW n \in MoveRow, moving' = [moving EXCEPT ![m] = n],
         UNCHANGED <<membership, standing>>,
         outdated \subseteq outdated' \cup {m}, crossing \subseteq crossing' \cup {m},
         OwnRows(n), Deletes(n) \subseteq membership,
         m \notin crossing' => AllRows(n, membership),
         m \notin outdated' => CountHolds(n, membership),
         \A k \in Move \ {m} : /\ Deletes(n) \cap Deletes(moving[k]) = {}
                               /\ Locks(n) \cap Locks(moving[k]) = {}
  PROVE  GroupInv'
<1>1. /\ moving' \in [Move -> MoveRow] /\ moving'[m] = n
      /\ \A k \in Move \ {m} : moving'[k] = moving[k]
  BY DEF GroupInv
<1>2. ASSUME NEW k \in Move
      PROVE  /\ OwnRows(moving'[k]) /\ Deletes(moving'[k]) \subseteq membership'
             /\ k \notin crossing' => AllRows(moving'[k], membership')
             /\ k \notin outdated' => CountHolds(moving'[k], membership')
  <2>1. CASE k = m
    BY <1>1, <2>1
  <2>2. CASE k # m
    BY <1>1, <2>2 DEF GroupInv
  <2> QED BY <2>1, <2>2
<1>3. ASSUME NEW k \in Move, NEW l \in Move, k # l
      PROVE  /\ Deletes(moving'[k]) \cap Deletes(moving'[l]) = {}
             /\ Locks(moving'[k]) \cap Locks(moving'[l]) = {}
  <2>1. CASE k # m /\ l # m
    BY <1>1, <1>3, <2>1 DEF GroupInv
  <2>2. CASE k = m
    BY <1>1, <1>3, <2>2
  <2>3. CASE l = m
    BY <1>1, <1>3, <2>3
  <2> QED BY <2>1, <2>2, <2>3
<1> QED BY <1>1, <1>2, <1>3 DEF GroupInv

(* Rows come and go: who is not called disturbed has not been. *)
LEMMA RowsMove ==
  ASSUME IsFiniteSet(Student), GroupInv, moving' \in [Move -> MoveRow],
         membership' \subseteq Place, standing' \subseteq StandingGroups,
         \A k \in Move :
            \/ moving'[k] = Places!Idle
            \/ /\ moving'[k] = moving[k] /\ Deletes(moving[k]) \subseteq membership'
               /\ k \notin crossing' /\ moving[k].pc # "idle" =>
                     /\ k \notin crossing
                     /\ \A place \in membership' \ membership : place[1] # moving[k].student
               /\ k \notin outdated' =>
                     /\ k \notin outdated
                     /\ moving[k].pc \in {"lock", "insert"} =>
                        \A g \in DOMAIN moving[k].count :
                          \A s \in Student : <<s, g>> \notin membership' \ membership
  PROVE  GroupInv'
<1>1. ASSUME NEW k \in Move
      PROVE  /\ OwnRows(moving'[k]) /\ Deletes(moving'[k]) \subseteq membership'
             /\ k \notin crossing' => AllRows(moving'[k], membership')
             /\ k \notin outdated' => CountHolds(moving'[k], membership')
  <2>1. CASE moving'[k] = Places!Idle
    BY <2>1, IdleMove
  <2>2. CASE moving'[k] # Places!Idle
    <3>1. /\ moving'[k] = moving[k] /\ OwnRows(moving[k])
          /\ Deletes(moving[k]) \subseteq membership' /\ moving[k] \in MoveRow
      BY <2>2 DEF GroupInv
    <3>2. moving[k].pc # "idle"
      BY <2>2, <3>1, MoveFields
    <3>3. ASSUME k \notin crossing' PROVE AllRows(moving[k], membership')
      <4>1. /\ AllRows(moving[k], membership)
            /\ \A place \in membership' \ membership : place[1] # moving[k].student
        BY <2>2, <3>2, <3>3 DEF GroupInv
      <4>2. {place \in membership' : place[1] = moving[k].student}
            \subseteq {place \in membership : place[1] = moving[k].student}
        BY <4>1
      <4> QED BY <4>1, <4>2 DEF AllRows
    <3>4. ASSUME k \notin outdated' PROVE CountHolds(moving[k], membership')
      <4> SUFFICES ASSUME moving[k].pc \in {"lock", "insert"}, NEW g \in DOMAIN moving[k].count
                   PROVE  Cardinality(In(g, membership') \ {moving[k].student}) <= moving[k].count[g]
        BY DEF CountHolds
      <4>1. /\ CountHolds(moving[k], membership)
            /\ \A s \in Student : <<s, g>> \notin membership' \ membership
        BY <2>2, <3>4 DEF GroupInv
      <4>2. In(g, membership') \ {moving[k].student} \subseteq In(g, membership) \ {moving[k].student}
        BY <4>1 DEF In
      <4>3. /\ In(g, membership') \ {moving[k].student} \in SUBSET Student
            /\ In(g, membership) \ {moving[k].student} \in SUBSET Student
        BY DEF In
      <4>4. moving[k].count[g] \in Nat
        BY <3>1, MoveFields, CountFields
      <4>5. /\ Cardinality(In(g, membership') \ {moving[k].student}) \in Nat
            /\ Cardinality(In(g, membership) \ {moving[k].student}) \in Nat
            /\ Cardinality(In(g, membership') \ {moving[k].student})
                 <= Cardinality(In(g, membership) \ {moving[k].student})
        BY <4>2, <4>3, FewerIn
      <4>6. Cardinality(In(g, membership) \ {moving[k].student}) <= moving[k].count[g]
        BY <4>1 DEF CountHolds
      <4> QED BY <4>4, <4>5, <4>6
    <3> QED BY <3>1, <3>3, <3>4
  <2> QED BY <2>1, <2>2
<1>2. ASSUME NEW k \in Move, NEW l \in Move, k # l
      PROVE  /\ Deletes(moving'[k]) \cap Deletes(moving'[l]) = {}
             /\ Locks(moving'[k]) \cap Locks(moving'[l]) = {}
  BY <1>2, IdleMove DEF GroupInv
<1> QED BY <1>1, <1>2 DEF GroupInv

LEMMA DeletesOf == \A m \in Move : Places!Deleted(m) = Deletes(moving[m]) /\ Places!Locked(m) = Locks(moving[m])
BY DEF Places!Deleted, Places!Locked, Deletes, Locks

LEMMA BeginMove ==
  ASSUME GroupInv, NEW m \in Move, Places!BeginDelete(m)
  PROVE  GroupInv'
<1>1. PICK s \in Student, cohort \in Cohorts :
         moving' = [moving EXCEPT ![m] = [pc |-> "delete", student |-> s, cohort |-> cohort,
                                          found |-> Places!RowsOf(s)]]
  BY DEF Places!BeginDelete
<1> DEFINE found == Places!RowsOf(s)
           n == [pc |-> "delete", student |-> s, cohort |-> cohort, found |-> found]
<1>2. /\ found \in SUBSET Place /\ \A place \in found : place[1] = s
      /\ \A place \in membership : place[1] = s => place \in found
  BY DEF Places!RowsOf, GroupInv
<1>3. moving' = [moving EXCEPT ![m] = n]
  BY <1>1
<1> HIDE DEF found
<1>4. n \in MoveRow /\ n.pc = "delete" /\ n.student = s /\ n.found = found
  BY <1>2 DEF MoveRow
<1> HIDE DEF n
<1>5. /\ OwnRows(n) /\ Deletes(n) = {} /\ Locks(n) = {} /\ AllRows(n, membership)
      /\ CountHolds(n, membership)
  BY <1>2, <1>4 DEF OwnRows, Deletes, Locks, AllRows, CountHolds
<1>6. UNCHANGED <<membership, standing, outdated, crossing>>
  BY DEF Places!BeginDelete, Places!Undisturbed
<1> QED BY <1>3, <1>4, <1>5, <1>6, MoveOn

LEMMA DeleteMove ==
  ASSUME GroupInv, NEW m \in Move, Places!DeleteMemberships(m)
  PROVE  GroupInv'
<1> DEFINE c == moving[m]
           gone == c.found \cap membership
           n == [pc |-> "count", student |-> c.student, cohort |-> c.cohort, deleted |-> gone]
<1>1. /\ c.pc = "delete" /\ c.found \cap Places!DeletedByOthers(m) = {}
      /\ moving' = [moving EXCEPT ![m] = n]
      /\ UNCHANGED <<membership, standing, outdated, crossing>>
  BY DEF Places!DeleteMemberships, Places!Undisturbed, GroupInv
<1>2. /\ c \in MoveRow /\ OwnRows(c)
      /\ m \notin crossing => AllRows(c, membership)
      /\ c.student \in Student /\ c.cohort \in Cohorts /\ c.found \in SUBSET Place
  BY <1>1, MoveFields DEF GroupInv
<1>3. gone \in SUBSET Place /\ gone \subseteq membership
  BY <1>2
<1>4. \A k \in Move \ {m} : gone \cap Deletes(moving[k]) = {}
  BY <1>1, DeletesOf DEF Places!DeletedByOthers
<1>5. /\ \A place \in gone : place[1] = c.student
      /\ m \notin crossing => {place \in membership : place[1] = c.student} \subseteq gone
  BY <1>1, <1>2 DEF OwnRows, AllRows
<1> HIDE DEF gone
<1>6. n \in MoveRow /\ n.pc = "count" /\ n.student = c.student /\ n.deleted = gone
  BY <1>2, <1>3 DEF MoveRow
<1> HIDE DEF n
<1>7. /\ OwnRows(n) /\ Deletes(n) = gone /\ Locks(n) = {} /\ CountHolds(n, membership)
      /\ m \notin crossing => AllRows(n, membership)
  BY <1>5, <1>6 DEF OwnRows, Deletes, Locks, AllRows, CountHolds
<1> QED BY <1>1, <1>3, <1>4, <1>6, <1>7, MoveOn

(* The count: every row the student has had is left out, and nobody else's. *)
LEMMA CountMove ==
  ASSUME IsFiniteSet(Student), GroupInv, NEW m \in Move, Places!CountMembers(m)
  PROVE  GroupInv'
<1> DEFINE c == moving[m]
           Left(g) == Places!MembersOf(g) \ {s \in Student : <<s, g>> \in c.deleted}
           D == Places!Candidates(c.cohort)
           count == [g \in D |-> Cardinality(Left(g))]
           n == [pc |-> "lock", student |-> c.student, deleted |-> c.deleted, count |-> count]
<1>1. /\ c.pc = "count" /\ UNCHANGED <<membership, standing, outdated, crossing>>
      /\ moving' = [moving EXCEPT ![m] = n]
  <2>1. \A S : Places!Cardinality(S) = Cardinality(S)
    BY SameCardinality
  <2> QED BY <2>1 DEF Places!CountMembers, Places!Undisturbed, GroupInv
<1>2. /\ c \in MoveRow /\ OwnRows(c)
      /\ m \notin crossing => AllRows(c, membership)
      /\ c.student \in Student /\ c.deleted \in SUBSET Place /\ Deletes(c) \subseteq membership
      /\ Deletes(c) = c.deleted /\ Locks(c) = {}
  BY <1>1, MoveFields DEF GroupInv, Deletes, Locks
<1>3. ASSUME NEW g
      PROVE  /\ Left(g) \in SUBSET Student
             /\ In(g, membership) \ {c.student} \in SUBSET Student
             /\ In(g, membership) \ {c.student} \subseteq Left(g)
  <2>1. \A s \in Student : <<s, g>> \in c.deleted => s = c.student
    BY <1>1, <1>2 DEF OwnRows
  <2> QED BY <2>1 DEF Places!MembersOf, In
<1> HIDE DEF Left
<1>4. ASSUME NEW g
      PROVE  /\ Cardinality(Left(g)) \in Nat
             /\ Cardinality(In(g, membership) \ {c.student}) <= Cardinality(Left(g))
  BY <1>3, FewerIn
<1>5. D \in SUBSET StandingGroups
  BY DEF Places!Candidates, GroupInv
<1> HIDE DEF D
<1>6. /\ count \in Counts /\ DOMAIN count = D
      /\ \A g \in D : Cardinality(In(g, membership) \ {c.student}) <= count[g]
  <2>1. count \in [D -> Nat]
    BY <1>4
  <2> QED BY <1>4, <1>5, <2>1 DEF Counts
<1> HIDE DEF count
<1>7. /\ n \in MoveRow /\ n.pc = "lock" /\ n.student = c.student
      /\ n.deleted = c.deleted /\ n.count = count
  BY <1>2, <1>6 DEF MoveRow
<1> HIDE DEF n
<1>8. /\ OwnRows(n) /\ Deletes(n) = Deletes(c) /\ Locks(n) = {} /\ CountHolds(n, membership)
      /\ m \notin crossing => AllRows(n, membership)
  <2>1. Deletes(n) = Deletes(c) /\ Locks(n) = {} /\ OwnRows(n)
    BY <1>1, <1>2, <1>7 DEF OwnRows, Deletes, Locks
  <2>2. CountHolds(n, membership)
    BY <1>6, <1>7 DEF CountHolds
  <2>3. m \notin crossing => AllRows(n, membership)
    BY <1>1, <1>2, <1>7 DEF AllRows
  <2> QED BY <2>1, <2>2, <2>3
<1>9. \A k \in Move \ {m} : Deletes(n) \cap Deletes(moving[k]) = {}
  BY <1>8 DEF GroupInv
<1> QED BY <1>1, <1>2, <1>7, <1>8, <1>9, MoveOn

LEMMA LockMove ==
  ASSUME GroupInv, NEW m \in Move, Places!LockGroups(m)
  PROVE  GroupInv'
<1> DEFINE c == moving[m]
<1>1. /\ c.pc = "lock" /\ DOMAIN c.count \cap Places!LockedByOthers(m) = {}
      /\ UNCHANGED <<membership, standing, outdated, crossing>>
  BY DEF Places!LockGroups, Places!MayLock, Places!Undisturbed
<1>2. PICK picked \in SUBSET DOMAIN c.count :
         moving' = [moving EXCEPT ![m] =
           [pc |-> "insert", student |-> c.student, deleted |-> c.deleted, count |-> c.count,
            picked |-> picked]]
  BY DEF Places!LockGroups, Places!Picks, GroupInv
<1> DEFINE n == [pc |-> "insert", student |-> c.student, deleted |-> c.deleted,
                 count |-> c.count, picked |-> picked]
<1>3. /\ c \in MoveRow /\ OwnRows(c)
      /\ m \notin crossing => AllRows(c, membership)
      /\ m \notin outdated => CountHolds(c, membership)
      /\ c.student \in Student /\ c.deleted \in SUBSET Place /\ c.count \in Counts
      /\ Deletes(c) \subseteq membership /\ Deletes(c) = c.deleted
  BY <1>1, MoveFields DEF GroupInv, Deletes
<1>4. picked \in SUBSET StandingGroups
  BY <1>2, <1>3, CountFields
<1>5. /\ n \in MoveRow /\ n.pc = "insert" /\ n.student = c.student
      /\ n.deleted = c.deleted /\ n.count = c.count /\ n.picked = picked
  BY <1>3, <1>4 DEF MoveRow
<1>6. moving' = [moving EXCEPT ![m] = n]
  BY <1>2
<1> HIDE DEF n
<1>7. /\ OwnRows(n) /\ Deletes(n) = Deletes(c) /\ Locks(n) = DOMAIN c.count
      /\ m \notin crossing => AllRows(n, membership)
      /\ m \notin outdated => CountHolds(n, membership)
  BY <1>1, <1>2, <1>3, <1>5 DEF OwnRows, Deletes, Locks, AllRows, CountHolds
<1>8. \A k \in Move \ {m} : /\ Deletes(n) \cap Deletes(moving[k]) = {}
                            /\ Locks(n) \cap Locks(moving[k]) = {}
  BY <1>1, <1>7, DeletesOf DEF GroupInv, Places!LockedByOthers
<1> QED BY <1>1, <1>3, <1>5, <1>6, <1>7, <1>8, MoveOn

LEMMA RollbackMove ==
  ASSUME GroupInv, NEW m \in Move, Places!Rollback(m)
  PROVE  GroupInv'
<1>1. /\ moving' = [moving EXCEPT ![m] = Places!Idle] /\ UNCHANGED <<membership, standing>>
      /\ outdated \subseteq outdated' \cup {m} /\ crossing \subseteq crossing' \cup {m}
  BY DEF Places!Rollback
<1> QED BY <1>1, IdleMove, MoveOn

LEMMA InsertMove ==
  ASSUME IsFiniteSet(Student), GroupInv, NEW m \in Move, Places!InsertAndCommit(m)
  PROVE  GroupInv'
<1> DEFINE c == moving[m]
           placed == {c.student} \X c.picked
<1>1. /\ c.pc = "insert" /\ moving' = [moving EXCEPT ![m] = Places!Idle]
      /\ membership' = (membership \ c.deleted) \cup placed /\ UNCHANGED standing
      /\ outdated' = (outdated \cap (Move \ {m})) \cup
            {k \in Move \ {m} : /\ moving[k].pc = "lock"
                                /\ DOMAIN moving[k].count \cap c.picked # {}}
      /\ crossing' = (crossing \cap (Move \ {m})) \cup
            {k \in Move \ {m} : moving[k].pc # "idle" /\ moving[k].student = c.student}
  BY DEF Places!InsertAndCommit, Places!Disturbed
<1>2. /\ c \in MoveRow /\ c.student \in Student /\ c.picked \in SUBSET StandingGroups
      /\ c.picked \subseteq Locks(c) /\ Deletes(c) = c.deleted
  BY <1>1, MoveFields DEF GroupInv, OwnRows, Locks, Deletes
<1>3. /\ moving' \in [Move -> MoveRow] /\ moving'[m] = Places!Idle
      /\ \A k \in Move \ {m} : moving'[k] = moving[k]
  BY <1>1, IdleMove DEF GroupInv
<1>4. membership' \subseteq Place /\ standing' \subseteq StandingGroups
  BY <1>1, <1>2 DEF GroupInv, Place
<1>5. ASSUME NEW k \in Move \ {m}
      PROVE  /\ Deletes(moving[k]) \subseteq membership'
             /\ k \notin crossing' /\ moving[k].pc # "idle" =>
                   /\ k \notin crossing
                   /\ \A place \in membership' \ membership : place[1] # moving[k].student
             /\ k \notin outdated' =>
                   /\ k \notin outdated
                   /\ moving[k].pc \in {"lock", "insert"} =>
                      \A g \in DOMAIN moving[k].count :
                        \A s \in Student : <<s, g>> \notin membership' \ membership
  <2>1. Deletes(moving[k]) \subseteq membership'
    BY <1>1, <1>2 DEF GroupInv
  <2>2. ASSUME k \notin crossing', moving[k].pc # "idle"
        PROVE  /\ k \notin crossing
               /\ \A place \in membership' \ membership : place[1] # moving[k].student
    BY <1>1, <2>2
  <2>3. ASSUME k \notin outdated' PROVE k \notin outdated
    BY <1>1, <2>3
  <2>4. ASSUME k \notin outdated', moving[k].pc \in {"lock", "insert"},
               NEW g \in DOMAIN moving[k].count, NEW s \in Student,
               <<s, g>> \in membership' \ membership
        PROVE  FALSE
    <3>1. g \in c.picked
      BY <1>1, <2>4
    <3>2. CASE moving[k].pc = "lock"
      BY <1>1, <2>4, <3>1, <3>2
    <3>3. CASE moving[k].pc = "insert"
      <4>1. g \in Locks(moving[k]) /\ g \in Locks(c)
        BY <1>2, <2>4, <3>1, <3>3 DEF Locks
      <4> QED BY <4>1 DEF GroupInv
    <3> QED BY <2>4, <3>2, <3>3
  <2> QED BY <2>1, <2>2, <2>3, <2>4
<1> QED BY <1>3, <1>4, <1>5, RowsMove

(* Staff puts somebody into a group no transaction holds. *)
LEMMA AssignMove ==
  ASSUME IsFiniteSet(Student), ByHand \subseteq Student, GroupInv,
         NEW s \in ByHand, NEW g \in StandingGroups, Places!AssignToCohortGroup(s, g)
  PROVE  GroupInv'
<1>1. /\ \A k \in Move : g \notin Locks(moving[k])
      /\ membership' = membership \cup {<<s, g>>} /\ UNCHANGED <<standing, moving>>
      /\ outdated' = (outdated \cap Move) \cup
            {k \in Move : moving[k].pc = "lock" /\ DOMAIN moving[k].count \cap {g} # {}}
      /\ crossing' = (crossing \cap Move) \cup
            {k \in Move : moving[k].pc # "idle" /\ moving[k].student = s}
  BY DeletesOf DEF Places!AssignToCohortGroup, Places!Disturbed
<1>2. /\ moving' \in [Move -> MoveRow] /\ membership' \subseteq Place
      /\ standing' \subseteq StandingGroups
  BY <1>1 DEF GroupInv, Place
<1>3. ASSUME NEW k \in Move
      PROVE  /\ moving'[k] = moving[k] /\ Deletes(moving[k]) \subseteq membership'
             /\ k \notin crossing' /\ moving[k].pc # "idle" =>
                   /\ k \notin crossing
                   /\ \A place \in membership' \ membership : place[1] # moving[k].student
             /\ k \notin outdated' =>
                   /\ k \notin outdated
                   /\ moving[k].pc \in {"lock", "insert"} =>
                      \A h \in DOMAIN moving[k].count :
                        \A t \in Student : <<t, h>> \notin membership' \ membership
  <2>1. moving'[k] = moving[k] /\ Deletes(moving[k]) \subseteq membership'
    BY <1>1 DEF GroupInv
  <2>2. ASSUME k \notin crossing', moving[k].pc # "idle"
        PROVE  /\ k \notin crossing
               /\ \A place \in membership' \ membership : place[1] # moving[k].student
    BY <1>1, <2>2
  <2>3. ASSUME k \notin outdated' PROVE k \notin outdated
    BY <1>1, <2>3
  <2>4. ASSUME k \notin outdated', moving[k].pc \in {"lock", "insert"},
               NEW h \in DOMAIN moving[k].count, NEW t \in Student,
               <<t, h>> \in membership' \ membership
        PROVE  FALSE
    BY <1>1, <2>4 DEF Locks
  <2> QED BY <2>1, <2>2, <2>3, <2>4
<1> QED BY <1>2, <1>3, RowsMove

LEMMA RemoveMove ==
  ASSUME IsFiniteSet(Student), GroupInv, NEW s, NEW g, Places!DeleteCohortGroupMember(s, g)
  PROVE  GroupInv'
<1>1. /\ \A k \in Move : <<s, g>> \notin Deletes(moving[k])
      /\ membership' = membership \ {<<s, g>>}
      /\ UNCHANGED <<standing, moving, outdated, crossing>>
  BY DeletesOf DEF Places!DeleteCohortGroupMember, Places!Undisturbed
<1>2. \A k \in Move : Deletes(moving[k]) \subseteq membership'
  BY <1>1 DEF GroupInv
<1>3. /\ moving' \in [Move -> MoveRow] /\ membership' \subseteq Place
      /\ standing' \subseteq StandingGroups /\ membership' \ membership = {}
  BY <1>1 DEF GroupInv
<1> QED BY <1>1, <1>2, <1>3, RowsMove

LEMMA MovesStep ==
  ASSUME Places!GroupsAssumption, GroupInv, [Places!Next]_(Places!vars)
  PROVE  GroupInv'
<1>1. IsFiniteSet(Student) /\ ByHand \subseteq Student
  BY GroupsFinite DEF Places!GroupsAssumption
<1>2. ASSUME NEW m \in Move,
             \/ Places!BeginDelete(m) \/ Places!DeleteMemberships(m) \/ Places!CountMembers(m)
             \/ Places!LockGroups(m) \/ Places!InsertAndCommit(m) \/ Places!Rollback(m)
      PROVE  GroupInv'
  BY <1>1, <1>2, BeginMove, DeleteMove, CountMove, LockMove, InsertMove, RollbackMove
<1>3. ASSUME NEW g \in StandingGroups, Places!CreateCohortGroup(g) PROVE GroupInv'
  <2>1. /\ UNCHANGED <<membership, moving, outdated, crossing>>
        /\ standing' \subseteq StandingGroups
    BY <1>3 DEF Places!CreateCohortGroup, Places!Undisturbed, GroupInv
  <2> QED BY <2>1 DEF GroupInv
<1>4. ASSUME NEW s \in ByHand, NEW g \in StandingGroups,
             Places!AssignToCohortGroup(s, g) \/ Places!DeleteCohortGroupMember(s, g)
      PROVE  GroupInv'
  BY <1>1, <1>4, AssignMove, RemoveMove
<1>5. CASE UNCHANGED Places!vars
  BY <1>5 DEF Places!vars, GroupInv
<1> QED BY <1>2, <1>3, <1>4, <1>5 DEF Places!Next

LEMMA MovesBegin ==
  ASSUME Places!Init
  PROVE  GroupInv
<1>1. /\ standing = {} /\ membership = {} /\ moving = [m \in Move |-> Places!Idle]
  BY DEF Places!Init
<1> QED BY <1>1, IdleMove DEF GroupInv

(* For any number of students, groups, cohorts and reassignments: one that    *)
(* fills a group goes by a count nobody has outdated, unless it waited for    *)
(* the lock while somebody came in; and it leaves its student in the groups   *)
(* it picked and in no other, unless he was put into a group after it had     *)
(* looked for his rows (ReassignCohortGroups in postgres/cohort_group.go).    *)
THEOREM MovesAlwaysSound == Places!Spec => MovesAreSound
<1>1. Places!Init => GroupInv
  BY MovesBegin
<1>2. GroupInv /\ [Places!Next]_(Places!vars) => GroupInv'
  BY GroupsAssumption, MovesStep
<1>3. ASSUME GroupInv, NEW m \in Move, Places!InsertAndCommit(m)
      PROVE  /\ m \notin outdated => Places!NobodyCame(m)
             /\ m \notin crossing => Places!Placed(m)
  <2>1. moving[m].pc = "insert" /\ moving[m].picked \subseteq DOMAIN moving[m].count
    BY <1>3 DEF Places!InsertAndCommit, GroupInv, OwnRows
  <2>2. ASSUME m \notin outdated PROVE Places!NobodyCame(m)
    <3>1. CountHolds(moving[m], membership)
      BY <1>3, <2>2 DEF GroupInv
    <3>2. \A g : Places!MembersOf(g) = In(g, membership)
      BY DEF Places!MembersOf, In
    <3> QED BY <2>1, <3>1, <3>2, SameCardinality DEF CountHolds, Places!NobodyCame
  <2>3. ASSUME m \notin crossing PROVE Places!Placed(m)
    <3>1. AllRows(moving[m], membership)
      BY <1>3, <2>3 DEF GroupInv
    <3>2. membership' = (membership \ moving[m].deleted)
                        \cup ({moving[m].student} \X moving[m].picked)
      BY <1>3 DEF Places!InsertAndCommit
    <3> QED BY <2>1, <3>1, <3>2 DEF AllRows, Places!Placed
  <2> QED BY <2>2, <2>3
<1>4. GroupInv /\ [Places!Next]_(Places!vars) =>
        [\A c \in Move :
            Places!InsertAndCommit(c) =>
              /\ c \notin outdated => Places!NobodyCame(c)
              /\ c \notin crossing => Places!Placed(c)]_(Places!vars)
  BY <1>3
<1>5. Places!Spec =>
        [][\A c \in Move :
              Places!InsertAndCommit(c) =>
                /\ c \notin outdated => Places!NobodyCame(c)
                /\ c \notin crossing => Places!Placed(c)]_(Places!vars)
  BY <1>1, <1>2, <1>4, PTL DEF Places!Spec
<1> QED BY <1>5 DEF MovesAreSound, Places!MovesAreSound
=============================================================================
