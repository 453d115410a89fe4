------------------------- MODULE ExamAttemptsProofs -------------------------
(***************************************************************************)
(* Theorems about ExamAttempts: the types; one open attempt a student; the *)
(* cap of an online exam outside of the one race; what was published or    *)
(* submitted stays as it is; totals are of the scores beside them.  They   *)
(* hold for any number of students, attempts, questions and calls.         *)
(***************************************************************************)
EXTENDS ExamAttempts, TLAPS, FiniteSetTheorems

-----------------------------------------------------------------------------
(* Rows. *)

RowOK(row) ==
    /\ row \in AttemptRow
    /\ row.state = "open" => row.total = None /\ row.scores = NoScores
    /\ row.state \in {"open", "submitted"} => row.student \in Student

RequestOK(s) ==
    /\ s \in RequestState
    /\ s.pc = "update" => s.content \in Contents
    /\ s.pc \in {"find", "count", "insert"} => s.student \in Student
    /\ s.pc = "grade" => s.attempt \in Attempt

AttemptsOK == attempt \in [Attempt -> AttemptRow] /\ \A a \in Attempt : RowOK(attempt[a])

RequestsOK == req \in [Request -> RequestState] /\ \A r \in Request : RequestOK(req[r])

LEMMA TypeParts ==
    TypeOK <=> exam \in ExamRow /\ AttemptsOK /\ RequestsOK /\ raced \in SUBSET Student
BY DEF TypeOK, AttemptsOK, RequestsOK, RowOK, RequestOK, At

(* A step that replaces one row, or one local state, by another of the type. *)
LEMMA OneRow ==
    ASSUME AttemptsOK, NEW a \in Attempt, NEW row, RowOK(row),
           attempt' = [attempt EXCEPT ![a] = row]
    PROVE  AttemptsOK'
<1>1. row \in AttemptRow
  BY DEF RowOK
<1>2. attempt' \in [Attempt -> AttemptRow]
  BY <1>1 DEF AttemptsOK
<1>3. \A b \in Attempt : attempt'[b] = IF b = a THEN row ELSE attempt[b]
  BY DEF AttemptsOK
<1>4. \A b \in Attempt : RowOK(attempt'[b])
  BY <1>3 DEF AttemptsOK
<1> QED BY <1>2, <1>4 DEF AttemptsOK, RowOK

LEMMA ContinueOK ==
    ASSUME RequestsOK, NEW r \in Request, NEW s, RequestOK(s), Continue(r, s)
    PROVE  RequestsOK'
<1>1. s \in RequestState
  BY DEF RequestOK
<1>2. req' \in [Request -> RequestState]
  BY <1>1 DEF RequestsOK, Continue
<1>3. \A q \in Request : req'[q] = IF q = r THEN s ELSE req[q]
  BY DEF RequestsOK, Continue
<1>4. \A q \in Request : RequestOK(req'[q])
  BY <1>3 DEF RequestsOK
<1> QED BY <1>2, <1>4 DEF RequestsOK, RequestOK

LEMMA NoScoresTyped == NoScores \in [Question -> Points]
BY DEF NoScores, Points

LEMMA IdleOK == RequestOK(IdleRequest)
BY NoScoresTyped DEF RequestOK, RequestState, IdleRequest

LEMMA FinishOK ==
    ASSUME RequestsOK, NEW r \in Request, Finish(r)
    PROVE  RequestsOK'
BY IdleOK, ContinueOK DEF Finish

(* Totals are numbers: an exam has finitely many questions. *)
LEMMA TotalOfTyped ==
    ASSUME NEW scores
    PROVE  TotalOf(scores) \in Nat
<1>1. IsFiniteSet({q \in Question : scores[q] = "full"})
  BY FS_Subset, FiniteAssumption
<1> QED BY <1>1, FS_CardinalityType DEF TotalOf

LEMMA AutoGradeTyped ==
    ASSUME NEW questions \in SUBSET Question, NEW sheet \in [Question -> Answer]
    PROVE  AutoGrade(questions, sheet) \in [Question -> Points]
<1>1. ASSUME NEW q \in Question
      PROVE  AutoGrade(questions, sheet)[q] \in Points
  BY <1>1, ShortAnswerAssumption DEF AutoGrade, Points, Answer
<1> QED BY <1>1 DEF AutoGrade

LEMMA MergeTyped ==
    ASSUME NEW scores \in [Question -> Points], NEW given \in Given
    PROVE  Merge(scores, given) \in [Question -> Points]
BY GivenAssumption DEF Merge, Points

-----------------------------------------------------------------------------
(* The rows each action writes. *)

LEMMA InsertWrites ==
    ASSUME AttemptsOK, RequestsOK, NEW r \in Request, NEW a \in Attempt,
           InsertAttempt(r, a)
    PROVE  AttemptsOK'
<1>1. RequestOK(req[r]) /\ req[r].student \in Student
  BY DEF RequestsOK, RequestOK, InsertAttempt, At
<1>2. RowOK(NewAttempt(req[r].student))
  BY <1>1, NoScoresTyped DEF RowOK, NewAttempt, AttemptRow, Blank, Answer
<1>3. CASE OpenOf(req[r].student) = {}
  BY <1>2, <1>3, OneRow DEF InsertAttempt
<1>4. CASE OpenOf(req[r].student) # {}
  BY <1>4 DEF InsertAttempt, AttemptsOK, RowOK
<1> QED BY <1>3, <1>4

LEMMA SaveWrites ==
    ASSUME AttemptsOK, NEW a \in Attempt, NEW sheet \in Sheet, SaveAnswers(a, sheet)
    PROVE  AttemptsOK'
<1> DEFINE row == [attempt[a] EXCEPT !.answers = sheet]
<1>1. RowOK(attempt[a]) /\ sheet \in [Question -> Answer]
  BY SheetAssumption DEF AttemptsOK
<1>2. RowOK(row)
  BY <1>1 DEF RowOK, AttemptRow
<1>3. attempt' = [attempt EXCEPT ![a] = row]
  BY DEF SaveAnswers
<1> HIDE DEF row
<1> QED BY <1>2, <1>3, OneRow

(* The row Submit writes. *)
Graded(a, sheet) ==
    LET scores == AutoGrade(exam.content.questions, sheet)
    IN  [attempt[a] EXCEPT
            !.state = "submitted", !.answers = sheet, !.scores = scores,
            !.total = IF HasUngraded(scores) THEN None ELSE TotalOf(scores)]

LEMMA SubmitWrites ==
    ASSUME exam \in ExamRow, AttemptsOK, NEW a \in Attempt, NEW sheet \in Sheet,
           Submit(a, sheet)
    PROVE  /\ attempt' = [attempt EXCEPT ![a] = Graded(a, sheet)]
           /\ RowOK(Graded(a, sheet))
           /\ Graded(a, sheet).state = "submitted"
           /\ Graded(a, sheet).student = attempt[a].student
           /\ Graded(a, sheet).scores = AutoGrade(exam.content.questions, sheet)
           /\ Graded(a, sheet).total =
                 IF HasUngraded(AutoGrade(exam.content.questions, sheet)) THEN None
                 ELSE TotalOf(AutoGrade(exam.content.questions, sheet))
<1> DEFINE scores == AutoGrade(exam.content.questions, sheet)
           total == IF HasUngraded(scores) THEN None ELSE TotalOf(scores)
<1>1. RowOK(attempt[a]) /\ attempt[a].state = "open" /\ sheet \in [Question -> Answer]
  BY SheetAssumption DEF AttemptsOK, Submit
<1>2. scores \in [Question -> Points]
  BY <1>1, AutoGradeTyped DEF ExamRow, Contents
<1>3. total \in Nat \cup {None}
  BY TotalOfTyped
<1>4. attempt' = [attempt EXCEPT ![a] = Graded(a, sheet)]
  BY DEF Submit, Graded
<1>5. Graded(a, sheet) = [attempt[a] EXCEPT !.state = "submitted", !.answers = sheet,
                              !.scores = scores, !.total = total]
  BY DEF Graded
<1> HIDE DEF scores, total
<1>6. /\ Graded(a, sheet).state = "submitted"
      /\ Graded(a, sheet).student = attempt[a].student
      /\ Graded(a, sheet).scores = scores
      /\ Graded(a, sheet).total = total
  BY <1>1, <1>5 DEF RowOK, AttemptRow
<1>7. RowOK(Graded(a, sheet))
  BY <1>1, <1>2, <1>3, <1>5 DEF RowOK, AttemptRow
<1> QED BY <1>4, <1>6, <1>7 DEF scores, total

(* The row GradeAttempt writes. *)
Regraded(a, scores) == [attempt[a] EXCEPT !.scores = scores, !.total = TotalOf(scores)]

LEMMA GradeWrites ==
    ASSUME AttemptsOK, RequestsOK, NEW r \in Request, GradeAttempt(r)
    PROVE  LET a == req[r].attempt
               scores == req[r].scores
           IN  /\ a \in Attempt
               /\ \/ /\ attempt[a].state = "submitted"
                     /\ attempt' = [attempt EXCEPT ![a] = Regraded(a, scores)]
                     /\ RowOK(Regraded(a, scores))
                     /\ Regraded(a, scores).state = "submitted"
                     /\ Regraded(a, scores).student = attempt[a].student
                     /\ Regraded(a, scores).answers = attempt[a].answers
                     /\ Regraded(a, scores).scores = scores
                     /\ Regraded(a, scores).total = TotalOf(scores)
                  \/ attempt' = attempt
<1> DEFINE a == req[r].attempt
           scores == req[r].scores
<1>1. a \in Attempt /\ scores \in [Question -> Points]
  BY DEF RequestsOK, RequestOK, RequestState, GradeAttempt, At
<1>2. RowOK(attempt[a])
  BY <1>1 DEF AttemptsOK
<1>3. TotalOf(scores) \in Nat
  BY TotalOfTyped
<1>4. CASE attempt[a].state = "submitted"
  <2>1. attempt' = [attempt EXCEPT ![a] = Regraded(a, scores)]
    BY <1>4 DEF GradeAttempt, Regraded
  <2> HIDE DEF a, scores
  <2>2. RowOK(Regraded(a, scores))
    BY <1>1, <1>2, <1>3, <1>4 DEF RowOK, AttemptRow, Regraded
  <2>3. /\ Regraded(a, scores).state = "submitted"
        /\ Regraded(a, scores).student = attempt[a].student
        /\ Regraded(a, scores).answers = attempt[a].answers
        /\ Regraded(a, scores).scores = scores
        /\ Regraded(a, scores).total = TotalOf(scores)
    BY <1>2, <1>4 DEF RowOK, AttemptRow, Regraded
  <2> QED BY <1>1, <1>4, <2>1, <2>2, <2>3 DEF a, scores
<1>5. CASE attempt[a].state # "submitted"
  BY <1>1, <1>5 DEF GradeAttempt
<1> QED BY <1>4, <1>5

(* What RecordResults does to each row: nothing, or it is submitted with a *)
(* score; the rows of a student were open or unused.                       *)
LEMMA RecordWrites ==
    ASSUME AttemptsOK, NEW D \in SUBSET Student,
           NEW results \in [D -> 0 .. Cardinality(Question)],
           NEW ids \in [D -> Attempt], RecordResults(results, ids)
    PROVE  /\ AttemptsOK'
           /\ \A a \in Attempt :
                 \/ attempt'[a] = attempt[a]
                 \/ /\ attempt[a].state \in {"open", "unused"}
                    /\ attempt'[a].state = "submitted"
                    /\ attempt'[a].total # None
<1>1. Cardinality(Question) \in Nat
  BY FiniteAssumption, FS_CardinalityType
<1>2. ASSUME NEW a \in Attempt
      PROVE  \/ attempt'[a] = attempt[a]
             \/ \E s \in D : /\ attempt[a].state \in {"open", "unused"}
                             /\ attempt'[a] = Recorded(attempt[a], s, results[s])
  <2>1. CASE \E s \in DOMAIN results : ids[s] = a
    <3> DEFINE s == CHOOSE s \in DOMAIN results : ids[s] = a
    <3>1. s \in D /\ ids[s] = a
      BY <2>1
    <3>2. attempt'[a] = Recorded(attempt[a], s, results[s])
      BY <2>1 DEF RecordResults
    <3>3. OpenOf(s) = {ids[s]} \/ attempt[ids[s]].state = "unused"
      BY <3>1 DEF RecordResults
    <3>4. attempt[a].state \in {"open", "unused"}
      BY <3>1, <3>3 DEF OpenOf
    <3> HIDE DEF s
    <3> QED BY <3>1, <3>2, <3>4
  <2>2. CASE ~ \E s \in DOMAIN results : ids[s] = a
    BY <2>2 DEF RecordResults
  <2> QED BY <2>1, <2>2
<1>3. ASSUME NEW a \in Attempt, NEW s \in D
      PROVE  LET row == Recorded(attempt[a], s, results[s])
             IN  RowOK(row) /\ row.state = "submitted" /\ row.total # None
  <2>1. s \in Student /\ results[s] \in Nat
    BY <1>1
  <2>2. RowOK(attempt[a])
    BY DEF AttemptsOK
  <2>3. results[s] # None
    BY <2>1, NoneAssumption
  <2> QED BY <2>1, <2>2, <2>3 DEF Recorded, RowOK, AttemptRow
<1>4. attempt' = [a \in Attempt |-> attempt'[a]]
  BY DEF RecordResults
<1>5. \A a \in Attempt : RowOK(attempt'[a])
  BY <1>2, <1>3 DEF AttemptsOK
<1>6. \A a \in Attempt : attempt'[a] \in AttemptRow
  BY <1>5 DEF RowOK
<1>7. AttemptsOK'
  BY <1>4, <1>5, <1>6 DEF AttemptsOK, RowOK
<1> QED BY <1>2, <1>3, <1>7

(* DeleteExam takes every attempt that was made with it. *)
LEMMA DeleteWrites ==
    ASSUME AttemptsOK, DeleteExam
    PROVE  /\ AttemptsOK'
           /\ \A a \in Attempt : attempt[a].state = "unused" => attempt'[a] = attempt[a]
           /\ \A a \in Attempt : attempt'[a].state \in {"unused", "deleted"}
<1> DEFINE gone(a) == [attempt[a] EXCEPT !.state = "deleted"]
<1>1. ASSUME NEW a \in Attempt
      PROVE  RowOK(gone(a)) /\ gone(a).state = "deleted"
  BY DEF AttemptsOK, RowOK, AttemptRow
<1>2. attempt' = [a \in Attempt |->
                    IF attempt[a].state = "unused" THEN attempt[a] ELSE gone(a)]
  BY DEF DeleteExam
<1> HIDE DEF gone
<1>3. \A a \in Attempt : RowOK(attempt'[a])
  BY <1>1, <1>2 DEF AttemptsOK
<1>4. \A a \in Attempt : attempt'[a] \in AttemptRow
  BY <1>3 DEF RowOK
<1>5. AttemptsOK'
  BY <1>2, <1>3, <1>4 DEF AttemptsOK, RowOK
<1> QED BY <1>1, <1>2, <1>5

-----------------------------------------------------------------------------
(* Type correctness. *)

LEMMA ExamTyped ==
    ASSUME exam \in ExamRow, RequestsOK,
           \/ \E mode \in ExamMode, c \in Content : CreateExam(mode, c)
           \/ \E r \in Request : UpdateExam(r) \/ PublishExam(r)
           \/ CloseExam \/ WindowPasses \/ DeleteExam
    PROVE  exam' \in ExamRow
<1>1. ASSUME NEW mode \in ExamMode, NEW c \in Content, CreateExam(mode, c)
      PROVE  exam' \in ExamRow
  BY <1>1, ContentAssumption DEF CreateExam, ExamRow
<1>2. ASSUME NEW r \in Request, UpdateExam(r)
      PROVE  exam' \in ExamRow
  <2>1. req[r].content \in Contents
    BY <1>2 DEF UpdateExam, At, RequestsOK, RequestOK
  <2> DEFINE c == req[r].content
             v == exam.version + 1
  <2>2. exam' = [exam EXCEPT !.content = c, !.version = v] \/ exam' = exam
    BY <1>2 DEF UpdateExam
  <2>3. v \in Nat
    BY DEF ExamRow
  <2> HIDE DEF c, v
  <2>4. [exam EXCEPT !.content = c, !.version = v] \in ExamRow
    BY <2>1, <2>3 DEF ExamRow, c
  <2> QED BY <2>2, <2>4
<1>3. ASSUME NEW r \in Request, PublishExam(r)
      PROVE  exam' \in ExamRow
  BY <1>3 DEF PublishExam, ExamRow
<1>4. ASSUME CloseExam \/ DeleteExam
      PROVE  exam' \in ExamRow
  BY <1>4 DEF CloseExam, DeleteExam, ExamRow
<1>5. ASSUME WindowPasses
      PROVE  exam' \in ExamRow
  <2>1. PICK next \in {<<"before", "open">>, <<"open", "past">>} :
            exam' = [exam EXCEPT !.content.window = next[2]]
    BY <1>5 DEF WindowPasses
  <2>2. next[2] \in Window
    BY DEF Window
  <2>3. [exam.content EXCEPT !.window = next[2]] \in Contents
    BY <2>2 DEF ExamRow, Contents
  <2> QED BY <2>1, <2>3 DEF ExamRow
<1> QED BY <1>1, <1>2, <1>3, <1>4, <1>5

LEMMA InitTyped == Init => TypeOK
<1> SUFFICES ASSUME Init PROVE TypeOK
  OBVIOUS
<1>1. exam \in ExamRow
  BY DEF Init, ExamRow, Contents, ExamMode, ShowResults, Window
<1> DEFINE row == [state |-> "unused", student |-> None, answers |-> Blank,
                   scores |-> NoScores, total |-> None]
<1>2. RowOK(row)
  BY NoScoresTyped DEF RowOK, AttemptRow, Blank, Answer
<1>3. attempt = [a \in Attempt |-> row]
  BY DEF Init
<1> HIDE DEF row
<1>4. AttemptsOK
  BY <1>2, <1>3 DEF AttemptsOK, RowOK
<1>5. RequestsOK
  BY IdleOK DEF Init, RequestsOK, RequestOK
<1> QED BY <1>1, <1>4, <1>5, TypeParts DEF Init

LEMMA StepTyped == TypeOK /\ [Next]_vars => TypeOK'
<1> SUFFICES ASSUME TypeOK, [Next]_vars PROVE TypeOK'
  OBVIOUS
<1>0. exam \in ExamRow /\ AttemptsOK /\ RequestsOK /\ raced \in SUBSET Student
  BY TypeParts
<1> SUFFICES exam' \in ExamRow /\ AttemptsOK' /\ RequestsOK' /\ (raced \in SUBSET Student)'
  BY <1>0 DEF TypeOK, AttemptsOK, RequestsOK, RowOK, RequestOK, At
<1>1. ASSUME NEW mode \in ExamMode, NEW c \in Content, CreateExam(mode, c)
      PROVE  exam' \in ExamRow /\ AttemptsOK' /\ RequestsOK' /\ (raced \in SUBSET Student)'
  BY <1>0, <1>1, ExamTyped DEF CreateExam, AttemptsOK, RequestsOK, RowOK, RequestOK
<1>2. ASSUME DeleteExam
      PROVE  exam' \in ExamRow /\ AttemptsOK' /\ RequestsOK' /\ (raced \in SUBSET Student)'
  BY <1>0, <1>2, ExamTyped, DeleteWrites DEF DeleteExam, RequestsOK, RequestOK
<1>3. ASSUME CloseExam \/ WindowPasses
      PROVE  exam' \in ExamRow /\ AttemptsOK' /\ RequestsOK' /\ (raced \in SUBSET Student)'
  BY <1>0, <1>3, ExamTyped
     DEF CloseExam, WindowPasses, AttemptsOK, RequestsOK, RowOK, RequestOK
<1>4. ASSUME NEW a \in Attempt, NEW sheet \in Sheet, SaveAnswers(a, sheet)
      PROVE  exam' \in ExamRow /\ AttemptsOK' /\ RequestsOK' /\ (raced \in SUBSET Student)'
  BY <1>0, <1>4, SaveWrites DEF SaveAnswers, RequestsOK, RequestOK
<1>5. ASSUME NEW a \in Attempt, NEW sheet \in Sheet, Submit(a, sheet)
      PROVE  exam' \in ExamRow /\ AttemptsOK' /\ RequestsOK' /\ (raced \in SUBSET Student)'
  <2>1. AttemptsOK'
    BY <1>0, <1>5, SubmitWrites, OneRow
  <2> QED BY <1>0, <1>5, <2>1 DEF Submit, RequestsOK, RequestOK
<1>6. ASSUME NEW D \in SUBSET Student,
             NEW results \in [D -> 0 .. Cardinality(Question)],
             NEW ids \in [D -> Attempt], RecordResults(results, ids)
      PROVE  exam' \in ExamRow /\ AttemptsOK' /\ RequestsOK' /\ (raced \in SUBSET Student)'
  <2>1. AttemptsOK'
    BY <1>0, <1>6, RecordWrites
  <2>2. exam' \in ExamRow
    BY <1>0, <1>6 DEF RecordResults, ExamRow
  <2> QED BY <1>0, <1>6, <2>1, <2>2 DEF RecordResults, RequestsOK, RequestOK
<1>7. ASSUME NEW r \in Request, RequestNext(r)
      PROVE  exam' \in ExamRow /\ AttemptsOK' /\ RequestsOK' /\ (raced \in SUBSET Student)'
  <2>0. RequestOK(req[r])
    BY <1>0 DEF RequestsOK
  <2>1. ASSUME NEW c \in Content, Update(r, c)
        PROVE  RequestsOK' /\ UNCHANGED <<exam, attempt, raced>>
    <3> DEFINE n == [IdleRequest EXCEPT !.pc = "update", !.content = c,
                                       !.version = exam.version]
    <3>1. RequestOK(n)
      BY <1>0, IdleOK, ContentAssumption DEF RequestOK, RequestState, ExamRow, IdleRequest
    <3>2. Continue(r, n)
      BY <2>1 DEF Update
    <3> HIDE DEF n
    <3> QED BY <1>0, <2>1, <3>1, <3>2, ContinueOK DEF Update
  <2>2. ASSUME UpdateExam(r) \/ PublishExam(r)
        PROVE  exam' \in ExamRow /\ RequestsOK' /\ UNCHANGED <<attempt, raced>>
    BY <1>0, <2>2, ExamTyped, FinishOK DEF UpdateExam, PublishExam
  <2>3. ASSUME Publish(r)
        PROVE  RequestsOK' /\ UNCHANGED <<exam, attempt, raced>>
    <3> DEFINE n == [IdleRequest EXCEPT !.pc = "publish"]
    <3>1. RequestOK(n)
      BY IdleOK DEF RequestOK, RequestState, IdleRequest
    <3>2. Continue(r, n)
      BY <2>3 DEF Publish
    <3> HIDE DEF n
    <3> QED BY <1>0, <2>3, <3>1, <3>2, ContinueOK DEF Publish
  <2>4. ASSUME NEW s \in Student, Start(r, s)
        PROVE  RequestsOK' /\ UNCHANGED <<exam, attempt, raced>>
    <3> DEFINE n == [IdleRequest EXCEPT !.pc = "find", !.student = s,
                                       !.maxAttempts = exam.content.maxAttempts]
    <3>1. RequestOK(n)
      BY <1>0, IdleOK DEF RequestOK, RequestState, IdleRequest, ExamRow, Contents
    <3>2. Continue(r, n)
      BY <2>4 DEF Start
    <3> HIDE DEF n
    <3> QED BY <1>0, <2>4, <3>1, <3>2, ContinueOK DEF Start
  <2>5. ASSUME OpenAttempt(r)
        PROVE  RequestsOK' /\ UNCHANGED <<exam, attempt, raced>>
    <3> DEFINE n == [req[r] EXCEPT !.pc = "count"]
    <3>1. RequestOK(n)
      BY <2>0, <2>5 DEF OpenAttempt, At, RequestOK, RequestState
    <3>2. Continue(r, n) \/ Finish(r)
      BY <2>5 DEF OpenAttempt
    <3> HIDE DEF n
    <3> QED BY <1>0, <2>5, <3>1, <3>2, ContinueOK, FinishOK DEF OpenAttempt
  <2>6. ASSUME CountSubmitted(r)
        PROVE  RequestsOK' /\ UNCHANGED <<exam, attempt, raced>>
    <3> DEFINE n == [req[r] EXCEPT !.pc = "insert"]
    <3>1. RequestOK(n)
      BY <2>0, <2>6 DEF CountSubmitted, At, RequestOK, RequestState
    <3>2. Continue(r, n) \/ Finish(r)
      BY <2>6 DEF CountSubmitted
    <3> HIDE DEF n
    <3> QED BY <1>0, <2>6, <3>1, <3>2, ContinueOK, FinishOK DEF CountSubmitted
  <2>7. ASSUME NEW a \in Attempt, InsertAttempt(r, a)
        PROVE  AttemptsOK' /\ RequestsOK' /\ UNCHANGED <<exam, raced>>
    BY <1>0, <2>7, InsertWrites, FinishOK DEF InsertAttempt
  <2>8. ASSUME NEW a \in Attempt, NEW given \in Given, Grade(r, a, given)
        PROVE  RequestsOK' /\ UNCHANGED <<exam, attempt, raced>>
    <3> DEFINE n == [IdleRequest EXCEPT !.pc = "grade", !.attempt = a,
                         !.scores = Merge(attempt[a].scores, given)]
    <3>1. attempt[a].scores \in [Question -> Points]
      BY <1>0 DEF AttemptsOK, AttemptRow
    <3>2. Merge(attempt[a].scores, given) \in [Question -> Points]
      BY <3>1, MergeTyped
    <3>3. RequestOK(n)
      BY <3>2, IdleOK DEF RequestOK, RequestState, IdleRequest
    <3>4. Continue(r, n)
      BY <2>8 DEF Grade
    <3> HIDE DEF n
    <3> QED BY <1>0, <2>8, <3>3, <3>4, ContinueOK DEF Grade
  <2>9. ASSUME GradeAttempt(r)
        PROVE  AttemptsOK' /\ RequestsOK' /\ UNCHANGED <<exam, raced>>
    <3>1. AttemptsOK'
      BY <1>0, <2>9, GradeWrites, OneRow DEF AttemptsOK, RowOK
    <3> QED BY <1>0, <2>9, <3>1, FinishOK DEF GradeAttempt
  <2>10. UNCHANGED <<attempt>> => AttemptsOK'
    BY <1>0 DEF AttemptsOK, RowOK
  <2> QED
    BY <1>0, <1>7, <2>1, <2>2, <2>3, <2>4, <2>5, <2>6, <2>7, <2>8, <2>9, <2>10 DEF RequestNext
<1>8. CASE UNCHANGED vars
  BY <1>0, <1>8 DEF vars, AttemptsOK, RequestsOK, RowOK, RequestOK
<1> QED
  BY <1>1, <1>2, <1>3, <1>4, <1>5, <1>6, <1>7, <1>8 DEF Next

\* The tables keep the types of their columns, an open attempt has no result
\* and every request holds what its next statement needs.
THEOREM TypeCorrect == Spec => []TypeOK
<1>1. Init => TypeOK
  BY InitTyped
<1>2. TypeOK /\ [Next]_vars => TypeOK'
  BY StepTyped
<1> QED BY <1>1, <1>2, PTL DEF Spec

-----------------------------------------------------------------------------
(* What a step does to the exam, to one attempt and to one request. *)

Published == exam.state \in {"published", "closed"}

Starting(r) == req[r].pc \in {"find", "count", "insert"}

LEMMA ExamSteps ==
    ASSUME TypeOK, [Next]_vars
    PROVE  /\ Published =>
                 /\ exam'.state \in {exam.state, "closed"}
                 /\ exam'.mode = exam.mode
                 /\ [exam'.content EXCEPT !.window = exam.content.window] = exam.content
           /\ exam.state # "unused" => exam'.state # "unused" /\ exam'.mode = exam.mode
           /\ exam.state = "unused" =>
                 exam' = exam \/ (attempt' = attempt /\ exam'.state = "draft")
           /\ ~Published /\ Published' => attempt' = attempt /\ exam'.mode = exam.mode
<1>0. exam \in ExamRow /\ exam.content \in Contents
  BY DEF TypeOK, ExamRow
<1>1. [exam.content EXCEPT !.window = exam.content.window] = exam.content
  BY <1>0 DEF Contents
<1>2. ASSUME NEW mode \in ExamMode, NEW c \in Content, CreateExam(mode, c)
      PROVE  attempt' = attempt /\ exam.state = "unused" /\ exam'.state = "draft"
  BY <1>2 DEF CreateExam
<1>3. ASSUME NEW r \in Request, UpdateExam(r)
      PROVE  \/ exam' = exam
             \/ /\ exam.state = "draft" /\ exam'.state = "draft" /\ exam'.mode = exam.mode
                /\ attempt' = attempt
  BY <1>0, <1>3 DEF UpdateExam, ExamRow
<1>4. ASSUME NEW r \in Request, PublishExam(r)
      PROVE  \/ exam' = exam
             \/ /\ exam.state = "draft" /\ exam'.state = "published" /\ exam'.mode = exam.mode
                /\ attempt' = attempt
  BY <1>0, <1>4 DEF PublishExam, ExamRow
<1>5. ASSUME CloseExam
      PROVE  /\ exam.state = "published" /\ exam'.state = "closed" /\ exam'.mode = exam.mode
             /\ exam'.content = exam.content
  BY <1>0, <1>5 DEF CloseExam, ExamRow
<1>6. ASSUME DeleteExam
      PROVE  exam.state = "draft" /\ exam'.state = "deleted" /\ exam'.mode = exam.mode
  BY <1>0, <1>6 DEF DeleteExam, ExamRow
<1>7. ASSUME WindowPasses
      PROVE  /\ exam.state # "unused"
             /\ exam'.state = exam.state /\ exam'.mode = exam.mode
             /\ [exam'.content EXCEPT !.window = exam.content.window] = exam.content
             /\ attempt' = attempt
  <2>1. PICK next \in {<<"before", "open">>, <<"open", "past">>} :
            exam' = [exam EXCEPT !.content.window = next[2]]
    BY <1>7 DEF WindowPasses
  <2>2. exam'.content = [exam.content EXCEPT !.window = next[2]]
    BY <1>0, <2>1 DEF ExamRow
  <2>3. [exam'.content EXCEPT !.window = exam.content.window] = exam.content
    BY <1>0, <2>2 DEF Contents
  <2> QED BY <1>0, <1>7, <2>1, <2>3 DEF WindowPasses, Exists, ExamRow
<1>8. ASSUME NEW D \in SUBSET Student,
             NEW results \in [D -> 0 .. Cardinality(Question)],
             NEW ids \in [D -> Attempt], RecordResults(results, ids)
      PROVE  /\ exam.state # "unused"
             /\ exam'.state = exam.state /\ exam'.mode = exam.mode
             /\ exam'.content = exam.content
  BY <1>0, <1>8 DEF RecordResults, Exists, ExamRow
<1>9. CASE exam' = exam
  BY <1>1, <1>9 DEF Published
<1>10. CASE exam' # exam
  <2>1. \/ \E mode \in ExamMode, c \in Content : CreateExam(mode, c)
        \/ DeleteExam \/ CloseExam \/ WindowPasses
        \/ \E r \in Request : UpdateExam(r) \/ PublishExam(r)
        \/ \E D \in SUBSET Student :
              \E results \in [D -> 0 .. Cardinality(Question)] :
                 \E ids \in [D -> Attempt] : RecordResults(results, ids)
    BY <1>10
       DEF Next, vars, RequestNext, Update, Publish, Start, OpenAttempt, CountSubmitted,
           InsertAttempt, Grade, GradeAttempt, SaveAnswers, Submit
  <2> QED BY <1>1, <1>2, <1>3, <1>4, <1>5, <1>6, <1>7, <1>8, <1>10, <2>1 DEF Published
<1> QED BY <1>9, <1>10

Opened(a) ==
    \E r \in Request :
        /\ At(r, "insert")
        /\ OpenOf(req[r].student) = {}
        /\ attempt[a].state = "unused"
        /\ attempt' = [attempt EXCEPT ![a] = NewAttempt(req[r].student)]
        /\ exam' = exam /\ raced' = raced

Saved(a) ==
    /\ attempt[a].state = "open" /\ attempt'[a].state = "open"
    /\ attempt'[a].student = attempt[a].student

Submitted(a) ==
    /\ exam.mode = "online" /\ exam' = exam /\ req' = req
    /\ attempt[a].state = "open" /\ attempt'[a].state = "submitted"
    /\ attempt'[a].student = attempt[a].student
    /\ attempt'[a].total = IF HasUngraded(attempt'[a].scores) THEN None
                           ELSE TotalOf(attempt'[a].scores)
    /\ \A r \in Request : At(r, "insert") /\ req[r].student = attempt[a].student =>
          attempt[a].student \in raced'

Marked(a) ==
    /\ attempt[a].state = "submitted" /\ attempt'[a].state = "submitted"
    /\ attempt'[a].student = attempt[a].student
    /\ attempt'[a].answers = attempt[a].answers
    /\ attempt'[a].total = TotalOf(attempt'[a].scores)

OnPaper(a) ==
    /\ exam.mode = "manual" /\ exam'.mode = "manual"
    /\ attempt[a].state \in {"open", "unused"} /\ attempt'[a].state = "submitted"
    /\ attempt'[a].total # None

Gone(a) ==
    /\ exam.state = "draft" /\ exam'.mode = exam.mode
    /\ attempt[a].state # "unused" /\ attempt'[a].state = "deleted"
    /\ attempt'[a].student = attempt[a].student
    /\ attempt'[a].answers = attempt[a].answers

LEMMA AttemptSteps ==
    ASSUME TypeOK, [Next]_vars, NEW a \in Attempt
    PROVE  \/ attempt'[a] = attempt[a]
           \/ Opened(a) \/ Saved(a) \/ Submitted(a) \/ Marked(a) \/ OnPaper(a) \/ Gone(a)
<1>0. exam \in ExamRow /\ AttemptsOK /\ RequestsOK /\ raced \in SUBSET Student
  BY TypeParts
<1>1. attempt \in [Attempt -> AttemptRow] /\ RowOK(attempt[a])
  BY <1>0 DEF AttemptsOK
<1> SUFFICES ASSUME attempt' # attempt
             PROVE  \/ attempt'[a] = attempt[a]
                    \/ Opened(a) \/ Saved(a) \/ Submitted(a) \/ Marked(a) \/ OnPaper(a)
                    \/ Gone(a)
  OBVIOUS
<1>2. ASSUME NEW r \in Request, NEW b \in Attempt, InsertAttempt(r, b)
      PROVE  attempt'[a] = attempt[a] \/ Opened(a)
  <2>1. /\ At(r, "insert") /\ attempt[b].state = "unused"
        /\ OpenOf(req[r].student) = {}
        /\ attempt' = [attempt EXCEPT ![b] = NewAttempt(req[r].student)]
        /\ exam' = exam /\ raced' = raced
    BY <1>2 DEF InsertAttempt
  <2>2. CASE a = b
    BY <2>1, <2>2 DEF Opened
  <2>3. CASE a # b
    BY <1>1, <2>1, <2>3
  <2> QED BY <2>2, <2>3
<1>3. ASSUME NEW b \in Attempt, NEW sheet \in Sheet, SaveAnswers(b, sheet)
      PROVE  attempt'[a] = attempt[a] \/ Saved(a)
  <2>1. attempt[b].state = "open" /\ attempt' = [attempt EXCEPT ![b].answers = sheet]
    BY <1>3 DEF SaveAnswers
  <2> QED BY <1>1, <2>1 DEF Saved, AttemptRow
<1>4. ASSUME NEW b \in Attempt, NEW sheet \in Sheet, Submit(b, sheet)
      PROVE  attempt'[a] = attempt[a] \/ Submitted(a)
  <2>1. /\ attempt' = [attempt EXCEPT ![b] = Graded(b, sheet)]
        /\ Graded(b, sheet).state = "submitted"
        /\ Graded(b, sheet).student = attempt[b].student
        /\ Graded(b, sheet).total =
              IF HasUngraded(Graded(b, sheet).scores) THEN None
              ELSE TotalOf(Graded(b, sheet).scores)
    BY <1>0, <1>4, SubmitWrites
  <2>2. CASE a = b
    <3>1. attempt'[a] = Graded(b, sheet)
      BY <1>1, <2>1, <2>2
    <3>2. /\ exam.mode = "online" /\ exam' = exam /\ req' = req
          /\ attempt[a].state = "open"
      BY <1>4, <2>2 DEF Submit
    <3>3. attempt[a].student \in Student
      BY <1>1, <3>2 DEF RowOK
    <3>4. \A r \in Request : At(r, "insert") /\ req[r].student = attempt[a].student =>
             attempt[a].student \in raced'
      BY <1>4, <2>2, <3>3 DEF Submit
    <3> QED BY <2>1, <2>2, <3>1, <3>2, <3>4 DEF Submitted
  <2>3. CASE a # b
    BY <1>1, <2>1, <2>3
  <2> QED BY <2>2, <2>3
<1>5. ASSUME NEW r \in Request, GradeAttempt(r)
      PROVE  attempt'[a] = attempt[a] \/ Marked(a)
  <2> DEFINE b == req[r].attempt
             scores == req[r].scores
  <2>1. /\ b \in Attempt
        /\ attempt[b].state = "submitted"
        /\ attempt' = [attempt EXCEPT ![b] = Regraded(b, scores)]
        /\ Regraded(b, scores).state = "submitted"
        /\ Regraded(b, scores).student = attempt[b].student
        /\ Regraded(b, scores).answers = attempt[b].answers
        /\ Regraded(b, scores).scores = scores
        /\ Regraded(b, scores).total = TotalOf(scores)
    BY <1>0, <1>5, GradeWrites
  <2> HIDE DEF b, scores
  <2>2. CASE a = b
    BY <1>1, <2>1, <2>2 DEF Marked
  <2>3. CASE a # b
    BY <1>1, <2>1, <2>3
  <2> QED BY <2>2, <2>3
<1>6. ASSUME NEW D \in SUBSET Student,
             NEW results \in [D -> 0 .. Cardinality(Question)],
             NEW ids \in [D -> Attempt], RecordResults(results, ids)
      PROVE  attempt'[a] = attempt[a] \/ OnPaper(a)
  <2>1. exam.mode = "manual" /\ exam'.mode = "manual"
    BY <1>0, <1>6 DEF RecordResults, ExamRow
  <2> QED BY <1>0, <1>6, <2>1, RecordWrites DEF OnPaper
<1>7. ASSUME DeleteExam
      PROVE  attempt'[a] = attempt[a] \/ Gone(a)
  <2>1. exam.state = "draft" /\ exam'.mode = exam.mode
    BY <1>0, <1>7 DEF DeleteExam, ExamRow
  <2> QED BY <1>1, <1>7, <2>1 DEF DeleteExam, Gone, AttemptRow
<1>8. \/ DeleteExam
      \/ \E r \in Request : GradeAttempt(r) \/ \E b \in Attempt : InsertAttempt(r, b)
      \/ \E b \in Attempt, sheet \in Sheet : SaveAnswers(b, sheet) \/ Submit(b, sheet)
      \/ \E D \in SUBSET Student :
            \E results \in [D -> 0 .. Cardinality(Question)] :
               \E ids \in [D -> Attempt] : RecordResults(results, ids)
  BY DEF Next, vars, RequestNext, CreateExam, Update, UpdateExam, Publish, PublishExam,
         CloseExam, WindowPasses, Start, OpenAttempt, CountSubmitted, Grade
<1> QED BY <1>2, <1>3, <1>4, <1>5, <1>6, <1>7, <1>8

Found(r) ==
    /\ Published /\ exam' = exam
    /\ req'[r].pc = "find" /\ req'[r].maxAttempts = exam.content.maxAttempts

Going(r) ==
    /\ At(r, "find") /\ exam' = exam
    /\ req'[r].pc = "count" /\ req'[r].maxAttempts = req[r].maxAttempts

Counted(r) ==
    /\ At(r, "count") /\ exam' = exam /\ attempt' = attempt
    /\ req'[r].pc = "insert" /\ req'[r].maxAttempts = req[r].maxAttempts
    /\ req'[r].student = req[r].student
    /\ Cardinality(SubmittedOf(req[r].student)) < req[r].maxAttempts

LEMMA RacedGrows ==
    ASSUME TypeOK, [Next]_vars
    PROVE  raced \subseteq raced'
BY DEF TypeOK, Next, vars, RequestNext, CreateExam, Update, UpdateExam, Publish, PublishExam,
         CloseExam, DeleteExam, WindowPasses, Start, OpenAttempt, CountSubmitted, Grade,
         GradeAttempt, InsertAttempt, SaveAnswers, Submit, RecordResults

LEMMA RequestSteps ==
    ASSUME TypeOK, [Next]_vars, NEW r \in Request
    PROVE  req'[r] = req[r] \/ ~Starting(r)' \/ Found(r) \/ Going(r) \/ Counted(r)
<1>0. req \in [Request -> RequestState]
  BY DEF TypeOK
<1> SUFFICES ASSUME req'[r] # req[r]
             PROVE  ~Starting(r)' \/ Found(r) \/ Going(r) \/ Counted(r)
  OBVIOUS
<1>1. PICK q \in Request : RequestNext(q)
  BY DEF Next, vars, CreateExam, CloseExam, DeleteExam, WindowPasses, SaveAnswers, Submit,
         RecordResults
<1>2. ASSUME NEW s, Continue(q, s)
      PROVE  req'[r] = s
  BY <1>0, <1>2 DEF Continue
<1>3. q = r
  BY <1>0, <1>1
     DEF RequestNext, Update, UpdateExam, Publish, PublishExam, Start, OpenAttempt,
         CountSubmitted, Grade, GradeAttempt, InsertAttempt, Finish, Continue
<1>4. IdleRequest.pc = "idle"
  BY DEF IdleRequest
<1>5. ASSUME \/ \E c \in Content : Update(r, c)
             \/ UpdateExam(r) \/ Publish(r) \/ PublishExam(r) \/ GradeAttempt(r)
             \/ \E a \in Attempt : InsertAttempt(r, a)
             \/ \E a \in Attempt, given \in Given : Grade(r, a, given)
      PROVE  req'[r].pc \in {"idle", "update", "publish", "grade"}
  <2>1. ASSUME \/ UpdateExam(r) \/ PublishExam(r) \/ GradeAttempt(r)
               \/ \E a \in Attempt : InsertAttempt(r, a)
        PROVE  req'[r].pc = "idle"
    BY <1>2, <1>3, <1>4, <2>1 DEF UpdateExam, PublishExam, GradeAttempt, InsertAttempt, Finish
  <2>2. ASSUME NEW c \in Content, Update(r, c)
        PROVE  req'[r].pc = "update"
    <3>1. req'[r] = [IdleRequest EXCEPT !.pc = "update", !.content = c,
                                        !.version = exam.version]
      BY <1>2, <1>3, <2>2 DEF Update
    <3> QED BY <3>1 DEF IdleRequest
  <2>3. ASSUME Publish(r)
        PROVE  req'[r].pc = "publish"
    <3>1. req'[r] = [IdleRequest EXCEPT !.pc = "publish"]
      BY <1>2, <1>3, <2>3 DEF Publish
    <3> QED BY <3>1 DEF IdleRequest
  <2>4. ASSUME NEW a \in Attempt, NEW given \in Given, Grade(r, a, given)
        PROVE  req'[r].pc = "grade"
    <3>1. req'[r] = [IdleRequest EXCEPT !.pc = "grade", !.attempt = a,
                                        !.scores = Merge(attempt[a].scores, given)]
      BY <1>2, <1>3, <2>4 DEF Grade
    <3> QED BY <3>1 DEF IdleRequest
  <2> QED BY <1>5, <2>1, <2>2, <2>3, <2>4
<1>6. ASSUME NEW s \in Student, Start(r, s)
      PROVE  Found(r)
  <2> DEFINE n == [IdleRequest EXCEPT !.pc = "find", !.student = s,
                                     !.maxAttempts = exam.content.maxAttempts]
  <2>1. req'[r] = n
    BY <1>2, <1>3, <1>6 DEF Start
  <2>2. n.pc = "find" /\ n.maxAttempts = exam.content.maxAttempts
    BY DEF IdleRequest
  <2> HIDE DEF n
  <2> QED BY <1>6, <2>1, <2>2 DEF Start, Found, Published, ExamAvailable
<1>7. ASSUME OpenAttempt(r)
      PROVE  req'[r].pc = "idle" \/ Going(r)
  <2> DEFINE n == [req[r] EXCEPT !.pc = "count"]
  <2>1. n.pc = "count" /\ n.maxAttempts = req[r].maxAttempts
    BY <1>0 DEF RequestState
  <2>2. req'[r] = IdleRequest \/ req'[r] = n
    BY <1>2, <1>3, <1>7 DEF OpenAttempt, Finish
  <2> HIDE DEF n
  <2> QED BY <1>4, <1>7, <2>1, <2>2 DEF OpenAttempt, Going
<1>8. ASSUME CountSubmitted(r)
      PROVE  req'[r].pc = "idle" \/ Counted(r)
  <2> DEFINE n == [req[r] EXCEPT !.pc = "insert"]
  <2>1. n.pc = "insert" /\ n.maxAttempts = req[r].maxAttempts /\ n.student = req[r].student
    BY <1>0 DEF RequestState
  <2>2. \/ req'[r] = IdleRequest
        \/ /\ req'[r] = n
           /\ Cardinality(SubmittedOf(req[r].student)) < req[r].maxAttempts
    BY <1>2, <1>3, <1>8 DEF CountSubmitted, Finish
  <2> HIDE DEF n
  <2> QED BY <1>4, <1>8, <2>1, <2>2 DEF CountSubmitted, Counted
<1> QED BY <1>1, <1>3, <1>5, <1>6, <1>7, <1>8 DEF RequestNext, Starting

-----------------------------------------------------------------------------
(* Submitted work and published exams. *)

\* Whatever calls were in flight when an attempt was submitted, its answers
\* stay what was graded and it is not opened again.
THEOREM SubmittedStays == Spec => SubmittedWorkIsFixed
<1>1. ASSUME TypeOK, [Next]_vars, NEW a \in Attempt, attempt[a].state = "submitted"
      PROVE  /\ attempt'[a].state \in {"submitted", "deleted"}
             /\ attempt'[a].answers = attempt[a].answers
             /\ attempt'[a].student = attempt[a].student
  BY <1>1, AttemptSteps DEF Opened, Saved, Submitted, Marked, OnPaper, Gone
<1>2. TypeOK /\ [Next]_vars =>
        [\A a \in Attempt : attempt[a].state = "submitted" =>
            /\ attempt'[a].state \in {"submitted", "deleted"}
            /\ attempt'[a].answers = attempt[a].answers
            /\ attempt'[a].student = attempt[a].student]_vars
  BY <1>1
<1> QED BY <1>2, TypeCorrect, PTL DEF Spec, SubmittedWorkIsFixed

\* An edit in flight does not reach a published exam, and a closed exam is not
\* reopened.
THEOREM PublishedStays == Spec => PublishedIsFixed
<1>1. TypeOK /\ [Next]_vars =>
        [exam.state \in {"published", "closed"} =>
            /\ exam'.state \in {exam.state, "closed"}
            /\ [exam'.content EXCEPT !.window = exam.content.window] = exam.content]_vars
  BY ExamSteps DEF Published
<1> QED BY <1>1, TypeCorrect, PTL DEF Spec, PublishedIsFixed

-----------------------------------------------------------------------------
(* The life of the exam: nobody starts before it is published, and the cap *)
(* a call has read is the cap of the exam.                                 *)

Lifecycle ==
    /\ exam.state = "unused" => exam.mode = "online"
    /\ \A r \in Request : Starting(r) =>
          Published /\ req[r].maxAttempts = exam.content.maxAttempts
    /\ AnsweredExamStays

LEMMA SameCap ==
    ASSUME TypeOK, [Next]_vars, Published
    PROVE  exam'.content.maxAttempts = exam.content.maxAttempts
<1>1. exam' \in ExamRow /\ exam.content \in Contents
  BY StepTyped DEF TypeOK, ExamRow
<1>2. exam'.content \in Contents
  BY <1>1 DEF ExamRow
<1>3. [exam'.content EXCEPT !.window = exam.content.window] = exam.content
  BY ExamSteps
<1>4. [exam'.content EXCEPT !.window = exam.content.window].maxAttempts
        = exam'.content.maxAttempts
  BY <1>2 DEF Contents
<1> QED BY <1>3, <1>4

LEMMA InitLifecycle == Init => Lifecycle
BY DEF Init, Lifecycle, Starting, IdleRequest, AnsweredExamStays

LEMMA StepLifecycle == TypeOK /\ Lifecycle /\ [Next]_vars => Lifecycle'
<1> SUFFICES ASSUME TypeOK, Lifecycle, [Next]_vars PROVE Lifecycle'
  OBVIOUS
<1>1. exam'.state = "unused" => exam'.mode = "online"
  BY ExamSteps DEF Lifecycle
<1>2. ASSUME NEW r \in Request, Starting(r)'
      PROVE  Published' /\ req'[r].maxAttempts = exam'.content.maxAttempts
  <2>1. Published => Published' /\ exam'.content.maxAttempts = exam.content.maxAttempts
    BY ExamSteps, SameCap DEF Published
  <2>2. Published /\ req'[r].maxAttempts = exam.content.maxAttempts
    BY <1>2, RequestSteps DEF Lifecycle, Starting, Found, Going, Counted, At
  <2> QED BY <2>1, <2>2
<1>3. ASSUME exam'.mode = "online", NEW a \in Attempt, attempt'[a].state # "unused"
      PROVE  attempt'[a].state # "deleted" /\ exam'.state \in {"published", "closed"}
  <2>1. CASE attempt'[a] = attempt[a]
    <3>1. exam.state # "unused" \/ exam.mode = "online"
      BY DEF Lifecycle
    <3>2. exam.mode = "online"
      BY <1>3, <3>1, ExamSteps
    <3> QED BY <1>3, <2>1, <3>2, ExamSteps DEF Lifecycle, AnsweredExamStays, Published
  <2>2. CASE Opened(a)
    <3>1. PICK r \in Request :
              /\ At(r, "insert") /\ exam' = exam
              /\ attempt' = [attempt EXCEPT ![a] = NewAttempt(req[r].student)]
      BY <2>2 DEF Opened
    <3>2. attempt'[a].state = "open"
      BY <3>1 DEF TypeOK, NewAttempt
    <3>3. Published
      BY <3>1 DEF Lifecycle, Starting, At
    <3> QED BY <3>1, <3>2, <3>3 DEF Published
  <2>3. CASE Saved(a) \/ Submitted(a) \/ Marked(a)
    <3>1. /\ attempt[a].state \in {"open", "submitted"}
          /\ attempt'[a].state \in {"open", "submitted"}
      BY <2>3 DEF Saved, Submitted, Marked
    <3>2. exam.mode = "online"
      BY <1>3, ExamSteps DEF Lifecycle
    <3>3. Published
      BY <3>1, <3>2 DEF Lifecycle, AnsweredExamStays, Published
    <3> QED BY <3>1, <3>3, ExamSteps DEF Published
  <2>4. CASE OnPaper(a)
    BY <1>3, <2>4 DEF OnPaper
  <2>5. CASE Gone(a)
    BY <1>3, <2>5 DEF Gone, Lifecycle, AnsweredExamStays
  <2> QED BY <2>1, <2>2, <2>3, <2>4, <2>5, AttemptSteps
<1> QED BY <1>1, <1>2, <1>3 DEF Lifecycle, AnsweredExamStays

LEMMA LifecycleAlways == Spec => [](TypeOK /\ Lifecycle)
<1>1. Init => TypeOK /\ Lifecycle
  BY InitTyped, InitLifecycle
<1>2. TypeOK /\ Lifecycle /\ [Next]_vars => (TypeOK /\ Lifecycle)'
  BY StepTyped, StepLifecycle
<1> QED BY <1>1, <1>2, PTL DEF Spec

\* Students are only at work on an online exam that was published, and it
\* stays: no call in flight deletes it under them.
THEOREM AnsweredStays == Spec => []AnsweredExamStays
BY LifecycleAlways, PTL DEF Lifecycle

\* The mode of an exam with attempts does not change.
LEMMA OnlineBefore ==
    ASSUME TypeOK, Lifecycle, [Next]_vars, exam'.mode = "online"
    PROVE  exam.mode = "online"
BY ExamSteps DEF Lifecycle

-----------------------------------------------------------------------------
(* One open attempt. *)

OpenOnce ==
    \A a, b \in Attempt :
        /\ attempt[a].state = "open" /\ attempt[b].state = "open"
        /\ attempt[a].student = attempt[b].student
        => a = b

LEMMA OpenedAlone ==
    ASSUME TypeOK, NEW a \in Attempt, NEW b \in Attempt, Opened(a), a # b,
           attempt'[b].state = "open"
    PROVE  attempt'[a].student # attempt'[b].student
<1>1. PICK r \in Request :
          /\ At(r, "insert") /\ OpenOf(req[r].student) = {}
          /\ attempt' = [attempt EXCEPT ![a] = NewAttempt(req[r].student)]
  BY DEF Opened
<1>2. attempt'[a].student = req[r].student /\ attempt'[b] = attempt[b]
  BY <1>1 DEF TypeOK, NewAttempt
<1>3. b \notin OpenOf(req[r].student)
  BY <1>1
<1> QED BY <1>2, <1>3 DEF OpenOf

LEMMA StepOpenOnce == TypeOK /\ OpenOnce /\ [Next]_vars => OpenOnce'
<1> SUFFICES ASSUME TypeOK, OpenOnce, [Next]_vars, NEW a \in Attempt, NEW b \in Attempt,
                    attempt'[a].state = "open", attempt'[b].state = "open",
                    attempt'[a].student = attempt'[b].student
             PROVE  a = b
  BY DEF OpenOnce
<1>1. \A c \in Attempt : attempt'[c].state = "open" =>
         \/ Opened(c)
         \/ attempt[c].state = "open" /\ attempt'[c].student = attempt[c].student
  BY AttemptSteps DEF Saved, Submitted, Marked, OnPaper, Gone
<1>2. CASE Opened(a) \/ Opened(b)
  BY <1>2, OpenedAlone
<1>3. CASE ~Opened(a) /\ ~Opened(b)
  BY <1>1, <1>3 DEF OpenOnce
<1> QED BY <1>2, <1>3

LEMMA OpenOnceCounts == OpenOnce => OneOpenAttempt
<1> SUFFICES ASSUME OpenOnce, NEW s \in Student PROVE Cardinality(OpenOf(s)) <= 1
  BY DEF OneOpenAttempt
<1>1. CASE OpenOf(s) = {}
  BY <1>1, FS_EmptySet
<1>2. CASE OpenOf(s) # {}
  <2>1. PICK a : a \in OpenOf(s)
    BY <1>2
  <2>2. OpenOf(s) = {a}
    BY <2>1 DEF OpenOnce, OpenOf
  <2>3. Cardinality({a}) = 1
    BY FS_Singleton
  <2> QED BY <2>2, <2>3
<1> QED BY <1>1, <1>2

\* However calls of :start and :record interleave, a student has at most one
\* open attempt.
THEOREM OpenOnceAlways == Spec => []OneOpenAttempt
<1>1. Init => OpenOnce
  BY DEF Init, OpenOnce
<1>2. TypeOK /\ OpenOnce /\ [Next]_vars => OpenOnce'
  BY StepOpenOnce
<1>3. OpenOnce => OneOpenAttempt
  BY OpenOnceCounts
<1> QED BY <1>1, <1>2, <1>3, TypeCorrect, PTL DEF Spec

-----------------------------------------------------------------------------
(* The cap: a call that has counted has counted right, and still does unless *)
(* the student submitted since.                                              *)

Work(s) == OpenOf(s) \cup SubmittedOf(s)

Cap ==
    exam.mode = "online" =>
        /\ \A r \in Request, s \in Student \ raced :
              At(r, "insert") /\ req[r].student = s =>
                  Cardinality(SubmittedOf(s)) < req[r].maxAttempts
        /\ \A s \in Student \ raced : Cardinality(Work(s)) <= exam.content.maxAttempts

LEMMA FiniteWork ==
    ASSUME NEW s
    PROVE  /\ IsFiniteSet(SubmittedOf(s)) /\ IsFiniteSet(Work(s))
           /\ Cardinality(SubmittedOf(s)) \in Nat /\ Cardinality(Work(s)) \in Nat
<1>1. SubmittedOf(s) \subseteq Attempt /\ Work(s) \subseteq Attempt
  BY DEF SubmittedOf, OpenOf, Work
<1>2. IsFiniteSet(SubmittedOf(s)) /\ IsFiniteSet(Work(s))
  BY <1>1, FS_Subset, FiniteAssumption
<1> QED BY <1>2, FS_CardinalityType

LEMMA FewerSubmitted ==
    ASSUME NEW s, NEW t, SubmittedOf(t)' \subseteq SubmittedOf(s)
    PROVE  Cardinality(SubmittedOf(t)') <= Cardinality(SubmittedOf(s))
BY FiniteWork, FS_Subset

LEMMA LessWork ==
    ASSUME NEW s, Work(s)' \subseteq Work(s)
    PROVE  Cardinality(Work(s)') \in Nat /\ Cardinality(Work(s)') <= Cardinality(Work(s))
BY FiniteWork, FS_Subset, FS_CardinalityType

(* What was counted stays so while the request waits to insert. *)
LEMMA StepCounted ==
    ASSUME TypeOK, Lifecycle, Cap, [Next]_vars, exam'.mode = "online",
           NEW r \in Request, NEW s \in Student, At(r, "insert")',
           req'[r].student = s, s \notin raced'
    PROVE  Cardinality(SubmittedOf(s)') < req'[r].maxAttempts
<1>0. exam.mode = "online" /\ s \notin raced
  BY OnlineBefore, RacedGrows
<1>1. CASE Counted(r)
  <2>1. SubmittedOf(s)' = SubmittedOf(s)
    BY <1>1 DEF Counted, SubmittedOf
  <2> QED BY <1>1, <2>1 DEF Counted
<1>2. CASE req'[r] = req[r]
  <2>1. At(r, "insert") /\ req[r].student = s
    BY <1>2 DEF At
  <2>2. Cardinality(SubmittedOf(s)) < req[r].maxAttempts /\ req[r].maxAttempts \in Nat
    BY <1>0, <2>1 DEF Cap, TypeOK, RequestState
  <2>3. ASSUME NEW a \in Attempt, attempt'[a].state = "submitted", attempt'[a].student = s
        PROVE  attempt[a].state = "submitted" /\ attempt[a].student = s
    <3>1. ~Opened(a)
      BY <2>3 DEF Opened, TypeOK, NewAttempt
    <3>2. ~Submitted(a)
      BY <2>1, <2>3 DEF Submitted
    <3> QED BY <1>0, <2>3, <3>1, <3>2, AttemptSteps DEF Saved, Marked, OnPaper, Gone
  <2>4. SubmittedOf(s)' \subseteq SubmittedOf(s)
    BY <2>3 DEF SubmittedOf
  <2>5. /\ Cardinality(SubmittedOf(s)) \in Nat /\ Cardinality(SubmittedOf(s)') \in Nat
        /\ Cardinality(SubmittedOf(s)') <= Cardinality(SubmittedOf(s))
    BY FiniteWork, <2>4, FS_Subset, FS_CardinalityType
  <2> QED BY <1>2, <2>2, <2>5
<1> QED BY <1>1, <1>2, RequestSteps DEF Starting, Found, Going, At

(* A student's work grows by an insert only, and then by one. *)
LEMMA StepWork ==
    ASSUME TypeOK, Lifecycle, Cap, [Next]_vars, exam'.mode = "online",
           NEW s \in Student, s \notin raced'
    PROVE  Cardinality(Work(s)') <= exam'.content.maxAttempts
<1>0. exam.mode = "online" /\ s \notin raced
  BY OnlineBefore, RacedGrows
<1>1. exam'.content.maxAttempts \in Nat
  BY StepTyped DEF TypeOK, ExamRow, Contents
<1>2. CASE Published
  <2>1. /\ exam'.content.maxAttempts = exam.content.maxAttempts
        /\ Cardinality(Work(s)) <= exam.content.maxAttempts
    BY <1>0, <1>2, SameCap DEF Cap
  <2>2. CASE \E a \in Attempt : Opened(a) /\ attempt'[a].student = s
    <3>1. PICK a \in Attempt : Opened(a) /\ attempt'[a].student = s
      BY <2>2
    <3>2. PICK r \in Request :
              /\ At(r, "insert")
              /\ OpenOf(req[r].student) = {}
              /\ attempt' = [attempt EXCEPT ![a] = NewAttempt(req[r].student)]
      BY <3>1 DEF Opened
    <3>3. /\ req[r].student = s
          /\ \A b \in Attempt \ {a} : attempt'[b] = attempt[b]
      BY <3>1, <3>2 DEF TypeOK, NewAttempt
    <3>4. Work(s)' \subseteq SubmittedOf(s) \cup {a}
      BY <3>2, <3>3 DEF Work, OpenOf, SubmittedOf
    <3>5. /\ Cardinality(SubmittedOf(s)) < req[r].maxAttempts
          /\ req[r].maxAttempts = exam.content.maxAttempts
      BY <1>0, <3>2, <3>3 DEF Cap, Lifecycle, Starting, At
    <3>6. /\ IsFiniteSet(SubmittedOf(s) \cup {a})
          /\ Cardinality(SubmittedOf(s) \cup {a}) <= Cardinality(SubmittedOf(s)) + 1
          /\ Cardinality(SubmittedOf(s) \cup {a}) \in Nat
      <4>1. IsFiniteSet(SubmittedOf(s)) /\ Cardinality(SubmittedOf(s)) \in Nat
        BY FiniteWork
      <4>2. /\ IsFiniteSet(SubmittedOf(s) \cup {a})
            /\ Cardinality(SubmittedOf(s) \cup {a}) =
                  IF a \in SubmittedOf(s) THEN Cardinality(SubmittedOf(s))
                  ELSE Cardinality(SubmittedOf(s)) + 1
        BY <4>1, FS_AddElement
      <4> QED BY <4>1, <4>2
    <3>7. /\ Cardinality(Work(s)') \in Nat
          /\ Cardinality(Work(s)') <= Cardinality(SubmittedOf(s) \cup {a})
      BY <3>4, <3>6, FS_Subset, FS_CardinalityType
    <3> QED BY <1>1, <2>1, <3>5, <3>6, <3>7, FiniteWork
  <2>3. CASE ~ \E a \in Attempt : Opened(a) /\ attempt'[a].student = s
    <3>1. ASSUME NEW a \in Attempt, attempt'[a].state \in {"open", "submitted"},
                 attempt'[a].student = s
          PROVE  attempt[a].state \in {"open", "submitted"} /\ attempt[a].student = s
      BY <1>0, <2>3, <3>1, AttemptSteps DEF Saved, Submitted, Marked, OnPaper, Gone
    <3>2. Work(s)' \subseteq Work(s)
      BY <3>1 DEF Work, OpenOf, SubmittedOf
    <3> QED BY <1>1, <2>1, <3>2, LessWork, FiniteWork
  <2> QED BY <2>2, <2>3
<1>3. CASE ~Published
  <2>1. \A a \in Attempt : attempt'[a].state = "unused"
    <3>1. \A a \in Attempt : attempt[a].state = "unused"
      BY <1>0, <1>3 DEF Lifecycle, AnsweredExamStays, Published
    <3>2. CASE Published'
      BY <1>3, <3>1, <3>2, ExamSteps
    <3>3. CASE ~Published'
      BY <3>3, StepLifecycle DEF Lifecycle, AnsweredExamStays, Published
    <3> QED BY <3>2, <3>3
  <2>2. Work(s)' = {}
    BY <2>1 DEF Work, OpenOf, SubmittedOf
  <2> QED BY <1>1, <2>2, FS_EmptySet
<1> QED BY <1>2, <1>3

LEMMA InitCap == Init => Cap
<1> SUFFICES ASSUME Init PROVE Cap
  OBVIOUS
<1>1. ASSUME NEW s \in Student
      PROVE  Cardinality(Work(s)) <= exam.content.maxAttempts
  <2>1. Work(s) = {}
    BY DEF Init, Work, OpenOf, SubmittedOf
  <2> QED BY <2>1, FS_EmptySet DEF Init
<1> QED BY <1>1 DEF Init, Cap, At, IdleRequest

LEMMA StepCap == TypeOK /\ Lifecycle /\ Cap /\ [Next]_vars => Cap'
<1> SUFFICES ASSUME TypeOK, Lifecycle, Cap, [Next]_vars, exam'.mode = "online"
             PROVE  Cap'
  BY DEF Cap
<1>1. \A r \in Request, s \in Student \ raced' :
         At(r, "insert")' /\ req'[r].student = s =>
             Cardinality(SubmittedOf(s)') < req'[r].maxAttempts
  BY StepCounted
<1>2. \A s \in Student \ raced' : Cardinality(Work(s)') <= exam'.content.maxAttempts
  BY StepWork
<1> QED BY <1>1, <1>2 DEF Cap

\* An online exam is not attempted more often than max_attempts unless a
\* submit committed between the count of a :start and its insert.
THEOREM CapHolds == Spec => []AttemptsWithinCapUnlessRaced
<1>1. Init => TypeOK /\ Lifecycle /\ Cap
  BY InitTyped, InitLifecycle, InitCap
<1>2. TypeOK /\ Lifecycle /\ Cap /\ [Next]_vars => (TypeOK /\ Lifecycle /\ Cap)'
  BY StepTyped, StepLifecycle, StepCap
<1>3. Cap => AttemptsWithinCapUnlessRaced
  BY DEF Cap, Work, AttemptsWithinCapUnlessRaced
<1> QED BY <1>1, <1>2, <1>3, PTL DEF Spec

-----------------------------------------------------------------------------
(* Totals. *)

Totals ==
    \A a \in Attempt : attempt[a].state = "submitted" =>
        /\ attempt[a].total = None => HasUngraded(attempt[a].scores)
        /\ attempt[a].total # None /\ exam.mode = "online" =>
              attempt[a].total = TotalOf(attempt[a].scores)

LEMMA StepTotals == TypeOK /\ Lifecycle /\ Totals /\ [Next]_vars => Totals'
<1> SUFFICES ASSUME TypeOK, Lifecycle, Totals, [Next]_vars, NEW a \in Attempt,
                    attempt'[a].state = "submitted"
             PROVE  /\ attempt'[a].total = None => HasUngraded(attempt'[a].scores)
                    /\ attempt'[a].total # None /\ exam'.mode = "online" =>
                          attempt'[a].total = TotalOf(attempt'[a].scores)
  BY DEF Totals, HasUngraded, TotalOf
<1>1. CASE attempt'[a] = attempt[a]
  BY <1>1, OnlineBefore DEF Totals
<1>2. CASE Submitted(a)
  <2>1. TotalOf(attempt'[a].scores) # None
    BY TotalOfTyped, NoneAssumption
  <2> QED BY <1>2, <2>1 DEF Submitted
<1>3. CASE Marked(a)
  <2>1. attempt'[a].total # None
    BY <1>3, TotalOfTyped, NoneAssumption DEF Marked
  <2> QED BY <1>3, <2>1 DEF Marked
<1>4. CASE OnPaper(a)
  BY <1>4 DEF OnPaper
<1>5. ~Opened(a) /\ ~Saved(a) /\ ~Gone(a)
  BY DEF Opened, Saved, Gone, TypeOK, NewAttempt
<1> QED BY <1>1, <1>2, <1>3, <1>4, <1>5, AttemptSteps

LEMMA TotalsAlways == Spec => []Totals
<1>1. Init => TypeOK /\ Lifecycle /\ Totals
  BY InitTyped, InitLifecycle DEF Init, Totals
<1>2. TypeOK /\ Lifecycle /\ Totals /\ [Next]_vars => (TypeOK /\ Lifecycle /\ Totals)'
  BY StepTyped, StepLifecycle, StepTotals
<1> QED BY <1>1, <1>2, PTL DEF Spec

\* The total of an online attempt is the sum of the scores beside it, also
\* after two graders have overwritten each other.
THEOREM TotalsAgree == Spec => []TotalIsOfScores
<1>1. Totals => TotalIsOfScores
  BY DEF Totals, TotalIsOfScores
<1> QED BY <1>1, TotalsAlways, PTL

\* What holds up the finalization of grades has a question a human can grade.
THEOREM UngradedHasWork == Spec => []UngradedAwaitsAHuman
<1>1. Totals => UngradedAwaitsAHuman
  BY DEF Totals, UngradedAwaitsAHuman, Ungraded
<1> QED BY <1>1, TotalsAlways, PTL
=============================================================================
