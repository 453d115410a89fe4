---------------------------- MODULE ExamAttempts ----------------------------
(***************************************************************************)
(* One exam of the classroom context (internal/classroom/exam.go) and the  *)
(* attempts students make at it, from draft to graded results.             *)
(*                                                                         *)
(* Teachers and students call concurrently.  A call that reads and then    *)
(* writes is a request with a program counter, one SQL statement a step;   *)
(* a call whose reads only see columns that never change is one step.  The *)
(* INSERT of StartAttempt is two steps: its count sees the statement's     *)
(* snapshot, the unique index sees what is committed when it inserts.      *)
(*                                                                         *)
(* Every question weighs one point.  Answers are right or wrong by the key *)
(* the bank holds when they are graded, so edits of the bank are covered.  *)
(***************************************************************************)
EXTENDS Naturals, FiniteSets

CONSTANTS
    Student, Question,
    ShortAnswer,   \* the questions a human grades
    Attempt,       \* the uuids an attempt can get
    Request,       \* the calls in flight that read before they write
    Content,       \* what teachers write into the exam in this instance
    Sheet,         \* the answers students give in this instance
    Given,         \* the scores graders give, for some questions, in the exam or not
    MaxVersion,    \* bound on the edits of the draft
    None

ExamMode == {"online", "manual"}
ShowResults == {"after_submit", "after_close", "manual"}
Answer == {"none", "right", "wrong"}

\* The JSON map from question to points: a missing key, null, or the points.
Points == {"absent", "awaiting", "zero", "full"}

\* Before, inside or after [available_from, available_until].
Window == {"before", "open", "past"}

Contents ==
    [questions : SUBSET Question, maxAttempts : Nat \ {0},
     showResults : ShowResults, window : Window]

ASSUME ContentAssumption == Content \subseteq Contents
ASSUME SheetAssumption == Sheet \subseteq [Question -> Answer]
ASSUME GivenAssumption == Given \subseteq [Question -> {"absent", "zero", "full"}]
ASSUME ShortAnswerAssumption == ShortAnswer \subseteq Question
ASSUME FiniteAssumption == IsFiniteSet(Attempt) /\ IsFiniteSet(Question)
ASSUME NoneAssumption ==
    None \notin Student \cup Attempt \cup Contents \cup Nat
ASSUME BoundAssumption == MaxVersion \in Nat

VARIABLES
    exam,      \* the row in table exams
    attempt,   \* table exam_attempts
    req,       \* the local state of each request
    raced      \* history: the students who submitted an attempt between the
               \* count and the insert of another

vars == <<exam, attempt, req, raced>>

ExamRow ==
    [state : {"unused", "draft", "published", "closed", "deleted"},
     mode : ExamMode, content : Contents, used : BOOLEAN, version : Nat]

AttemptRow ==
    [state : {"unused", "open", "submitted", "deleted"},
     student : Student \cup {None}, answers : [Question -> Answer],
     scores : [Question -> Points], total : Nat \cup {None}]

RequestState ==
    [pc : {"idle", "update", "publish", "find", "count", "insert", "grade"},
     content : Contents \cup {None}, version : Nat,
     student : Student \cup {None}, maxAttempts : Nat,
     attempt : Attempt \cup {None}, scores : [Question -> Points]]

Blank == [q \in Question |-> "none"]
NoScores == [q \in Question |-> "absent"]

IdleRequest ==
    [pc |-> "idle", content |-> None, version |-> 0, student |-> None,
     maxAttempts |-> 0, attempt |-> None, scores |-> NoScores]

Exists == exam.state \notin {"unused", "deleted"}

OpenOf(s) == {a \in Attempt : attempt[a].state = "open" /\ attempt[a].student = s}

SubmittedOf(s) ==
    {a \in Attempt : attempt[a].state = "submitted" /\ attempt[a].student = s}

At(r, pc) == req[r].pc = pc

Continue(r, s) == req' = [req EXCEPT ![r] = s]

Finish(r) == Continue(r, IdleRequest)

\* The tables keep the types of their columns, an open attempt has no result
\* yet, and a request holds what its next statement needs.
TypeOK ==
    /\ exam \in ExamRow
    /\ attempt \in [Attempt -> AttemptRow]
    /\ req \in [Request -> RequestState]
    /\ raced \in SUBSET Student
    /\ \A a \in Attempt :
        /\ attempt[a].state = "open" =>
              attempt[a].total = None /\ attempt[a].scores = NoScores
        /\ attempt[a].state \in {"open", "submitted"} => attempt[a].student \in Student
    /\ \A r \in Request :
        /\ At(r, "update") => req[r].content \in Contents
        /\ req[r].pc \in {"find", "count", "insert"} => req[r].student \in Student
        /\ At(r, "grade") => req[r].attempt \in Attempt

Init ==
    /\ exam = [state |-> "unused", mode |-> "online", used |-> FALSE, version |-> 0,
               content |-> [questions |-> {}, maxAttempts |-> 1,
                            showResults |-> "after_submit", window |-> "open"]]
    /\ attempt = [a \in Attempt |->
          [state |-> "unused", student |-> None, answers |-> Blank,
           scores |-> NoScores, total |-> None]]
    /\ req = [r \in Request |-> IdleRequest]
    /\ raced = {}

-----------------------------------------------------------------------------
(* The exam. *)

CreateExam(mode, c) ==
    /\ exam.state = "unused"
    /\ exam' = [state |-> "draft", mode |-> mode, content |-> c, used |-> FALSE,
                version |-> 1]
    /\ UNCHANGED <<attempt, req, raced>>

(* GetExam, and the draft check on what it read. *)
Update(r, c) ==
    /\ At(r, "idle")
    /\ exam.state = "draft" /\ exam.version < MaxVersion
    /\ Continue(r, [IdleRequest EXCEPT !.pc = "update", !.content = c,
                                       !.version = exam.version])
    /\ UNCHANGED <<exam, attempt, raced>>

(* UPDATE .. WHERE version = $14 AND status = 'draft'; a miss is ErrConflict. *)
UpdateExam(r) ==
    /\ At(r, "update")
    /\ exam' = IF exam.state = "draft" /\ exam.version = req[r].version
               THEN [exam EXCEPT !.content = req[r].content, !.version = @ + 1]
               ELSE exam
    /\ Finish(r)
    /\ UNCHANGED <<attempt, raced>>

(* The attempts go with the row: ON DELETE CASCADE. *)
DeleteExam ==
    /\ exam.state = "draft"
    /\ exam' = [exam EXCEPT !.state = "deleted"]
    /\ attempt' = [a \in Attempt |->
          IF attempt[a].state = "unused" THEN attempt[a]
          ELSE [attempt[a] EXCEPT !.state = "deleted"]]
    /\ UNCHANGED <<req, raced>>

(* GetExam, and the check that it has questions. *)
Publish(r) ==
    /\ At(r, "idle")
    /\ Exists /\ exam.content.questions # {}
    /\ Continue(r, [IdleRequest EXCEPT !.pc = "publish"])
    /\ UNCHANGED <<exam, attempt, raced>>

PublishExam(r) ==
    /\ At(r, "publish")
    /\ exam' = IF exam.state = "draft" THEN [exam EXCEPT !.state = "published"] ELSE exam
    /\ Finish(r)
    /\ UNCHANGED <<attempt, raced>>

CloseExam ==
    /\ exam.state = "published"
    /\ exam' = [exam EXCEPT !.state = "closed"]
    /\ UNCHANGED <<attempt, req, raced>>

(* Time passes available_from or available_until. *)
WindowPasses ==
    /\ Exists
    /\ \E next \in {<<"before", "open">>, <<"open", "past">>} :
        /\ exam.content.window = next[1]
        /\ exam' = [exam EXCEPT !.content.window = next[2]]
    /\ UNCHANGED <<attempt, req, raced>>

ExamAvailable == exam.state = "published" /\ exam.content.window = "open"

-----------------------------------------------------------------------------
(* Scores. *)

AutoGrade(questions, sheet) ==
    [q \in Question |->
        CASE q \notin questions -> "absent"
          [] q \in questions /\ sheet[q] = "none" -> "zero"
          [] q \in questions \cap ShortAnswer /\ sheet[q] # "none" -> "awaiting"
          [] q \in questions \ ShortAnswer /\ sheet[q] = "right" -> "full"
          [] q \in questions \ ShortAnswer /\ sheet[q] = "wrong" -> "zero"]

TotalOf(scores) == Cardinality({q \in Question : scores[q] = "full"})

HasUngraded(scores) == \E q \in Question : scores[q] = "awaiting"

-----------------------------------------------------------------------------
(* A student's attempt. *)

Start(r, s) ==
    /\ At(r, "idle")
    /\ ExamAvailable
    /\ Continue(r, [IdleRequest EXCEPT !.pc = "find", !.student = s,
                                       !.maxAttempts = exam.content.maxAttempts])
    /\ UNCHANGED <<exam, attempt, raced>>

(* An attempt already open is the answer. *)
OpenAttempt(r) ==
    /\ At(r, "find")
    /\ IF OpenOf(req[r].student) # {} THEN Finish(r)
       ELSE Continue(r, [req[r] EXCEPT !.pc = "count"])
    /\ UNCHANGED <<exam, attempt, raced>>

(* Mutant: the cap compares with <=. *)
CountOneMore(r) ==
    /\ At(r, "count")
    /\ IF Cardinality(SubmittedOf(req[r].student)) <= req[r].maxAttempts
       THEN Continue(r, [req[r] EXCEPT !.pc = "insert"])
       ELSE Finish(r)
    /\ UNCHANGED <<exam, attempt, raced>>

(* The counting subquery, on the snapshot the statement starts with. *)
CountSubmitted(r) ==
    /\ At(r, "count")
    /\ IF Cardinality(SubmittedOf(req[r].student)) < req[r].maxAttempts
       THEN Continue(r, [req[r] EXCEPT !.pc = "insert"])
       ELSE Finish(r)
    /\ UNCHANGED <<exam, attempt, raced>>

NewAttempt(s) ==
    [state |-> "open", student |-> s, answers |-> Blank, scores |-> NoScores,
     total |-> None]

(* The row goes in unless the index has an open attempt of the student; *)
(* then that one is read again and answered.                            *)
InsertAttempt(r, a) ==
    /\ At(r, "insert")
    /\ attempt[a].state = "unused"
    /\ attempt' = IF OpenOf(req[r].student) = {}
                  THEN [attempt EXCEPT ![a] = NewAttempt(req[r].student)]
                  ELSE attempt
    /\ Finish(r)
    /\ UNCHANGED <<exam, raced>>

(* Mutant: a checkpoint is written whether or not the attempt is open. *)
SaveAlways(a, sheet) ==
    /\ attempt[a].state \in {"open", "submitted"}
    /\ attempt' = [attempt EXCEPT ![a].answers = sheet]
    /\ UNCHANGED <<exam, req, raced>>

(* Mutant: a checkpoint shows what it would score. *)
SaveAndGrade(a, sheet) ==
    /\ attempt[a].state = "open"
    /\ attempt' = [attempt EXCEPT ![a].answers = sheet,
                      ![a].scores = AutoGrade(exam.content.questions, sheet)]
    /\ UNCHANGED <<exam, req, raced>>

(* The owner's checkpoint; ErrAttemptSubmitted once it is submitted. *)
SaveAnswers(a, sheet) ==
    /\ attempt[a].state = "open"
    /\ attempt' = [attempt EXCEPT ![a].answers = sheet]
    /\ UNCHANGED <<exam, req, raced>>

-----------------------------------------------------------------------------
(* Grading. *)

(* Mutant: the total is left for the teacher even when nothing is ungraded. *)
SubmitWithoutTotal(a, sheet) ==
    /\ attempt[a].state = "open" /\ exam.mode = "online"
    /\ attempt' = [attempt EXCEPT
          ![a].state = "submitted", ![a].answers = sheet,
          ![a].scores = AutoGrade(exam.content.questions, sheet)]
    /\ raced' = raced \cup {s \in Student : s = attempt[a].student
                   /\ \E r \in Request : At(r, "insert") /\ req[r].student = s}
    /\ UNCHANGED <<exam, req>>

(* Graded and closed by one guarded UPDATE.  A manual exam has no scores to *)
(* send: the column is NOT NULL (000061) and the statement fails.           *)
Submit(a, sheet) ==
    /\ attempt[a].state = "open" /\ exam.mode = "online"
    /\ LET scores == AutoGrade(exam.content.questions, sheet)
       IN  attempt' = [attempt EXCEPT
               ![a].state = "submitted", ![a].answers = sheet, ![a].scores = scores,
               ![a].total = IF HasUngraded(scores) THEN None ELSE TotalOf(scores)]
    /\ raced' = raced \cup {s \in Student : s = attempt[a].student
                   /\ \E r \in Request : At(r, "insert") /\ req[r].student = s}
    /\ UNCHANGED <<exam, req>>

Merge(scores, given) ==
    [q \in Question |-> IF given[q] = "absent" THEN scores[q] ELSE given[q]]

(* The attempt is read and the new scores laid over the ones it has. *)
Grade(r, a, given) ==
    /\ At(r, "idle")
    /\ attempt[a].state = "submitted"
    /\ Continue(r, [IdleRequest EXCEPT !.pc = "grade", !.attempt = a,
                       !.scores = Merge(attempt[a].scores, given)])
    /\ UNCHANGED <<exam, attempt, raced>>

(* Mutant: the total is of the scores in the row as it is now. *)
GradeStaleTotal(r) ==
    /\ At(r, "grade")
    /\ LET a == req[r].attempt
       IN  attempt' = IF attempt[a].state = "submitted"
                      THEN [attempt EXCEPT ![a].scores = req[r].scores,
                                ![a].total = TotalOf(attempt[a].scores)]
                      ELSE attempt
    /\ Finish(r)
    /\ UNCHANGED <<exam, raced>>

(* Scores and total are written as computed from what was read. *)
GradeAttempt(r) ==
    /\ At(r, "grade")
    /\ LET a == req[r].attempt
       IN  attempt' = IF attempt[a].state = "submitted"
                      THEN [attempt EXCEPT ![a].scores = req[r].scores,
                                ![a].total = TotalOf(req[r].scores)]
                      ELSE attempt
    /\ Finish(r)
    /\ UNCHANGED <<exam, raced>>

-----------------------------------------------------------------------------
(* Results of work on paper. *)

Recorded(row, s, score) ==
    [row EXCEPT !.state = "submitted", !.student = s, !.total = score]

(* One transaction: for each student the open attempt is closed with the    *)
(* score, or a submitted one is inserted.  No status and no cap is checked. *)
RecordResults(results, ids) ==
    /\ Exists /\ exam.mode = "manual"
    /\ exam' = [exam EXCEPT !.used = TRUE]
    /\ \A s \in DOMAIN results :
          \/ OpenOf(s) = {ids[s]}
          \/ OpenOf(s) = {} /\ attempt[ids[s]].state = "unused"
    /\ attempt' = [a \in Attempt |->
          IF \E s \in DOMAIN results : ids[s] = a
          THEN LET s == CHOOSE s \in DOMAIN results : ids[s] = a
               IN  Recorded(attempt[a], s, results[s])
          ELSE attempt[a]]
    /\ UNCHANGED <<req, raced>>

(* StudentExamScores: the best submitted total, None when there is none. *)
BestScore(s) ==
    LET totals == {attempt[a].total : a \in SubmittedOf(s)} \ {None}
    IN  IF totals = {} THEN None
        ELSE CHOOSE t \in totals : \A u \in totals : u <= t

\* HasUngradedAttempts: what holds up the finalization of grades.
Ungraded(a) == attempt[a].state = "submitted" /\ attempt[a].total = None

(* ResultVisible, where the teacher made no decision of his own. *)
ResultVisible(a) ==
    /\ attempt[a].state = "submitted"
    /\ CASE exam.content.showResults = "after_submit" -> TRUE
         [] exam.content.showResults = "after_close" ->
               exam.state = "closed" \/ exam.content.window = "past"
         [] exam.content.showResults = "manual" -> FALSE

-----------------------------------------------------------------------------
RequestNext(r) ==
    \/ \E c \in Content : Update(r, c)
    \/ UpdateExam(r) \/ Publish(r) \/ PublishExam(r)
    \/ \E s \in Student : Start(r, s)
    \/ OpenAttempt(r) \/ CountSubmitted(r)
    \/ \E a \in Attempt : InsertAttempt(r, a)
    \/ \E a \in Attempt, given \in Given : Grade(r, a, given)
    \/ GradeAttempt(r)

Next ==
    \/ \E mode \in ExamMode, c \in Content : CreateExam(mode, c)
    \/ DeleteExam \/ CloseExam \/ WindowPasses
    \/ \E r \in Request : RequestNext(r)
    \/ \E a \in Attempt, sheet \in Sheet : SaveAnswers(a, sheet) \/ Submit(a, sheet)
    \/ \E D \in SUBSET Student \ {{}} :
          \E results \in [D -> 0 .. Cardinality(Question)] :
             \E ids \in [D -> Attempt] :
                /\ \A s, t \in D : ids[s] = ids[t] => s = t
                /\ RecordResults(results, ids)

Spec == Init /\ [][Next]_vars

-----------------------------------------------------------------------------
(* Properties. *)

\* However two :start calls and a :record interleave, a student has at most
\* one open attempt (exam.go:16-19): two would be answered, and saved to, at
\* random.
OneOpenAttempt == \A s \in Student : Cardinality(OpenOf(s)) <= 1

\* An online exam is not attempted more often than max_attempts, an open
\* attempt counted, unless a submit committed between the count of a :start
\* and its insert.
AttemptsWithinCapUnlessRaced ==
    exam.mode = "online" =>
        \A s \in Student \ raced :
            Cardinality(OpenOf(s) \cup SubmittedOf(s)) <= exam.content.maxAttempts

\* Whatever calls were in flight when an attempt was submitted, its answers
\* stay what was graded and it is not opened again (exam.go:358-362).
SubmittedWorkIsFixed ==
    [][\A a \in Attempt : attempt[a].state = "submitted" =>
          /\ attempt'[a].state \in {"submitted", "deleted"}
          /\ attempt'[a].answers = attempt[a].answers
          /\ attempt'[a].student = attempt[a].student]_vars

\* "Only a draft may be edited or deleted" (exam.go:13): an edit that read the
\* draft before it was published does not reach the students, although
\* publishing leaves the version alone; and a closed exam is not reopened.
PublishedIsFixed ==
    [][exam.state \in {"published", "closed"} =>
          /\ exam'.state \in {exam.state, "closed"}
          /\ [exam'.content EXCEPT !.window = exam.content.window] = exam.content]_vars

\* Students are only ever at work on an online exam that was published, and
\* it stays: their attempts do not go away with a draft (exam.go:13-14).
AnsweredExamStays ==
    exam.mode = "online" =>
        \A a \in Attempt : attempt[a].state # "unused" =>
            /\ attempt[a].state # "deleted"
            /\ exam.state \in {"published", "closed"}

\* The total of an online attempt is the sum of the scores beside it, also
\* after two graders have overwritten each other.
TotalIsOfScores ==
    exam.mode = "online" =>
        \A a \in Attempt :
            attempt[a].state = "submitted" /\ attempt[a].total # None =>
                attempt[a].total = TotalOf(attempt[a].scores)

\* An attempt that holds up the finalization of grades has a question a human
\* can grade: nothing is ungraded for good.
UngradedAwaitsAHuman ==
    \A a \in Attempt : Ungraded(a) => HasUngraded(attempt[a].scores)

-----------------------------------------------------------------------------
(* What the comments say and the code does not keep. *)

\* "At most max_attempts submitted, enforced by the schema and the insert
\* statement" (exam.go:17-19).  Two :record calls, or a submit between the
\* count and the insert of a :start, exceed it.
AttemptsWithinCap ==
    \A s \in Student : Cardinality(SubmittedOf(s)) <= exam.content.maxAttempts

\* "Nobody compares answers while others are still writing"
\* (exam.go:63-64).  Closing the exam leaves open attempts writable.
NobodyStillWriting ==
    exam.content.showResults = "after_close" =>
        \A a, b \in Attempt : ResultVisible(a) => attempt[b].state # "open"

\* RecordResults "upserts one submitted, graded attempt per student"
\* (postgres/exam.go:282).  A correction is a second attempt, and the better
\* one counts.
CorrectionCounts ==
    [][\A s \in Student, score \in 0 .. Cardinality(Question), a \in Attempt :
          RecordResults([t \in {s} |-> score], [t \in {s} |-> a]) =>
              BestScore(s)' = score]_vars
=============================================================================
