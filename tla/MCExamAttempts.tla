--------------------------- MODULE MCExamAttempts ---------------------------
(* ExamAttempts for TLC: what teachers write into the exam and students on  *)
(* their sheets.                                                            *)
EXTENDS ExamAttempts, TLC

Exam(questions, maxAttempts) ==
    [questions |-> questions, maxAttempts |-> maxAttempts,
     showResults |-> "after_close", window |-> "before"]

TwoQuestionsOnce == {Exam(Question, 1), Exam({}, 1)}

AllRight == [q \in Question |-> "right"]
NoShortAnswer == [q \in Question |-> IF q \in ShortAnswer THEN "none" ELSE "wrong"]
TwoSheets == {AllRight, NoShortAnswer}

OneQuestionEach ==
    {[q \in Question |-> IF q = p THEN points ELSE "absent"] :
        p \in Question, points \in {"full"}}

Interchangeable ==
    Permutations(Student) \cup Permutations(Attempt) \cup Permutations(Request)
=============================================================================
