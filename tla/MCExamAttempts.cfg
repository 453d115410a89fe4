SPECIFICATION Spec
CONSTANTS
    Student = {s1, s2}
    Question = {q1, q2}
    ShortAnswer = {q2}
    Attempt = {a1, a2}
    Request = {r1, r2}
    Content <- TwoQuestionsOnce
    Sheet <- TwoSheets
    Given <- OneQuestionEach
    MaxVersion = 2
    None = None
SYMMETRY Interchangeable
INVARIANTS AttemptsWithinCapUnlessRaced TotalIsOfScores UngradedAwaitsAHuman
PROPERTY SubmittedWorkIsFixed
CHECK_DEADLOCK FALSE
