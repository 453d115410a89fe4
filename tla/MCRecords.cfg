SPECIFICATION MCSpec
CONSTANTS
    o1 = o1
    s1 = s1
    Offering = {o1}
    Semester = {s1}
    SemesterOf <- OneOffering
    Leave = {l1, l2}
    Call = {p1, p2}
    maxUpdateRetries = 2
    MaxFaults = 1
    None = None
    math = math
    algebra = algebra
    past = past
    now = now
    m0 = m0
    m1 = m1
    a1 = a1
    Offerings = {m0, m1, a1}
    Terms = {past, now}
    Term <- TermOfEach
    Courses = {math, algebra}
    CourseTaught <- CourseOfEach
    Cohort = {m0, m1, a1}
    Prerequisite <- AlgebraNeedsMath
    Curriculum <- AlgebraYear
    Requests <- PretakeAndRetake
    InitialStatus <- NowUpcoming
    OfferedBefore = {m1}
    Graded = {"failed", "completed"}
    MaxSurprises = 1
    Applicant = {ann}
    Staff = {ann, dean}
    Program = {law, art}
    Eligible <- AnyProgram
    Blob = {academic, documents}
    Text = {first, second}
    art = art
    first = first
    second = second
SYMMETRY Interchangeable
INVARIANTS LeavesAndRecordsAgree SweptIsServed
PROPERTY AdmissionIsSound
CHECK_DEADLOCK FALSE
