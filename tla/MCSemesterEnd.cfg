SPECIFICATION MCSpec
CONSTANTS
    Student = {s1, s2}
    Offering = {taken, missed}
    Request = {r1, r2, r3}
    Operation <- EveryCall
    InitialSemester <- AtAnySpringOrFallFinalized
    InitialStudent <- OneOnLeave
    Enrolled <- OneEnrolled
    Mark <- PassOne
    MinCredits = 2
    FullYearRepeat = TRUE
    MaxUpdateRetries = 2
    CanFail = TRUE
    None = None
    taken = taken
    missed = missed
    theory1 = theory1
    theory2 = theory2
    practice = practice
    StandingGroups = {theory1, theory2, practice}
    Kind <- OnePractice
    Cohorts = {1}
    InCohort <- AllInOne
    Move = {m1, m2}
    ByHand = {s2}
    Nobody = Nobody
SYMMETRY Interchangeable
INVARIANTS MovedOnceAndWholly FinalizesAgree
PROPERTIES CallsSerialize ArchivedForever MovesAreSound
CHECK_DEADLOCK FALSE
