SPECIFICATION AccessSpec
CONSTANTS
    prog1 = prog1  prog2 = prog2  prog3 = prog3
    dept1 = dept1  dept2 = dept2  dept3 = dept3
    coll1 = coll1  coll2 = coll2
    Programs = {prog1, prog2, prog3}
    Departments = {dept1, dept2, dept3}
    Colleges = {coll1, coll2}
    DeptOf <- MCDeptOf
    CollegeOf <- MCCollegeOf
    NoUnit = NoUnit
    NoRole = NoRole
    Roles <- MCRoles
    Faults = {"none", "seats", "lineage", "missing", "post"}
    rector = rector  dean = dean  newcomer = newcomer
    Users = {rector, dean, newcomer}
    Calls = {q1}
    Starting <- MCStarting
    Asked <- MCAsked
    NoToken = NoToken
INVARIANTS
    BootProvesGates NarrowRolesStayNarrow FailsClosed OthersWorkNeedsTeaching
    AuthorityNeverGrows
CHECK_DEADLOCK FALSE
