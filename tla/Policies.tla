------------------------------ MODULE Policies ------------------------------
(***************************************************************************)
(* The factory policy table of internal/authz/policy_defaults.go: for each *)
(* pair of a resource and an action, the staff permissions and the         *)
(* offering seats that may perform it.  Data; AccessControl decides by it. *)
(***************************************************************************)
EXTENDS Naturals, FiniteSets

AnyDomain == "any"

\* At least this level, at each of these scopes.
AtLevel(level, scopes) ==
    {[level |-> level, scope |-> s, domain |-> AnyDomain] : s \in scopes}

Viewer(scopes) == AtLevel("viewer", scopes)

Admin(scopes) == AtLevel("admin", scopes)

\* Reads below the platform ask for a viewer, at the platform for an admin.
ReadBy(scopes) == Viewer(scopes) \cup Admin({"platform"})

Entry(resource, actions, staff, offering) ==
    {[resource |-> resource, action |-> a, staff |-> staff, offering |-> offering] :
        a \in actions}

AllSeats == {"teacher", "assistant", "student", "observer"}

TeachingSeats == {"teacher", "assistant"}

StudentSeat == {"student"}

Institution == {"university", "platform"}

PostStaff == Admin({"program", "department", "college", "university", "platform"})

ViewerStaff == ReadBy({"department", "university"})

AdminStaff == Admin({"department", "college", "university", "platform"})

Staff(resource, actions, staff) == Entry(resource, actions, staff, {})

Seats(resource, actions, seats) == Entry(resource, actions, {}, seats)

StructurePolicies == UNION {
    Staff("department", {"get"}, ReadBy({"department", "university"})),
    Staff("department", {"update"}, Admin({"department"} \cup Institution)),
    Staff("department", {"list"}, ReadBy({"department", "college", "university"})),
    Staff("department", {"create"}, Admin({"college"} \cup Institution)),
    Staff("college", {"get", "list"}, ReadBy({"college", "university"})),
    Staff("college", {"update"}, Admin({"college"} \cup Institution)),
    Staff("college", {"create"}, Admin(Institution)),
    Staff("program", {"get", "list"}, ReadBy({"program", "department", "university"})),
    Staff("program", {"update"}, Admin({"program", "department"} \cup Institution)),
    Staff("program", {"create"}, Admin({"department"} \cup Institution)),
    Staff("university", {"get"}, ReadBy({"university"})),
    Staff("university", {"update"}, Admin(Institution)),
    Staff("platform", {"get", "update"}, Admin({"platform"}))}

\* A bug of its kind: a colon action is added without its policy.
CalendarPoliciesLacking == UNION {
    Staff("academic_year", {"get", "list"}, ReadBy({"university"})),
    Staff("academic_year", {"create", "update", "delete"}, Admin(Institution)),
    Staff("semester", {"get", "list"}, ReadBy({"university"})),
    Staff("semester", {"create", "update", "delete", "activate", "startGrading", "finalize",
        "definalize", "generateOfferings", "bulkEnroll"}, Admin(Institution))}

CalendarPolicies == UNION {
    Staff("academic_year", {"get", "list"}, ReadBy({"university"})),
    Staff("academic_year", {"create", "update", "delete"}, Admin(Institution)),
    Staff("semester", {"get", "list"}, ReadBy({"university"})),
    Staff("semester", {"create", "update", "delete", "activate", "startGrading", "finalize",
        "definalize", "generateOfferings", "bulkEnroll", "end"}, Admin(Institution))}

CataloguePolicies == UNION {
    Staff("course", {"get", "list"}, ReadBy({"program", "department", "university"})),
    Staff("course", {"update", "create", "delete"}, Admin({"department"} \cup Institution)),
    Staff("offering", {"create", "delete"}, Admin({"department"} \cup Institution)),
    Entry("offering", {"get"}, ReadBy({"department", "university"}), AllSeats),
    Entry("offering", {"list"}, AdminStaff, AllSeats),
    Entry("offering", {"update"}, AdminStaff, TeachingSeats),
    Staff("teacher", {"list"}, ReadBy({"department", "university"})),
    Staff("teacher", {"create", "update", "delete"}, Admin({"department"} \cup Institution))}

EnrollmentPolicies == UNION {
    Entry("enrollment", {"create", "delete"}, Admin({"department"} \cup Institution), TeachingSeats),
    Entry("enrollment", {"update"}, AdminStaff, TeachingSeats),
    Staff("enrollment", {"list", "get", "approve", "reject"}, Admin(Institution)),
    Staff("user", {"get", "list", "create", "update", "delete"}, Admin(Institution))}

StudentPolicies == UNION {
    Staff("student", {"get"}, ReadBy({"program", "department", "college", "university"})),
    Staff("student", {"list"}, ReadBy({"department", "college", "university"})),
    Staff("student", {"create", "update", "requestLeave"},
        Admin({"program", "department"} \cup Institution)),
    Staff("student", {"delete", "approve", "end"}, Admin(Institution)),
    Staff("cohort_group", {"list", "get"}, ReadBy({"university"})),
    Staff("cohort_group", {"create", "update", "delete"}, Admin(Institution)),
    Staff("application", {"list", "get", "update", "review"}, PostStaff)}

AnnouncementPolicies == UNION {
    Entry("post", {"create"}, Admin({"program", "department", "college", "university"}),
        TeachingSeats),
    Staff("activity", {"create"}, Admin({"department", "college", "university"})),
    Entry("post", {"get", "list", "update", "delete", "pin", "attach"}, PostStaff,
        TeachingSeats)}

ClassroomPolicies == UNION {
    Entry("content", {"get", "list"}, ViewerStaff, AllSeats),
    Entry("content", {"create", "update", "delete"}, AdminStaff, TeachingSeats),
    Seats("content", {"attach", "schedule", "unschedule"}, TeachingSeats),
    Entry("assignment", {"get", "list"}, ViewerStaff, AllSeats),
    Entry("assignment", {"create", "update"}, AdminStaff, TeachingSeats),
    Entry("assignment", {"delete"}, AdminStaff, {"teacher"}),
    Seats("assignment", {"attach", "grade"}, TeachingSeats),
    Seats("assignment", {"save", "submit", "discard"}, StudentSeat),
    Entry("exam", {"get", "list"}, ViewerStaff, AllSeats),
    Entry("exam", {"create"}, AdminStaff, TeachingSeats),
    Seats("exam", {"update", "publish", "grade", "review", "record"}, TeachingSeats),
    Seats("exam", {"delete", "close"}, {"teacher"}),
    Seats("exam", {"start", "save", "submit"}, StudentSeat),
    Entry("attendance", {"get"}, ViewerStaff, AllSeats),
    Entry("attendance", {"list"}, ViewerStaff, AllSeats \ {"observer"}),
    Seats("attendance", {"update", "initialize", "mark", "review"}, TeachingSeats),
    Seats("attendance", {"excuse"}, StudentSeat),
    Seats("grade", {"get"}, AllSeats),
    Entry("grade", {"list"}, ViewerStaff, AllSeats \ {"observer"}),
    Seats("grade", {"create", "update"}, TeachingSeats),
    Seats("qa", {"create"}, AllSeats),
    Entry("qa", {"get", "list"}, ViewerStaff, AllSeats),
    Entry("qa", {"update"}, AdminStaff, AllSeats \ {"observer"}),
    Seats("qa", {"delete"}, AllSeats \ {"observer"}),
    Seats("qa", {"answer", "reject"}, TeachingSeats),
    Entry("project", {"get", "list"}, ViewerStaff, AllSeats),
    Seats("project", {"create", "delete"}, {"teacher"}),
    Seats("project", {"update", "attach", "formGroups", "grade"}, TeachingSeats),
    Seats("project", {"register", "unregister", "save", "submit"}, StudentSeat)}

MutePolicies ==
    Entry("mute", {"list"}, ViewerStaff, TeachingSeats)
        \cup Entry("mute", {"create", "delete"}, AdminStaff, TeachingSeats)

AdministrationPolicies == UNION {
    Staff("curriculum", {"list"}, ReadBy({"program", "department", "university"})),
    Staff("curriculum", {"create", "update", "delete"}, PostStaff),
    Staff("settings", {"get"}, ReadBy({"university"})),
    Staff("settings", {"update"}, Admin(Institution)),
    Staff("subscription", {"get"}, Admin(Institution)),
    Staff("subscription", {"update"}, Admin({"platform"}))}

DefaultPolicies == UNION {
    StructurePolicies, CalendarPolicies, CataloguePolicies, EnrollmentPolicies,
    StudentPolicies, AnnouncementPolicies, ClassroomPolicies, MutePolicies,
    AdministrationPolicies}

\* What StaticPolicyStore answers; a pair with no entry has no permission.
PolicyFor(resource, action) ==
    LET of == {e \in DefaultPolicies : e.resource = resource /\ e.action = action}
    IN  [staff |-> UNION {e.staff : e \in of}, offering |-> UNION {e.offering : e \in of}]

HasPolicy(resource, action) ==
    \E e \in DefaultPolicies : e.resource = resource /\ e.action = action
=============================================================================
