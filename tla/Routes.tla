-------------------------------- MODULE Routes --------------------------------
(***************************************************************************)
(* The route tables the contexts register, with the gate each group runs   *)
(* before its handlers.  A path is the sequence of its segments below      *)
(* /api/v1.  Data; Requests serves requests by it.                         *)
(***************************************************************************)
EXTENDS Sequences

GET(path, handler)    == [method |-> "GET",    path |-> path, handler |-> handler, custom |-> {}]
POST(path, handler)   == [method |-> "POST",   path |-> path, handler |-> handler, custom |-> {}]
PUT(path, handler)    == [method |-> "PUT",    path |-> path, handler |-> handler, custom |-> {}]
PATCH(path, handler)  == [method |-> "PATCH",  path |-> path, handler |-> handler, custom |-> {}]
DELETE(path, handler) == [method |-> "DELETE", path |-> path, handler |-> handler, custom |-> {}]

\* A POST on ":id" whose colon suffix names the action, with what each runs.
Custom(path, dispatch) ==
    [method |-> "POST", path |-> path, handler |-> "custom", custom |-> dispatch]

Gate(kind, base, resource, on, param) ==
    [kind |-> kind, base |-> base, resource |-> resource, on |-> on, param |-> param]

Open(base)                          == Gate("none", base, "", "", "")
StaffGate(base, resource)           == Gate("staff", base, resource, resource, ":id")
StaffAtGate(base, resource, param)  == Gate("staff", base, resource, resource, param)
StaffUnder(base, resource, on, par) == Gate("under", base, resource, on, par)
StaffSingleton(base, resource)      == Gate("singleton", base, resource, resource, "")
Classroom(base, resource)           == Gate("classroom", base, resource, "offering", ":id")
PostGate(base)                      == Gate("post", base, "post", "post", ":id")
SuperAdminGate(base)                == Gate("superadmin", base, "", "", "")

\* A group's routes run the gate the group uses.
Group(gate, routes) ==
    {[method |-> r.method, path |-> gate.base \o r.path, gate |-> gate,
      handler |-> r.handler, custom |-> r.custom] : r \in routes}

-----------------------------------------------------------------------------
(* management *)

DirectoryRoutes == Group(Open(<<"public">>), {
    GET(<<"colleges">>, "GetPublicColleges"),
    GET(<<"colleges", ":id">>, "GetPublicCollege"),
    GET(<<"colleges", ":id", "departments">>, "GetPublicDepartments"),
    GET(<<"departments", ":id">>, "GetPublicDepartment"),
    GET(<<"departments", ":id", "programs">>, "GetPublicPrograms"),
    GET(<<"about">>, "GetPublicAbout")})

OwnRecordRoutes == Group(Open(<<>>), {
    POST(<<"applications">>, "CreateApplication"),
    GET(<<"me", "applications">>, "ListMyApplications"),
    GET(<<"me", "applications", ":id">>, "GetMyApplication"),
    PUT(<<"me", "applications", ":id">>, "UpdateMyApplication"),
    PUT(<<"me", "applications", ":id", "withdraw">>, "WithdrawApplication"),
    GET(<<"me", "enrollments">>, "GetMyEnrollments"),
    POST(<<"enrollment-requests", "pretake">>, "CreatePretake"),
    POST(<<"enrollment-requests", "retake">>, "CreateRetake"),
    GET(<<"me", "enrollment-requests">>, "GetMyEnrollmentRequests"),
    GET(<<"me", "teachings">>, "GetMyTeachingOfferings"),
    GET(<<"me", "student">>, "GetMyStudentRecord"),
    GET(<<"me", "transcript">>, "GetMyTranscript"),
    GET(<<"offerings", ":offeringId", "access-level">>, "GetAccessLevel")})

StructureRoutes == UNION {
    Group(StaffGate(<<"colleges">>, "college"), {
        GET(<<>>, "ListColleges"), POST(<<>>, "CreateCollege"), GET(<<":id">>, "GetCollege"),
        PUT(<<":id">>, "UpdateCollege"), GET(<<":id", "departments">>, "ListDepartments")}),
    Group(StaffGate(<<"departments">>, "department"), {
        GET(<<>>, "ListDepartments"), POST(<<>>, "CreateDepartment"),
        GET(<<":id">>, "GetDepartment"), PUT(<<":id">>, "UpdateDepartment"),
        GET(<<":id", "programs">>, "ListPrograms")}),
    Group(StaffGate(<<"programs">>, "program"), {
        GET(<<>>, "ListPrograms"), POST(<<>>, "CreateProgram"), GET(<<":id">>, "GetProgram"),
        PUT(<<":id">>, "UpdateProgram"), GET(<<":id", "cohort-groups">>, "ListCohortGroups"),
        GET(<<":id", "cohorts">>, "ListCohortYears")}),
    Group(StaffUnder(<<"programs", ":id", "curriculum">>, "curriculum", "program", ":id"), {
        GET(<<>>, "ListCurriculum"), POST(<<>>, "AddToCurriculum")}),
    Group(StaffUnder(<<"programs", ":id", "requirements">>, "curriculum", "program", ":id"), {
        GET(<<>>, "ListRequirements"), POST(<<>>, "SetRequirement")}),
    Group(StaffGate(<<"curriculum">>, "curriculum"), {
        DELETE(<<":id">>, "RemoveFromCurriculum")})}

CalendarRoutes == UNION {
    Group(StaffGate(<<"academic-years">>, "academic_year"), {
        GET(<<>>, "ListAcademicYears"), POST(<<>>, "CreateAcademicYear"),
        GET(<<":id">>, "GetAcademicYear"), PUT(<<":id">>, "UpdateAcademicYear")}),
    Group(StaffGate(<<"semesters">>, "semester"), {
        GET(<<>>, "ListSemesters"), POST(<<>>, "CreateSemester"), GET(<<":id">>, "GetSemester"),
        PUT(<<":id">>, "UpdateSemester"), DELETE(<<":id">>, "DeleteSemester"),
        Custom(<<":id">>, {
            <<"activate", "transitionSemester">>, <<"startGrading", "transitionSemester">>,
            <<"finalize", "transitionSemester">>, <<"definalize", "definalizeSemester">>,
            <<"generateOfferings", "generateOfferings">>, <<"bulkEnroll", "bulkEnroll">>,
            <<"end", "endSemester">>})}),
    Group(StaffSingleton(<<"settings">>, "settings"), {
        GET(<<>>, "GetSettings"), PUT(<<>>, "UpdateSettings"),
        GET(<<"institution">>, "GetInstitution"), PUT(<<"institution">>, "UpdateInstitution"),
        GET(<<"features">>, "GetFeatures"), PUT(<<"features">>, "UpdateFeatures")})}

OfferingRoutes == UNION {
    Group(StaffGate(<<"applications">>, "application"), {
        GET(<<>>, "ListApplications"), GET(<<":id">>, "GetApplication"),
        Custom(<<":id">>, {<<"review", "reviewApplication">>})}),
    Group(StaffAtGate(<<"offerings">>, "offering", ":offeringId"), {
        GET(<<>>, "ListOfferings"), POST(<<>>, "CreateOffering"),
        GET(<<":offeringId">>, "GetOffering"), PUT(<<":offeringId">>, "UpdateOffering"),
        DELETE(<<":offeringId">>, "DeleteOffering")}),
    Group(StaffUnder(<<"offerings", ":offeringId", "enrollments">>, "enrollment", "offering",
                     ":offeringId"), {
        GET(<<>>, "ListEnrollments"), POST(<<>>, "EnrollStudent"),
        DELETE(<<":studentId">>, "DropEnrollment")}),
    Group(StaffUnder(<<"offerings", ":offeringId", "teachers">>, "teacher", "offering",
                     ":offeringId"), {
        GET(<<>>, "ListTeachers"), POST(<<>>, "AddTeacher"),
        DELETE(<<":userId">>, "RemoveTeacher"), PATCH(<<":userId">>, "UpdateTeacherRole")})}

StudentRoutes == UNION {
    Group(StaffGate(<<"cohort-groups">>, "cohort_group"), {POST(<<>>, "CreateCohortGroup")}),
    Group(StaffUnder(<<"cohort-groups", ":id", "members">>, "cohort_group", "cohort_group",
                     ":id"), {
        POST(<<>>, "AssignToCohortGroup"), DELETE(<<":studentId">>, "RemoveFromCohortGroup")}),
    Group(StaffGate(<<"enrollment-requests">>, "enrollment"), {
        GET(<<>>, "ListEnrollmentRequests"), GET(<<":id">>, "GetEnrollmentRequest"),
        Custom(<<":id">>, {<<"approve", "approveEnrollmentRequest">>,
                           <<"reject", "rejectEnrollmentRequest">>})}),
    Group(StaffGate(<<"courses">>, "course"), {
        GET(<<>>, "ListCourses"), POST(<<>>, "CreateCourse"), GET(<<":id">>, "GetCourse"),
        PUT(<<":id">>, "UpdateCourse"), DELETE(<<":id">>, "DeleteCourse"),
        GET(<<":id", "siblings">>, "GetSiblingCourses")}),
    Group(StaffGate(<<"students">>, "student"), {
        GET(<<>>, "ListStudents"), POST(<<>>, "CreateStudent"), GET(<<":id">>, "GetStudent"),
        PUT(<<":id">>, "UpdateStudent"), GET(<<":id", "transcript">>, "GetTranscript"),
        GET(<<":id", "leaves">>, "ListLeaves"), GET(<<":id", "history">>, "ListCohortHistory"),
        Custom(<<":id">>, {<<"requestLeave", "requestLeave">>})}),
    Group(StaffGate(<<"leaves">>, "student"), {
        Custom(<<":id">>, {<<"approve", "approveLeave">>, <<"end", "endLeave">>})})}

-----------------------------------------------------------------------------
(* classroom; the groups of projects and teams are left unmounted *)

InOffering(name, resource) == Classroom(<<"offerings", ":offeringId", name>>, resource)

ContentRoutes == UNION {
    Group(InOffering("sections", "content"), {
        GET(<<>>, "ListSections"), POST(<<>>, "CreateSection"), GET(<<":id">>, "GetSection"),
        PATCH(<<":id">>, "UpdateSection"), DELETE(<<":id">>, "DeleteSection"),
        GET(<<":id", "lessons">>, "ListLessons")}),
    Group(InOffering("lessons", "content"), {
        POST(<<>>, "CreateLesson"), GET(<<":id">>, "GetLesson"), PATCH(<<":id">>, "UpdateLesson"),
        DELETE(<<":id">>, "DeleteLesson"),
        Custom(<<":id">>, {<<"attach", "attachToLesson">>, <<"schedule", "scheduleLesson">>,
                           <<"unschedule", "unscheduleLesson">>}),
        GET(<<":id", "attachments", ":attachmentId">>, "DownloadLessonAttachment"),
        DELETE(<<":id", "attachments", ":attachmentId">>, "DetachLessonFile")})}

CourseworkRoutes == UNION {
    Group(InOffering("assignments", "assignment"), {
        GET(<<>>, "ListAssignments"), POST(<<>>, "CreateAssignment"),
        GET(<<":id">>, "GetAssignment"), PATCH(<<":id">>, "UpdateAssignment"),
        DELETE(<<":id">>, "DeleteAssignment"),
        Custom(<<":id">>, {<<"attach", "attachToAssignment">>, <<"save", "saveDraft">>,
                           <<"submit", "submitWork">>, <<"discard", "discardDraft">>,
                           <<"grade", "gradeSubmission">>}),
        GET(<<":id", "attachments", ":attachmentId">>, "DownloadAssignmentAttachment"),
        DELETE(<<":id", "attachments", ":attachmentId">>, "DetachAssignmentFile"),
        GET(<<":id", "submission">>, "MySubmission"),
        GET(<<":id", "submissions">>, "ListSubmissions"),
        GET(<<":id", "submissions", ":studentId", "files", ":fileId">>,
            "DownloadSubmissionFile")}),
    Group(InOffering("questions", "exam"), {
        GET(<<>>, "ListQuestions"), POST(<<>>, "CreateQuestion"),
        POST(<<"bulk">>, "BulkCreateQuestions"), GET(<<"sample">>, "SampleQuestions"),
        GET(<<":id">>, "GetQuestion"), PATCH(<<":id">>, "UpdateQuestion"),
        DELETE(<<":id">>, "DeactivateQuestion")})}

ExamRoutes == UNION {
    Group(InOffering("exams", "exam"), {
        GET(<<>>, "ListExams"), POST(<<>>, "CreateExam"), GET(<<":id">>, "GetExam"),
        PATCH(<<":id">>, "UpdateExam"), DELETE(<<":id">>, "DeleteExam"),
        Custom(<<":id">>, {<<"publish", "publishExam">>, <<"close", "closeExam">>,
                           <<"start", "startAttempt">>, <<"record", "recordResults">>}),
        GET(<<":id", "questions">>, "ExamQuestions"), GET(<<":id", "attempt">>, "MyAttempt"),
        GET(<<":id", "attempts">>, "ListAttempts")}),
    Group(InOffering("attempts", "exam"), {
        GET(<<":id">>, "GetAttempt"),
        Custom(<<":id">>, {<<"save", "saveAnswers">>, <<"submit", "submitAttempt">>,
                           <<"grade", "gradeAttempt">>, <<"review", "reviewAttempt">>})})}

RecordRoutes == UNION {
    Group(InOffering("attendance", "attendance"), {
        GET(<<>>, "OfferingAttendance"), GET(<<"summary">>, "AttendanceSummaries"),
        GET(<<"lessons", ":id">>, "LessonAttendance"),
        Custom(<<"lessons", ":id">>, {<<"initialize", "initializeSheet">>,
                                      <<"mark", "markSheet">>, <<"excuse", "requestExcuse">>}),
        PATCH(<<"records", ":id">>, "UpdateAttendance"), GET(<<"excuses">>, "ListExcuses"),
        Custom(<<"excuses", ":id">>, {<<"review", "reviewExcuse">>})}),
    Group(InOffering("grades", "grade"), {
        GET(<<"rules">>, "GetRules"), POST(<<"rules">>, "SaveRules"), GET(<<>>, "ListGrades"),
        POST(<<"finalize">>, "FinalizeGrades"), POST(<<"definalize">>, "DefinalizeGrades"),
        PATCH(<<":id">>, "OverrideGrade"), GET(<<":id", "preview">>, "PreviewGrade")}),
    Group(InOffering("qa", "qa"), {
        GET(<<>>, "ListQAQuestions"), POST(<<>>, "AskQuestion"), GET(<<":id">>, "GetQAQuestion"),
        PATCH(<<":id">>, "UpdateQAQuestion"), DELETE(<<":id">>, "DeleteQAQuestion"),
        Custom(<<":id">>, {<<"answer", "answerQuestion">>, <<"reject", "rejectQuestion">>}),
        GET(<<":id", "attachments", ":attachmentId">>, "DownloadQAAttachment")}),
    Group(Open(<<"me">>), {
        GET(<<"classes">>, "MyClasses"), GET(<<"attendance">>, "MyCourseAttendance")})}

-----------------------------------------------------------------------------
(* announcements, communication, identity, subscription, files, policies *)

PostRoutes == UNION {
    Group(Open(<<"posts">>), {
        GET(<<>>, "ListPosts"), POST(<<>>, "CreatePost"), POST(<<":id", "comments">>, "CreateComment"),
        POST(<<":id", "like">>, "Like"), DELETE(<<":id", "like">>, "Unlike")}),
    Group(PostGate(<<"posts", ":id">>), {
        GET(<<>>, "GetPost"), PUT(<<>>, "UpdatePost"), DELETE(<<>>, "DeletePost"),
        Custom(<<>>, {<<"pin", "pinPost">>, <<"attach", "attachToPost">>}),
        GET(<<"comments">>, "ListComments"),
        GET(<<"attachments", ":attachmentId">>, "DownloadPostAttachment")}),
    Group(Open(<<"post-attachments">>), {DELETE(<<":id">>, "RemovePostAttachment")})}

ActivityRoutes == UNION {
    Group(Open(<<"activities">>), {
        GET(<<>>, "ListActivities"), POST(<<>>, "CreateActivity"), GET(<<":id">>, "GetActivity"),
        GET(<<":id", "translation">>, "GetTranslation"), PUT(<<":id">>, "UpdateActivity"),
        DELETE(<<":id">>, "DeleteActivity"), Custom(<<":id">>, {<<"pin", "pinActivity">>, <<"attach", "attachToActivity">>}),
        GET(<<":id", "attachments", ":attachmentId">>, "DownloadActivityAttachment")}),
    Group(Open(<<"activity-attachments">>), {DELETE(<<":id">>, "RemoveActivityAttachment")})}

CommunicationRoutes == UNION {
    Group(InOffering("mutes", "mute"), {
        GET(<<>>, "ListByOffering"), POST(<<>>, "MuteInOffering"),
        DELETE(<<":id">>, "UnmuteInOffering")}),
    Group(StaffGate(<<"admin">>, "user"), {
        GET(<<"mutes">>, "ListAll"), POST(<<"mutes">>, "MuteUniversityWide"),
        DELETE(<<"mutes", ":id">>, "UnmuteUniversity"),
        DELETE(<<"users", ":id", "mutes">>, "UnmuteAll")}),
    Group(Open(<<"notifications">>), {
        GET(<<"ws">>, "HandleWebSocket"), GET(<<>>, "List"), GET(<<"unread-count">>, "UnreadCount"),
        PUT(<<":id", "read">>, "MarkRead"), PUT(<<"read-all">>, "MarkAllRead"),
        DELETE(<<":id">>, "Delete")})}

IdentityRoutes == UNION {
    Group(Open(<<"auth">>), {
        POST(<<"register">>, "Register"), POST(<<"login">>, "Login"),
        POST(<<"refresh">>, "Refresh"), POST(<<"logout">>, "Logout")}),
    Group(Open(<<"me">>), {
        GET(<<>>, "GetMe"), PUT(<<>>, "UpdateMe"), PUT(<<"email">>, "UpdateEmail"),
        GET(<<"context">>, "GetMyContext"), GET(<<"role">>, "GetMyRole"),
        GET(<<"sessions">>, "GetMySessions"), DELETE(<<"sessions", ":id">>, "RevokeSession"),
        DELETE(<<"sessions", "others">>, "RevokeOtherSessions"),
        PUT(<<"password">>, "ChangePassword"), GET(<<"staff-profile">>, "GetMyStaffProfile"),
        GET(<<"preferences">>, "GetMine"), PUT(<<"preferences">>, "UpdateMine")}),
    Group(StaffGate(<<"users">>, "user"), {
        GET(<<>>, "ListUsers"), GET(<<"with-roles">>, "ListUsersWithRoles"),
        POST(<<>>, "CreateUser"), GET(<<":id">>, "GetUser"), DELETE(<<":id">>, "DeactivateUser"),
        GET(<<":id", "staff-profile">>, "GetStaffProfile"),
        PUT(<<":id", "staff-profile">>, "SetStaffProfile"),
        PUT(<<":id", "password">>, "AdminSetPassword"), PUT(<<":id", "role">>, "AssignRole"),
        DELETE(<<":id", "role">>, "RemoveRole")})}

SubscriptionRoutes == UNION {
    Group(StaffSingleton(<<"subscription">>, "subscription"), {
        GET(<<>>, "GetSubscription"), GET(<<"limits">>, "GetLimits"),
        GET(<<"history">>, "GetHistory"), PUT(<<"tier">>, "UpdateTier"),
        PUT(<<"overrides">>, "SetOverrides"), DELETE(<<"overrides">>, "ClearOverrides")}),
    Group(StaffSingleton(<<"tier-limits">>, "subscription"), {
        GET(<<>>, "GetAllTierLimits"), PUT(<<":tier">>, "UpdateTierLimits")})}

PolicyRoutes == Group(SuperAdminGate(<<"authz">>), {
    GET(<<"permissions">>, "ListPermissions"), POST(<<"permissions">>, "CreatePermission"),
    DELETE(<<"permissions", ":id">>, "DeactivatePermission"),
    POST(<<"policies:reset">>, "ResetPolicies")})

UploadRoutes == Group(Open(<<"uploads">>), {POST(<<>>, "Upload")})

\* What gin's router holds once every context has registered.
Router == UNION {
    DirectoryRoutes, OwnRecordRoutes, StructureRoutes, CalendarRoutes, OfferingRoutes,
    StudentRoutes, ContentRoutes, CourseworkRoutes, ExamRoutes, RecordRoutes, PostRoutes,
    ActivityRoutes, CommunicationRoutes, IdentityRoutes, SubscriptionRoutes, PolicyRoutes,
    UploadRoutes}
=============================================================================
