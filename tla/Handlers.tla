------------------------------- MODULE Handlers -------------------------------
(***************************************************************************)
(* What each HTTP handler does between its gate and its service: the       *)
(* refusals it adds and what it confines the service call to.  A handler   *)
(* is a set of paths (one per shape of the request), a path a sequence of  *)
(* steps; a row of a table gives some handlers their paths.  Data; Requests *)
(* runs it.                                                                *)
(***************************************************************************)
EXTENDS Sequences

\* A path id or a body that may not parse.
Input == [do |-> "input"]

\* gates.CheckStaffOn against the unit named in the body.
Narrow(resource, action, on) ==
    [do |-> "narrow", resource |-> resource, action |-> action, on |-> on]

\* A level, and the scopes it must be held at, read from the token.
Rank(level, scopes) == [do |-> "rank", level |-> level, scopes |-> scopes]

Teach      == [do |-> "teach"]          \* requireTeaching
TeachOrOwn == [do |-> "teach or own"]   \* teaching staff, or the student named is the caller
OwnRow     == [do |-> "own row"]        \* the row read belongs to the caller
NotSelf    == [do |-> "not self"]       \* the user named is not the caller
SameUnit   == [do |-> "same offering"]  \* the row read belongs to the gated offering

\* Standing a handler gathers for itself, each step adding to it, and the
\* refusal without any.
ScopeAuthority == [do |-> "scope authority"]  \* over the scope of a post named in the request
CanPublish     == [do |-> "can publish"]      \* over the publisher of an activity
OrReader       == [do |-> "or reader"]        \* members may post outside offerings
OrMember       == [do |-> "or member"]
OrAuthor       == [do |-> "or author"]
OrVisible      == [do |-> "or visible"]       \* authority revealed it or its window is open
Demand         == [do |-> "demand"]
PostCheck      == [do |-> "post check"]       \* gates.CheckPost(update) on an attachment's post

\* The service call: what confines it, alike for all or by teaching standing.
ServeBy(teaching, others) == [do |-> "serve", teaching |-> teaching, others |-> others]
Serve(all) == ServeBy(all, all)

Each(handlers, paths) == [handlers |-> handlers, paths |-> paths]

Offering == {"offering"}
Row      == {"target"}
Caller   == {"caller"}

-----------------------------------------------------------------------------
(* management/http *)

CollegeHandlers ==
    {Each({"ListColleges", "GetPublicColleges"}, {<<Serve({})>>}),
     Each({"CreateCollege"}, {<<Input, Serve({"body"})>>}),
     Each({"GetCollege"}, {<<Serve(Row)>>}),
     Each({"UpdateCollege"}, {<<Input, Serve(Row)>>}),
     Each({"GetPublicCollege"}, {<<Input, Serve({})>>})}

DepartmentHandlers ==
    {Each({"CreateDepartment"},
          {<<Input, Narrow("department", "create", "college"), Serve({"body"})>>}),
     Each({"GetDepartment"}, {<<Serve(Row)>>}),
     Each({"ListDepartments"}, {<<Input, Serve({})>>}),
     Each({"UpdateDepartment"}, {<<Input, Serve(Row)>>}),
     Each({"GetPublicDepartments", "GetPublicDepartment"}, {<<Input, Serve({})>>})}

\* A bug of its kind: the unit in the body is trusted.
ProgramHandlersTrusting ==
    {Each({"CreateProgram"}, {<<Input, Serve({"body"})>>}),
     Each({"GetProgram"}, {<<Serve(Row)>>}),
     Each({"ListPrograms", "GetPublicPrograms"}, {<<Input, Serve({})>>}),
     Each({"UpdateProgram"}, {<<Input, Serve(Row)>>})}

ProgramHandlers ==
    {Each({"CreateProgram"},
          {<<Input, Narrow("program", "create", "department"), Serve({"body"})>>}),
     Each({"GetProgram"}, {<<Serve(Row)>>}),
     Each({"ListPrograms", "GetPublicPrograms"}, {<<Input, Serve({})>>}),
     Each({"UpdateProgram"}, {<<Input, Serve(Row)>>})}

CourseHandlers ==
    {Each({"CreateCourse"},
          {<<Input, Narrow("course", "create", "department"), Serve({"body"})>>}),
     Each({"GetCourse", "DeleteCourse", "GetSiblingCourses"}, {<<Serve(Row)>>}),
     Each({"ListCourses"}, {<<Input, Serve({})>>}),
     Each({"UpdateCourse"}, {<<Input, Serve(Row)>>})}

CurriculumHandlers ==
    {Each({"ListCurriculum", "ListRequirements"}, {<<Input, Serve(Row)>>}),
     Each({"AddToCurriculum", "SetRequirement"}, {<<Input, Serve(Row)>>}),
     Each({"RemoveFromCurriculum"}, {<<Serve(Row)>>})}

AcademicYearHandlers ==
    {Each({"ListAcademicYears"}, {<<Serve({})>>}),
     Each({"CreateAcademicYear"}, {<<Input, Serve({"body"})>>}),
     Each({"GetAcademicYear"}, {<<Serve(Row)>>}),
     Each({"UpdateAcademicYear"}, {<<Input, Serve(Row)>>})}

SemesterHandlers ==
    {Each({"ListSemesters"}, {<<Input, Serve({})>>}),
     Each({"CreateSemester"}, {<<Input, Serve({"body"})>>}),
     Each({"GetSemester", "transitionSemester", "definalizeSemester", "endSemester"},
          {<<Serve(Row)>>}),
     Each({"UpdateSemester", "generateOfferings", "bulkEnroll"}, {<<Input, Serve(Row)>>}),
     Each({"DeleteSemester"},
          {<<Rank("super_admin", {"program", "department", "college", "university",
                                  "platform"}), Serve(Row)>>})}

SettingsHandlers ==
    {Each({"GetSettings", "GetInstitution", "GetFeatures", "GetPublicAbout"}, {<<Serve({})>>}),
     Each({"UpdateSettings", "UpdateInstitution", "UpdateFeatures"},
          {<<Rank("super_admin", {"university", "platform"}), Input, Serve(Caller)>>})}

OfferingHandlers ==
    {Each({"CreateOffering"},
          {<<Input, Narrow("offering", "create", "course"), Serve({"body"})>>}),
     Each({"ListOfferings"}, {<<Input, Serve({"filter"})>>}),
     Each({"GetOffering", "DeleteOffering"}, {<<Serve(Row)>>}),
     Each({"UpdateOffering"}, {<<Input, Serve(Row)>>})}

CohortGroupHandlers ==
    {Each({"ListCohortGroups"}, {<<Input, Serve(Row)>>}),
     Each({"CreateCohortGroup"}, {<<Input, Serve({"body"})>>}),
     Each({"AssignToCohortGroup", "RemoveFromCohortGroup"}, {<<Input, Serve(Row)>>})}

StudentHandlers ==
    {Each({"ListStudents"}, {<<Input, Serve({"filter"})>>}),
     Each({"ListCohortYears", "GetStudent", "ListCohortHistory", "GetTranscript"},
          {<<Serve(Row)>>}),
     Each({"CreateStudent"},
          {<<Input, Narrow("student", "create", "program"), Serve({"body"})>>}),
     Each({"UpdateStudent"}, {<<Input, Serve(Row)>>}),
     Each({"GetMyStudentRecord"}, {<<Serve(Caller)>>})}

TranscriptHandlers == {Each({"GetMyTranscript"}, {<<Serve(Caller)>>})}

ApplicationHandlers ==
    {Each({"CreateApplication", "UpdateMyApplication", "WithdrawApplication"},
          {<<Input, Serve(Caller)>>}),
     Each({"ListMyApplications"}, {<<Serve(Caller)>>}),
     Each({"GetMyApplication"}, {<<Input, OwnRow, Serve(Caller)>>}),
     Each({"ListApplications"}, {<<Input, Serve({"filter"})>>})}

ReviewHandlers ==
    {Each({"GetApplication"}, {<<Serve(Row)>>}),
     Each({"reviewApplication"}, {<<Input, Serve(Row \cup Caller)>>})}

TeacherHandlers ==
    {Each({"ListTeachers"}, {<<Serve(Row)>>}),
     Each({"AddTeacher", "RemoveTeacher", "UpdateTeacherRole"}, {<<Input, Serve(Row)>>}),
     Each({"GetMyTeachingOfferings"}, {<<Serve(Caller)>>})}

EnrollmentHandlers ==
    {Each({"ListEnrollments", "EnrollStudent", "DropEnrollment"}, {<<Input, Serve(Row)>>}),
     Each({"GetMyEnrollments", "GetAccessLevel"}, {<<Input, Serve(Caller)>>})}

EnrollmentRequestHandlers ==
    {Each({"CreatePretake", "CreateRetake"}, {<<Input, Serve(Caller)>>}),
     Each({"GetMyEnrollmentRequests"}, {<<Serve(Caller)>>}),
     Each({"ListEnrollmentRequests"}, {<<Input, Serve({})>>}),
     Each({"GetEnrollmentRequest"}, {<<Serve(Row)>>}),
     Each({"approveEnrollmentRequest"}, {<<Serve(Row \cup Caller)>>}),
     Each({"rejectEnrollmentRequest"}, {<<Input, Serve(Row \cup Caller)>>})}

LeaveHandlers ==
    {Each({"requestLeave"}, {<<Input, Serve(Row)>>}),
     Each({"approveLeave"}, {<<Serve(Row \cup Caller)>>}),
     Each({"endLeave", "ListLeaves"}, {<<Serve(Row)>>})}

-----------------------------------------------------------------------------
(* classroom/http *)

SectionHandlers ==
    {Each({"CreateSection", "CreateLesson"}, {<<Input, Serve(Offering)>>}),
     Each({"GetSection", "DeleteSection"}, {<<Serve(Offering \cup Row)>>}),
     Each({"UpdateSection"}, {<<Input, Serve(Offering \cup Row)>>}),
     Each({"ListSections"}, {<<Serve(Offering \cup {"view"})>>})}

LessonHandlers ==
    {Each({"GetLesson"}, {<<Serve(Offering \cup Row \cup Caller \cup {"view"})>>}),
     Each({"ListLessons"}, {<<Serve(Offering \cup Row \cup {"view"})>>}),
     Each({"UpdateLesson", "scheduleLesson", "unscheduleLesson", "DetachLessonFile"},
          {<<Input, Serve(Offering \cup Row)>>}),
     Each({"DeleteLesson"}, {<<Serve(Offering \cup Row)>>}),
     Each({"attachToLesson"}, {<<Input, Serve(Offering \cup Row \cup Caller)>>}),
     Each({"DownloadLessonAttachment"}, {<<Input, Serve(Offering \cup Row \cup {"view"})>>}),
     Each({"MyClasses"}, {<<Input, Serve(Caller)>>})}

AssignmentHandlers ==
    {Each({"CreateAssignment"}, {<<Input, Serve(Offering \cup Caller)>>}),
     Each({"GetAssignment"}, {<<Serve(Offering \cup Row \cup {"view"})>>}),
     Each({"ListAssignments"}, {<<Serve(Offering \cup {"view"})>>}),
     Each({"UpdateAssignment", "DetachAssignmentFile"}, {<<Input, Serve(Offering \cup Row)>>}),
     Each({"DeleteAssignment"}, {<<Serve(Offering \cup Row)>>}),
     Each({"attachToAssignment", "saveDraft", "gradeSubmission"},
          {<<Input, Serve(Offering \cup Row \cup Caller)>>})}

SubmissionHandlers ==
    {Each({"submitWork", "discardDraft", "MySubmission"},
          {<<Serve(Offering \cup Row \cup Caller)>>}),
     Each({"DownloadAssignmentAttachment"},
          {<<Input, Serve(Offering \cup Row \cup {"view"})>>}),
     Each({"ListSubmissions"}, {<<Teach, Serve(Offering \cup Row)>>}),
     Each({"DownloadSubmissionFile"},
          {<<Input, TeachOrOwn, Input,
             ServeBy(Offering \cup Row, Offering \cup Row \cup Caller)>>})}

ExamHandlers ==
    {Each({"CreateExam"}, {<<Input, Serve(Offering \cup Caller)>>}),
     Each({"GetExam"}, {<<Serve(Offering \cup Row \cup {"view"})>>}),
     Each({"ListExams"}, {<<Serve(Offering \cup {"view"})>>}),
     Each({"UpdateExam"}, {<<Input, Serve(Offering \cup Row)>>}),
     Each({"DeleteExam", "publishExam", "closeExam"}, {<<Serve(Offering \cup Row)>>}),
     Each({"startAttempt"}, {<<Serve(Offering \cup Row \cup Caller)>>}),
     Each({"recordResults"}, {<<Input, Serve(Offering \cup Row)>>}),
     Each({"ExamQuestions"}, {<<Serve(Offering \cup Row \cup {"view"})>>})}

AttemptHandlers ==
    {Each({"MyAttempt"}, {<<Serve(Offering \cup Row \cup Caller)>>}),
     Each({"ListAttempts", "GetAttempt"}, {<<Teach, Serve(Offering \cup Row)>>}),
     Each({"saveAnswers", "submitAttempt", "gradeAttempt"},
          {<<Input, Serve(Offering \cup Row \cup Caller)>>}),
     Each({"reviewAttempt"}, {<<Input, Serve(Offering \cup Row)>>})}

QuestionBankHandlers ==
    {Each({"CreateQuestion", "BulkCreateQuestions"},
          {<<Teach, Input, Serve(Offering \cup Caller)>>}),
     Each({"GetQuestion", "DeactivateQuestion"}, {<<Teach, Serve(Offering \cup Row)>>}),
     Each({"ListQuestions", "SampleQuestions"}, {<<Teach, Serve(Offering)>>}),
     Each({"UpdateQuestion"}, {<<Teach, Input, Serve(Offering \cup Row \cup Caller)>>})}

AttendanceHandlers ==
    {Each({"OfferingAttendance"}, {<<ServeBy(Offering, Offering \cup Caller)>>}),
     Each({"AttendanceSummaries"}, {<<Teach, Serve(Offering)>>}),
     Each({"LessonAttendance"}, {<<Teach, Serve(Offering \cup Row)>>}),
     Each({"initializeSheet"}, {<<Serve(Offering \cup Row)>>}),
     Each({"markSheet", "requestExcuse", "UpdateAttendance"},
          {<<Input, Serve(Offering \cup Row \cup Caller)>>})}

ExcuseHandlers ==
    {Each({"ListExcuses"}, {<<ServeBy(Offering, Offering \cup Caller)>>}),
     Each({"reviewExcuse"}, {<<Input, Serve(Offering \cup Row \cup Caller)>>}),
     Each({"MyCourseAttendance"}, {<<Serve(Caller)>>})}

GradingHandlers ==
    {Each({"SaveRules"}, {<<Input, Serve(Offering \cup Caller)>>}),
     Each({"GetRules", "FinalizeGrades", "DefinalizeGrades"}, {<<Serve(Offering)>>}),
     Each({"ListGrades"}, {<<ServeBy(Offering, Offering \cup Caller)>>}),
     Each({"OverrideGrade"}, {<<Input, Serve(Offering \cup Row)>>}),
     Each({"PreviewGrade"}, {<<TeachOrOwn, ServeBy(Offering \cup Row,
                                                   Offering \cup Row \cup Caller)>>})}

\* Asking with an answer makes an FAQ; the pending and rejected queues of the
\* board are cut to the caller's own for everyone who does not teach.
QAHandlers ==
    {Each({"AskQuestion"},
          {<<Input, Serve(Offering \cup Caller)>>,
           <<Input, Teach, Serve(Offering \cup Caller \cup {"answer"})>>}),
     Each({"ListQAQuestions"},
          {<<Serve(Offering)>>, <<ServeBy(Offering, Offering \cup Caller)>>}),
     Each({"GetQAQuestion", "DeleteQAQuestion"},
          {<<Serve(Offering \cup Row \cup Caller \cup {"standing"})>>}),
     Each({"UpdateQAQuestion", "DownloadQAAttachment"},
          {<<Input, Serve(Offering \cup Row \cup Caller \cup {"standing"})>>}),
     Each({"answerQuestion", "rejectQuestion"},
          {<<Input, Serve(Offering \cup Row \cup Caller)>>})}

-----------------------------------------------------------------------------
(* announcements/http *)

PostWriters ==
    {Each({"CreatePost"}, {<<Input, ScopeAuthority, OrReader, Demand, Serve(Caller)>>}),
     Each({"ListPosts"}, {<<Input, ScopeAuthority, OrMember, Demand, Serve({"standing"})>>}),
     Each({"GetPost"}, {<<Serve(Row \cup Caller \cup {"standing"})>>}),
     Each({"UpdatePost"}, {<<Input, Serve(Row)>>}),
     Each({"DeletePost"}, {<<Serve(Row)>>})}

PostReaders ==
    {Each({"CreateComment", "Like", "Unlike"}, {<<Input, Serve(Caller)>>}),
     Each({"ListComments"}, {<<OrVisible, Demand, Serve(Row \cup Caller)>>}),
     Each({"pinPost"}, {<<Input, Serve(Row)>>}),
     Each({"attachToPost"}, {<<Input, Serve(Row \cup Caller)>>}),
     Each({"RemovePostAttachment"}, {<<Input, PostCheck, Serve({"checked"})>>}),
     Each({"DownloadPostAttachment"}, {<<Input, Serve(Row \cup {"standing"})>>})}

ActivityReaders ==
    {Each({"CreateActivity"}, {<<Input, CanPublish, Demand, Serve(Caller)>>}),
     Each({"GetActivity"},
          {<<Input, CanPublish, OrAuthor, OrVisible, Demand, Serve({"checked"})>>}),
     Each({"GetTranslation", "DownloadActivityAttachment"},
          {<<Input, CanPublish, OrAuthor, Serve({"standing"})>>}),
     Each({"ListActivities"}, {<<Input, CanPublish, Serve({"standing"})>>})}

ActivityWriters ==
    {Each({"UpdateActivity", "DeleteActivity"},
          {<<Input, CanPublish, OrAuthor, Demand, Serve({"checked"})>>}),
     Each({"pinActivity"}, {<<Input, CanPublish, Demand, Serve({"checked"})>>}),
     Each({"attachToActivity"},
          {<<Input, CanPublish, OrAuthor, Demand, Serve(Caller \cup {"checked"})>>}),
     Each({"RemoveActivityAttachment"},
          {<<Input, CanPublish, OrAuthor, Demand, Serve({"checked"})>>})}

-----------------------------------------------------------------------------
(* communication/http, identity/http, subscription/http, files/http, authz/http *)

MuteHandlers ==
    {Each({"MuteInOffering"}, {<<Input, Serve(Offering \cup Caller)>>}),
     Each({"ListByOffering"}, {<<Serve(Offering)>>}),
     Each({"UnmuteInOffering"}, {<<SameUnit, Serve(Offering \cup Row \cup Caller)>>}),
     Each({"MuteUniversityWide"}, {<<Input, Serve(Caller)>>}),
     Each({"UnmuteUniversity", "UnmuteAll"}, {<<Serve(Row \cup Caller)>>}),
     Each({"ListAll"}, {<<Input, Serve({})>>})}

NotificationHandlers ==
    {Each({"HandleWebSocket", "List", "UnreadCount", "MarkAllRead"}, {<<Serve(Caller)>>}),
     Each({"MarkRead", "Delete"}, {<<Input, Serve(Caller)>>})}

TokenHandlers ==
    {Each({"Register", "Login", "Refresh"}, {<<Input, Serve({})>>}),
     Each({"Logout"}, {<<Serve({})>>})}

ProfileHandlers ==
    {Each({"GetMe", "GetMyContext", "GetMyRole", "GetMySessions", "GetMyStaffProfile"},
          {<<Serve(Caller)>>}),
     Each({"UpdateMe", "UpdateEmail", "RevokeSession", "RevokeOtherSessions",
           "ChangePassword"}, {<<Input, Serve(Caller)>>})}

PreferenceHandlers ==
    {Each({"GetMine"}, {<<Serve(Caller)>>}),
     Each({"UpdateMine"}, {<<Input, Serve(Caller)>>})}

DirectoryHandlers ==
    {Each({"ListUsers", "ListUsersWithRoles"}, {<<Input, Serve({})>>}),
     Each({"GetUser", "GetStaffProfile"}, {<<Serve(Row)>>}),
     Each({"DeactivateUser"}, {<<NotSelf, Serve(Row)>>})}

AccountHandlers ==
    {Each({"SetStaffProfile", "AdminSetPassword"}, {<<Input, Serve(Row)>>}),
     Each({"CreateUser"}, {<<Input, Serve({"caller", "role", "body"})>>}),
     Each({"AssignRole"}, {<<Input, Serve(Row \cup {"caller", "role"})>>}),
     Each({"RemoveRole"}, {<<Serve(Row \cup {"caller", "role"})>>})}

SubscriptionHandlers ==
    {Each({"GetSubscription", "GetLimits", "GetAllTierLimits", "GetHistory"}, {<<Serve({})>>}),
     Each({"UpdateTierLimits"}, {<<Input, Serve({"body"})>>}),
     Each({"UpdateTier", "SetOverrides"}, {<<Input, Serve(Caller)>>}),
     Each({"ClearOverrides"}, {<<Serve(Caller)>>})}

PolicyHandlers ==
    {Each({"ListPermissions"}, {<<Serve({})>>}),
     Each({"CreatePermission", "DeactivatePermission"}, {<<Input, Serve({"body"})>>}),
     Each({"ResetPolicies"}, {<<Serve(Caller)>>})}

UploadHandlers == {Each({"Upload"}, {<<Input, Serve(Caller)>>})}

HandlerRows == UNION {
    CollegeHandlers, DepartmentHandlers, ProgramHandlers, CourseHandlers,
    CurriculumHandlers, AcademicYearHandlers, SemesterHandlers, SettingsHandlers,
    OfferingHandlers, CohortGroupHandlers, StudentHandlers, TranscriptHandlers,
    ApplicationHandlers, ReviewHandlers, TeacherHandlers, EnrollmentHandlers,
    EnrollmentRequestHandlers, LeaveHandlers, SectionHandlers, LessonHandlers,
    AssignmentHandlers, SubmissionHandlers, ExamHandlers, AttemptHandlers,
    QuestionBankHandlers, AttendanceHandlers, ExcuseHandlers, GradingHandlers,
    QAHandlers, PostWriters, PostReaders, ActivityReaders, ActivityWriters,
    MuteHandlers, NotificationHandlers, TokenHandlers, ProfileHandlers,
    PreferenceHandlers, DirectoryHandlers, AccountHandlers, SubscriptionHandlers,
    PolicyHandlers, UploadHandlers}

Handler ==
    [h \in UNION {row.handlers : row \in HandlerRows} |->
        UNION {row.paths : row \in {r \in HandlerRows : h \in r.handlers}}]
===============================================================================
