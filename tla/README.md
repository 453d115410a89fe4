# TLA+ models of e-campus-server

The server runs a university on the web: accounts and sessions, colleges and
programs, admission, semesters, enrollment and leaves, classrooms with content,
assignments, projects and exams, announcements, notifications. It is a Go REST
API over PostgreSQL, Redis and MinIO, without a message queue and without a
distributed lock: several requests, and several instances, meet in the tables.

These modules model the parts whose correctness depends on how such requests
interleave, on what a failed statement leaves behind, on state kept twice, and
on the path every request takes through its gate and its handler.
`PROJECT.json` maps every definition to the lines it stands for and lists the
components, hazards, runs, mutants and theorems.

    tlc -config MCRecords.cfg MCRecords.tla      # check one instance
    tlapm StudentLeaveProofs.tla                 # check the proofs of a module

## How the code behaves, and what that makes a step

Almost every service method is a list of SQL statements or Redis commands, each
committed by itself. Transactions are rare (`Reclaim`, `ExpireBefore`,
`DeleteSemester`, `ReassignCohortGroups`, a post with its mentions, a comment
with its count, an answer with its question, the forming of groups, seed and
reset of the policies). What protects an update is

* a guard in the statement (`WHERE approved_at IS NULL`, `WHERE status = $3`),
* a version column compared and swapped, with a bounded number of retries,
* a unique index, a check constraint or a foreign key, and
* once, an advisory lock.

So in every module a request is a record that says where the call is and what it
has read, one statement (or one transaction) is one action, its guard is the
statement's `WHERE` together with the index that may refuse it, and any other
request may run between two actions. A call may end at any statement: the error
path of the code, a cancelled context and a crash of the instance look the same
to the tables. Reads that only see columns that never change are merged with the
step that uses them. Under READ COMMITTED a statement that counts and then
inserts is *two* steps where the code relies on the count (exam attempts, the
size of a team).

Authorization is the exception: one request decides by facts nobody else writes
meanwhile, so there a request runs alone, step by step, against every route,
role and target.

Variables marked *history* in a module are not state of the program: they record
what happened, so that a property can name its exceptions, and no guard reads
them.

## Inventory

### files - `internal/files`
State: `inodes` (a row per content, with a link count), `uploads` (receipts),
attachment tables of the consumers, objects in a bucket. Operations: presigned
upload and `CreateUpload`, resolve a receipt, attach and detach from announcement
and classroom entities, expiry of receipts, sweep of unreferenced inodes.
Hard: two stores without a common transaction; content addresses shared by
unrelated uploads; a janitor that acts on rows it listed earlier.
Correct when: the count never falls below the references; referenced rows live;
rows never point at missing bytes; garbage is reclaimed.
**Module `FileStore`.**

### identity: sessions - `internal/identity/auth.go`, `redis`
State: `users` in PostgreSQL; in Redis `token:<hash>`, `token:used:<hash>`, an
index set per user and per family. Operations: login, refresh with rotation,
logout, revocation of one, of all, of the others' sessions, password change,
deactivation, expiry.
Hard: pipelines are not transactions; revocation races issuing.
Correct when: a token is exchanged once, a replay is detected and its family
revoked, revocation reaches every session, a deactivated account gets no tokens.
**Module `AuthTokens`.**

### identity: accounts and roles - `role.go`, `staff.go`, `student.go`, `teacher.go`
State: `users`, `roles` (one institutional role a user), and the claim inside
access tokens, which outlives the row it was copied from. Operations: assign,
replace and remove a role, create an account with one.
Hard: the actor's authority is older than the table he writes.
Correct when: nobody comes to hold more than somebody above him could give.
**Module `RoleGrants`.** Profiles and preferences are rows of one user.

### management: semesters and progression - `semester.go`, with `classroom/grading.go`
State: `semesters` with a status machine and a version, `students`, cohort
history and groups, `course_enrollments`. Operations: update, transition,
definalize, delete and end a semester; finalize, definalize, override grades;
edit a student.
Hard: `EndSemester` processes every student statement by statement, checks the
status first and archives last, and retries with a row it read before the loop.
Correct when: transitions follow the table, archived is final, a student moves
once, grades agree with the threshold.
**Module `SemesterEnd`.**

### management: leaves - `leave.go`
State: `student_leaves` with `leave_semesters`, the student's status, the
enrollments. Operations: request, approve, end.
Hard: an approval is recorded first and acted on by four more statements.
Correct when: leaves in force have withdrawn what they cover, and status and
leave agree.
**Modules `EnrollmentTable`, `StudentLeave`.**

### management: enrollment - `enrollment.go`, `enrollment_request.go`, `semester.go` (`BulkEnroll`)
State: `enrollment_requests`, `course_offerings`, `course_enrollments`.
Operations: file, approve and reject a pretake or retake, enroll directly, bulk
enrollment of a semester, drops, offerings that appear and disappear.
Hard: an approved request is served by its approval or by the next bulk
enrollment; each looks once, at state the other changes.
Correct when: no approved request slips through both.
**Modules `EnrollmentTable`, `Enrollment`.**

### classroom: exams - `exam.go`
State: `exams`, `exam_attempts`. Operations: draft, edit, publish, close; start,
save, submit; grade; record results from paper.
Hard: the cap on attempts is a count in the insert; autosaves race the submit;
graders read and write whole score maps.
Correct when: the cap holds, submitted work is fixed, totals match scores,
what blocks finalization can be graded.
**Module `ExamAttempts`.**

### classroom: coursework - `assignment.go`, `project.go` (submissions), `files_reader.go`
State: `assignments`, `projects`, their submissions and grades, the files of
both, each counted in `inodes`. Operations: create, edit and delete the parent;
save and discard a draft, hand in, save again, grade, change the grade.
Hard: files are counted one call at a time before the row that names them and
uncounted after it has gone; a delete acts on a list it made earlier; a save may
finish after the hand-in or the grade it raced.
Correct when: work handed in stays as it is, grades fall on work handed in, and
files are counted as often as they are referred to.
**Modules `HandIn` (what is promised), `Coursework` (the statements).**

### classroom: projects and teams - `team.go`, `project.go`
State: `project_teams` with members and leader, registrations, the groups formed
from them. Operations: create, rename, add, remove, hand over and delete a team;
register and withdraw; plan the merge of small teams; form the groups.
Hard: sizes, leadership and registration are checked before the statement they
guard; forming is repeated for late teams; packing at the bounds.
Correct when: leadership moves by its holder's hand only, a team is frozen once,
groups are of legal size and no team is lost.
**Modules `Teams`, `ProjectGroups`, `MergePlan`.**

### classroom: questions and answers - `qa.go`
State: `qa_questions` with a version and a status, answers, rejections, files.
Operations: ask, edit, answer, reject, delete.
Hard: edits compare the version, decisions the status, and each leaves the
other's guard alone.
Correct when: status and rows agree, files are counted, and a decision is taken
back only by an author who has seen it.
**Module `QABoard`.**

### management: admission - `application.go`, `student.go`
State: `applications` (a status and a blob per section), `students`,
`programs.is_active`. Operations: file, resubmit, withdraw, review; create a
student by hand.
Hard: a resubmission merges its sections with those it read; a review locks the
application and inserts the student in one transaction, beside students created
by hand.
Correct when: decisions stand, who is admitted is a student of that program, and
nobody has two open applications to one.
**Module `Admission`.**

### management: cohort groups - `cohort_group.go`
State: `cohort_groups`, `student_cohort_groups`. Operations: create and delete a
group, put a student in and out by hand, reassign him to the smallest group of
each type of a cohort.
Hard: the statement that takes the locks counts as well, on a snapshot it took
before it waited.
Correct when: a reassignment goes by a true count and leaves its student in one
group of each type.
**Module `CohortGroups`**, a part of the end of a semester.

### subscription - `internal/subscription`
State: one row with a tier and overrides under a version, its history, the limits
of each tier. Operations: change the tier, set and clear overrides, edit a
tier's limits.
Hard: an optimistic retry around a write of two tables; a history ordered by the
begin of its transactions.
Correct when: no change is lost and the history is their chain.
**Module `Subscription`.**

### announcements - `internal/announcements`
State: `posts` (posts and comments in one table, with counters kept beside the
rows), `post_likes`, `post_mentions`; `activities` with a cover. Operations:
post, comment, edit, pin, like, delete; create, edit, cover, publish, delete an
activity; both lists page by page.
Hard: counters kept twice; edit and pin write back whole rows; a cursor that
knows the time of an entry and not its pin; a cover is counted and uncounted
around a retried write.
Correct when: counters and mentions say what the rows say, no write takes back
another, a reader is shown everything once, covers are counted.
**Modules `Feed`, `FeedPages`, `Activities`;** attachments are in `FileStore`.

### authz: policy store - `internal/authz/policy.go`, `postgres`, `redis`
State: table `authz_policies`, an entry per resource and action in Redis, an
advisory lock. Operations: lookup through the cache, create, deactivate, seed at
boot, reset.
Hard: cache-aside against concurrent writes; instances that boot together.
Correct when: stale entries have a cause, deactivations outlive boots, boots do
not fail each other.
**Module `PolicyCache`.**

### authz: decisions, and the HTTP handlers - `authz`, `authz/http`, every `http` package, `cmd/api`
State: none but the request's. A request meets the gate of its route, which
asks the decision engine with what it could read of the target; then the refusals
its handler adds; then the service, called with what confines it. At boot every
route is checked to have a gate and every gate a policy.
Hard: some 230 routes, each with a gate in one file, a policy in a second and a
handler in a third; a role that is broad enough for the gate and too narrow for
the target; readers that fail.
Correct when: nothing is served behind a gate that does not decide, narrow roles
stay inside their unit, a failed read refuses, and other people's work is shown
to teachers only.
**Modules `Policies`, `AccessControl`, `Routes`, `Handlers`, `Requests`.**

### communication: realtime - `internal/communication/http/hub.go`, `client.go`
State: a map of connections behind a read-write lock, a buffered channel and two
goroutines per connection. Operations: register, unregister, broadcast, evict.
Hard: closing channels that others send on; dropping under the read lock.
Correct when: no panic, no gap on a connection that stays, nobody waits for ever.
**Module `NotificationHub`.** The inbox and mutes are rows of one user.

### How the components interact
`FileStore` covers the attachments of announcements and classroom materials,
because each consumer calls the same three service methods; `Coursework`,
`QABoard` and `Activities` keep a count of their own files instead, because
there the order of counting and writing differs from call to call. Grades
(classroom) read the semester's status (management) and `EndSemester` reads
grades: they share `SemesterEnd`. Leaves, enrollment and grades write the same
`course_enrollments`: the statements on that table are `EnrollmentTable`, which
`StudentLeave` and `Enrollment` extend. `ProjectGroups` extends `Teams`, since
registration and forming read the tables team requests write, and `MergePlan`,
which forming calls; what the groups hand in is in `Coursework`. An exam with an
ungraded attempt blocks a finalize; `ExamAttempts` shows that such an attempt can
be graded. `Requests` extends the decision engine and the data of routes and
handlers; `RoleGrants` extends the engine too, as the service asks it again
whom an administrator may manage. Deactivation of an account, and what a changed
role does to the sessions, is in `AuthTokens`. Notifications are sent after a
change has been made and their errors are dropped, so no module waits for the
hub.

## The modules

| module | models | variables |
| --- | --- | --- |
| `FileStore` | files | `inode`, `receipt`, `att`, `objects`, `req`, `jan`, `faults` |
| `AuthTokens` | sessions | `account`, `token`, `used`, `userTokens`, `familyTokens`, `delivered`, `session`, `req`, `faults`; history `generated`, `wins`, `disturbed`, `raced`, `reused` |
| `RoleGrants` | institutional roles | `accounts`, `roles`, `token`, `calls` |
| `SemesterEnd` | end of a semester | `semester`, `student`, `enrollment`, `cohortHistory`, `cohortGroups`, `req`; history `overlapped`, `failures` |
| `EnrollmentTable` | statements on enrollments | `enrollment` |
| `CohortGroups` | cohort groups | `groups`, `members`, `call`; history `stale`, `crossed` |
| `Admission` | applications | `applications`, `students`, `active`, `call` |
| `StudentLeave` | leaves | `student`, `leave`, `call`, `faults`; history `slipped`, `late`, `disturbance` |
| `Enrollment` | requests, bulk enrollment | `status`, `offering`, `latest`, `request`, `active`, `call`, `surprises`; history `unserved`, `swept`, `regraded` |
| `ExamAttempts` | exams | `exam`, `attempt`, `req`; history `raced` |
| `HandIn` | the promise of graded work | `paper`, `handed`, `mark`, `open` |
| `Coursework` | assignments, what groups hand in | `kind`, `parent`, `row`, `attached`, `links`, `receipt`, `call`, `begun`, `faults`; history `overtaken` |
| `Teams` | teams | `team`, `member`, `group`, `started`, `call`, `begun` |
| `MergePlan` | the packing of small teams | none: operators |
| `ProjectGroups` | registrations and groups | those of `Teams`, `project`, `regs`, `act`, `clock`; history `twice` |
| `QABoard` | the question board | `questions`, `asked`, `answers`, `rejections`, `links`, `calls`; history `overtaken` |
| `Feed` | posts, comments, likes | `rows`, `likes`, `mentions`, `phase`, `calls`; history `miscounted` |
| `FeedPages` | lists page by page | `feed`, `cursor`, `reading`, `shown`; history `standing`, `everPinned` |
| `Activities` | activities, covers | `rows`, `links`, `calls`; history `faulty` |
| `PolicyCache` | policies | `row`, `lock`, `cached`, `entry`, `reader`, `writer`, `faults`; history `raced`, `overtaken`, `spoiled` |
| `Subscription` | tier, overrides, limits | `subscription`, `history`, `tierLimits`, `answered`, `clock`, `call` |
| `Policies`, `Routes`, `Handlers` | shipped policies, mounted routes, steps of each handler | none: data |
| `AccessControl` | checks and decisions | none: operators |
| `Requests` | a request from boot to service | `phase`, `request`, `access`, `standing`, `todo`, `given` |
| `NotificationHub` | the hub | `clients`, `run`, `unregs`, `chan`, `conn`, `handler`, `reader`, `writer`, `sender`, `row`; history `owed` |

`MC<name>.tla` gives an instance, `MC<name>*.cfg` its runs,
`<module>Proofs.tla` the theorems. Six of the instances hold more than one
specification side by side: a variable `part`, chosen by the initial state, says
which of them is in motion, and the others rest. So one run answers for each of
them; nothing is concluded from their being together. Where a part has theorems
its constants are constants of the MC module, which the `.cfg` gives values; the
theorems are about the part's own specification (`Board!Spec`, `Entry!Spec`) and
hold for all values.

| instance | its parts |
| --- | --- |
| `MCSemesterEnd` | calls of every kind around the row of the semester; the grades of two offerings around `EndSemester`; `CohortGroups` |
| `MCRecords` | `StudentLeave`; `Enrollment`; `Admission` |
| `MCCoursework` | `Coursework`; `QABoard`; `ProjectGroups`; lists of teams for `MergePlan` |
| `MCPolicyCache` | `PolicyCache`; changes of `Subscription`; edits of its tiers |
| `MCFeed` | threads and edits of `Feed`; `FeedPages`; `Activities` |
| `MCAccess` | `Requests`; `RoleGrants` |

Operators marked as a mutant, or as a bug of a kind, are bugs the code does not
have; each property is violated when one of them takes the place of the
definition next to it, so none holds by the shape of the model.

Where the models abstract: a content stands for its hash, a token for the hash of
a random string, a file for its content; a student's other states (withdrawn,
graduated) are one; every exam question weighs one point and an answer is right
or wrong; the final grade of a student is a constant; the text of a post is
whom it names; a permission is a tuple the unique index tells apart; a binding
of a body is one step that may refuse. A TTL is an action that may happen at any
time. In `SemesterEnd` offerings are active and stay: the filter on `is_active`
and `deleted_at` of the count of ungraded ones is left out. In `Activities` an insert
that answers with an error has inserted nothing.

## What the runs show

| run | question | answer |
| --- | --- | --- |
| `file_store` | Does the count cover the references, are rows to be trusted, is garbage reclaimed, do receipts expire, with a crash anywhere? | yes; count and expiry unless two requests remove one announcement attachment |
| `auth_tokens` | Rotation, reuse detection, revocation, deactivation under any two requests and a fault | hold, outside the named race |
| `auth_revoke` | Does a revocation end every session? | **no**: the finding below |
| `semester` | Do calls on a semester serialize; is archived final; are students moved once and wholly, do finalizes agree, do students land in the right groups? | yes, except that a retrying `EndSemester` overwrites, and unless two ends overlap or one stops half way; groups unless somebody came in behind a lock or behind the look |
| `cohort_groups` | Can concurrent reassignments over-fill a group? | they **can**: the finding below |
| `records` | Do leaves do what they say, whatever crosses them; is an approved request served; do decisions on applications stand? | yes, outside three named disturbances; served, where the bulk enrollment has a branch for it; decisions stand |
| `exam_attempts` | Cap, totals, fixed answers, gradable work | hold; the cap except for a student who submits between another start's count and insert |
| `coursework` | Does graded work keep its promise; do counts add up; do decisions on questions stand? Does leadership move by its holder's hand; are groups formed once and soundly; is the merge plan whole? | yes; counts and decisions except where a delete or an edit acted on what it had read before; once, unless two formings overlap |
| `feed` | Do counters, mentions and covers agree with the rows; does a write take back another; are pages whole? | yes, unless a comment goes with its replies; pages while nothing is pinned |
| `access` | Does boot prove the gates; do narrow roles stay narrow; does a failed read refuse; is other people's work for teachers; does authority grow? | all as it should be |
| `policy_cache` | Where can a stale policy come from; are boots and resets whole? Is a change of the subscription lost? | only the named causes; yes; none is |
| `hub` | Panics, gaps, blocked senders, leaked connections | none |

Some properties are conjunctions of parts that the modules define and comment
one by one: `RowsCanBeTrusted`, `StorageIsReclaimed`, `RotationHolds`, `AccessEnds`,
`MovedOnceAndWholly`, `MovesAreSound`, `LeavesAndRecordsAgree`,
`AdmissionIsSound`, `CountsAddUp`, `KeptWithPostsUnlessDisturbed`,
`NarrowRolesStayNarrow`, `TableIsWhatWasAsked`, `ChangesAreChained`,
`NothingWaitsForever`.

### Findings
`DeleteUserTokens` lists the index, deletes those tokens and then the whole
index. A refresh that stores its heir in between keeps a live token that is in no
index, so this revocation and every later one miss it, against
`identity/auth.go:391` (`RevokedSessionsEnd`).

`ReassignCohortGroups` counts a group's members in the statement that takes the
lock. Under READ COMMITTED that statement sees what was committed when it began;
when it waits for another reassignment, the group rows it waited for are
unchanged, so nothing is counted again, and two students go where one had room,
against `postgres/cohort_group.go:123` (`NeverOverfills`).

### Further counterexamples
Each property below is defined in its module, beside the one the runs check, and
TLC ends with a counterexample when it takes that one's place. The properties of
the passing runs carry the exception it shows.

| module | refuted | what happens |
| --- | --- | --- |
| `FileStore` | `NoRecordWithoutBytes` | `SweepGC` removes the object after the reclaim has committed: an upload of the same content in between gets a live row whose bytes are then deleted, against `inode.go:16-18` |
| `FileStore` | `EachDetachCounts` | two removals of one announcement attachment unlink its inode twice; once the count is below its old receipts, the check constraint fails the whole expiry on every tick; the foreign key still keeps every referenced row |
| `AuthTokens` | `ReusedFamilyIsRevoked` | the refresh that won stores its heir behind the revocation of its family |
| `RoleGrants` | `RoleYieldsToReach` | `AssignRole` asks whether the actor reaches the new role, not the one it replaces |
| `SemesterEnd` | `MovedOnce` | two `EndSemester` calls promote a student twice |
| `SemesterEnd` | `EditsSurvive` | the archiving retry writes back columns as they were before a successful edit |
| `SemesterEnd` | `PromotionKeepsCohort` | a promotion undoes a cohort change made meanwhile |
| `SemesterEnd` | `PromotedOnCredits` | an error reading the requirement counts as no requirement |
| `SemesterEnd` | `GradesRestInArchive` | a finalize that passed the gate writes into an archived semester |
| `Admission` | `ResubmissionsMerge` | a resubmission merges its sections with those it read before the application was sent back once more, and undoes what was brought in between |
| `Subscription` | `TierLimitsAreReplaced` | an edit of a tier's limits answers with limits the statement does not write |
| `StudentLeave` | `ApprovedIsActedOn` | a statement fails after the approval was recorded; repeating the call is refused |
| `Enrollment` | `ApprovedIsPickedUp` | a pretake outside the curriculum, approved before the semester starts, is in no branch of the bulk enrollment; no race is needed |
| `ExamAttempts` | `AttemptsWithinCap` | a submit between the count and the unique index leaves one attempt too many |
| `ExamAttempts` | `CorrectionCounts` | recording a result again inserts a second attempt, and the better one counts |
| `ExamAttempts` | `NobodyStillWriting` | closing an exam shows results while open attempts are still written |
| `Coursework` | `LinksCoverReferences` | `DiscardDraft` and the deletes list files and then delete rows: files saved or removed in between are uncounted wrongly |
| `ProjectGroups` | `FrozenOnce` | two formings read the same registrations and freeze a team twice |
| `ProjectGroups` | `NeverOverfilled`, `LeaderIsMember` | two members are added at the cap at once; a leader is removed while he is made one |
| `QABoard` | `RejectedStaysRejected` | an edit that read the question before a rejection sets it pending again |
| `Feed` | `CommentsAreCounted` | deleting a comment takes its replies along and counts one |
| `FeedPages` | `PagesReachEveryEntry` | a page that ends at a pinned old entry skips what is newer |
| `PolicyCache` | `SlowerNeverIncorrect` | a load before and a set after a change leave the old policy in force |
| `Requests` | `CollectionsAreNarrowed` | some lists admitted at a unit's scope are served without the filter of that unit |

Met while modelling, and in the models as the code has it: `latestTakeStatus`
answers `not_taken` for a student whose latest attempt was dropped or withdrawn,
also when an earlier one was failed, and a bulk pass that cannot tell whether a
student is enrolled passes over his retake without counting an error, so that
`SweptIsServed` speaks of passes that met none (`Enrollment`); publishing an exam leaves its
version alone (`ExamAttempts`); a student in two registered teams is frozen into
two groups, saving a submission asks for no window, and the merge plan can leave
a group below its target (`ProjectGroups`, `Coursework`, `MergePlan`); an account
is created before its role is (`RoleGrants`); deleting a post keeps its row for
callers who may see hidden ones (`Feed`); a college's administrator may post to
another college, since the gate compares ranks alone (`AccessControl`).

## Bounds, and why they are enough

TLC explores every interleaving of the instances below; where there are theorems
they show that the sizes do not matter for what they state.

| instance | sizes |
| --- | --- |
| `FileStore` | one content, one legacy row and another, two receipts, two attachments, one of them of announcements, two requests, one fault, a batch of one; receipts and requests are taken in order. Two requests of the same content and the janitor are what every hazard here needs. |
| `AuthTokens` | one account, two tokens, two families, two requests of any of the eight kinds, one password change or one deactivation, one fault. An exchange needs a token and its heir; a race needs the exchange and one more call. Accounts never share a key. `auth_revoke` has three tokens and one family. |
| `SemesterEnd` | two students, one of them on leave, two offerings, one passed and one missed, so that the other repeats his year. Around the row: calls of every kind from every status, three at a time if all are on the row and two otherwise; one offering is graded before. Grades: three of finalize, definalize, reopen and end. Two attempts of the retry loop: the second is the one that differs. |
| `CohortGroups` | two students, two theory groups and a practice group of one cohort, two reassignments; one of the students is also put in and out by hand. `cohort_groups` has nobody put in by hand. |
| `Admission` | two applications of one person to two programs, one of which stops taking applications; two calls; he may review himself or be reviewed; two sections, one application resubmitted. |
| `StudentLeave` | two calls and two successive leaves, one semester with one offering, two update rounds, one failing statement; one edit of the student at a time. Two leaves because one must end and the next be approved across it; every other writer of the enrollment acts at any time and without bound. |
| `Enrollment` | two calls, two courses one of which requires the other, three offerings in two semesters (one of them made while the calls run), an earlier attempt that passed or failed, a pretake or a retake; one surprise: a failing statement or a foreign write. |
| `ExamAttempts` | two students, two calls, two attempts, a choice question and a short answer, a cap of one, two versions of the draft. |
| `Coursework` | an assignment or a project with two works, two files, three requests of two callers, one failing call or crash. One file may be shared by two rows and one row have two files. |
| `QABoard` | one question, two files, two callers, two edits. |
| `ProjectGroups` | two students, two teams of at most two, two callers, two requests and a third where the project is of pairs, bounds of singles or pairs, two groups. |
| `MergePlan` | every list of up to six teams below the minimum, for every maximum up to five and every minimum, from two, and target up to it; under a minimum of one no team is too small. |
| `Feed` | a post with its thread of two comments, one user, two requests; edits (of body, schedule or both) and pins of a post and one comment, two rounds, two versions. |
| `FeedPages` | four entries, appearing in any order, two a page: a page boundary inside, and a second one after entries have come or gone. |
| `Activities` | one activity, two covers, two requests, two rounds, two versions. |
| `Requests` | every route, with every role that can be held on one line of a tree of two colleges, three departments and three programs, against targets in each program, with every seat, as author or not, and each of four readers failing. |
| `RoleGrants` | three users (the first administrator, one of the university, a free address), one call at a time, three roles asked for: authority is passed on by as many calls as it takes, with tokens of any age. |
| `PolicyCache` | three permissions of two pairs, two of them defaults, one request, two calls, any initial table, one fault. |
| `Subscription` | two tiers, two limits one of which the edits write, four calls of three kinds, three rounds, as in the code: with four calls one can lose every round. |
| `NotificationHub` | one user with two connections and room for one, a buffer of one, two notifications, one sender. With room for one, the second connection evicts the first; with a buffer of one, the second message overflows. |

Named bounds (`MaxFaults`, `MaxPassword`, `MaxVersion`, `MaxSurprises`,
`MaxRequests`, `MaxLinks`, `MaxGroups`, `Entries`, `Operation`, and in the MC
modules `NotBoth`, `ThirdOnTheRow`, `GroupsFirst`, `Bounded`,
`FewResubmissions`, `ThirdToPairs`, `OnePost`) occur in
guards only and in no property. Symmetry is used for requests, calls and uuids in
runs without liveness; the constants that distinguish them (cohort, prerequisite,
legacy rows) are excluded from it. `CHECK_DEADLOCK FALSE` is set throughout:
uuids, bounded edits and faults run out, and a system in which every request has
returned may rest.

## Fairness

Only two specifications assume any.
* `FileStore`: weak fairness of the janitor. It is a goroutine with a ticker that
  ends with the process (`files/janitor.go`); requests are owed nothing, as a
  client may go away.
* `NotificationHub`: weak fairness of `Run`, of both pumps once their connection
  is closed or has a message, and of senders. They are goroutines that the
  scheduler runs, and the network gives a write an error or an end
  (`client.go` sets deadlines). A client need never read, write or close.

`StorageIsReclaimed` (garbage rows are reclaimed, old receipts expire) and
`NothingWaitsForever` are checked under these. Everything else is safety and is checked without fairness.

## What is proved

The theorems hold for every value of the constants under the assumptions named
in the modules. They say that identifiers are disjoint from `None` and its like,
that tables are typed, that bounds are natural numbers, and, where a cardinality
occurs, that a set is finite: attachments, receipts, requests, attempts and
questions (`FileStore`, `ExamAttempts`), works and callers (`FiniteAssumption`),
students (`GroupsAssumption`), students and teams (`GroupAssumption`, which also
has the bounds an edit may choose be records of natural numbers). The feed needs no such assumption: its tables start
empty and each step adds a row. Of the decision engine: roles have a known
level and the unit their scope asks for (`RolesAssumption`, `GrantsAssumption`),
and every handler a route names has a row
(`HandlersAssumption`: in Go a route names a method value, so a missing one does
not compile; here TLC evaluates it). Nothing is assumed of the order of steps. The
exceptions a theorem allows are in its statement, not in its hypotheses:
`CountCovers` and `ReferencedStaysLive` hold while no two requests detached the
same row without noticing (`EachDetachCounts`), `RotationHolds` of a family that
lost no key (`disturbed`), `CountsAddUp` and the board's count while no call was
`overtaken`, `MovedOnceAndWholly` while nobody is moved by hand and no end
overlapped or stopped half way (`Undisturbed`), `FinalizesAgree` while no call
edits the threshold or overrides a grade.

Each proof has the same outline. A per-call predicate says what a request in
flight may still rely on after all the others had their turn; the invariant is
the tables' types, that predicate for every call, and the property; one lemma per
action shows it kept; temporal logic combines them. What follows is the predicate,
which is where the reason lies.

**FileStoreProofs.** The type of the counts is not inductive alone: a program
counter says which local values are set (`TypeInv`). The count invariant
(`CountInv`) counts, beside the rows, the links *in flight*: requests between
`Link` and their insert, and between their delete and `Unlink`. Each step moves
one unit between those three, so the sum never exceeds the count, and a row that
is not live has none; a blind delete moves one too if it finds the row it read,
which still has the inode it had then (`DeletesPoint`). `LegacyInv` ties the object the sweep is about to remove to
a row deleted for good; with the count that makes every row trustworthy
(`RowsAreTrustworthy`).

**AuthTokensProofs.** A mark goes only when its token has gone, and a hash is
stored once: with "never stored means never exchanged" that gives one exchange
per stored token. The chain (`ChainInv`): a family that lost no key has one
*head*, a stored token not yet exchanged, or a refresh or login about to store
the heir (`OneHead`). A refresh passes the head on in two steps, mark and store,
and it may, because a refresh about to mark its token still has it, or the
family lost a key (`Presents`). That a family is opened before anything bears
its name keeps a new login out of old families. With both, `RotationHolds`.
`AccessAlwaysEnds`: a revocation goes by the index of its user, so the invariant
(`AccessInv`) is about what the index covers. A token leaves it after it is gone,
so the index covers what clients hold, except for the `DEL` of the whole set:
whoever is about to make that has listed what was in it, and what came in since
has marked the user raced (`Safe`). A session does not change hands, so the
families a revocation is to end are its user's.

**SemesterEndProofs.** A call that holds the row at the *current* version holds
the row itself, and the transition it asks for is one the table permits from the
status it holds. So a writer that would leave `archived` has a stale version, and
the retry of `EndSemester`, which carries no such promise, can only write
`archived`: `ArchivedIsTerminal`, and for every other write of the row
`CallsAlwaysSerialize`.
`GradesAlwaysAgree`: while no call edits the threshold, every call holds the
threshold of the semester, in the row it read or as the one it grades by, so
concurrent and repeated finalizes give the outcome of the marks (`GradingInv`).
`MovedOnceAlways`: of two `EndSemester` calls past their read one has overlapped
the other, so one at most is acting (`OneActs`); it takes each student it listed
through the statements of his case, whoever is still listed is untouched, and
his row on its list is the one he started with (`EachTaken`); and when no call
is acting, either nobody was touched or the semester is archived or deleted,
which bars the next call at its read (`AtRest`).
`MovesAlwaysSound`: the rows a reassignment deletes are its student's own and no
other reassignment's; they are all he has unless somebody crossed it; the count
it holds is the number of rows there are unless it is stale; and two
reassignments never hold the lock of one group (`GroupInv`). The last is what
makes a count that was true when the lock was taken true when it is used.

**StudentLeaveProofs.** The inductive invariant of leaves has three parts. *Roles*: one
call at most acts on an approval (the guard admits one), the leave it acts on is
approved, open unless its end crossed it, and what it will withdraw from is what
the leave covers but for rows inserted late. *Covered*: when nobody has still to
withdraw for a leave in force, an enrollment under it slipped in behind. *Status*:
an edit that passes the version check holds the current status, so it changes it
only by a patch; hence a student on leave has a leave in force or one just
ended, and conversely. Each part needs the ones before it; together they are
`LeavesAgree`.
`SweptAlwaysServed` is about a bulk enrollment and approvals that each look
once. A request *waits* if it is approved, not enrolled and not skipped for a
reason, and no approval is acting on it. Once its semester has begun, an approval does not leave it
waiting: it inserts the row or has a reason to skip it
(`NothingWaitsLate`). So what waits then has waited since before, and a pass that
began while the semester was active and met no error is still before its course,
or at it (`Reaches`). When the pass is over, nothing with a branch waits in its
semester (`EntryInv`).
`AdmissionAlwaysSound`: who reviews holds the pending row alone, so what he
decides is decided once and an admitted student is inserted with it; an open
application to a program is one by the partial index; and a resubmission the
application was not sent back across carries, of the sections it does not bring,
what the row has (`AdmissionInv`).

**ExamAttemptsProofs.** `OpenOnce` rests on the partial unique index at the
second step of the insert; `Cap` relates what a start has counted to what is
there now, for students who did not submit in between; `Totals` says that what a
grader carries is complete, so the total is of the scores written with it;
the lifecycle says that an edit in flight finds the status changed.

**CourseworkProofs.** `KeepsPromiseAlways` is a refinement: the statements of
`Coursework`, with their files, failures and crashes, implement `HandIn`, of
which a step saves, discards, hands in, grades or ends a piece of work and
nothing else. The inductive invariant says what a call in flight may still rely
on: a grade change in flight is of a project, whose work cannot be discarded, so
it is still handed in when the statement runs; and a submission goes with its
parent. Then each action is mapped to a step of `HandIn` or to a stutter: a save
that finds the work handed in meanwhile changes nothing, since the `WHERE` of its
upsert says so, and whatever counts files is invisible above.
`CountsAddUpAlways` goes along the count of `FileStoreProofs`, with more to hold
on to: a file is counted for each row that names it, its attachment, its receipt,
and by every call for what it has counted and not yet entered, or deleted and
not yet uncounted (`Pending`). The sum is covered by the count always and equals
it while nothing has failed. That what is being attached is not attached, and by
one call only, is needed beside it (`LinksSound`).
The board keeps the same kind of count over three sorts of holders (`BoardInv`);
an edit still on its way writes back the status it read, so the invariant says
that an answer or a reason that status speaks of is still there (`Shown`).
`DecisionsAlwaysStand` follows step by step from it. For `OnlyLeadersHandOver`,
a request that still holds a team's version holds its leader, and a rename
writes that leader back (`WriteSound`).
`PlanStaysWhole` is about `MergePlan`, an algorithm: folds over sequences. The
library's induction theorems cannot be used, but a fold exists as a function from
positions to values (`FoldExists`, from the definition of the fold and the well-founded
order of the naturals), and a claim about every position is proved by looking at
the first that fails it (`Along`). So that every team is placed and no group passes the
maximum goes along the packing (`PackAlong`), and that a group below the minimum is
folded into another or handed back, with nobody lost, along the second pass (`FoldAlong`). The plan's groups and leftovers together are a rearrangement of
the teams, without repetition (`MergePlanIsWhole`, `MergedDistinct`).
`TeamsFreezeOnce` and `GroupsFormSoundly` rest on the plan and on what a forming
may rely on between its read and its inserts (`FormInv`): its list has each team
once; once its rows are locked, the teams on it are still registered, since a
withdrawal or the deletion of a team waits for the lock; and unless two overlapped
one forming at most is under way, and no team on its list is in a group already.
What it inserts is, for each part of its plan, the members of the part's teams;
when membership stands as it was read, they are as many as the sizes said
(`RowsAreCounted`), and the leader of the largest team is among them.

**AuthorizationProofs**, of the policies and the subscription. Whoever changes the table is, from that step on, about to
clear the pair, and a reader that carries an old policy is marked overtaken: a
stale entry has one of these causes. The advisory lock has one holder, which
knows the table up to what `CreatePermission` adds under it; so boots do not fail
each other and a reset leaves what it says (`BootsAndResetsKeepTheTable`).
`ChangesStayChained`, of the subscription: a call that holds the row's version
holds the row, and its transaction began after every entry of the history, so
what it appends is the next link and the last by time (`ReadIsCurrent`); and
each round a call lost was a change somebody else made, so the version has grown
by as many (`LossesAreWins`), which is why only a call overtaken in every round
gives up.

**AuthorizationProofs**, of requests. Roles are any set of roles of the known
levels, held at any units, so the theorems do not depend on a tree of a few
programs. The data of routes and handlers is finite and written out; what the
proofs need of it is stated as lemmas and checked row by row. A request is
*vetted* (`Vetted`): behind the gate, its gate has allowed what it asked with the
facts it could read. `AlwaysFailsClosed` is that and a lemma of the engine: what
a check allows although its reader failed, it allows with every answer the reader
could have given. `OthersWorkAlwaysNeedsTeaching`: a seat without
teaching authority that entered a handler of other people's work has only steps
ahead that serve him his own (`WorkIsCut`).
`NarrowRolesAlwaysStayNarrow` has an inductive invariant of six parts. Two are of
any request: `Vetted`, and `Attributed`, that the action is the one its route
attributes and that every route runs handlers which may run under its gate
(`ProperRoutes`). The other four say, each for one way of being confined, which
steps are still ahead of a call, or what was checked once they are behind it: a
call nothing confines to its body does not get so confined later (`WithoutBody`);
a row is created under a unit that was checked (`CreatesAtHome`); an attachment
is removed by who may update its post (`DetachesAllowed`); an activity is changed by
who may publish or wrote it (`ActivitiesEntitled`). With them, a narrow role is
inside its unit by the gate, by the filter, or by the check ahead of the service.
`AuthorityNeverGrowsAnywhere`, of `RoleGrants`: a role in a table, in a token or
in a call about to store it is below a role of the beginning (`GrantsInv`); who gives a
role is of an institution's scope, so the role he gives is below his own, and
being below is transitive there.

**FeedAndHubProofs**, of the hub. What is in the map is open, sits under its own user
and was added once (`HubInv`); a sender holds the read lock while it visits
connections, so none is closed under it; what a connection that stays is owed is
buffered, being written, or still to be pushed.

**FeedAndHubProofs**, of the feed. `ThreadsStayKept` needs first what a thread is
(`ThreadsInv`): every comment hangs on an entry that is there, in the thread of a
post that is there, and a call in flight knows of its entry what it read, unless
the entry has gone. So a new comment meets a parent and a root, a removal takes
the whole of what hangs on it, and the counters move with the rows. That no
counter is off needs finite sets, which they stay as each step adds a row or a
like. `WritesStayNarrow`, that an edit or a pin changes its own columns, follows
step by step: a write that passes the version check holds the row itself.
`PagesStayWhole`: while nothing is pinned, the order of the list is the order of
times, so what stands below the cursor is to come and what stands above was shown,
once (`PagesKept`); a page takes the newest below the cursor, and its last entry
is the next cursor. `CoversStayCounted` goes along `FileStoreProofs` once more: a
cover is counted for each activity that names it and for each call that has
counted it and not yet written its row, or replaced it and not yet uncounted it (`EventsInv`).

### Model-checked only
| property | why |
| --- | --- |
| `StorageIsReclaimed`, `NothingWaitsForever` | liveness under fairness, out of the prover's reach (`ENABLED`) |
| `BootProvesGates` | says of the shipped policies and routes that boot accepts them and finds each gate a policy: no constant occurs in it, so that TLC decides it once and for all |

## Not modelled, with the reason
| part | state | why |
| --- | --- | --- |
| academic structure | colleges to curricula | single-row edits under a version check and unique indexes, one statement each; who may edit which is in `AccessControl` and `Handlers` |
| students, teachers | rows of one person | edits against progression and leaves are in `SemesterEnd` and `StudentLeave`; creation and listings are left |
| settings, transcript | settings rows | a version check; the transcript only reads |
| attendance | sheets, marks, excuses | upserts of one row each; who may see whose is in `Requests` |
| content, question bank | weeks, materials, questions | single rows; the copy an exam takes is its content, the attached materials are references of `FileStore` |
| grading rules | rules, weights, manual marks | a fold into a grade; when grades are written is in `SemesterEnd` |
| what the subscription limits | counts of its callers | callers count, ask and create in three steps, which the code leaves open; no doc promises more |
| janitor of soft-deleted rows | rows deleted 30 days ago | nothing brings such a row back, so it meets no other writer |
| inbox, mutes, preferences, profiles | rows of one user | no interleaving worth a model |
| rate limiters, headers, configuration | in memory or none | nothing a property is about |
| binding, JSON, error codes | none | conversion; the refusal of an input is one step of `Handlers` |

## Plan

1. *Requests*: the filters of lists (`CollectionsAreNarrowed`), with the queries
   behind them.
2. *Subscription*: shown to implement an atomic update.
3. *Academic structure*: curricula and prerequisites under concurrent edits,
   deletion guards.
4. *Attendance, content, question bank, grading rules*: one module for the life
   cycles; the fold of the rules against a reference.

New modules share runs with those above where their actions interact, so that
the number of runs stays small.
