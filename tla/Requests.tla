------------------------------- MODULE Requests -------------------------------
(***************************************************************************)
(* The life of a request: the routes are verified at boot, a request runs  *)
(* the gate of its route (authz/http), the handler adds its own refusals,  *)
(* and the service is called with what confines it.  One request at a      *)
(* time: nothing of it is shared with another.                             *)
(***************************************************************************)
EXTENDS AccessControl, Routes, Handlers, SequencesExt

CONSTANTS
    Roles,          \* the staff roles that ask, NoRole among them
    Faults          \* which readers may fail: see FaultsOf

\* A role has the unit its scope asks for (identity/role.go: validateRoleScope).
ASSUME RolesAssumption == Roles \subseteq RoleClaims(DOMAIN LevelRank) \cup {NoRole}

VARIABLES
    phase,          \* "boot", "listening", "arrived", "handling", "served", "refused"
    request,        \* route, colon suffix, role and the facts about its target
    access,         \* the AccessInfo the gate stashed: action and decision
    standing,       \* what the handler has established for itself
    todo,           \* the handler's remaining steps
    given           \* what the service call was confined to

vars == <<phase, request, access, standing, todo, given>>

AssignedSeats == {"teacher", "assistant", "observer"}

SeatFacts == {RelationTo(a, e) : a \in AssignedSeats \cup {"none"}, e \in BOOLEAN}

-----------------------------------------------------------------------------
(* Verifying the mounts *)

Mounts == {r.gate : r \in {q \in Router : q.gate.kind \notin {"none", "superadmin"}}}

\* The longest mount on a segment boundary of the path.
MountsOn(path) == {m \in Mounts : IsPrefix(m.base, path)}

MountFor(path) ==
    CHOOSE m \in MountsOn(path) : \A n \in MountsOn(path) : Len(n.base) <= Len(m.base)

ExemptPrefixes ==
    {<<"auth">>, <<"public">>, <<"me">>, <<"notifications">>, <<"teams">>, <<"authz">>,
     <<"uploads">>, <<"activities">>, <<"activity-attachments">>}

ExemptRoutes ==
    {<<"POST", <<"applications">>>>,
     <<"POST", <<"enrollment-requests", "pretake">>>>,
     <<"POST", <<"enrollment-requests", "retake">>>>,
     <<"GET", <<"offerings", ":offeringId", "access-level">>>>,
     <<"GET", <<"posts">>>>, <<"POST", <<"posts">>>>,
     <<"POST", <<"posts", ":id", "comments">>>>,
     <<"POST", <<"posts", ":id", "like">>>>, <<"DELETE", <<"posts", ":id", "like">>>>,
     <<"DELETE", <<"post-attachments", ":id">>>>}

IsExempt(r) ==
    \/ <<r.method, r.path>> \in ExemptRoutes
    \/ \E p \in ExemptPrefixes : IsPrefix(p, r.path)

HasParam(path, param) == \E i \in DOMAIN path : path[i] = param

VerbAction(method, hasTarget) ==
    CASE method = "GET" -> IF hasTarget THEN "get" ELSE "list"
      [] method = "POST" /\ ~hasTarget -> "create"
      [] method \in {"PUT", "PATCH"} /\ hasTarget -> "update"
      [] method = "DELETE" /\ hasTarget -> "delete"
      [] OTHER -> "none"

UnderAction(method) ==
    CASE method = "GET" -> "list"
      [] method = "POST" -> "create"
      [] method \in {"PUT", "PATCH"} -> "update"
      [] method = "DELETE" -> "delete"

SingletonAction(method) == IF method = "GET" THEN "get" ELSE "update"

\* How a mount attributes a route without a colon suffix.
ActionOf(mount, method, path) ==
    CASE mount.kind = "singleton" -> SingletonAction(method)
      [] mount.kind = "under"     -> UnderAction(method)
      [] OTHER                    -> VerbAction(method, HasParam(path, mount.param))

VerifyPolicyExists(mount, r) ==
    \/ mount.kind \notin {"singleton", "under"} /\ r.method = "POST"
          /\ HasParam(r.path, mount.param)
    \/ ActionOf(mount, r.method, r.path) = "none"
    \/ HasPolicy(mount.resource, ActionOf(mount, r.method, r.path))

VerifyMounts ==
    \A r \in Router :
        IsExempt(r) \/ (MountsOn(r.path) # {} /\ VerifyPolicyExists(MountFor(r.path), r))

-----------------------------------------------------------------------------
(* What a request may find *)

ColonSuffixes(r) ==
    IF r.custom = {} THEN {"none"} ELSE {"none", "unknown"} \cup {d[1] : d \in r.custom}

HandlersOf(r, action) ==
    IF r.custom = {} THEN {r.handler} ELSE {d[2] : d \in {e \in r.custom : e[1] = action}}

\* A route names handlers there are (in the code, method values).
ASSUME HandlersAssumption ==
    \A r \in Router :
        IF r.custom = {} THEN r.handler \in DOMAIN Handler
        ELSE \A d \in r.custom : d[2] \in DOMAIN Handler

IsPublishing(r) ==
    r.path[1] \in {"posts", "post-attachments", "activities", "activity-attachments"}

\* A reader can fail only where the gate or the handler asks it.  The gate of
\* leaves looks for a student under the id of a leave: there is none.
FaultsOf(r) ==
    CASE r.gate.kind = "classroom" -> {"none", "seats", "lineage"} \cap Faults
      [] r.gate.kind = "post" -> Faults
      [] r.gate.kind # "post" /\ IsPublishing(r) -> {"none", "seats", "lineage"} \cap Faults
      [] r.path[1] = "leaves" -> {"lineage", "missing"} \cap Faults
      [] r.path[1] # "leaves" /\ r.gate.kind \in {"staff", "under"} ->
            {"none", "lineage", "missing"} \cap Faults
      [] OTHER -> {"none"}

AnyHome == CHOOSE p \in Programs : TRUE

\* Whether some path of the route's handlers asks if the row is the caller's.
AsksOwn(r) ==
    \E h \in HandlersOf(r, "none") \cup {d[2] : d \in r.custom} : \E path \in Handler[h] :
        \E i \in DOMAIN path :
            path[i].do \in {"teach or own", "own row", "same offering", "not self"}

FactsOf(r) ==
    LET publishing == IsPublishing(r)
        placed     == publishing \/ r.gate.kind \in {"staff", "under", "classroom"}
        classroom  == r.gate.kind = "classroom"
    IN  [home      : IF placed THEN Programs ELSE {AnyHome},
         seat      : IF publishing \/ classroom THEN SeatFacts ELSE {"none"},
         postScope : IF publishing THEN PostScopeUnit \cup {"offering"} ELSE {"none"},
         author    : IF publishing THEN BOOLEAN ELSE {FALSE},
         member    : IF publishing THEN BOOLEAN ELSE {FALSE},
         own       : IF AsksOwn(r) THEN BOOLEAN ELSE {FALSE},
         fault     : FaultsOf(r)]

\* Seats are asked of posts in offerings only, whose members hold one.
Sensible(facts) ==
    /\ facts.postScope \in PostScopeUnit => facts.seat = "none"
    /\ facts.postScope = "offering" => facts.member = (facts.seat # "none")

NoRequest == [route |-> "none"]

NoAccess == [action |-> "none", decision |-> Denied]

-----------------------------------------------------------------------------
(* The gate *)

Init ==
    /\ phase = "boot" /\ request = NoRequest /\ access = NoAccess
    /\ standing = FALSE /\ todo = <<>> /\ given = {}

Boot ==
    /\ phase = "boot" /\ VerifyMounts
    /\ phase' = "listening"
    /\ UNCHANGED <<request, access, standing, todo, given>>

Arrive(r) ==
    /\ phase = "listening"
    /\ \E suffix \in ColonSuffixes(r), role \in Roles, facts \in FactsOf(r), body \in Programs :
          /\ Sensible(facts)
          /\ body = AnyHome \/ (r.method = "POST" /\ r.gate.kind = "staff" /\ r.custom = {})
          /\ request' = [route |-> r, suffix |-> suffix, role |-> role, facts |-> facts,
                         body |-> body]
    /\ phase' = "arrived"
    /\ UNCHANGED <<access, standing, todo, given>>

Route == request.route

\* The action of the request: its colon suffix, or what the mount makes of the
\* verb; a POST on a row without a suffix, or a suffix elsewhere, has none.
Attribute ==
    IF request.suffix # "none" THEN request.suffix ELSE
    IF Route.gate.kind = "none" THEN IF Route.custom = {} THEN "open" ELSE "none"
    ELSE ActionOf(Route.gate, Route.method, Route.path)

\* The decision a gate takes on the facts.
Decide(gate, action, role, facts) ==
    LET targeted == HasParam(Route.path, gate.param)
    IN  CASE gate.kind = "none" -> Allowed("nothing", "none", NoFilter)
          [] gate.kind = "superadmin" ->
                IF role # NoRole /\ role.level = "super_admin"
                THEN Allowed("nothing", "none", NoFilter) ELSE Denied
          [] gate.kind = "staff" -> CheckStaff(role, gate.resource, action, targeted, facts)
          [] gate.kind = "under" -> CheckStaffOn(role, gate.resource, action, gate.on, facts)
          [] gate.kind = "singleton" -> CheckStaff(role, gate.resource, action, FALSE, facts)
          [] gate.kind = "classroom" -> CheckOffering(role, gate.resource, action, facts)
          [] gate.kind = "post" -> CheckPost(role, action, facts)

Refuse ==
    /\ phase' = "refused"
    /\ UNCHANGED <<request, access, standing, todo, given>>

\* Any answer but "allowed" refuses: missing rows and malformed requests as not
\* found, failed readers and denials as forbidden.
PassGate ==
    LET action   == Attribute
        decision == Decide(Route.gate, action, request.role, request.facts)
    IN  /\ phase = "arrived" /\ action # "none" /\ decision.answer = "allowed"
        /\ access' = [action |-> action, decision |-> decision]
        /\ standing' = (Route.gate.kind = "post" /\ decision.matched # "nothing")
        /\ \E h \in HandlersOf(Route, action) : \E path \in Handler[h] : todo' = path
        /\ phase' = "handling"
        /\ UNCHANGED <<request, given>>

TurnedAway ==
    /\ phase = "arrived"
    /\ \/ Attribute = "none"
       \/ Decide(Route.gate, Attribute, request.role, request.facts).answer # "allowed"
       \/ HandlersOf(Route, Attribute) = {}
    /\ Refuse

-----------------------------------------------------------------------------
(* The handler *)

Facts == request.facts

\* A bug of its kind: any seat counts as standing.
TeachingAnySeat == access.decision.matched \in {"offering", "staff"}

\* Entered as teaching staff: a seat with authority, or a staff permission.
Teaching ==
    \/ access.decision.relation \in TeachingSeats
    \/ access.decision.relation = "none" /\ access.decision.matched = "staff"

Step == Head(todo)

Proceed ==
    /\ todo' = Tail(todo)
    /\ UNCHANGED <<phase, request, access, standing, given>>

Stand(more) ==
    /\ standing' = (standing \/ more)
    /\ todo' = Tail(todo)
    /\ UNCHANGED <<phase, request, access, given>>

\* Authority over a scope named in the request; failed facts are no authority.
Governs(resource, scopes) ==
    LET decision == IF Facts.postScope = "university"
                    THEN CheckStaffAtLeast(request.role, resource, "create", "university", Facts)
                    ELSE CheckStaffOn(request.role, resource, "create", Facts.postScope, Facts)
    IN  Facts.postScope \in scopes /\ decision.answer = "allowed"

HasScopeAuthority ==
    IF Facts.postScope = "offering"
    THEN Facts.fault # "seats" /\ Facts.seat \in TeachingSeats
    ELSE Governs("post", PostScopeUnit)

\* Whether a check of the handler passes.
Passes(step) ==
    CASE step.do = "narrow" ->
            CheckStaffOn(request.role, step.resource, step.action, step.on,
                         [Facts EXCEPT !.home = request.body]).answer = "allowed"
      [] step.do = "rank" -> /\ request.role # NoRole
                             /\ request.role.level = step.level
                             /\ request.role.scope \in step.scopes
      [] step.do = "teach" -> Teaching
      [] step.do = "teach or own" -> Teaching \/ Facts.own
      [] step.do \in {"own row", "same offering"} -> Facts.own
      [] step.do = "not self" -> ~Facts.own
      [] step.do = "demand" -> standing
      [] step.do = "post check" ->
            CheckPost(request.role, "update", Facts).answer = "allowed"

Checks ==
    {"narrow", "rank", "teach", "teach or own", "own row", "same offering", "not self",
     "demand", "post check"}

CheckPasses == Step.do \in Checks /\ Passes(Step) /\ Proceed

CheckRefuses == Step.do \in Checks /\ ~Passes(Step) /\ Refuse

InputParses == Step.do = "input" /\ Proceed

InputMalformed == Step.do = "input" /\ Refuse

\* The standing a publishing handler gathers.
GatherStanding ==
    \/ Step.do = "scope authority" /\ Stand(HasScopeAuthority)
    \/ Step.do = "can publish" /\ Stand(Governs("activity", {"university", "college", "department"}))
    \/ Step.do = "or reader" /\ Stand(Facts.member /\ Facts.postScope # "offering")
    \/ Step.do = "or member" /\ Stand(Facts.member)
    \/ Step.do = "or author" /\ Stand(Facts.author)
    \/ Step.do = "or visible" /\ (Stand(TRUE) \/ Stand(FALSE))

CallService ==
    /\ Step.do = "serve"
    /\ given' = IF Teaching THEN Step.teaching ELSE Step.others
    /\ phase' = "served" /\ todo' = <<>>
    /\ UNCHANGED <<request, access, standing>>

Handle ==
    /\ phase = "handling"
    /\ \/ InputParses \/ InputMalformed
       \/ CheckPasses \/ CheckRefuses
       \/ GatherStanding
       \/ CallService

\* The answer is written; the next request finds nothing of this one.
Respond ==
    /\ phase \in {"served", "refused"}
    /\ phase' = "listening" /\ request' = NoRequest /\ access' = NoAccess
    /\ standing' = FALSE /\ todo' = <<>> /\ given' = {}

Next == Boot \/ (\E r \in Router : Arrive(r)) \/ PassGate \/ TurnedAway \/ Handle \/ Respond

Spec == Init /\ [][Next]_vars

-----------------------------------------------------------------------------
(* Properties *)

\* Once the server listens, every route that is not exempt runs the very gate
\* the verifier found for it, and every action a request of it can reach, the
\* colon actions included, has a policy.
\* (authz/http/checklist.go: VerifyMounts; cmd/api/main.go: its exemptions)
BootProvesGates ==
    phase = "listening" =>
        \A r \in Router : ~IsExempt(r) =>
            /\ r.gate = MountFor(r.path)
            /\ \A d \in r.custom : HasPolicy(r.gate.resource, d[1])
            /\ r.custom = {} =>
                  HasPolicy(r.gate.resource, ActionOf(r.gate, r.method, r.path))

Served == phase = "served"

IsRead == access.action \in {"get", "list"}

\* A mutation that staff are allowed only by a permission at their own scope
\* touches their own unit: the row the gate was asked about, or the unit named
\* in the body when the gate had no row to ask about.
\* (authz/staff.go: matchSameUnit; the CheckStaffOn calls of management/http)
NarrowStaffStayHome ==
    (Served /\ ~IsRead /\ access.decision.matched = "staff"
        /\ Route.gate.kind \in {"staff", "under", "classroom"}
        /\ ~MatchByRoleAlone(request.role, PolicyFor(Route.gate.resource, access.action).staff))
    => request.role.unit =
          UnitOf(IF "body" \in given THEN request.body ELSE Facts.home, request.role.scope)

\* A request served while a reader was failing is one that every answer of that
\* reader would have served: nothing is allowed on a fact nobody could read.
\* (authz/http/gate.go: decide, "Fail closed"; Seat, CheckStaffOn, CheckPost)
FailsClosed ==
    (Served /\ Facts.fault # "none" /\ Route.gate.kind # "none") =>
        \A home \in Programs, seat \in SeatFacts :
            LET read == [Facts EXCEPT !.home = IF Facts.fault = "lineage" THEN home ELSE @,
                                      !.seat = IF Facts.fault = "seats" THEN seat ELSE @,
                                      !.fault = "none"]
            IN  Decide(Route.gate, access.action, request.role, read).answer = "allowed"

OthersWork ==
    {"ListSubmissions", "DownloadSubmissionFile", "ListAttempts", "GetAttempt",
     "OfferingAttendance", "AttendanceSummaries", "LessonAttendance", "ListExcuses",
     "ListGrades", "PreviewGrade", "ListQuestions", "GetQuestion", "SampleQuestions"}

\* A seat that does not teach is never served what other students handed in,
\* answered or earned, nor the question bank: the call is cut to the caller.
\* (classroom/http: requireTeaching, teaching and the seat-shaped reads)
OthersWorkNeedsTeaching ==
    (Served /\ Route.handler \in OthersWork /\ access.decision.relation \in {"student", "observer"})
        => "caller" \in given

PublishingOps ==
    {"UpdatePost", "DeletePost", "RemovePostAttachment", "CreateActivity", "UpdateActivity",
     "DeleteActivity", "RemoveActivityAttachment"}

PublishingActions == {"pin", "attach"}

\* Someone else's post or activity is changed only by a role at least as wide
\* as its scope, or from a teaching seat in the offering of a class post.
\* (authz/posts.go: CheckPost, permsReaching; announcements/http: canPublish)
NarrowRolesNeverGovern ==
    (Served /\ ~Facts.author /\ IsPublishing(Route)
        /\ (Route.handler \in PublishingOps \/ access.action \in PublishingActions))
    => IF Facts.postScope = "offering"
       THEN Facts.seat \in TeachingSeats \/ request.role # NoRole
       ELSE /\ request.role # NoRole
            /\ ScopeRank[request.role.scope] >= ScopeRank[Facts.postScope]

\* A narrow role stays narrow on the management's rows and on what others
\* publish (authz/staff.go, authz/posts.go).
NarrowRolesStayNarrow == NarrowStaffStayHome /\ NarrowRolesNeverGovern

\* The comment of matchSameUnit: on a collection route the unit comparison is
\* left to the filter, so a list admitted that way must use it.
\* (authz/staff.go: "the unit comparison defers to the ScopeFilter")
CollectionsAreNarrowed ==
    (Served /\ access.action = "list" /\ Route.gate.kind = "staff"
        /\ ~MatchByRoleAlone(request.role, PolicyFor(Route.gate.resource, "list").staff))
    => "filter" \in given
=============================================================================
