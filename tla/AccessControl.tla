---------------------------- MODULE AccessControl ----------------------------
(***************************************************************************)
(* The decision engine of internal/authz.  A check takes the actor's staff *)
(* role, a policy and facts about the target and answers with a Decision.  *)
(* A target sits at a program; its lineage is the part of the program's    *)
(* ancestry that the resource's query selects.  Facts come from readers    *)
(* that may fail ("lineage", "seats", "post") or find no row ("missing").  *)
(***************************************************************************)
EXTENDS Policies

CONSTANTS
    Programs, Departments, Colleges,
    DeptOf,         \* the department of a program
    CollegeOf,      \* the college of a department
    NoUnit,         \* a nil unit id
    NoRole          \* the claim of people who hold no staff role

LevelRank == [viewer |-> 1, operator |-> 2, admin |-> 3, super_admin |-> 4]

ScopeRank ==
    [program |-> 1, department |-> 2, college |-> 3, university |-> 4, platform |-> 5]

UnitScopes == {"program", "department", "college"}

AtLeast(level, min) == LevelRank[level] >= LevelRank[min]

WiderThan(s, t) == ScopeRank[s] > ScopeRank[t]

\* The staff roles an access token can carry: a unit exactly below the university.
UnitsAt(scope) ==
    CASE scope = "program"    -> Programs
      [] scope = "department" -> Departments
      [] scope = "college"    -> Colleges
      [] OTHER                -> {NoUnit}

RoleClaims(levels) ==
    UNION {[level : levels, scope : {s}, unit : UnitsAt(s), domain : {"administration"}] :
              s \in DOMAIN ScopeRank}

-----------------------------------------------------------------------------
(* Facts *)

\* The unit at one scope above (or at) an organisational unit.
UnitOf(unit, scope) ==
    LET dept == IF unit \in Programs THEN DeptOf[unit] ELSE unit
    IN  CASE scope = "program"    -> unit
          [] scope = "department" -> dept
          [] scope = "college"    -> IF dept \in Departments THEN CollegeOf[dept] ELSE dept
          [] OTHER                -> NoUnit

\* Which columns the lineage query of a resource fills; no query, no ancestry.
LineageQueries ==
    [offering    |-> {"department", "college"},
     course      |-> {"department", "college"},
     student     |-> UnitScopes,
     program     |-> UnitScopes,
     department  |-> {"department", "college"},
     college     |-> {"college"},
     application |-> UnitScopes,
     curriculum  |-> UnitScopes]

\* The lineage reader: an answer, or why there is none.
LineageFor(resource, facts) ==
    IF resource \notin DOMAIN LineageQueries
    THEN [answer |-> "found", unit |-> [s \in UnitScopes |-> NoUnit]]
    ELSE [answer |-> CASE facts.fault = "lineage" -> "failed"
                       [] facts.fault = "missing" -> "missing"
                       [] OTHER                   -> "found",
          unit   |-> [s \in UnitScopes |->
                         IF s \in LineageQueries[resource] THEN UnitOf(facts.home, s) ELSE NoUnit]]

\* An assigned seat wins over an enrollment; neither is no seat.
RelationTo(assigned, enrolled) ==
    IF assigned # "none" THEN assigned ELSE IF enrolled THEN "student" ELSE "none"

-----------------------------------------------------------------------------
(* Decisions *)

NoFilter == [scope |-> "platform", unit |-> NoUnit]

Refusal(answer) ==
    [answer |-> answer, matched |-> "nothing", relation |-> "none", filter |-> NoFilter]

Denied == Refusal("denied")

Allowed(matched, relation, filter) ==
    [answer |-> "allowed", matched |-> matched, relation |-> relation, filter |-> filter]

FilterFor(role) ==
    IF role.scope \in UnitScopes THEN [scope |-> role.scope, unit |-> role.unit] ELSE NoFilter

MeetsLevelAndDomain(role, p) ==
    AtLeast(role.level, p.level) /\ (p.domain = AnyDomain \/ role.domain = p.domain)

MatchByRoleAlone(role, perms) ==
    \E p \in perms :
        /\ MeetsLevelAndDomain(role, p)
        /\ \/ WiderThan(role.scope, p.scope)
           \/ role.scope = p.scope /\ role.unit = NoUnit /\ p.scope \in Institution

CouldMatchSameUnit(role, perms) ==
    \E p \in perms :
        MeetsLevelAndDomain(role, p) /\ role.scope = p.scope /\ role.unit # NoUnit

MatchSameUnit(role, perms, unit) ==
    \E p \in perms :
        /\ MeetsLevelAndDomain(role, p) /\ role.scope = p.scope /\ role.unit # NoUnit
        /\ role.unit = unit[p.scope]

StaffAllowed(role) == Allowed("staff", "none", FilterFor(role))

\* A bug of its kind: a failed lineage query is read as no objection.
StaffArmOpen(role, resource, perms, targeted, facts) ==
    LET lineage == LineageFor(resource, facts)
    IN  CASE role = NoRole -> Denied
          [] role # NoRole /\ MatchByRoleAlone(role, perms) -> StaffAllowed(role)
          [] OTHER ->
                IF /\ CouldMatchSameUnit(role, perms)
                   /\ \/ ~targeted
                      \/ lineage.answer = "failed"
                      \/ MatchSameUnit(role, perms, lineage.unit)
                THEN StaffAllowed(role) ELSE Denied

\* Lineage is fetched only when the role alone does not settle the answer and
\* a permission at the role's own scope could.
StaffArm(role, resource, perms, targeted, facts) ==
    LET lineage == LineageFor(resource, facts)
    IN  CASE role = NoRole -> Denied
          [] role # NoRole /\ MatchByRoleAlone(role, perms) -> StaffAllowed(role)
          [] role # NoRole /\ ~MatchByRoleAlone(role, perms)
                /\ ~CouldMatchSameUnit(role, perms) -> Denied
          [] OTHER ->
                IF ~targeted THEN StaffAllowed(role)
                ELSE IF lineage.answer # "found" THEN Refusal(lineage.answer)
                ELSE IF MatchSameUnit(role, perms, lineage.unit) THEN StaffAllowed(role)
                ELSE Denied

CheckStaff(role, resource, action, targeted, facts) ==
    StaffArm(role, resource, PolicyFor(resource, action).staff, targeted, facts)

CheckStaffOn(role, resource, action, on, facts) ==
    StaffArm(role, on, PolicyFor(resource, action).staff, TRUE, facts)

\* A bug of its kind: a permission narrower than the post's scope counts.
PermsAny(perms, min) == perms

PermsReaching(perms, min) == {p \in perms : p.scope = min \/ WiderThan(p.scope, min)}

CheckStaffAtLeast(role, resource, action, min, facts) ==
    StaffArm(role, resource, PermsReaching(PolicyFor(resource, action).staff, min), FALSE, facts)

\* First the actor's seat, then staff whose scope covers the offering.
CheckOffering(role, resource, action, facts) ==
    LET policy == PolicyFor(resource, action)
    IN  IF facts.fault = "seats" THEN Refusal("failed")
        ELSE IF facts.seat \in policy.offering
             THEN Allowed("offering", facts.seat, NoFilter)
             ELSE StaffArm(role, "offering", policy.staff, TRUE, facts)

\* Author, authority over the post's scope, and for reads plain membership.
PostScopeUnit == UnitScopes \cup {"university"}

CheckUnitPost(role, action, facts) ==
    LET perms == PermsReaching(PolicyFor("post", action).staff, facts.postScope)
        staff == StaffArm(role, facts.postScope, perms, facts.postScope # "university", facts)
    IN  IF staff.answer = "denied" /\ action \in {"get", "list"}
        THEN Allowed("nothing", "none", NoFilter)
        ELSE staff

CheckOfferingPost(role, action, facts) ==
    LET governed == CheckOffering(role, "post", action, facts)
    IN  IF governed.answer = "denied" /\ action \in {"get", "list"} /\ facts.seat # "none"
        THEN Allowed("nothing", facts.seat, NoFilter)
        ELSE governed

CheckPost(role, action, facts) ==
    CASE facts.fault = "post"    -> Refusal("failed")
      [] facts.fault = "missing" -> Refusal("missing")
      [] facts.fault \notin {"post", "missing"} /\ facts.author ->
            Allowed("owner", "none", NoFilter)
      [] OTHER -> IF facts.postScope = "offering"
                  THEN CheckOfferingPost(role, action, facts)
                  ELSE CheckUnitPost(role, action, facts)

-----------------------------------------------------------------------------
(* Authority over roles *)

CanGrantRole(actor, target) ==
    AtLeast(actor.level, target.level) /\ WiderThan(actor.scope, target.scope)

\* The unit the target role names sits inside the actor's; resolution errors deny.
UnitInsideActor(actor, target, answered) ==
    /\ answered /\ target.scope \in UnitScopes
    /\ UnitOf(target.unit, actor.scope) = actor.unit

\* A bug of its kind: an equal level is enough.
CanManagePeers(actor, target, answered) ==
    /\ actor # NoRole /\ target # NoRole
    /\ \/ WiderThan(actor.scope, target.scope) /\ AtLeast(actor.level, target.level)
       \/ actor.scope = target.scope /\ AtLeast(actor.level, target.level)

CanManageRole(actor, target, answered) ==
    /\ actor # NoRole /\ target # NoRole
    /\ \/ /\ WiderThan(actor.scope, target.scope) /\ AtLeast(actor.level, target.level)
          /\ \/ actor.scope \in Institution \/ target.unit = NoUnit
             \/ UnitInsideActor(actor, target, answered)
       \/ /\ actor.scope = target.scope
          /\ actor.unit = NoUnit \/ target.unit = NoUnit \/ actor.unit = target.unit
          /\ LevelRank[actor.level] > LevelRank[target.level]
=============================================================================
