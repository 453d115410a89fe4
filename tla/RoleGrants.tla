------------------------------ MODULE RoleGrants ------------------------------
(***************************************************************************)
(* Who may make whom what: institutional roles given, replaced and taken   *)
(* by administrators (internal/identity/role.go, staff.go).  The actor's   *)
(* authority is the claim in his access token, which outlives changes of   *)
(* the roles table until it expires; a call checks first and writes later. *)
(* The end of the target's sessions is AuthTokens'.                        *)
(***************************************************************************)
EXTENDS AccessControl

CONSTANTS
    Users,
    Calls,          \* requests that may be in flight together
    Starting,       \* the roles the server starts with, NoRole for most users
    Asked,          \* the roles requests name, malformed ones among them
    NoToken         \* what people who are not logged in present

\* The server starts with roles of the tree; what requests name has a level
\* and a scope, and any unit.
GrantsAssumption ==
    /\ {NoRole, NoToken} \cap RoleClaims(DOMAIN LevelRank) = {}
    /\ Starting \in [Users -> RoleClaims(DOMAIN LevelRank) \cup {NoRole, NoToken}]
    /\ \A role \in Asked :
          /\ role.level \in DOMAIN LevelRank /\ role.scope \in DOMAIN ScopeRank
          /\ role = [level |-> role.level, scope |-> role.scope, unit |-> role.unit,
                     domain |-> "administration"]

VARIABLES
    accounts,       \* the users that exist
    roles,          \* the roles table, one row a user
    token,          \* the claim in each user's access token
    calls           \* what each request is doing

vars == <<accounts, roles, token, calls>>

Idle == [pc |-> "idle"]

CallRow ==
    {Idle} \cup [pc : {"set", "delete", "create"}, actor : RoleClaims(DOMAIN LevelRank),
                 target : Users, role : RoleClaims(DOMAIN LevelRank) \cup {NoRole}]

TypeOK ==
    /\ accounts \subseteq Users
    /\ roles \in [Users -> RoleClaims(DOMAIN LevelRank) \cup {NoRole}]
    /\ token \in [Users -> RoleClaims(DOMAIN LevelRank) \cup {NoRole, NoToken}]
    /\ calls \in [Calls -> CallRow]

Init ==
    /\ accounts = {u \in Users : Starting[u] # NoToken}
    /\ roles = [u \in Users |-> IF Starting[u] = NoToken THEN NoRole ELSE Starting[u]]
    /\ token = [u \in Users |-> NoToken]
    /\ calls = [c \in Calls |-> Idle]

-----------------------------------------------------------------------------

\* A login or a refresh issues a token with the role of the moment.
Issue(u) ==
    /\ u \in accounts
    /\ token' = [token EXCEPT ![u] = roles[u]]
    /\ UNCHANGED <<accounts, roles, calls>>

Expire(u) ==
    /\ token' = [token EXCEPT ![u] = NoToken]
    /\ UNCHANGED <<accounts, roles, calls>>

\* The gate of the users' routes: the claims that pass it, per action.
UsersGate ==
    [action \in {"create", "update", "delete"} |->
        {claim \in RoleClaims(DOMAIN LevelRank) :
            CheckStaff(claim, "user", action, TRUE, [fault |-> "none"]).answer = "allowed"}]

\* Institution-wide roles name no unit, narrower ones an existing one.
ValidRoleScope(role) == role.unit \in UnitsAt(role.scope)

Begin(c, pc, a, t, role) ==
    /\ calls[c].pc = "idle"
    /\ calls' = [calls EXCEPT ![c] =
                    [pc |-> pc, actor |-> token[a], target |-> t, role |-> role]]
    /\ UNCHANGED <<accounts, roles, token>>

End(c) == calls' = [calls EXCEPT ![c] = Idle]

\* The check is about the role that is given, whatever the target holds.
BeginAssign(c, a, t, role) ==
    /\ token[a] \in UsersGate["update"] /\ a # t
    /\ CanManageRole(token[a], role, TRUE) /\ ValidRoleScope(role)
    /\ t \in accounts
    /\ Begin(c, "set", a, t, role)

SetRole(c) ==
    /\ calls[c].pc = "set"
    /\ roles' = [roles EXCEPT ![calls[c].target] = calls[c].role]
    /\ End(c)
    /\ UNCHANGED <<accounts, token>>

\* The check is about the role that was read.
BeginRemove(c, a, t) ==
    /\ token[a] \in UsersGate["delete"] /\ a # t
    /\ CanManageRole(token[a], roles[t], TRUE)
    /\ Begin(c, "delete", a, t, roles[t])

\* Whatever role is there by now; none is an error that changes nothing.
DeleteRole(c) ==
    /\ calls[c].pc = "delete"
    /\ roles' = [roles EXCEPT ![calls[c].target] = NoRole]
    /\ End(c)
    /\ UNCHANGED <<accounts, token>>

\* A new account, with a role or without.
BeginCreateStaffUser(c, a, t, role) ==
    /\ token[a] \in UsersGate["create"]
    /\ role # NoRole => CanGrantRole(token[a], role) /\ ValidRoleScope(role)
    /\ t \notin accounts
    /\ Begin(c, "create", a, t, role)

\* One transaction, all or nothing; an address taken meanwhile refuses it.
CreateStaffUser(c) ==
    /\ calls[c].pc = "create"
    /\ LET t == calls[c].target
       IN  IF t \in accounts THEN UNCHANGED <<accounts, roles>>
           ELSE /\ accounts' = accounts \cup {t}
                /\ roles' = [roles EXCEPT ![t] = calls[c].role]
    /\ End(c)
    /\ UNCHANGED token

Next ==
    \/ \E u \in Users : Issue(u) \/ Expire(u)
    \/ \E c \in Calls :
          \/ SetRole(c) \/ DeleteRole(c) \/ CreateStaffUser(c)
          \/ \E a \in Users, t \in Users :
                \/ BeginRemove(c, a, t)
                \/ \E role \in Asked : BeginAssign(c, a, t, role)
                \/ \E role \in Asked \cup {NoRole} : BeginCreateStaffUser(c, a, t, role)

Spec == Init /\ [][Next]_vars

-----------------------------------------------------------------------------
(* Properties *)

Below(r, s) ==
    /\ ScopeRank[r.scope] <= ScopeRank[s.scope] /\ LevelRank[r.level] <= LevelRank[s.level]
    /\ <<r.scope, r.level>> # <<s.scope, s.level>>
    /\ s.unit = NoUnit \/ UnitOf(r.unit, s.scope) = s.unit

RootRoles == {Starting[u] : u \in Users} \ {NoRole, NoToken}

\* However roles are passed on, by whom and with tokens however old, nobody
\* comes to hold a role that is not strictly below one the server started
\* with, except the one he started with himself.
\* (authz/staff.go: CanManageRole, CanGrantRole; identity/role.go, staff.go)
AuthorityNeverGrows ==
    \A u \in Users : \A r \in {roles[u], token[u]} \ {NoRole, NoToken} :
        r = Starting[u] \/ \E root \in RootRoles : Below(r, root)

\* The comment of CanManageRole: a role is modified only by someone whose role
\* reaches hard enough to modify it.
\* (authz/staff.go: "whether the actor's role reaches hard enough to modify
\* the target's role"; identity/role.go: AssignRole asks it of the new role)
RoleYieldsToReach ==
    [][\A u \in Users : roles[u] \notin {NoRole, roles'[u]} =>
          \E c \in Calls : calls[c].pc # "idle" /\ CanManageRole(calls[c].actor, roles[u], TRUE)
      ]_vars
===============================================================================
