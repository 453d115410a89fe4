------------------------------- MODULE MCAccess -------------------------------
(* Who may do what, in two parts of which one is in motion: requests through  *)
(* gate and handler (Requests), and the roles administrators give each other  *)
(* (RoleGrants).                                                              *)
EXTENDS Requests, TLC

CONSTANTS prog1, prog2, prog3, dept1, dept2, dept3, coll1, coll2

\* Two departments in one college, a third in another.
MCDeptOf == (prog1 :> dept1) @@ (prog2 :> dept2) @@ (prog3 :> dept3)
MCCollegeOf == (dept1 :> coll1) @@ (dept2 :> coll1) @@ (dept3 :> coll2)

\* One role at each scope, anchored to one line of the tree; the targets move.
MCRoles ==
    {r \in RoleClaims({"viewer", "admin", "super_admin"}) :
        /\ r.unit \in {NoUnit, prog1, dept1, coll1}
        /\ r.level = "super_admin" => r.scope = "platform"} \cup {NoRole}

-----------------------------------------------------------------------------

CONSTANTS Users, Calls, Starting, Asked, NoToken, rector, dean, newcomer

VARIABLES accounts, roles, token, calls

roleVars == <<accounts, roles, token, calls>>

Grants == INSTANCE RoleGrants

ASSUME GrantsAssumption == Grants!GrantsAssumption

Claim(level, scope, unit) ==
    [level |-> level, scope |-> scope, unit |-> unit, domain |-> "administration"]

\* The first administrator, one of the university and a free address.
MCStarting ==
    (rector :> Claim("super_admin", "platform", NoUnit))
    @@ (dean :> Claim("admin", "university", NoUnit))
    @@ (newcomer :> NoToken)

MCAsked == {
    Claim("admin", "university", NoUnit), Claim("operator", "college", coll1),
    Claim("super_admin", "platform", NoUnit)}

-----------------------------------------------------------------------------

VARIABLE busy

AccessInit == Init /\ Grants!Init /\ busy \in {"requests", "roles"}

AccessNext ==
    /\ UNCHANGED busy
    /\ \/ busy = "requests" /\ Next /\ UNCHANGED roleVars
       \/ busy = "roles" /\ Grants!Next /\ UNCHANGED vars

AccessSpec == AccessInit /\ [][AccessNext]_<<busy, vars, roleVars>>

\* However roles are passed on, by whom and with tokens however old, nobody
\* comes to hold a role that is not strictly below one the server started
\* with, except the one he started with himself (RoleGrants).
\* (authz/staff.go: CanManageRole, CanGrantRole; identity/role.go, staff.go)
AuthorityNeverGrows == Grants!AuthorityNeverGrows
=============================================================================
