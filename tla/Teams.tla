------------------------------- MODULE Teams -------------------------------
(***************************************************************************)
(* Student teams: internal/classroom/team.go and its repository.  A        *)
(* request reads the team and is refused, or goes on to one statement;     *)
(* between the two, other requests act.  The insert of a member counts the *)
(* members in its own snapshot, so its check and its effect are two steps. *)
(* Names are left out: a rename writes back the leader it read.  No        *)
(* operation archives a team, so every team is active.                     *)
(***************************************************************************)
EXTENDS Integers, Sequences, FiniteSets

CONSTANTS Student, Team, Proc, None,
          Gone,             \* a deleted team; its id is never used again
          Cohort,           \* the program and cohort of each student
          MaxTeamMembers,
          MaxVersion,       \* bound: versions of a team
          MaxRequests       \* bound: requests that go past their first reads

VARIABLES team,     \* teams: the row, None before and Gone after
          member,   \* team_members: the students of each team
          group,    \* project_groups: leader and rows <<student, from_team>>
          started,  \* the groups that have a project_submissions row
          call,     \* the team request each process serves
          begun     \* the requests begun so far

TeamRow == [leader : Student, version : 0..MaxVersion, cohort : {Cohort[s] : s \in Student}]
CallRow == [op : {"none", "rename", "add", "insert", "remove", "transfer", "delete"},
            team : Team \cup {None}, by : Student \cup {None}, x : Student \cup {None},
            version : 0..MaxVersion]
GroupRow == [leader : Student, rows : SUBSET (Student \X (Team \cup {None}))]

TeamAssumption ==
  /\ MaxVersion \in Nat
  /\ {None, Gone} \cap TeamRow = {} /\ None # Gone

NoCall == [op |-> "none", team |-> None, by |-> None, x |-> None, version |-> 0]

(* Teams there are none of yet, or that earlier requests have made. *)
TeamInit ==
  /\ member \in [Team -> SUBSET Student]
  /\ team \in [Team -> {None} \cup [leader : Student, version : {0}, cohort : {Cohort[s] : s \in Student}]]
  /\ \A t \in Team :
       IF team[t] = None THEN member[t] = {}
       ELSE /\ team[t].leader \in member[t]
            /\ Cardinality(member[t]) <= MaxTeamMembers
            /\ \A s \in member[t] : Cohort[s] = team[t].cohort
  /\ call = [p \in Proc |-> NoCall]
  /\ begun = 0

Exists(t) == team[t] \notin {None, Gone}

Idle(p) == call[p].op = "none"
Request == begun < MaxRequests /\ begun' = begun + 1
Begin(p, op, t, s, x) ==
  /\ Idle(p) /\ Request
  /\ call' = [call EXCEPT ![p] = [op |-> op, team |-> t, by |-> s, x |-> x,
                                  version |-> team[t].version]]
End(p) == call' = [call EXCEPT ![p] = NoCall]

(* Some group frozen from the team has submitted work, a draft included. *)
TeamHasSubmissions(t) ==
  \E g \in started : \E row \in group[g].rows : row[2] = t

(* leaderTeam: the team as read, refused to anybody but its leader. *)
leaderTeam(t, s) == Exists(t) /\ team[t].leader = s

(* Mutant: the row is written whatever version it has by now. *)
UpdateAnyVersion(c, leader) ==
  IF Exists(c.team)
    THEN /\ c.version < MaxVersion
         /\ team' = [team EXCEPT ![c.team] =
                        [leader |-> leader, version |-> c.version + 1, cohort |-> @.cohort]]
    ELSE UNCHANGED team

(* A version compare-and-swap; a lost race ends in ErrVersionConflict. *)
UpdateTeam(c, leader) ==
  IF Exists(c.team) /\ team[c.team].version = c.version
    THEN /\ c.version < MaxVersion
         /\ team' = [team EXCEPT ![c.team] =
                        [leader |-> leader, version |-> c.version + 1, cohort |-> @.cohort]]
    ELSE UNCHANGED team
----------------------------------------------------------------------------
(* A team and its first member, the leader, in one transaction. *)
CreateTeam(t, s) ==
  /\ team[t] = None
  /\ team' = [team EXCEPT ![t] = [leader |-> s, version |-> 0, cohort |-> Cohort[s]]]
  /\ member' = [member EXCEPT ![t] = {s}]
  /\ UNCHANGED <<group, started, call, begun>>

BeginRename(p, t, s) ==
  /\ leaderTeam(t, s)
  /\ Begin(p, "rename", t, s, s)
  /\ UNCHANGED <<team, member, group, started>>

BeginAddMember(p, t, s, x) ==
  /\ leaderTeam(t, s)
  /\ Begin(p, "add", t, s, x)
  /\ UNCHANGED <<team, member, group, started>>

BeginRemoveMember(p, t, s, x) ==
  /\ leaderTeam(t, s) /\ x # s
  /\ Begin(p, "remove", t, s, x)
  /\ UNCHANGED <<team, member, group, started>>

(* A member who leaves is not checked to be one: the delete decides. *)
BeginLeave(p, t, s) ==
  /\ Exists(t) /\ team[t].leader # s
  /\ Begin(p, "remove", t, s, s)
  /\ UNCHANGED <<team, member, group, started>>

BeginTransfer(p, t, s, x) ==
  /\ leaderTeam(t, s) /\ x \in member[t]
  /\ Begin(p, "transfer", t, s, x)
  /\ UNCHANGED <<team, member, group, started>>

BeginDelete(p, t, s) ==
  /\ leaderTeam(t, s)
  /\ Begin(p, "delete", t, s, s)
  /\ UNCHANGED <<team, member, group, started>>

(* A rename and a transfer are the same statement: a rename carries the    *)
(* leader it read.                                                         *)
FinishUpdate(p) ==
  LET c == call[p] IN
  /\ c.op \in {"rename", "transfer"}
  /\ UpdateTeam(c, c.x)
  /\ End(p)
  /\ UNCHANGED <<member, group, started, begun>>

(* The insert of a member sees its guards in the snapshot it starts with.  *)
AddMemberGuard(c) ==
  /\ Exists(c.team)
  /\ Cardinality(member[c.team]) < MaxTeamMembers
  /\ Cohort[c.x] = team[c.team].cohort
  /\ ~ TeamHasSubmissions(c.team)

CheckAdd(p) ==
  LET c == call[p] IN
  /\ c.op = "add"
  /\ IF AddMemberGuard(c) THEN call' = [call EXCEPT ![p].op = "insert"] ELSE End(p)
  /\ UNCHANGED <<team, member, group, started, begun>>

(* The row appears; a duplicate is refused by the unique pair, a deleted   *)
(* team by the foreign key.                                                *)
InsertMember(p) ==
  LET c == call[p] IN
  /\ c.op = "insert"
  /\ member' = IF Exists(c.team)
               THEN [member EXCEPT ![c.team] = @ \cup {c.x}]
               ELSE member
  /\ End(p)
  /\ UNCHANGED <<team, group, started, begun>>

RemoveMember(p) ==
  LET c == call[p] IN
  /\ c.op = "remove"
  /\ member' = IF TeamHasSubmissions(c.team) THEN member
               ELSE [member EXCEPT ![c.team] = @ \ {c.x}]
  /\ End(p)
  /\ UNCHANGED <<team, group, started, begun>>

(* The rows that point at a deleted team go, and a group keeps its members *)
(* with no team to their name.                                             *)
Forget(t) ==
  /\ team' = [team EXCEPT ![t] = Gone]
  /\ member' = [member EXCEPT ![t] = {}]
  /\ group' = [g \in DOMAIN group |-> [group[g] EXCEPT !.rows =
                 {<<row[1], IF row[2] = t THEN None ELSE row[2]>> : row \in @}]]
=============================================================================
