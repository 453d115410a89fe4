--------------------------- MODULE ProjectGroups ---------------------------
(***************************************************************************)
(* Teams register for a project and are frozen into its graded groups:     *)
(* internal/classroom/project.go and its repository, over the team tables  *)
(* of Teams.  One project; what its groups hand in is in Coursework, and   *)
(* here a draft is only the row that locks a team.                         *)
(***************************************************************************)
EXTENDS Teams, MergePlan

CONSTANTS Enrolled,    \* the students enrolled in the offering
          Limits,      \* the bounds edits try: records lo, hi, target (0 for none)
          MaxGroups,   \* bound: groups formed
          MaxTime      \* bound: the clock

VARIABLES project,   \* projects: bounds, deadline, published; None once deleted
          regs,      \* project_registrations in the order of registered_at
          act,       \* the project request each process serves, or None
          clock,
          twice      \* history: a forming read while another was under way

vars == <<team, member, group, started, call, begun, project, regs, act, clock, twice>>
teamVars == <<team, member, group, started, call, begun>>

Reg == [team : Team, size : 0..Cardinality(Student), leader : Student]
ProjectRow == [lo : Nat, hi : Nat, target : Nat, deadline : 0..MaxTime, published : BOOLEAN]

TypeOK ==
  /\ \A t \in Team : team[t] \in TeamRow \cup {None, Gone}
  /\ member \in [Team -> SUBSET Student]
  /\ call \in [Proc -> CallRow]
  /\ \A g \in DOMAIN group : group[g] \in GroupRow
  /\ started \subseteq DOMAIN group
  /\ project = None \/ project \in ProjectRow
  /\ ToSet(regs) \subseteq Team /\ IsInjective(regs)
  /\ clock \in 0..MaxTime /\ twice \in BOOLEAN

GroupAssumption ==
  /\ TeamAssumption
  /\ IsFiniteSet(Student) /\ IsFiniteSet(Team) /\ None \notin Team
  /\ Limits \subseteq [lo : Nat, hi : Nat, target : Nat]

(* The bounds a project is created with and an edit may leave it with. *)
ValidBounds(b) ==
  b.lo >= 1 /\ b.lo <= b.hi /\ (b.target # 0 => b.target \in b.lo..b.hi)

(* Teams may have registered, and changed since. *)
Init ==
  /\ TeamInit
  /\ group = <<>> /\ started = {}
  /\ \E b \in Limits, d \in 0..MaxTime :
       /\ ValidBounds(b)
       /\ project = [lo |-> b.lo, hi |-> b.hi, target |-> b.target, deadline |-> d, published |-> TRUE]
  /\ regs \in SetToAllKPermutations({t \in Team : Exists(t)})
  /\ act = [p \in Proc |-> None]
  /\ clock = 0 /\ twice = FALSE

Free(p) == Idle(p) /\ act[p] = None
Done(p) == act' = [act EXCEPT ![p] = None]

RegistrationOpen(now) == now <= project.deadline
TeamSizeFits(size, lo, hi) == size \in lo..hi
AllEnrolled(students) == students # {} /\ students \subseteq Enrolled
Registered(t) == t \in ToSet(regs)
Drop(t) == Only(regs, ToSet(regs) \ {t})

(* The registration rows a forming holds with FOR UPDATE. *)
RowLocked(t) ==
  \E p \in Proc : /\ act[p] # None /\ act[p].op = "freeze"
                  /\ \E i \in DOMAIN act[p].regs : act[p].regs[i].team = t
----------------------------------------------------------------------------
(* An edit swaps the version it read: one that lost a race changes         *)
(* nothing, one that won is as if it had read and written at once.         *)
UpdateProject ==
  /\ project # None
  /\ \E b \in Limits, d \in 0..MaxTime, pub \in BOOLEAN :
       /\ ValidBounds(b)
       /\ project' = [lo |-> b.lo, hi |-> b.hi, target |-> b.target, deadline |-> d, published |-> pub]
  /\ UNCHANGED <<teamVars, regs, act, clock, twice>>

(* Registrations, groups and submissions go with the project. *)
DeleteProject ==
  /\ project # None
  /\ \A t \in Team : ~ RowLocked(t)
  /\ project' = None /\ regs' = <<>> /\ group' = <<>> /\ started' = {}
  /\ UNCHANGED <<team, member, call, begun, act, clock, twice>>

BeginRegister(p, t, s) ==
  /\ Free(p) /\ Request /\ project # None
  /\ project.published /\ RegistrationOpen(clock)
  /\ leaderTeam(t, s)
  /\ TeamSizeFits(Cardinality(member[t]), project.lo, project.hi)
  /\ AllEnrolled(member[t])
  /\ act' = [act EXCEPT ![p] = [op |-> "register", team |-> t, lo |-> project.lo,
                                hi |-> project.hi, at |-> clock]]
  /\ UNCHANGED <<team, member, group, started, call, project, regs, clock, twice>>

(* The insert compares the deadline with the time the request began. *)
InsertRegistration(p) ==
  LET r == act[p] IN
  /\ r # None /\ r.op = "register"
  /\ regs' = IF /\ project # None /\ RegistrationOpen(r.at)
                /\ Cardinality(member[r.team]) \in r.lo..r.hi
                /\ Exists(r.team) /\ ~ Registered(r.team)
               THEN Append(regs, r.team) ELSE regs
  /\ Done(p)
  /\ UNCHANGED <<teamVars, project, clock, twice>>

BeginUnregister(p, t, s) ==
  /\ Free(p) /\ Request /\ project # None
  /\ RegistrationOpen(clock) /\ leaderTeam(t, s)
  /\ act' = [act EXCEPT ![p] = [op |-> "unregister", team |-> t]]
  /\ UNCHANGED <<team, member, group, started, call, project, regs, clock, twice>>

(* Mutant: the forming takes no row locks. *)
DeleteAtOnce(p) ==
  LET r == act[p] IN
  /\ r # None /\ r.op = "unregister"
  /\ regs' = Drop(r.team)
  /\ Done(p)
  /\ UNCHANGED <<teamVars, project, clock, twice>>

(* The delete waits for a forming that holds the row. *)
DeleteRegistration(p) ==
  LET r == act[p] IN
  /\ r # None /\ r.op = "unregister"
  /\ ~ RowLocked(r.team)
  /\ regs' = Drop(r.team)
  /\ Done(p)
  /\ UNCHANGED <<teamVars, project, clock, twice>>
----------------------------------------------------------------------------
Frozen(t) == \E g \in DOMAIN group : \E row \in group[g].rows : row[2] = t

(* Mutant: registrations a group was frozen from are read again. *)
AllRegs ==
  [i \in DOMAIN regs |-> [team |-> regs[i], size |-> Cardinality(member[regs[i]]),
                          leader |-> team[regs[i]].leader]]

(* FormGroups reads the project, then the registrations no group was       *)
(* frozen from, with each team's size and leader, in one snapshot.         *)
UnfrozenRegs ==
  LET open == Only(regs, {t \in Team : ~ Frozen(t)})
  IN  [i \in DOMAIN open |-> [team |-> open[i], size |-> Cardinality(member[open[i]]),
                              leader |-> team[open[i]].leader]]

BeginFormGroups(p) ==
  /\ Free(p) /\ Request /\ project # None
  /\ act' = [act EXCEPT ![p] = [op |-> "lock", regs |-> UnfrozenRegs, lo |-> project.lo,
                                hi |-> project.hi, target |-> project.target]]
  /\ twice' = (twice \/ \E q \in Proc : act[q] # None /\ act[q].op \in {"lock", "freeze"})
  /\ UNCHANGED <<team, member, group, started, call, project, regs, clock>>

(* FOR UPDATE waits for the other forming; a row deleted meanwhile is      *)
(* skipped, a row merely released is kept although it is frozen by now.    *)
LockRegs(p) ==
  LET f == act[p] IN
  /\ f # None /\ f.op = "lock"
  /\ \A i \in DOMAIN f.regs : ~ RowLocked(f.regs[i].team)
  /\ act' = [act EXCEPT ![p].op = "freeze",
                        ![p].regs = Only(f.regs, {r \in ToSet(f.regs) : Registered(r.team)})]
  /\ UNCHANGED <<teamVars, project, regs, clock, twice>>

(* A group takes over its teams' members as they are now, and the leader   *)
(* of the first largest of them as it was read.                            *)
NewGroup(seeds) ==
  LET first == CHOOSE i \in DOMAIN seeds : \A j \in DOMAIN seeds :
                 seeds[j].size < seeds[i].size \/ (seeds[j].size = seeds[i].size /\ i <= j)
  IN  [leader |-> seeds[first].leader,
       rows |-> UNION {{<<s, r.team>> : s \in member[r.team]} : r \in ToSet(seeds)}]

(* Mutant: a team over the maximum gets a group of its own. *)
GroupsUncapped(f) ==
  LET fitting == Only(f.regs, {r \in ToSet(f.regs) : r.size >= f.lo})
  IN  [i \in DOMAIN fitting |-> NewGroup(<<fitting[i]>>)]

(* Fitting teams one by one, then the small ones merged. *)
NewGroups(f) ==
  LET fitting == Only(f.regs, {r \in ToSet(f.regs) : r.size \in f.lo..f.hi})
      small   == Only(f.regs, {r \in ToSet(f.regs) : r.size < f.lo})
      merged  == PlanMerge(small, f.lo, f.hi, IF f.target = 0 THEN f.lo ELSE f.target).groups
  IN  [i \in DOMAIN fitting |-> NewGroup(<<fitting[i]>>)] \o
      [i \in DOMAIN merged |-> NewGroup(merged[i])]

(* UNIQUE(project_group_id, student_id): teams that share a student cannot *)
(* be merged, and the whole transaction fails.                             *)
OneRowEach(g) == \A r1, r2 \in g.rows : r1[1] = r2[1] => r1 = r2

FreezeGroups(p) ==
  LET f == act[p] IN
  /\ f # None /\ f.op = "freeze"
  /\ Len(group) + Len(NewGroups(f)) <= MaxGroups
  /\ group' = IF /\ project # None
                 /\ \A i \in DOMAIN NewGroups(f) : OneRowEach(NewGroups(f)[i])
                THEN group \o NewGroups(f) ELSE group
  /\ Done(p)
  /\ UNCHANGED <<team, member, started, call, begun, project, regs, clock, twice>>

(* The first save of a group's leader creates the submission row. *)
FirstSave(g, s) ==
  /\ project # None
  /\ g \in DOMAIN group /\ group[g].leader = s
  /\ \E row \in group[g].rows : row[1] = s
  /\ started' = started \cup {g}
  /\ UNCHANGED <<team, member, group, call, begun, project, regs, act, clock, twice>>

DeleteTeam(p) ==
  LET t == call[p].team IN
  /\ call[p].op = "delete"
  /\ ~ RowLocked(t)
  /\ IF Exists(t) /\ ~ TeamHasSubmissions(t)
       THEN Forget(t) /\ regs' = Drop(t)
       ELSE UNCHANGED <<team, member, group, regs>>
  /\ End(p)
  /\ UNCHANGED <<started, begun, project, act, clock, twice>>

Tick ==
  /\ clock < MaxTime
  /\ clock' = clock + 1
  /\ UNCHANGED <<teamVars, project, regs, act, twice>>

TeamStep ==
  /\ \/ \E t \in Team, s \in Student : CreateTeam(t, s)
     \/ \E p \in Proc : act[p] = None /\ \E t \in Team, s \in Student :
          \/ BeginRename(p, t, s) \/ BeginLeave(p, t, s) \/ BeginDelete(p, t, s)
          \/ \E x \in Student :
               BeginAddMember(p, t, s, x) \/ BeginRemoveMember(p, t, s, x) \/ BeginTransfer(p, t, s, x)
     \/ \E p \in Proc : FinishUpdate(p) \/ CheckAdd(p) \/ InsertMember(p) \/ RemoveMember(p)
  /\ UNCHANGED <<project, regs, act, clock, twice>>

Next ==
  \/ TeamStep \/ UpdateProject \/ DeleteProject \/ Tick
  \/ \E p \in Proc : \/ DeleteTeam(p) \/ InsertRegistration(p) \/ DeleteRegistration(p)
                     \/ BeginFormGroups(p) \/ LockRegs(p) \/ FreezeGroups(p)
                     \/ \E t \in Team, s \in Student : BeginRegister(p, t, s) \/ BeginUnregister(p, t, s)
  \/ \E g \in 1..MaxGroups, s \in Student : FirstSave(g, s)

Spec == Init /\ [][Next]_vars
----------------------------------------------------------------------------
(* Leadership is handed over by the leader of the moment: a rename that    *)
(* carries an old leader never undoes a transfer (team.go:187, 247).       *)
OnlyTheLeaderHandsOver ==
  [][\A t \in Team : Exists(t) /\ Exists(t)' /\ team'[t].leader # team[t].leader =>
       \E p \in Proc : /\ call[p].op = "transfer" /\ call[p].team = t
                       /\ call[p].by = team[t].leader]_vars

FrozenOnce ==
  \A g, h \in DOMAIN group : \A row \in group[g].rows :
    row[2] # None /\ (\E other \in group[h].rows : other[2] = row[2]) => g = h

(* A team is frozen into one group however often groups are formed, as     *)
(* long as no forming begins while another runs (postgres/project.go:207). *)
FrozenOnceUnlessTwice ==
  twice \/ FrozenOnce

(* Membership is as the forming read it, and no student is in two teams.   *)
Unmoved(f) ==
  /\ \A i \in DOMAIN f.regs : LET r == f.regs[i] IN
       Cardinality(member[r.team]) = r.size /\ r.leader \in member[r.team]
  /\ \A i, j \in DOMAIN f.regs : i # j =>
       member[f.regs[i].team] \cap member[f.regs[j].team] = {}

FormsSoundly ==
  LET formed == DOMAIN group' \ DOMAIN group IN
  /\ \A g \in formed : \A row \in group'[g].rows : Registered(row[2])
  /\ \A p \in Proc : LET f == act[p] IN
       f # None /\ f.op = "freeze" /\ act'[p] = None /\ project # None /\ Unmoved(f) =>
         /\ \A g \in formed :
              /\ Cardinality(group'[g].rows) \in f.lo..f.hi
              /\ \E row \in group'[g].rows : row[1] = group'[g].leader
         /\ \A i \in DOMAIN f.regs : f.regs[i].size \in f.lo..f.hi =>
              \E g \in formed : \E row \in group'[g].rows : row[2] = f.regs[i].team

(* The groups a forming makes are sound.  Their teams did not withdraw: at *)
(* the step that freezes a team its registration still stands.  And unless *)
(* membership moved between the read and the freeze, groups are within the *)
(* bounds, every fitting team has one, and the leader of a group is a      *)
(* member who can hand in its work (postgres/project.go:213, 239).         *)
FormedGroupsAreSound ==
  [][FormsSoundly]_vars

(* Counterexample configurations: what the comments claim without the      *)
(* condition.  A team is never over its cap (team.go:88-92); its leader is *)
(* a member of it (team.go:242).                                           *)
NeverOverfilled == \A t \in Team : Cardinality(member[t]) <= MaxTeamMembers
LeaderIsMember == \A t \in Team : Exists(t) => team[t].leader \in member[t]
=============================================================================
