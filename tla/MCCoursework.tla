---------------------------- MODULE MCCoursework ----------------------------
(* What students hand in, what they ask and whom they work with, in four      *)
(* parts of which one is in motion: coursework (Coursework), the question     *)
(* board (QABoard), teams and their project (ProjectGroups), and the merge    *)
(* plan of longer lists of teams (MergePlan).                                 *)
EXTENDS Coursework, MergePlan, TLC

CONSTANTS Questions, NoFile, NotYet, None, Gone,
          Enrolled, Cohort, Limits, MaxTeamMembers,  \* of Teamwork
          MaxEdits,    \* bound: edits of a question
          MaxLinks,    \* bound: counts of a file
          MaxRenames,  \* bound: versions of a team
          MaxGroups,   \* bound: groups formed
          MaxTime,     \* bound: the clock of the project
          MaxSeeds,    \* bound: teams in a plan
          MaxSize      \* bound: the largest maximum of a plan

VARIABLES questions, asked, answers, rejections, counts, boardCalls, outdated

boardVars == <<questions, asked, answers, rejections, counts, boardCalls, outdated>>

Board == INSTANCE QABoard WITH
  Calls <- Proc, Files <- File, links <- counts, calls <- boardCalls, overtaken <- outdated,
  MaxVersion <- MaxEdits

ASSUME BoardAssumption == Board!BoardAssumption

VARIABLES project, regs, team, member, group, started, teamCall, teamBegun, act, clock, twice
VARIABLES seeds, lo, hi, target

projectVars == <<project, regs, team, member, group, started, teamCall, teamBegun, act, clock, twice>>
planVars == <<seeds, lo, hi, target>>

\* With works for students and files for teams: two and two, as interchangeable.
SameCohort == [s \in Work |-> 1]
Bounds == {[lo |-> 1, hi |-> 1, target |-> 0], [lo |-> 2, hi |-> 2, target |-> 2]}

Teamwork == INSTANCE ProjectGroups WITH
  Student <- Work, Team <- File, MaxVersion <- MaxRenames,
  call <- teamCall, begun <- teamBegun

ASSUME TeamAssumption == Teamwork!GroupAssumption

ASSUME PlanAssumption == MaxSize \in Nat

\* Every list of seeds up to MaxSeeds teams, under every choice of bounds.
PlanInit ==
  /\ lo \in 2..MaxSize /\ hi \in lo..MaxSize /\ target \in lo..hi
  /\ seeds = <<>>

PlanNext ==
  /\ Len(seeds) < MaxSeeds
  /\ \E n \in 1..(lo - 1) : seeds' = Append(seeds, [team |-> Len(seeds) + 1, size |-> n])
  /\ UNCHANGED <<lo, hi, target>>

-----------------------------------------------------------------------------
VARIABLE part

(* Works, files and requests are interchangeable, in every part. *)
Symmetric == Permutations(Work) \cup Permutations(Proc) \cup Permutations(File)

NoTeams ==
  /\ team = [t \in File |-> Gone] /\ member = [t \in File |-> {}]
  /\ group = <<>> /\ started = {} /\ regs = <<>> /\ project = None
  /\ teamCall = [p \in Proc |-> Teamwork!NoCall] /\ act = [p \in Proc |-> None]
  /\ teamBegun = MaxRequests /\ clock = 0 /\ twice = FALSE
NoPlan == seeds = <<>> /\ lo = 1 /\ hi = 1 /\ target = 1

MCInit ==
  /\ Board!Init /\ Init
  /\ \/ part = "coursework" /\ NoTeams /\ NoPlan
     \/ part = "board" /\ kind = "assignment" /\ NoTeams /\ NoPlan
     \/ part = "teams" /\ kind = "assignment" /\ Teamwork!Init /\ NoPlan
     \/ part = "plan" /\ kind = "assignment" /\ NoTeams /\ PlanInit

\* A third request only comes to a project of pairs.
ThirdToPairs == IF teamBegun' < 3 \/ project' = None THEN TRUE ELSE project'.lo = 2

MCNext ==
  /\ UNCHANGED part
  /\ \/ part = "coursework" /\ Next /\ UNCHANGED <<boardVars, projectVars, planVars>>
     \/ part = "board" /\ Board!Next /\ UNCHANGED <<vars, projectVars, planVars>>
     \/ part = "teams" /\ Teamwork!Next /\ ThirdToPairs /\ UNCHANGED <<vars, boardVars, planVars>>
     \/ part = "plan" /\ PlanNext /\ UNCHANGED <<vars, boardVars, projectVars>>

MCSpec == MCInit /\ [][MCNext]_<<part, vars, boardVars, projectVars, planVars>>

-----------------------------------------------------------------------------
(* What the board shows is there: an answered question has its answer, a    *)
(* rejected one its reason, and every file is counted for each row that     *)
(* names it (QABoard, of postgres/qa.go).                                   *)
BoardAddsUp == Board!BoardAddsUp

(* A teacher's decision is taken back only by an author who has seen it,    *)
(* unless it was made under an edit already on its way (QABoard, of qa.go). *)
DecisionsStandUnlessOvertaken == Board!DecisionsStandUnlessOvertaken

(* Leadership changes only by the hand of the leader of that moment (Teams, *)
(* of team.go:252-273).                                                     *)
OnlyTheLeaderHandsOver == Teamwork!OnlyTheLeaderHandsOver

(* A team is frozen into one group, unless two formings overlapped          *)
(* (ProjectGroups, of postgres/project.go:207-306).                         *)
FrozenOnceUnlessTwice == Teamwork!FrozenOnceUnlessTwice

(* Formed groups are within the bounds and from teams still registered      *)
(* (ProjectGroups, of postgres/project.go:207-306).                         *)
FormedGroupsAreSound == Teamwork!FormedGroupsAreSound

Plan == PlanMerge(seeds, lo, hi, target)

(* Every merged group is of a legal size, and every team is in exactly one *)
(* group or in the list handed back (project.go:186).                      *)
PlanIsWhole ==
  LET placed == FlattenSeq(Plan.groups) \o Plan.unmerged
  IN  /\ \A i \in 1..Len(Plan.groups) : GroupSize(Plan.groups[i]) \in lo..hi
      /\ Len(placed) = Len(seeds)
      /\ ToSet(placed) = ToSet(seeds)
=============================================================================
