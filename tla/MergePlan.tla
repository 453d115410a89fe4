----------------------------- MODULE MergePlan -----------------------------
(***************************************************************************)
(* PlanMerge of the project service: how teams too small for a project are *)
(* packed into merged groups.  A seed is a record with a "size" field; a   *)
(* group is a sequence of seeds.                                           *)
(***************************************************************************)
EXTENDS Integers, Sequences, SequencesExt

(* The elements of a sequence that are in a set, in their order. *)
Only(seq, set) ==
  FoldLeft(LAMBDA kept, x : IF x \in set THEN Append(kept, x) ELSE kept, <<>>, seq)

(* The number of members of a group of seeds. *)
GroupSize(group) == FoldLeft(LAMBDA n, seed : n + seed.size, 0, group)

(* The stable sort by falling size; every seed is smaller than lo. *)
LargestFirst(seeds, lo) ==
  FlattenSeq([k \in 1..lo |-> Only(seeds, {seed \in ToSet(seeds) : seed.size = lo - k})])

Distance(a, b) == IF a < b THEN b - a ELSE a - b

(* A fill nearer to the target wins, then the smaller one. *)
BetterFill(candidate, current, target) ==
  \/ Distance(candidate, target) < Distance(current, target)
  \/ /\ Distance(candidate, target) = Distance(current, target)
     /\ candidate < current

(* One seed joins the group it brings closest to the target, if that group *)
(* is still below the target; otherwise it opens a group of its own.       *)
Place(groups, seed, hi, target) ==
  LET fill(i) == GroupSize(groups[i]) + seed.size
      room    == {i \in 1..Len(groups) : fill(i) <= hi}
      best    == CHOOSE i \in room : \A j \in room \ {i} :
                    \/ BetterFill(fill(i), fill(j), target)
                    \/ fill(i) = fill(j) /\ i < j
  IN  IF room # {} /\ GroupSize(groups[best]) < target
        THEN [groups EXCEPT ![best] = Append(@, seed)]
        ELSE Append(groups, <<seed>>)

(* Mutant: a group below the minimum folds into the first finished group. *)
FoldUnchecked(plan, group, lo, hi) ==
  CASE GroupSize(group) >= lo -> [plan EXCEPT !.groups = Append(@, group)]
    [] GroupSize(group) < lo /\ plan.groups # <<>> -> [plan EXCEPT !.groups[1] = @ \o group]
    [] OTHER -> [plan EXCEPT !.unmerged = @ \o group]

(* A group below the minimum folds into the first finished group with room *)
(* and stays unmerged when there is none.                                  *)
Fold(plan, group, lo, hi) ==
  LET room  == {i \in 1..Len(plan.groups) : GroupSize(plan.groups[i]) + GroupSize(group) <= hi}
      first == CHOOSE i \in room : \A j \in room : i <= j
  IN  CASE GroupSize(group) >= lo -> [plan EXCEPT !.groups = Append(@, group)]
        [] GroupSize(group) < lo /\ room # {} -> [plan EXCEPT !.groups[first] = @ \o group]
        [] OTHER -> [plan EXCEPT !.unmerged = @ \o group]

(* The groups of a plan and the seeds left over. *)
PlanMerge(seeds, lo, hi, wanted) ==
  LET target == IF wanted \in lo..hi THEN wanted ELSE lo
      packed == FoldLeft(LAMBDA groups, seed : Place(groups, seed, hi, target),
                         <<>>, LargestFirst(seeds, lo))
  IN  FoldLeft(LAMBDA plan, group : Fold(plan, group, lo, hi),
               [groups |-> <<>>, unmerged |-> <<>>], packed)
=============================================================================
