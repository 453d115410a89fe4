------------------------------- MODULE HandIn -------------------------------
(***************************************************************************)
(* What a piece of graded work promises, whether a student's answer to an  *)
(* assignment or a group's to a project: a draft may be replaced or thrown *)
(* away; once handed in it stays as it is; grades fall on work handed in;  *)
(* and work disappears only with the assignment or project it answers.     *)
(***************************************************************************)
CONSTANTS Item,    \* the pieces of work
          Paper,   \* what can be handed in
          Mark,    \* grades
          Nothing  \* neither work nor a grade

VARIABLES paper,   \* what is in each item, Nothing before the first save
          handed,  \* the items handed in
          mark,    \* the grade of each item
          open     \* the assignment or project exists

vars == <<paper, handed, mark, open>>

Init ==
  /\ paper = [i \in Item |-> Nothing] /\ handed = {}
  /\ mark = [i \in Item |-> Nothing] /\ open = TRUE

Save(i) ==
  /\ open /\ i \notin handed
  /\ \E p \in Paper : paper' = [paper EXCEPT ![i] = p]
  /\ UNCHANGED <<handed, mark, open>>

Discard(i) ==
  /\ open /\ i \notin handed
  /\ paper' = [paper EXCEPT ![i] = Nothing]
  /\ UNCHANGED <<handed, mark, open>>

Hand(i) ==
  /\ open /\ paper[i] # Nothing /\ i \notin handed
  /\ handed' = handed \cup {i}
  /\ UNCHANGED <<paper, mark, open>>

Grade(i) ==
  /\ open /\ i \in handed
  /\ \E m \in Mark : mark' = [mark EXCEPT ![i] = m]
  /\ UNCHANGED <<paper, handed, open>>

Close ==
  /\ open' = FALSE
  /\ paper' = [i \in Item |-> Nothing] /\ handed' = {}
  /\ mark' = [i \in Item |-> Nothing]

Next == Close \/ \E i \in Item : Save(i) \/ Discard(i) \/ Hand(i) \/ Grade(i)

Spec == Init /\ [][Next]_vars
=============================================================================
