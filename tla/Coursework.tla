----------------------------- MODULE Coursework -----------------------------
(***************************************************************************)
(* Graded work and its files: assignments (internal/classroom/             *)
(* assignment.go) and what the groups of a project hand in (project.go),   *)
(* over the counts of the file store.  One assignment or one project with  *)
(* its works.  A request is a chain of statements; files are counted one   *)
(* by one before the row that refers to them and uncounted after it is     *)
(* gone, and any of these calls may fail or be cut off by a crash.         *)
(***************************************************************************)
EXTENDS Integers, FiniteSets

CONSTANTS Work,       \* students of the assignment, groups of the project
          File,       \* uploads
          Text,       \* what can be written, Nothing included
          MaxScores,  \* the maximum scores edits try
          Proc, Nothing,
          MaxRequests,  \* bound: requests
          MaxFaults     \* bound: crashes and failed calls

VARIABLES kind,      \* "assignment" or "project"
          parent,    \* its row: maximum score and window; Nothing once deleted
          row,       \* the submission of each work
          attached,  \* the files attached to the parent
          links,     \* inodes.link_count
          receipt,   \* the uploads whose receipt is kept, itself one link
          call, begun,
          faults,
          overtaken  \* history: a delete ran on a list of files out of date

vars == <<kind, parent, row, attached, links, receipt, call, begun, faults, overtaken>>
store == <<parent, row, attached>>
rest == <<kind, begun>>

Windows == {"unpublished", "open", "closed"}
ParentRow == [max : MaxScores, window : Windows]
Score == 1..3
SubmissionRow == [text : Text, files : SUBSET File, submitted : BOOLEAN, grade : Score \cup {Nothing}]
Refs == (Work \cup {Nothing}) \X File  \* who refers, Nothing for the parent, and to what
CallRow == [op : {"none", "draft", "attach", "uncount", "check", "submit",
                  "discard", "delete", "grade", "upsert"},
            work : Work \cup {Nothing}, text : Text, files : SUBSET File,
            left : SUBSET Refs, score : Score \cup {Nothing}]

ASSUME ScoresAssumption == MaxScores \subseteq Nat
ASSUME FiniteAssumption == IsFiniteSet(Work) /\ IsFiniteSet(Proc)
ASSUME NothingAssumption ==
  /\ Nothing \in Text
  /\ Nothing \notin Work \cup Score \cup ParentRow \cup SubmissionRow
  /\ Nothing \notin [text : Text, files : SUBSET File]

Call(op, w, text, files, left, score) ==
  [op |-> op, work |-> w, text |-> text, files |-> files, left |-> left, score |-> score]
Submission(text, files, submitted, grade) ==
  [text |-> text, files |-> files, submitted |-> submitted, grade |-> grade]
NoCall == Call("none", Nothing, Nothing, {}, {}, Nothing)

TypeOK ==
  /\ kind \in {"assignment", "project"}
  /\ parent \in ParentRow \cup {Nothing}
  /\ row \in [Work -> SubmissionRow \cup {Nothing}]
  /\ attached \subseteq File /\ receipt \subseteq File
  /\ links \in [File -> Nat]
  /\ call \in [Proc -> CallRow]
  /\ overtaken \in BOOLEAN

Init ==
  /\ kind \in {"assignment", "project"}
  /\ parent \in [max : MaxScores, window : {"open"}]
  /\ row = [w \in Work |-> Nothing] /\ attached = {}
  /\ receipt = File /\ links = [f \in File |-> 1]
  /\ call = [p \in Proc |-> NoCall] /\ begun = 0 /\ faults = 0
  /\ overtaken = FALSE

Begin(p, c) ==
  /\ call[p] = NoCall /\ begun < MaxRequests
  /\ begun' = begun + 1
  /\ call' = [call EXCEPT ![p] = c]
Goes(p, op, left) ==
  call' = [call EXCEPT ![p] = Call(op, @.work, @.text, @.files, left, @.score)]
End(p) == call' = [call EXCEPT ![p] = NoCall]
Fault == faults < MaxFaults /\ faults' = faults + 1
Of(w, files) == {w} \X files

Published == parent.window # "unpublished"
CanSubmitWork == parent.window # "closed"
CanEditDraft == CanSubmitWork
HasWork(text, files) == text # Nothing \/ files # {}
ValidScore(score) == score <= parent.max
----------------------------------------------------------------------------
(* Time passes, and edits swap the version they read: the window moves to  *)
(* anywhere; the maximum score changes under grades given before.          *)
Update ==
  /\ parent # Nothing
  /\ parent' \in ParentRow
  /\ UNCHANGED <<rest, row, attached, links, receipt, call, faults, overtaken>>

(* The receipt of an upload expires, and its link with it; the CHECK on    *)
(* the count would refuse a negative one.                                  *)
ExpireReceipt(f) ==
  /\ f \in receipt /\ links[f] >= 1
  /\ receipt' = receipt \ {f}
  /\ links' = [links EXCEPT ![f] = @ - 1]
  /\ UNCHANGED <<rest, store, call, faults, overtaken>>

(* resolveUploads: only uploads whose receipt is kept. *)
Resolved(files) == files \subseteq receipt

BeginSave(p, w, text, files) ==
  /\ parent # Nothing
  /\ Resolved(files)
  /\ Begin(p, Call("draft", w, text, files, Of(w, files), Nothing))
  /\ UNCHANGED <<kind, store, links, receipt, faults, overtaken>>

(* A student's draft is saved while the window is open; a group's, by its  *)
(* leader, at any time.                                                    *)
BeginSaveDraft(p, w, text, files) ==
  /\ kind = "assignment" /\ parent # Nothing
  /\ Published /\ CanEditDraft
  /\ BeginSave(p, w, text, files)

BeginSaveSubmission(p, w, text, files) ==
  /\ kind = "project"
  /\ BeginSave(p, w, text, files)

(* The files of a parent are a set: no file is attached twice. *)
BeginAttach(p, f) ==
  /\ parent # Nothing
  /\ Resolved({f}) /\ f \notin attached
  /\ \A q \in Proc : ~ (call[q].op = "attach" /\ f \in call[q].files)
  /\ Begin(p, Call("attach", Nothing, Nothing, {f}, Of(Nothing, {f}), Nothing))
  /\ UNCHANGED <<kind, store, links, receipt, faults, overtaken>>

(* linkAll: a count that reached zero refuses the link. *)
LinkFile(p) ==
  LET c == call[p] IN
  /\ c.op \in {"draft", "attach"}
  /\ \E r \in c.left : LET f == r[2] IN
       /\ links[f] >= 1
       /\ links' = [links EXCEPT ![f] = @ + 1]
       /\ Goes(p, c.op, c.left \ {r})
  /\ UNCHANGED <<rest, store, receipt, faults, overtaken>>

(* Mutant: every file is taken back, counted or not. *)
LinkFailsAll(p) ==
  LET c == call[p] IN
  /\ c.op \in {"draft", "attach"}
  /\ \E r \in c.left : \/ links[r[2]] = 0 /\ UNCHANGED faults
                       \/ Fault
  /\ Goes(p, "uncount", Of(c.work, c.files))
  /\ UNCHANGED <<rest, store, links, receipt, overtaken>>

(* A link fails: those already made are taken back. *)
LinkFails(p) ==
  LET c == call[p] IN
  /\ c.op \in {"draft", "attach"}
  /\ \E r \in c.left : \/ links[r[2]] = 0 /\ UNCHANGED faults
                       \/ Fault
  /\ Goes(p, "uncount", Of(c.work, c.files) \ c.left)
  /\ UNCHANGED <<rest, store, links, receipt, overtaken>>

(* Mutant: the upsert has no WHERE. *)
NeverRefused(w) == parent = Nothing

(* The work past its draft refuses the upsert; without its parent, the     *)
(* foreign key does.                                                       *)
PastDraft(w) == row[w] # Nothing /\ (row[w].submitted \/ row[w].grade # Nothing)
HandedInByGroup(w) == row[w] # Nothing /\ row[w].submitted
Refused(w) ==
  \/ parent = Nothing
  \/ kind = "assignment" /\ PastDraft(w)
  \/ kind = "project" /\ HandedInByGroup(w)

(* Mutant: a refused save forgets the files it counted. *)
SaveDraftLeaking(p) ==
  LET c == call[p] IN
  /\ c.op = "draft" /\ c.left = {}
  /\ row' = IF Refused(c.work) THEN row
            ELSE [row EXCEPT ![c.work] = Submission(c.text, c.files, FALSE, Nothing)]
  /\ Goes(p, "uncount", IF Refused(c.work) \/ row[c.work] = Nothing THEN {}
                         ELSE Of(c.work, row[c.work].files))
  /\ UNCHANGED <<rest, parent, attached, links, receipt, faults, overtaken>>

SaveDraft(p) ==
  LET c == call[p] IN
  /\ c.op = "draft" /\ c.left = {}
  /\ IF Refused(c.work)
       THEN /\ Goes(p, "uncount", Of(c.work, c.files))
            /\ UNCHANGED row
       ELSE /\ row' = [row EXCEPT ![c.work] = Submission(c.text, c.files, FALSE, Nothing)]
            /\ Goes(p, "uncount", IF row[c.work] = Nothing THEN {}
                                   ELSE Of(c.work, row[c.work].files))
  /\ UNCHANGED <<rest, parent, attached, links, receipt, faults, overtaken>>

CreateAttachment(p) ==
  LET c == call[p] IN
  /\ c.op = "attach" /\ c.left = {}
  /\ IF parent = Nothing
       THEN /\ Goes(p, "uncount", Of(Nothing, c.files))
            /\ UNCHANGED attached
       ELSE attached' = attached \cup c.files /\ End(p)
  /\ UNCHANGED <<rest, parent, row, links, receipt, faults, overtaken>>

(* Detach: the row and what it referred to, in one statement. *)
Detach(p, f) ==
  /\ parent # Nothing /\ f \in attached
  /\ attached' = attached \ {f}
  /\ Begin(p, Call("uncount", Nothing, Nothing, {}, Of(Nothing, {f}), Nothing))
  /\ UNCHANGED <<kind, parent, row, links, receipt, faults, overtaken>>

(* Mutant: the count has no floor. *)
UnlinkBelowZero(p) ==
  LET c == call[p] IN
  /\ c.op = "uncount"
  /\ \E r \in c.left : LET f == r[2] IN
       /\ \/ links' = [links EXCEPT ![f] = @ - 1] /\ UNCHANGED faults
          \/ Fault /\ UNCHANGED links
       /\ Goes(p, c.op, c.left \ {r})
  /\ UNCHANGED <<rest, store, receipt, overtaken>>

(* unlinkLogged: a failure is logged and leaves one count too many. *)
UnlinkFile(p) ==
  LET c == call[p] IN
  /\ c.op = "uncount"
  /\ \E r \in c.left : LET f == r[2] IN
       /\ \/ links' = [links EXCEPT ![f] = IF @ >= 1 THEN @ - 1 ELSE @] /\ UNCHANGED faults
          \/ Fault /\ UNCHANGED links
       /\ Goes(p, c.op, c.left \ {r})
  /\ UNCHANGED <<rest, store, receipt, overtaken>>

Done(p) ==
  /\ call[p].op = "uncount" /\ call[p].left = {}
  /\ End(p)
  /\ UNCHANGED <<rest, store, links, receipt, faults, overtaken>>
----------------------------------------------------------------------------
(* Submit reads the row, then its files, then stamps it. *)
ReadToSubmit(p, w) ==
  /\ row[w] # Nothing
  /\ Begin(p, Call("check", w, row[w].text, {}, {}, Nothing))
  /\ UNCHANGED <<kind, store, links, receipt, faults, overtaken>>

BeginSubmit(p, w) ==
  /\ kind = "assignment" /\ parent # Nothing /\ CanSubmitWork
  /\ ReadToSubmit(p, w)

(* A group's work is handed in by its leader. *)
BeginSubmitGroup(p, w) ==
  /\ kind = "project" /\ parent # Nothing /\ CanSubmitWork
  /\ ReadToSubmit(p, w)

CheckWork(p) ==
  LET c == call[p]
      files == IF row[c.work] = Nothing THEN {} ELSE row[c.work].files
  IN
  /\ c.op = "check"
  /\ IF HasWork(c.text, files) THEN Goes(p, "submit", {}) ELSE End(p)
  /\ UNCHANGED <<rest, store, links, receipt, faults, overtaken>>

SubmitDraft(p) ==
  LET w == call[p].work IN
  /\ call[p].op = "submit"
  /\ row' = IF row[w] # Nothing /\ ~ row[w].submitted
            THEN [row EXCEPT ![w] = Submission(@.text, @.files, TRUE, @.grade)] ELSE row
  /\ End(p)
  /\ UNCHANGED <<rest, parent, attached, links, receipt, faults, overtaken>>

(* Discard lists the files of the draft, then deletes it. *)
BeginDiscard(p, w) ==
  /\ kind = "assignment" /\ parent # Nothing
  /\ row[w] # Nothing
  /\ Begin(p, Call("discard", w, Nothing, {}, Of(w, row[w].files), Nothing))
  /\ UNCHANGED <<kind, store, links, receipt, faults, overtaken>>

DiscardDraft(p) ==
  LET c == call[p] IN
  /\ c.op = "discard"
  /\ IF row[c.work] # Nothing /\ ~ row[c.work].submitted
       THEN /\ row' = [row EXCEPT ![c.work] = Nothing]
            /\ Goes(p, "uncount", c.left)
            /\ overtaken' = (overtaken \/ c.left # Of(c.work, row[c.work].files))
       ELSE End(p) /\ UNCHANGED <<row, overtaken>>
  /\ UNCHANGED <<rest, parent, attached, links, receipt, faults>>

(* The whole assignment or project, its list of files read first. *)
Referred ==
  Of(Nothing, attached) \cup UNION {Of(w, row[w].files) : w \in {v \in Work : row[v] # Nothing}}

BeginDelete(p) ==
  /\ parent # Nothing
  /\ Begin(p, Call("delete", Nothing, Nothing, {}, Referred, Nothing))
  /\ UNCHANGED <<kind, store, links, receipt, faults, overtaken>>

DeleteParent(p) ==
  LET c == call[p] IN
  /\ c.op = "delete"
  /\ IF parent # Nothing
       THEN /\ parent' = Nothing /\ row' = [w \in Work |-> Nothing] /\ attached' = {}
            /\ Goes(p, "uncount", c.left)
            /\ overtaken' = (overtaken \/ c.left # Referred)
       ELSE End(p) /\ UNCHANGED <<store, overtaken>>
  /\ UNCHANGED <<rest, links, receipt, faults>>

(* The score is checked against the maximum as read; a project's grade     *)
(* also against a submission handed in, as read.                           *)
BeginGrade(p, w, score) ==
  /\ kind = "assignment" /\ parent # Nothing /\ ValidScore(score)
  /\ Begin(p, Call("grade", w, Nothing, {}, {}, score))
  /\ UNCHANGED <<kind, store, links, receipt, faults, overtaken>>

BeginGradeMember(p, w, score) ==
  /\ kind = "project" /\ parent # Nothing /\ ValidScore(score)
  /\ row[w] # Nothing /\ row[w].submitted
  /\ Begin(p, Call("upsert", w, Nothing, {}, {}, score))
  /\ UNCHANGED <<kind, store, links, receipt, faults, overtaken>>

Graded(w, score) == row' = [row EXCEPT ![w] = Submission(@.text, @.files, @.submitted, score)]

(* An assignment's UPDATE demands submitted_at. *)
GradeSubmission(p) ==
  LET c == call[p] IN
  /\ c.op = "grade"
  /\ IF row[c.work] # Nothing /\ row[c.work].submitted
       THEN Graded(c.work, c.score) ELSE UNCHANGED row
  /\ End(p)
  /\ UNCHANGED <<rest, parent, attached, links, receipt, faults, overtaken>>

(* A project's upsert demands only the row its foreign key names. *)
UpsertGrade(p) ==
  LET c == call[p] IN
  /\ c.op = "upsert"
  /\ IF row[c.work] # Nothing THEN Graded(c.work, c.score) ELSE UNCHANGED row
  /\ End(p)
  /\ UNCHANGED <<rest, parent, attached, links, receipt, faults, overtaken>>

(* The process dies: what its requests still had to do is lost. *)
Crash ==
  /\ \E p \in Proc : call[p] # NoCall
  /\ Fault
  /\ call' = [p \in Proc |-> NoCall]
  /\ UNCHANGED <<rest, store, links, receipt, overtaken>>

Next ==
  \/ Update \/ Crash
  \/ \E f \in File : ExpireReceipt(f)
  \/ \E p \in Proc :
       \/ LinkFile(p) \/ LinkFails(p) \/ SaveDraft(p) \/ CreateAttachment(p)
       \/ UnlinkFile(p) \/ Done(p) \/ CheckWork(p) \/ SubmitDraft(p) \/ DiscardDraft(p)
       \/ BeginDelete(p) \/ DeleteParent(p) \/ GradeSubmission(p) \/ UpsertGrade(p)
       \/ \E f \in File : BeginAttach(p, f) \/ Detach(p, f)
       \/ \E w \in Work :
            \/ BeginSubmit(p, w) \/ BeginSubmitGroup(p, w) \/ BeginDiscard(p, w)
            \/ \E text \in Text, files \in SUBSET File :
                 BeginSaveDraft(p, w, text, files) \/ BeginSaveSubmission(p, w, text, files)
            \/ \E score \in Score : BeginGrade(p, w, score) \/ BeginGradeMember(p, w, score)

Spec == Init /\ [][Next]_vars
----------------------------------------------------------------------------
References(f) ==
  Cardinality({w \in Work : row[w] # Nothing /\ f \in row[w].files})
  + (IF f \in attached THEN 1 ELSE 0) + (IF f \in receipt THEN 1 ELSE 0)

(* The counting law: no file is counted less than it is referred to, so    *)
(* none is reclaimed under a reference (files_reader.go:19).               *)
LinksCoverReferences == \A f \in File : links[f] >= References(f)

(* It holds, failures and crashes included, until a delete runs on a list  *)
(* of files a save has outdated; and with no failure and no such delete,   *)
(* every count is exact once the requests are done: nothing leaks, refused *)
(* and half-done ones included (postgres/assignment.go:223).               *)
LinksCoverUnlessOvertaken == overtaken \/ LinksCoverReferences
CountsSettle ==
  (\A p \in Proc : call[p] = NoCall) /\ faults = 0 /\ ~ overtaken =>
    \A f \in File : links[f] = References(f)
CountsAddUp == LinksCoverUnlessOvertaken /\ CountsSettle

(* Graded work keeps the promise of HandIn, whatever is in flight: what    *)
(* was handed in is neither changed nor thrown away, and only it is graded *)
(* (assignment.go:99-110).                                                 *)
PaperOf(w) == IF row[w] = Nothing THEN Nothing ELSE [text |-> row[w].text, files |-> row[w].files]
Promise == INSTANCE HandIn WITH
  Item <- Work, Paper <- [text : Text, files : SUBSET File], Mark <- Score,
  paper <- [w \in Work |-> PaperOf(w)],
  handed <- {w \in Work : row[w] # Nothing /\ row[w].submitted},
  mark <- [w \in Work |-> IF row[w] = Nothing THEN Nothing ELSE row[w].grade],
  open <- parent # Nothing
KeepsPromise == Promise!Spec
=============================================================================
