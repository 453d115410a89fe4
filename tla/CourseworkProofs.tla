-------------------------- MODULE CourseworkProofs --------------------------
(***************************************************************************)
(* Theorems about Coursework, for any works, files, requests and bounds:   *)
(* the tables keep their types, an assignment's submissions as well as a   *)
(* project's implement HandIn, and unless a call was overtaken each file's *)
(* reference count covers the links to it.  About the question board: what *)
(* it shows is there, its files are counted, and its decisions stand.      *)
(* About teams: only the leader of the moment hands over.  About groups:   *)
(* the merge plan places every team or reports it, a team is frozen into   *)
(* one group, and the groups a forming makes are sound.                    *)
(***************************************************************************)
EXTENDS MCCoursework, FiniteSetTheorems, WellFoundedInduction, TLAPS

Ops == {"none", "draft", "attach", "uncount", "check", "submit", "discard", "delete", "grade", "upsert"}

(* The requests whose "work" is a work. *)
OnWork == {"draft", "check", "submit", "discard", "grade", "upsert"}

(* What a request in flight relies on: a grade carries a score; a discard  *)
(* is of an assignment; an upsert is of a project, and while the project   *)
(* exists, of a submission handed in.                                      *)
CallSound(c) ==
  /\ c.op \in OnWork => c.work \in Work
  /\ c.op \in {"grade", "upsert"} => c.score \in Score
  /\ c.op = "discard" => kind = "assignment"
  /\ c.op = "upsert" => kind = "project"
  /\ c.op = "upsert" /\ parent # Nothing => row[c.work] # Nothing /\ row[c.work].submitted
CallsSound == \A p \in Proc : CallSound(call[p])

(* Submissions go with their parent, and only one handed in is graded. *)
RowSound(r) == r # Nothing => parent # Nothing /\ (r.grade # Nothing => r.submitted)
RowsSound == \A w \in Work : RowSound(row[w])

Inv == TypeOK /\ CallsSound /\ RowsSound
-----------------------------------------------------------------------------
LEMMA CallFields ==
  ASSUME NEW c \in CallRow
  PROVE  /\ c.op \in Ops /\ c.work \in Work \cup {Nothing} /\ c.text \in Text
         /\ c.files \in SUBSET File /\ c.left \in SUBSET Refs /\ c.score \in Score \cup {Nothing}
BY DEF CallRow, Ops

LEMMA NoCallTyped == NoCall \in CallRow /\ NoCall.op = "none"
BY NothingAssumption DEF NoCall, Call, CallRow

LEMMA RefsTyped ==
  ASSUME NEW w \in Work \cup {Nothing}, NEW files \in SUBSET File
  PROVE  Of(w, files) \in SUBSET Refs
BY DEF Of, Refs

LEMMA NewCall ==
  ASSUME NEW op \in Ops, NEW w \in Work \cup {Nothing}, NEW text \in Text, NEW files \in SUBSET File,
         NEW left \in SUBSET Refs, NEW score \in Score \cup {Nothing}
  PROVE  /\ Call(op, w, text, files, left, score) \in CallRow
         /\ Call(op, w, text, files, left, score).op = op
         /\ Call(op, w, text, files, left, score).work = w
         /\ Call(op, w, text, files, left, score).files = files
         /\ Call(op, w, text, files, left, score).left = left
         /\ Call(op, w, text, files, left, score).score = score
BY DEF Call, CallRow, Ops

LEMMA UncountCall ==
  ASSUME NEW left \in SUBSET Refs
  PROVE  /\ Call("uncount", Nothing, Nothing, {}, left, Nothing) \in CallRow
         /\ Call("uncount", Nothing, Nothing, {}, left, Nothing).op = "uncount"
BY NothingAssumption DEF Call, CallRow

LEMMA BeginOK ==
  ASSUME TypeOK, NEW p \in Proc, NEW c \in CallRow, Begin(p, c)
  PROVE  /\ call' \in [Proc -> CallRow] /\ call'[p] = c
         /\ \A q \in Proc \ {p} : call'[q] = call[q]
BY DEF TypeOK, Begin

LEMMA GoesOK ==
  ASSUME TypeOK, NEW p \in Proc, NEW op \in Ops, NEW left \in SUBSET Refs, Goes(p, op, left)
  PROVE  /\ call' \in [Proc -> CallRow]
         /\ call'[p].op = op /\ call'[p].work = call[p].work
         /\ call'[p].files = call[p].files /\ call'[p].left = left
         /\ \A q \in Proc \ {p} : call'[q] = call[q]
<1> DEFINE d == Call(op, call[p].work, call[p].text, call[p].files, left, call[p].score)
<1>1. call[p] \in CallRow
  BY DEF TypeOK
<1>a. /\ call[p].work \in Work \cup {Nothing} /\ call[p].text \in Text
      /\ call[p].files \in SUBSET File /\ call[p].score \in Score \cup {Nothing}
  BY <1>1, CallFields
<1>2. d \in CallRow /\ d.op = op /\ d.work = call[p].work /\ d.files = call[p].files /\ d.left = left
  BY <1>a, NewCall
<1>3. call' = [call EXCEPT ![p] = d]
  BY DEF Goes
<1> HIDE DEF d
<1> QED BY <1>2, <1>3 DEF TypeOK

LEMMA EndOK ==
  ASSUME TypeOK, NEW p \in Proc, End(p)
  PROVE  /\ call' \in [Proc -> CallRow] /\ call'[p].op = "none"
         /\ \A q \in Proc \ {p} : call'[q] = call[q]
BY NoCallTyped DEF TypeOK, End

(* A request in flight still stands when a step leaves work handed in      *)
(* alone.                                                                  *)
HandedStays ==
  /\ kind' = kind
  /\ parent' # Nothing => parent # Nothing
  /\ kind = "project" =>
       \A w \in Work : parent' # Nothing /\ row[w] # Nothing /\ row[w].submitted =>
         row'[w] # Nothing /\ row'[w].submitted

LEMMA CallsKept ==
  ASSUME Inv, NEW p \in Proc, call' \in [Proc -> CallRow],
         \A q \in Proc \ {p} : call'[q] = call[q],
         HandedStays, CallSound(call[p])' 
  PROVE  CallsSound'
<1> SUFFICES ASSUME NEW q \in Proc PROVE CallSound(call[q])'
  BY DEF CallsSound
<1>1. CASE q = p
  BY <1>1
<1>2. CASE q # p
  BY <1>2 DEF Inv, CallsSound, CallSound, HandedStays, OnWork
<1> QED BY <1>1, <1>2

-----------------------------------------------------------------------------
(* Steps that leave the tables alone. *)

LEMMA StoreStays ==
  ASSUME Inv, NEW p \in Proc, UNCHANGED <<kind, store, overtaken>>,
         links' \in [File -> Nat], receipt' \in SUBSET File,
         call' \in [Proc -> CallRow], \A q \in Proc \ {p} : call'[q] = call[q],
         CallSound(call[p])'
  PROVE  Inv'
<1>1. HandedStays
  BY DEF HandedStays, store
<1>2. CallsSound'
  BY <1>1, CallsKept
<1> QED BY <1>2 DEF Inv, TypeOK, store, RowsSound, RowSound

LEMMA BeginStep ==
  ASSUME Inv, NEW p \in Proc, NEW c \in CallRow, Begin(p, c), CallSound(c),
         UNCHANGED <<kind, store, links, receipt, overtaken>>
  PROVE  Inv'
<1>1. /\ call' \in [Proc -> CallRow] /\ call'[p] = c
      /\ \A q \in Proc \ {p} : call'[q] = call[q]
  BY BeginOK DEF Inv
<1>2. CallSound(call[p])'
  BY <1>1 DEF CallSound, store
<1> QED BY <1>1, <1>2, StoreStays DEF Inv, TypeOK

LEMMA EndStep ==
  ASSUME Inv, NEW p \in Proc, End(p), UNCHANGED <<kind, store, links, receipt, overtaken>>
  PROVE  Inv'
<1>1. /\ call' \in [Proc -> CallRow] /\ call'[p].op = "none"
      /\ \A q \in Proc \ {p} : call'[q] = call[q]
  BY EndOK DEF Inv
<1>2. CallSound(call[p])'
  BY <1>1 DEF CallSound, OnWork
<1> QED BY <1>1, <1>2, StoreStays DEF Inv, TypeOK

LEMMA GoesStep ==
  ASSUME Inv, NEW p \in Proc, NEW op \in {"draft", "attach", "uncount", "submit"},
         NEW left \in SUBSET Refs, Goes(p, op, left),
         op \in OnWork => call[p].work \in Work,
         UNCHANGED <<kind, store, receipt, overtaken>>, links' \in [File -> Nat]
  PROVE  Inv'
<1>1. /\ call' \in [Proc -> CallRow]
      /\ call'[p].op = op /\ call'[p].work = call[p].work
      /\ \A q \in Proc \ {p} : call'[q] = call[q]
  BY GoesOK DEF Inv, Ops
<1>2. CallSound(call[p])'
  BY <1>1 DEF CallSound, OnWork
<1> QED BY <1>1, <1>2, StoreStays DEF Inv, TypeOK

LEMMA LinkStep ==
  ASSUME Inv, NEW p \in Proc, LinkFile(p) \/ LinkFails(p) \/ UnlinkFile(p)
  PROVE  Inv'
<1>1. /\ call[p] \in CallRow
      /\ call[p].left \in SUBSET Refs
      /\ Of(call[p].work, call[p].files) \ call[p].left \in SUBSET Refs
      /\ \A r \in call[p].left : r[2] \in File /\ call[p].left \ {r} \in SUBSET Refs
      /\ links \in [File -> Nat]
  <2>1. call[p] \in CallRow /\ links \in [File -> Nat]
    BY DEF Inv, TypeOK
  <2>2. call[p].left \in SUBSET Refs /\ Of(call[p].work, call[p].files) \in SUBSET Refs
    BY <2>1, CallFields, RefsTyped
  <2> QED BY <2>1, <2>2 DEF Refs
<1>2. CASE LinkFile(p)
  <2>1. PICK r \in call[p].left :
          links' = [links EXCEPT ![r[2]] = @ + 1] /\ Goes(p, call[p].op, call[p].left \ {r})
    BY <1>2 DEF LinkFile
  <2>2. call[p].op \in {"draft", "attach"} /\ (call[p].op \in OnWork => call[p].work \in Work)
    BY <1>2 DEF LinkFile, Inv, CallsSound, CallSound
  <2>3. links' \in [File -> Nat]
    BY <1>1, <2>1
  <2>4. UNCHANGED <<kind, store, receipt, overtaken>>
    BY <1>2 DEF LinkFile, rest
  <2> QED BY <1>1, <2>1, <2>2, <2>3, <2>4, GoesStep
<1>3. CASE LinkFails(p)
  <2>1. /\ Goes(p, "uncount", Of(call[p].work, call[p].files) \ call[p].left)
        /\ UNCHANGED <<kind, store, links, receipt, overtaken>>
    BY <1>3 DEF LinkFails, rest
  <2> QED BY <1>1, <2>1, GoesStep DEF OnWork
<1>4. CASE UnlinkFile(p)
  <2>1. PICK r \in call[p].left :
          /\ \/ links' = [links EXCEPT ![r[2]] = IF @ >= 1 THEN @ - 1 ELSE @]
             \/ UNCHANGED links
          /\ Goes(p, call[p].op, call[p].left \ {r})
    BY <1>4 DEF UnlinkFile
  <2>2. call[p].op = "uncount" /\ UNCHANGED <<kind, store, receipt, overtaken>>
    BY <1>4 DEF UnlinkFile, rest
  <2>3. links' \in [File -> Nat]
    BY <1>1, <2>1
  <2> QED BY <1>1, <2>1, <2>2, <2>3, GoesStep DEF OnWork
<1> QED BY <1>2, <1>3, <1>4

LEMMA ReferredTyped == ASSUME Inv PROVE Referred \in SUBSET Refs
<1>1. attached \in SUBSET File
  BY DEF Inv, TypeOK
<1>2. \A w \in {v \in Work : row[v] # Nothing} : row[w].files \in SUBSET File
  BY DEF Inv, TypeOK, SubmissionRow
<1>3. Of(Nothing, attached) \in SUBSET Refs
  BY <1>1, RefsTyped
<1>4. \A w \in {v \in Work : row[v] # Nothing} : Of(w, row[w].files) \in SUBSET Refs
  BY <1>2, RefsTyped
<1> QED BY <1>3, <1>4 DEF Referred

LEMMA BeginSteps ==
  ASSUME Inv, NEW p \in Proc,
         \/ BeginDelete(p)
         \/ \E f \in File : BeginAttach(p, f)
         \/ \E w \in Work :
              \/ BeginSubmit(p, w) \/ BeginSubmitGroup(p, w) \/ BeginDiscard(p, w)
              \/ \E text \in Text, files \in SUBSET File :
                   BeginSaveDraft(p, w, text, files) \/ BeginSaveSubmission(p, w, text, files)
              \/ \E score \in Score : BeginGrade(p, w, score) \/ BeginGradeMember(p, w, score)
  PROVE  Inv'
<1>1. ASSUME NEW op \in Ops, NEW w \in Work \cup {Nothing}, NEW text \in Text,
             NEW files \in SUBSET File, NEW left \in SUBSET Refs, NEW score \in Score \cup {Nothing},
             op \in OnWork => w \in Work,
             op \in {"grade", "upsert"} => score \in Score,
             op = "discard" => kind = "assignment",
             op = "upsert" => kind = "project" /\ row[w] # Nothing /\ row[w].submitted,
             Begin(p, Call(op, w, text, files, left, score)),
             UNCHANGED <<kind, store, links, receipt, faults, overtaken>>
      PROVE  Inv'
  <2> DEFINE c == Call(op, w, text, files, left, score)
  <2>1. c \in CallRow /\ c.op = op /\ c.work = w /\ c.score = score
    BY <1>1, NewCall
  <2>2. Begin(p, c)
    BY <1>1
  <2> HIDE DEF c
  <2>3. CallSound(c)
    BY <1>1, <2>1 DEF CallSound
  <2> QED BY <1>1, <2>1, <2>2, <2>3, BeginStep
<1>2. Nothing \in Text /\ {} \in SUBSET File /\ {} \in SUBSET Refs
  BY NothingAssumption
<1>3. CASE BeginDelete(p)
  <2>1. Referred \in SUBSET Refs
    BY ReferredTyped
  <2>2. Begin(p, Call("delete", Nothing, Nothing, {}, Referred, Nothing))
    BY <1>3 DEF BeginDelete
  <2> QED BY <1>1, <1>2, <1>3, <2>1, <2>2 DEF BeginDelete, OnWork, Ops
<1>4. ASSUME NEW f \in File, BeginAttach(p, f)
      PROVE  Inv'
  <2>1. Begin(p, Call("attach", Nothing, Nothing, {f}, Of(Nothing, {f}), Nothing))
    BY <1>4 DEF BeginAttach
  <2>2. {f} \in SUBSET File /\ Of(Nothing, {f}) \in SUBSET Refs
    BY RefsTyped
  <2> QED BY <1>1, <1>2, <1>4, <2>1, <2>2 DEF BeginAttach, OnWork, Ops
<1>5. ASSUME NEW w \in Work, BeginSubmit(p, w) \/ BeginSubmitGroup(p, w)
      PROVE  Inv'
  <2>1. row[w].text \in Text
    BY <1>5 DEF Inv, TypeOK, SubmissionRow, BeginSubmit, BeginSubmitGroup, ReadToSubmit
  <2>2. Begin(p, Call("check", w, row[w].text, {}, {}, Nothing))
    BY <1>5 DEF BeginSubmit, BeginSubmitGroup, ReadToSubmit
  <2> QED BY <1>1, <1>2, <1>5, <2>1, <2>2 DEF BeginSubmit, BeginSubmitGroup, ReadToSubmit, OnWork, Ops
<1>6. ASSUME NEW w \in Work, BeginDiscard(p, w)
      PROVE  Inv'
  <2>1. Of(w, row[w].files) \in SUBSET Refs
    <3>1. row[w].files \in SUBSET File
      BY <1>6 DEF Inv, TypeOK, SubmissionRow, BeginDiscard
    <3> QED BY <3>1, RefsTyped
  <2>2. Begin(p, Call("discard", w, Nothing, {}, Of(w, row[w].files), Nothing))
    BY <1>6 DEF BeginDiscard
  <2> QED BY <1>1, <1>2, <1>6, <2>1, <2>2 DEF BeginDiscard, OnWork, Ops
<1>7. ASSUME NEW w \in Work, NEW text \in Text, NEW files \in SUBSET File,
             BeginSaveDraft(p, w, text, files) \/ BeginSaveSubmission(p, w, text, files)
      PROVE  Inv'
  <2>1. Of(w, files) \in SUBSET Refs
    BY RefsTyped
  <2>2. Begin(p, Call("draft", w, text, files, Of(w, files), Nothing))
    BY <1>7 DEF BeginSaveDraft, BeginSaveSubmission, BeginSave
  <2> QED BY <1>1, <1>2, <1>7, <2>1, <2>2
          DEF BeginSaveDraft, BeginSaveSubmission, BeginSave, OnWork, Ops
<1>8. ASSUME NEW w \in Work, NEW score \in Score, BeginGrade(p, w, score)
      PROVE  Inv'
  <2>1. Begin(p, Call("grade", w, Nothing, {}, {}, score))
    BY <1>8 DEF BeginGrade
  <2> QED BY <1>1, <1>2, <1>8, <2>1 DEF BeginGrade, OnWork, Ops
<1>9. ASSUME NEW w \in Work, NEW score \in Score, BeginGradeMember(p, w, score)
      PROVE  Inv'
  <2>1. Begin(p, Call("upsert", w, Nothing, {}, {}, score))
    BY <1>9 DEF BeginGradeMember
  <2> QED BY <1>1, <1>2, <1>9, <2>1 DEF BeginGradeMember, OnWork, Ops
<1> QED BY <1>3, <1>4, <1>5, <1>6, <1>7, <1>8, <1>9
-----------------------------------------------------------------------------
(* Steps that change the tables. *)

LEMMA NewSubmission ==
  ASSUME NEW text \in Text, NEW files \in SUBSET File, NEW submitted \in BOOLEAN,
         NEW grade \in Score \cup {Nothing}, submitted \/ grade = Nothing
  PROVE  /\ Submission(text, files, submitted, grade) \in SubmissionRow
         /\ parent # Nothing => RowSound(Submission(text, files, submitted, grade))
         /\ Submission(text, files, submitted, grade).text = text
         /\ Submission(text, files, submitted, grade).files = files
         /\ Submission(text, files, submitted, grade).submitted = submitted
         /\ Submission(text, files, submitted, grade).grade = grade
<1>1. Submission(text, files, submitted, grade) \in SubmissionRow
  BY DEF Submission, SubmissionRow
<1>2. /\ Submission(text, files, submitted, grade).submitted = submitted
      /\ Submission(text, files, submitted, grade).grade = grade
      /\ Submission(text, files, submitted, grade).text = text
      /\ Submission(text, files, submitted, grade).files = files
  BY DEF Submission
<1> QED BY <1>1, <1>2 DEF RowSound

(* One row of a parent that stands is written. *)
LEMMA RowStep ==
  ASSUME Inv, NEW p \in Proc, NEW w \in Work, NEW r \in SubmissionRow \cup {Nothing},
         row' = [row EXCEPT ![w] = r], RowSound(r), parent' = parent, kind' = kind,
         kind = "project" /\ row[w] # Nothing /\ row[w].submitted => r # Nothing /\ r.submitted,
         UNCHANGED <<attached, links, receipt>>, overtaken' \in BOOLEAN,
         call' \in [Proc -> CallRow], \A q \in Proc \ {p} : call'[q] = call[q],
         call'[p].op \in {"none", "uncount"}
  PROVE  Inv'
<1>1. row \in [Work -> SubmissionRow \cup {Nothing}]
  BY DEF Inv, TypeOK
<1>2. row' \in [Work -> SubmissionRow \cup {Nothing}] /\ row'[w] = r
      /\ \A v \in Work \ {w} : row'[v] = row[v]
  BY <1>1
<1>3. HandedStays
  BY <1>2 DEF HandedStays
<1>4. CallSound(call[p])'
  BY DEF CallSound, OnWork
<1>5. CallsSound'
  BY <1>3, <1>4, CallsKept
<1>6. RowsSound'
  BY <1>2 DEF Inv, RowsSound, RowSound
<1> QED BY <1>2, <1>5, <1>6 DEF Inv, TypeOK

LEMMA SaveDraftStep == ASSUME Inv, NEW p \in Proc, SaveDraft(p) PROVE Inv'
<1> DEFINE c == call[p]
           r == Submission(c.text, c.files, FALSE, Nothing)
<1>1. /\ c \in CallRow /\ c.op = "draft" /\ c.work \in Work
      /\ c.text \in Text /\ c.files \in SUBSET File
  BY CallFields DEF SaveDraft, Inv, TypeOK, CallsSound, CallSound, OnWork
<1>2. CASE Refused(c.work)
  <2>1. Goes(p, "uncount", Of(c.work, c.files)) /\ UNCHANGED <<kind, store, links, receipt, overtaken>>
    BY <1>2 DEF SaveDraft, rest, store
  <2>2. Of(c.work, c.files) \in SUBSET Refs
    BY <1>1, RefsTyped
  <2> QED BY <2>1, <2>2, GoesStep DEF Inv, TypeOK, OnWork
<1>3. CASE ~ Refused(c.work)
  <2> DEFINE left == IF row[c.work] = Nothing THEN {} ELSE Of(c.work, row[c.work].files)
  <2>1. /\ row' = [row EXCEPT ![c.work] = r] /\ Goes(p, "uncount", left)
        /\ UNCHANGED <<kind, parent, attached, links, receipt, overtaken>>
    BY <1>3 DEF SaveDraft, rest, Submission
  <2>2. left \in SUBSET Refs
    <3>1. CASE row[c.work] = Nothing
      BY <3>1
    <3>2. CASE row[c.work] # Nothing
      <4>1. row[c.work].files \in SUBSET File
        BY <1>1, <3>2 DEF Inv, TypeOK, SubmissionRow
      <4> QED BY <1>1, <4>1, RefsTyped, <3>2
    <3> QED BY <3>1, <3>2
  <2> HIDE DEF left
  <2>3. call' \in [Proc -> CallRow] /\ call'[p].op = "uncount"
        /\ \A q \in Proc \ {p} : call'[q] = call[q]
    BY <2>1, <2>2, GoesOK DEF Inv, Ops
  <2>4. r \in SubmissionRow /\ RowSound(r)
    BY <1>1, <1>3, NewSubmission DEF Refused
  <2> HIDE DEF r
  <2>5. kind = "project" => ~ (row[c.work] # Nothing /\ row[c.work].submitted)
    BY <1>3 DEF Refused, HandedInByGroup
  <2>6. overtaken' \in BOOLEAN
    BY <2>1 DEF Inv, TypeOK
  <2> QED BY <1>1, <2>1, <2>3, <2>4, <2>5, <2>6, RowStep
<1> QED BY <1>2, <1>3

(* A row handed in or graded keeps what it holds. *)
LEMMA StampStep ==
  ASSUME Inv, NEW p \in Proc, SubmitDraft(p) \/ GradeSubmission(p) \/ UpsertGrade(p)
  PROVE  Inv'
<1> DEFINE w == call[p].work
<1>1. call[p] \in CallRow /\ w \in Work /\ End(p)
      /\ UNCHANGED <<kind, parent, attached, links, receipt, overtaken>>
  BY DEF SubmitDraft, GradeSubmission, UpsertGrade, Inv, TypeOK, CallsSound, CallSound, OnWork, rest
<1>2. /\ call' \in [Proc -> CallRow] /\ call'[p].op = "none"
      /\ \A q \in Proc \ {p} : call'[q] = call[q]
  BY <1>1, EndOK DEF Inv
<1>3. CASE row' = row
  BY <1>1, <1>3, EndStep DEF store
<1>4. ASSUME row' # row PROVE Inv'
  <2>1. row[w] # Nothing /\ row[w] \in SubmissionRow /\ parent # Nothing
    BY <1>1, <1>4 DEF SubmitDraft, GradeSubmission, UpsertGrade, Inv, TypeOK, RowsSound, RowSound
  <2>2. PICK submitted \in BOOLEAN, grade \in Score \cup {Nothing} :
          /\ row' = [row EXCEPT ![w] = Submission(row[w].text, row[w].files, submitted, grade)]
          /\ submitted
    <3>1. row[w].grade \in Score \cup {Nothing} /\ row[w].submitted \in BOOLEAN
      BY <2>1 DEF SubmissionRow
    <3>2. CASE SubmitDraft(p)
      <4>1. row' = [row EXCEPT ![w] = Submission(row[w].text, row[w].files, TRUE, row[w].grade)]
        BY <1>4, <3>2 DEF SubmitDraft
      <4> QED BY <3>1, <4>1
    <3>3. CASE GradeSubmission(p) \/ UpsertGrade(p)
      <4>1. /\ row' = [row EXCEPT ![w] =
                        Submission(row[w].text, row[w].files, row[w].submitted, call[p].score)]
            /\ row[w].submitted
        BY <1>1, <1>4, <2>1, <3>3
           DEF GradeSubmission, UpsertGrade, Graded, Inv, CallsSound, CallSound
      <4>2. call[p].score \in Score \cup {Nothing}
        BY <1>1, CallFields
      <4> QED BY <3>1, <4>1, <4>2
    <3> QED BY <3>2, <3>3
  <2> DEFINE r == Submission(row[w].text, row[w].files, submitted, grade)
  <2>3. row[w].text \in Text /\ row[w].files \in SUBSET File
    BY <2>1 DEF SubmissionRow
  <2>4. r \in SubmissionRow /\ RowSound(r) /\ r.submitted = submitted
    BY <2>1, <2>2, <2>3, NewSubmission
  <2>5. r # Nothing
    BY <2>4, NothingAssumption
  <2>6. row' = [row EXCEPT ![w] = r]
    BY <2>2
  <2> HIDE DEF r
  <2>7. overtaken' \in BOOLEAN
    BY <1>1 DEF Inv, TypeOK
  <2> QED BY <1>1, <1>2, <2>2, <2>4, <2>5, <2>6, <2>7, RowStep
<1> QED BY <1>3, <1>4

LEMMA DiscardStep == ASSUME Inv, NEW p \in Proc, DiscardDraft(p) PROVE Inv'
<1> DEFINE c == call[p]
<1>1. c \in CallRow /\ c.op = "discard" /\ c.work \in Work /\ kind = "assignment"
      /\ c.left \in SUBSET Refs
      /\ UNCHANGED <<kind, parent, attached, links, receipt>>
  BY CallFields DEF DiscardDraft, rest, Inv, TypeOK, CallsSound, CallSound, OnWork
<1>2. CASE row[c.work] # Nothing /\ ~ row[c.work].submitted
  <2>1. /\ row' = [row EXCEPT ![c.work] = Nothing] /\ Goes(p, "uncount", c.left)
        /\ overtaken' \in BOOLEAN
    BY <1>2 DEF DiscardDraft, Inv, TypeOK
  <2>2. call' \in [Proc -> CallRow] /\ call'[p].op = "uncount"
        /\ \A q \in Proc \ {p} : call'[q] = call[q]
    BY <1>1, <2>1, GoesOK DEF Inv, Ops
  <2>3. RowSound(Nothing)
    BY DEF RowSound
  <2> QED BY <1>1, <2>1, <2>2, <2>3, RowStep
<1>3. CASE ~ (row[c.work] # Nothing /\ ~ row[c.work].submitted)
  <2>1. End(p) /\ UNCHANGED <<kind, store, links, receipt, overtaken>>
    BY <1>1, <1>3 DEF DiscardDraft, store
  <2> QED BY <2>1, EndStep
<1> QED BY <1>2, <1>3

LEMMA AttachStep ==
  ASSUME Inv, NEW p \in Proc, CreateAttachment(p) \/ \E f \in File : Detach(p, f)
  PROVE  Inv'
<1>1. /\ attached' \in SUBSET File
      /\ call' \in [Proc -> CallRow] /\ call'[p].op \in {"none", "uncount"}
      /\ \A q \in Proc \ {p} : call'[q] = call[q]
      /\ UNCHANGED <<kind, parent, row, links, receipt, overtaken>>
  <2>1. CASE CreateAttachment(p)
    <3>1. call[p] \in CallRow /\ call[p].files \in SUBSET File /\ attached \in SUBSET File
      BY CallFields DEF Inv, TypeOK
    <3>2. Of(Nothing, call[p].files) \in SUBSET Refs
      BY <3>1, RefsTyped
    <3>3. CASE parent = Nothing
      BY <2>1, <3>1, <3>2, <3>3, GoesOK DEF CreateAttachment, Inv, Ops, rest
    <3>4. CASE parent # Nothing
      BY <2>1, <3>1, <3>4, EndOK DEF CreateAttachment, Inv, rest
    <3> QED BY <3>3, <3>4
  <2>2. ASSUME NEW f \in File, Detach(p, f)
        PROVE  <1>1!:
    <3> DEFINE c == Call("uncount", Nothing, Nothing, {}, Of(Nothing, {f}), Nothing)
    <3>1. {f} \in SUBSET File
      OBVIOUS
    <3>2. Of(Nothing, {f}) \in SUBSET Refs /\ Nothing \in Text
      BY <3>1, RefsTyped, NothingAssumption
    <3>3. c \in CallRow /\ c.op = "uncount"
      BY <3>2, UncountCall
    <3>4. Begin(p, c) /\ attached' = attached \ {f}
          /\ UNCHANGED <<kind, parent, row, links, receipt, overtaken>>
      BY <2>2 DEF Detach
    <3> HIDE DEF c
    <3> QED BY <3>3, <3>4, BeginOK DEF Inv, TypeOK
  <2> QED BY <2>1, <2>2
<1>2. HandedStays
  BY <1>1 DEF HandedStays
<1>3. CallSound(call[p])'
  BY <1>1 DEF CallSound, OnWork
<1>4. CallsSound'
  BY <1>1, <1>2, <1>3, CallsKept
<1> QED BY <1>1, <1>4 DEF Inv, TypeOK, RowsSound, RowSound

LEMMA DeleteStep == ASSUME Inv, NEW p \in Proc, DeleteParent(p) PROVE Inv'
<1>1. call[p] \in CallRow /\ call[p].left \in SUBSET Refs
      /\ UNCHANGED <<kind, links, receipt>>
  BY CallFields DEF DeleteParent, rest, Inv, TypeOK
<1>2. CASE parent # Nothing
  <2>1. /\ parent' = Nothing /\ row' = [w \in Work |-> Nothing] /\ attached' = {}
        /\ Goes(p, "uncount", call[p].left) /\ overtaken' \in BOOLEAN
    BY <1>2 DEF DeleteParent, Inv, TypeOK
  <2>2. call' \in [Proc -> CallRow] /\ call'[p].op = "uncount"
        /\ \A q \in Proc \ {p} : call'[q] = call[q]
    BY <1>1, <2>1, GoesOK DEF Inv, Ops
  <2>3. HandedStays /\ CallSound(call[p])'
    BY <1>1, <2>1, <2>2 DEF HandedStays, CallSound, OnWork
  <2>4. CallsSound'
    BY <1>1, <2>2, <2>3, CallsKept
  <2> QED BY <1>1, <2>1, <2>2, <2>4 DEF Inv, TypeOK, RowsSound, RowSound
<1>3. CASE parent = Nothing
  <2>1. End(p) /\ UNCHANGED <<kind, store, links, receipt, overtaken>>
    BY <1>1, <1>3 DEF DeleteParent
  <2> QED BY <2>1, EndStep
<1> QED BY <1>2, <1>3

LEMMA CheckStep == ASSUME Inv, NEW p \in Proc, CheckWork(p) \/ Done(p) PROVE Inv'
<1>1. UNCHANGED <<kind, store, links, receipt, overtaken>>
      /\ (End(p) \/ (call[p].op = "check" /\ Goes(p, "submit", {})))
  <2>1. CASE Done(p)
    BY <2>1 DEF Done, rest, store
  <2>2. CASE CheckWork(p)
    <3>1. call[p].op = "check" /\ UNCHANGED <<rest, store, links, receipt, faults, overtaken>>
      BY <2>2 DEF CheckWork
    <3>2. Goes(p, "submit", {}) \/ End(p)
      BY <2>2 DEF CheckWork
    <3> QED BY <3>1, <3>2 DEF rest, store
  <2> QED BY <2>1, <2>2
<1>2. call[p].op = "check" => call[p].work \in Work
  BY DEF Inv, CallsSound, CallSound, OnWork
<1> QED BY <1>1, <1>2, EndStep, GoesStep DEF Inv, TypeOK, OnWork

LEMMA WorldStep ==
  ASSUME Inv, Update \/ Crash \/ (\E f \in File : ExpireReceipt(f))
  PROVE  Inv'
<1>1. CASE Update
  <2>1. HandedStays /\ UNCHANGED call
    BY <1>1 DEF HandedStays, Update, rest
  <2>2. CallsSound'
    BY <1>1, <2>1 DEF HandedStays, Inv, CallsSound, CallSound, Update
  <2> QED BY <1>1, <2>2, NothingAssumption DEF Update, rest, Inv, TypeOK, RowsSound, RowSound
<1>2. CASE Crash
  <2>1. call' = [p \in Proc |-> NoCall] /\ UNCHANGED <<kind, store, links, receipt, overtaken>>
    BY <1>2 DEF Crash, rest
  <2>2. \A p \in Proc : CallSound(call[p])' /\ call'[p] \in CallRow
    BY <2>1, NoCallTyped DEF CallSound, OnWork
  <2>3. CallsSound' /\ call' \in [Proc -> CallRow]
    BY <2>1, <2>2, NoCallTyped DEF CallsSound
  <2> QED BY <2>1, <2>3 DEF Inv, TypeOK, store, RowsSound, RowSound
<1>3. ASSUME NEW f \in File, ExpireReceipt(f)
      PROVE  Inv'
  <2>1. links' \in [File -> Nat] /\ receipt' \in SUBSET File
    BY <1>3 DEF ExpireReceipt, Inv, TypeOK
  <2>2. UNCHANGED <<kind, store, call, overtaken>>
    BY <1>3 DEF ExpireReceipt, rest
  <2>3. CallsSound'
    BY <2>2 DEF Inv, CallsSound, CallSound, store
  <2> QED BY <2>1, <2>2, <2>3 DEF Inv, TypeOK, store, RowsSound, RowSound
<1> QED BY <1>1, <1>2, <1>3

LEMMA InvInit == Init => Inv
<1> SUFFICES ASSUME Init PROVE Inv
  OBVIOUS
<1>1. parent \in ParentRow
  BY DEF Init, ParentRow, Windows
<1>2. call \in [Proc -> CallRow] /\ \A p \in Proc : call[p].op = "none"
  BY NoCallTyped DEF Init
<1>3. CallsSound
  BY <1>2 DEF CallsSound, CallSound, OnWork
<1> QED BY <1>1, <1>2, <1>3 DEF Init, Inv, TypeOK, RowsSound, RowSound

LEMMA InvNext == Inv /\ [Next]_vars => Inv'
<1> SUFFICES ASSUME Inv, [Next]_vars PROVE Inv'
  OBVIOUS
<1>1. CASE UNCHANGED vars
  BY <1>1 DEF vars, Inv, TypeOK, CallsSound, CallSound, RowsSound, RowSound
<1>2. CASE Next
  BY <1>2, WorldStep, LinkStep, SaveDraftStep, AttachStep, CheckStep, StampStep, DiscardStep,
     DeleteStep, BeginSteps DEF Next
<1> QED BY <1>1, <1>2

LEMMA Invariance == Spec => []Inv
BY InvInit, InvNext, PTL DEF Spec

(* The tables and the requests in flight keep their types, for any number  *)
(* of works, files, requests and failures.                                 *)
THEOREM TypeCorrect == Spec => []TypeOK
BY Invariance, PTL DEF Inv
-----------------------------------------------------------------------------
(* The refinement. *)

Papers == [w \in Work |-> PaperOf(w)]
Handed == {w \in Work : row[w] # Nothing /\ row[w].submitted}
Marks == [w \in Work |-> IF row[w] = Nothing THEN Nothing ELSE row[w].grade]

LEMMA PromiseStutters ==
  ASSUME row' = row, (parent' # Nothing) = (parent # Nothing)
  PROVE  UNCHANGED Promise!vars
<1>1. Papers' = Papers /\ Handed' = Handed /\ Marks' = Marks
  BY DEF Papers, PaperOf, Handed, Marks
<1> QED BY <1>1 DEF Promise!vars, Papers, Handed, Marks

MarkOf(w) == IF row[w] = Nothing THEN Nothing ELSE row[w].grade

(* What one row written or erased does to the three parts of the promise.  *)
LEMMA RowChanged ==
  ASSUME Inv, NEW w \in Work, NEW r, row' = [row EXCEPT ![w] = r]
  PROVE  /\ Papers' = [Papers EXCEPT ![w] = PaperOf(w)']
         /\ Marks' = [Marks EXCEPT ![w] = MarkOf(w)']
         /\ row'[w] = r /\ \A v \in Work \ {w} : row'[v] = row[v]
<1>1. row'[w] = r /\ \A v \in Work \ {w} : row'[v] = row[v]
  BY DEF Inv, TypeOK
<1>2. \A v \in Work \ {w} : PaperOf(v)' = PaperOf(v) /\ MarkOf(v)' = MarkOf(v)
  BY <1>1 DEF PaperOf, MarkOf
<1>3. Marks = [v \in Work |-> MarkOf(v)] /\ Marks' = [v \in Work |-> MarkOf(v)']
  BY DEF Marks, MarkOf
<1>4. Papers = [v \in Work |-> PaperOf(v)] /\ Papers' = [v \in Work |-> PaperOf(v)']
  BY DEF Papers
<1> QED BY <1>1, <1>2, <1>3, <1>4

LEMMA RowErased ==
  ASSUME Inv, NEW w \in Work, row' = [row EXCEPT ![w] = Nothing]
  PROVE  /\ Papers' = [Papers EXCEPT ![w] = Nothing]
         /\ Marks' = [Marks EXCEPT ![w] = Nothing] /\ Handed' = Handed \ {w}
<1>1. row'[w] = Nothing /\ \A v \in Work \ {w} : row'[v] = row[v]
  BY RowChanged
<1>2. Handed' = Handed \ {w}
  BY <1>1 DEF Handed
<1>3. PaperOf(w)' = Nothing /\ MarkOf(w)' = Nothing
  BY <1>1 DEF PaperOf, MarkOf
<1> QED BY <1>2, <1>3, RowChanged

LEMMA RowWritten ==
  ASSUME Inv, NEW w \in Work, NEW r \in SubmissionRow, row' = [row EXCEPT ![w] = r]
  PROVE  /\ Papers' = [Papers EXCEPT ![w] = [text |-> r.text, files |-> r.files]]
         /\ Marks' = [Marks EXCEPT ![w] = r.grade]
         /\ r.submitted => Handed' = Handed \cup {w}
         /\ ~ r.submitted => Handed' = Handed \ {w}
<1>1. row'[w] = r /\ r # Nothing /\ \A v \in Work \ {w} : row'[v] = row[v]
  BY RowChanged, NothingAssumption
<1>2. r.submitted => Handed' = Handed \cup {w}
  BY <1>1 DEF Handed
<1>3. ~ r.submitted => Handed' = Handed \ {w}
  BY <1>1 DEF Handed
<1>4. PaperOf(w)' = [text |-> r.text, files |-> r.files] /\ MarkOf(w)' = r.grade
  BY <1>1 DEF PaperOf, MarkOf
<1> QED BY <1>2, <1>3, <1>4, RowChanged

LEMMA DraftRow ==
  ASSUME NEW text \in Text, NEW files \in SUBSET File
  PROVE  /\ Submission(text, files, FALSE, Nothing) \in SubmissionRow
         /\ Submission(text, files, FALSE, Nothing).text = text
         /\ Submission(text, files, FALSE, Nothing).files = files
         /\ Submission(text, files, FALSE, Nothing).grade = Nothing
         /\ ~ Submission(text, files, FALSE, Nothing).submitted
BY DEF Submission, SubmissionRow

LEMMA RowStamped ==
  ASSUME Inv, NEW w \in Work, NEW text \in Text, NEW files \in SUBSET File,
         NEW submitted \in BOOLEAN, submitted, NEW grade \in Score \cup {Nothing},
         row[w] # Nothing, row[w].text = text, row[w].files = files,
         row' = [row EXCEPT ![w] = Submission(text, files, submitted, grade)]
  PROVE  /\ Papers' = Papers
         /\ Marks' = [Marks EXCEPT ![w] = grade] /\ Handed' = Handed \cup {w}
<1> DEFINE r == Submission(text, files, submitted, grade)
<1>1. /\ r \in SubmissionRow /\ r.text = text /\ r.files = files
      /\ r.submitted /\ r.grade = grade
  BY DEF Submission, SubmissionRow
<1>2. row' = [row EXCEPT ![w] = r]
  OBVIOUS
<1> HIDE DEF r
<1>3. /\ Papers' = [Papers EXCEPT ![w] = [text |-> r.text, files |-> r.files]]
      /\ Marks' = [Marks EXCEPT ![w] = r.grade] /\ Handed' = Handed \cup {w}
  BY <1>1, <1>2, RowWritten
<1>4. Papers[w] = [text |-> text, files |-> files]
  BY DEF Papers, PaperOf
<1>5. Papers' = Papers
  BY <1>1, <1>3, <1>4 DEF Papers
<1> QED BY <1>1, <1>3, <1>5

LEMMA GradeMaps ==
  ASSUME NEW w \in Work, NEW m \in Score, w \in Handed, parent # Nothing, parent' = parent,
         Marks' = [Marks EXCEPT ![w] = m], Papers' = Papers, Handed' = Handed
  PROVE  \E v \in Work : Promise!Grade(v)
<1>1. Promise!Grade(w)
  BY DEF Promise!Grade, Papers, Marks, Handed
<1> QED BY <1>1

LEMMA HandMaps ==
  ASSUME NEW w \in Work, Papers[w] # Nothing, w \notin Handed, parent # Nothing, parent' = parent,
         Handed' = Handed \cup {w}, Papers' = Papers, Marks' = Marks
  PROVE  \E v \in Work : Promise!Hand(v)
<1>1. Promise!Hand(w)
  BY DEF Promise!Hand, Papers, Marks, Handed
<1> QED BY <1>1

LEMMA SaveRefines ==
  ASSUME Inv, NEW p \in Proc, SaveDraft(p)
  PROVE  (\E w \in Work : Promise!Save(w)) \/ UNCHANGED Promise!vars
<1> DEFINE c == call[p]
           r == Submission(c.text, c.files, FALSE, Nothing)
<1>1. /\ c \in CallRow /\ c.work \in Work /\ c.text \in Text /\ c.files \in SUBSET File
      /\ parent' = parent
  BY CallFields DEF SaveDraft, Inv, TypeOK, CallsSound, CallSound, OnWork
<1>2. CASE Refused(c.work)
  <2>1. row' = row
    BY <1>2 DEF SaveDraft
  <2> QED BY <1>1, <2>1, PromiseStutters
<1>3. CASE ~ Refused(c.work)
  <2>1. row' = [row EXCEPT ![c.work] = r]
    BY <1>3 DEF SaveDraft
  <2>3. parent # Nothing /\ c.work \notin Handed
    BY <1>3 DEF Refused, PastDraft, HandedInByGroup, Handed, Inv, TypeOK
  <2>4. Marks[c.work] = Nothing
    BY <1>1, <2>3 DEF Marks, Handed, Inv, RowsSound, RowSound
  <2>5. /\ Papers' = [Papers EXCEPT ![c.work] = [text |-> c.text, files |-> c.files]]
        /\ Marks' = [Marks EXCEPT ![c.work] = Nothing]
        /\ Handed' = Handed \ {c.work}
    <3>1. /\ r \in SubmissionRow /\ r.text = c.text /\ r.files = c.files
          /\ r.grade = Nothing /\ ~ r.submitted
      BY <1>1, DraftRow
    <3> HIDE DEF r
    <3>2. /\ Papers' = [Papers EXCEPT ![c.work] = [text |-> r.text, files |-> r.files]]
          /\ Marks' = [Marks EXCEPT ![c.work] = r.grade]
          /\ Handed' = Handed \ {c.work}
      BY <1>1, <2>1, <3>1, RowWritten
    <3> QED BY <3>1, <3>2
  <2>6. Marks' = Marks
    BY <1>1, <2>4, <2>5 DEF Marks
  <2>7. [text |-> c.text, files |-> c.files] \in [text : Text, files : SUBSET File]
    BY <1>1
  <2>8. Promise!Save(c.work)
    <3>1. Handed' = Handed /\ (parent' # Nothing) = (parent # Nothing)
      BY <1>1, <2>3, <2>5
    <3>2. \E paper \in [text : Text, files : SUBSET File] : Papers' = [Papers EXCEPT ![c.work] = paper]
      BY <2>5, <2>7
    <3> QED BY <2>3, <2>6, <3>1, <3>2, Zenon DEF Promise!Save, Papers, Marks, Handed
  <2> QED BY <1>1, <2>8
<1> QED BY <1>2, <1>3

LEMMA DiscardRefines ==
  ASSUME Inv, NEW p \in Proc, DiscardDraft(p)
  PROVE  (\E w \in Work : Promise!Discard(w)) \/ UNCHANGED Promise!vars
<1> DEFINE w == call[p].work
<1>1. w \in Work /\ parent' = parent
  BY DEF DiscardDraft, Inv, CallsSound, CallSound, OnWork
<1>2. CASE row[w] # Nothing /\ ~ row[w].submitted
  <2>1. row' = [row EXCEPT ![w] = Nothing]
    BY <1>2 DEF DiscardDraft
  <2>2. parent # Nothing /\ w \notin Handed /\ Marks[w] = Nothing
    BY <1>1, <1>2 DEF Handed, Marks, Inv, RowsSound, RowSound
  <2>3. /\ Papers' = [Papers EXCEPT ![w] = Nothing]
        /\ Marks' = [Marks EXCEPT ![w] = Nothing] /\ Handed' = Handed \ {w}
    BY <1>1, <2>1, RowErased
  <2>4. Marks' = Marks
    BY <1>1, <2>2, <2>3 DEF Marks
  <2>5. Promise!Discard(w)
    BY <1>1, <2>2, <2>3, <2>4 DEF Promise!Discard, Papers, Marks, Handed
  <2> QED BY <1>1, <2>5
<1>3. CASE ~ (row[w] # Nothing /\ ~ row[w].submitted)
  <2>1. row' = row
    BY <1>3 DEF DiscardDraft
  <2> QED BY <1>1, <2>1, PromiseStutters
<1> QED BY <1>2, <1>3

LEMMA SubmitRefines ==
  ASSUME Inv, NEW p \in Proc, SubmitDraft(p)
  PROVE  (\E w \in Work : Promise!Hand(w)) \/ UNCHANGED Promise!vars
<1> DEFINE w == call[p].work
<1>1. w \in Work /\ parent' = parent
  BY DEF SubmitDraft, Inv, CallsSound, CallSound, OnWork
<1>2. CASE row[w] # Nothing /\ ~ row[w].submitted
  <2>1. row[w] \in SubmissionRow /\ parent # Nothing
    BY <1>1, <1>2 DEF Inv, TypeOK, RowsSound, RowSound
  <2>2. row[w].grade \in Score \cup {Nothing} /\ row[w].text \in Text /\ row[w].files \in SUBSET File
    BY <2>1 DEF SubmissionRow
  <2>3. PICK text \in Text, files \in SUBSET File,
            submitted \in BOOLEAN, grade \in Score \cup {Nothing} :
          /\ text = row[w].text /\ files = row[w].files
          /\ submitted /\ grade = row[w].grade
          /\ row' = [row EXCEPT ![w] = Submission(text, files, submitted, grade)]
    BY <1>2, <2>2 DEF SubmitDraft
  <2>4. /\ Papers' = Papers /\ Marks' = [Marks EXCEPT ![w] = row[w].grade]
        /\ Handed' = Handed \cup {w}
    BY <1>1, <1>2, <2>3, RowStamped
  <2>5. Papers[w] = [text |-> row[w].text, files |-> row[w].files] /\ Marks[w] = row[w].grade
        /\ w \notin Handed
    BY <1>1, <1>2 DEF Papers, PaperOf, Marks, Handed
  <2>6. Marks' = Marks
    BY <1>1, <2>4, <2>5 DEF Marks
  <2>7. Papers[w] # Nothing
    BY <2>2, <2>5, NothingAssumption
  <2> QED BY <1>1, <2>1, <2>4, <2>5, <2>6, <2>7, HandMaps
<1>3. CASE ~ (row[w] # Nothing /\ ~ row[w].submitted)
  <2>1. row' = row
    BY <1>3 DEF SubmitDraft
  <2> QED BY <1>1, <2>1, PromiseStutters
<1> QED BY <1>2, <1>3

(* An assignment's grade demands work handed in; a project's finds it, for *)
(* what its request read stays so (CallSound).                             *)
LEMMA GradeRefines ==
  ASSUME Inv, NEW p \in Proc, GradeSubmission(p) \/ UpsertGrade(p)
  PROVE  (\E w \in Work : Promise!Grade(w)) \/ UNCHANGED Promise!vars
<1> DEFINE w == call[p].work
<1>1. w \in Work /\ parent' = parent
  BY DEF GradeSubmission, UpsertGrade, Inv, TypeOK, CallsSound, CallSound, OnWork
<1>2. CASE row' = row
  BY <1>1, <1>2, PromiseStutters
<1>3. ASSUME row' # row
      PROVE  \E v \in Work : Promise!Grade(v)
  <2>1. /\ row' = [row EXCEPT ![w] =
                     Submission(row[w].text, row[w].files, row[w].submitted, call[p].score)]
        /\ row[w] # Nothing /\ row[w].submitted /\ parent # Nothing
    BY <1>1, <1>3 DEF GradeSubmission, UpsertGrade, Graded, Inv, CallsSound, CallSound, RowsSound, RowSound
  <2>2. call[p].score \in Score
    BY DEF GradeSubmission, UpsertGrade, Inv, CallsSound, CallSound
  <2>3. /\ row[w].submitted \in BOOLEAN
        /\ row[w].text \in Text /\ row[w].files \in SUBSET File
    BY <1>1, <2>1 DEF Inv, TypeOK, SubmissionRow
  <2>4. PICK text \in Text, files \in SUBSET File,
            submitted \in BOOLEAN, grade \in Score \cup {Nothing} :
          /\ text = row[w].text /\ files = row[w].files
          /\ submitted /\ grade = call[p].score
          /\ row' = [row EXCEPT ![w] = Submission(text, files, submitted, grade)]
    BY <2>1, <2>2, <2>3
  <2>5. /\ Papers' = Papers /\ Marks' = [Marks EXCEPT ![w] = call[p].score]
        /\ Handed' = Handed \cup {w}
    <3>1. row[w] # Nothing
      BY <2>1
    <3> QED BY <1>1, <2>4, <3>1, RowStamped
  <2>6. w \in Handed
    BY <1>1, <2>1 DEF Handed
  <2>7. Handed' = Handed
    BY <2>5, <2>6
  <2> QED BY <1>1, <2>1, <2>2, <2>5, <2>6, <2>7, GradeMaps
<1> QED BY <1>2, <1>3

LEMMA DeleteRefines ==
  ASSUME NEW p \in Proc, DeleteParent(p)
  PROVE  Promise!Close \/ UNCHANGED Promise!vars
<1>1. CASE parent # Nothing
  <2>1. parent' = Nothing /\ row' = [w \in Work |-> Nothing]
    BY <1>1 DEF DeleteParent
  <2>2. Papers' = [w \in Work |-> Nothing] /\ Marks' = [w \in Work |-> Nothing] /\ Handed' = {}
    BY <2>1 DEF Papers, PaperOf, Marks, Handed
  <2> QED BY <2>1, <2>2 DEF Promise!Close, Papers, Marks, Handed
<1>2. CASE parent = Nothing
  BY <1>2, PromiseStutters DEF DeleteParent, store
<1> QED BY <1>1, <1>2

LEMMA OthersStutter ==
  ASSUME Inv, NEW p \in Proc,
         \/ Update \/ Crash \/ (\E f \in File : ExpireReceipt(f))
         \/ LinkFile(p) \/ LinkFails(p) \/ CreateAttachment(p) \/ UnlinkFile(p)
         \/ Done(p) \/ CheckWork(p) \/ BeginDelete(p)
         \/ (\E f \in File : BeginAttach(p, f) \/ Detach(p, f))
         \/ \E w \in Work :
              \/ BeginSubmit(p, w) \/ BeginSubmitGroup(p, w) \/ BeginDiscard(p, w)
              \/ \E text \in Text, files \in SUBSET File :
                   BeginSaveDraft(p, w, text, files) \/ BeginSaveSubmission(p, w, text, files)
              \/ \E score \in Score : BeginGrade(p, w, score) \/ BeginGradeMember(p, w, score)
  PROVE  UNCHANGED Promise!vars
<1>1. row' = row /\ ((parent' # Nothing) = (parent # Nothing))
  <2>1. CASE Update
    BY <2>1, NothingAssumption DEF Update
  <2>2. CASE Crash \/ (\E f \in File : ExpireReceipt(f))
    BY <2>2 DEF Crash, ExpireReceipt, store
  <2>3. CASE LinkFile(p) \/ LinkFails(p) \/ UnlinkFile(p)
    BY <2>3 DEF LinkFile, LinkFails, UnlinkFile, store
  <2>4. CASE CreateAttachment(p) \/ (\E f \in File : Detach(p, f))
    BY <2>4 DEF CreateAttachment, Detach
  <2>5. CASE Done(p) \/ CheckWork(p)
    BY <2>5 DEF Done, CheckWork, store
  <2>6. CASE BeginDelete(p) \/ \E f \in File : BeginAttach(p, f)
    BY <2>6 DEF BeginDelete, BeginAttach, store
  <2>7. CASE \E w \in Work : BeginSubmit(p, w) \/ BeginSubmitGroup(p, w) \/ BeginDiscard(p, w)
    BY <2>7 DEF BeginSubmit, BeginSubmitGroup, BeginDiscard, ReadToSubmit, store
  <2>8. CASE \E w \in Work, text \in Text, files \in SUBSET File :
               BeginSaveDraft(p, w, text, files) \/ BeginSaveSubmission(p, w, text, files)
    BY <2>8 DEF BeginSaveDraft, BeginSaveSubmission, BeginSave, store
  <2>9. CASE \E w \in Work, score \in Score : BeginGrade(p, w, score) \/ BeginGradeMember(p, w, score)
    BY <2>9 DEF BeginGrade, BeginGradeMember, store
  <2> QED BY <2>1, <2>2, <2>3, <2>4, <2>5, <2>6, <2>7, <2>8, <2>9
<1> QED BY <1>1, PromiseStutters

LEMMA PromiseInit == Init => Promise!Init
<1> SUFFICES ASSUME Init PROVE Promise!Init
  OBVIOUS
<1>1. parent # Nothing
  <2>1. parent \in ParentRow
    BY DEF Init, ParentRow, Windows
  <2> QED BY <2>1, NothingAssumption
<1>2. Papers = [w \in Work |-> Nothing] /\ Marks = [w \in Work |-> Nothing] /\ Handed = {}
  BY DEF Init, Papers, PaperOf, Marks, Handed
<1> QED BY <1>1, <1>2 DEF Promise!Init, Papers, Marks, Handed

LEMMA PromiseNext == Inv /\ [Next]_vars => [Promise!Next]_Promise!vars
<1> SUFFICES ASSUME Inv, [Next]_vars PROVE Promise!Next \/ UNCHANGED Promise!vars
  OBVIOUS
<1>1. CASE UNCHANGED vars
  BY <1>1, PromiseStutters DEF vars
<1>2. CASE Update \/ Crash \/ \E f \in File : ExpireReceipt(f)
  <2>1. row' = row /\ ((parent' # Nothing) = (parent # Nothing))
    BY <1>2, NothingAssumption DEF Update, Crash, ExpireReceipt, store
  <2> QED BY <2>1, PromiseStutters
<1>3. ASSUME NEW p \in Proc, SaveDraft(p) \/ DiscardDraft(p) \/ SubmitDraft(p)
      PROVE  Promise!Next \/ UNCHANGED Promise!vars
  BY <1>3, SaveRefines, DiscardRefines, SubmitRefines DEF Promise!Next
<1>4. ASSUME NEW p \in Proc, GradeSubmission(p) \/ UpsertGrade(p) \/ DeleteParent(p)
      PROVE  Promise!Next \/ UNCHANGED Promise!vars
  BY <1>4, GradeRefines, DeleteRefines DEF Promise!Next
<1> QED BY <1>1, <1>2, <1>3, <1>4, OthersStutter DEF Next

(* Graded work implements HandIn: whatever requests are in flight, work    *)
(* handed in is neither changed nor thrown away while its assignment or    *)
(* project exists, and only work handed in is graded.                      *)
THEOREM KeepsPromiseAlways == Spec => KeepsPromise
<1>1. Init => Promise!Init
  BY PromiseInit
<1>2. Inv /\ [Next]_vars => [Promise!Next]_Promise!vars
  BY PromiseNext
<1>3. Spec => []Inv
  BY Invariance
<1> QED BY <1>1, <1>2, <1>3, PTL DEF Spec, KeepsPromise, Promise!Spec
-----------------------------------------------------------------------------
(* The counting law.  What makes it inductive is what is in flight: a file *)
(* counted for a row not yet written, or still to be uncounted for a row   *)
(* that is gone, owns one count no row stands for.                         *)

One(b) == IF b THEN 1 ELSE 0

(* What a request has counted or must still uncount, by who refers to it. *)
Pending(c) ==
  {r \in Refs : \/ c.op \in {"draft", "attach"} /\ r \in Of(c.work, c.files) \ c.left
                \/ c.op = "uncount" /\ r \in c.left}

Holders(f) == {w \in Work : row[w] # Nothing /\ f \in row[w].files}
Owed(f) == {o \in Proc \X (Work \cup {Nothing}) : <<o[2], f>> \in Pending(call[o[1]])}
Uses(f) ==
  Cardinality(Holders(f)) + Cardinality(Owed(f)) + One(f \in attached) + One(f \in receipt)

(* Covered while something may have failed, exact while nothing has. *)
Covered(f) == Uses(f) <= links[f] /\ (faults = 0 => Uses(f) = links[f])

(* A request counts for what it will refer to; what is being attached is   *)
(* not attached, and by one request only.                                  *)
LinkSound(c) ==
  /\ c.op \in {"draft", "attach"} => c.left \subseteq Of(c.work, c.files)
  /\ c.op = "attach" => c.work = Nothing /\ c.files \cap attached = {}
Apart(c, d) == c.op = "attach" /\ d.op = "attach" => c.files \cap d.files = {}

LinksSound ==
  /\ faults \in Nat
  /\ \A p \in Proc : LinkSound(call[p])
  /\ \A p, q \in Proc : p # q => Apart(call[p], call[q])

CountInv == LinksSound /\ (overtaken \/ \A f \in File : Covered(f))

LEMMA OneMember ==
  ASSUME NEW S, NEW T, NEW x, IsFiniteSet(S), IsFiniteSet(T), S \ {x} = T \ {x}
  PROVE  /\ Cardinality(S) \in Nat /\ Cardinality(T) \in Nat
         /\ Cardinality(T) + One(x \in S) = Cardinality(S) + One(x \in T)
<1>0. Cardinality(S) \in Nat /\ Cardinality(T) \in Nat
  BY FS_CardinalityType
<1>1. CASE x \in S <=> x \in T
  <2>1. S = T
    BY <1>1
  <2> QED BY <1>0, <2>1
<1>2. CASE x \in S /\ x \notin T
  <2>1. S = T \cup {x}
    BY <1>2
  <2> QED BY <1>0, <1>2, <2>1, FS_AddElement DEF One
<1>3. CASE x \notin S /\ x \in T
  <2>1. T = S \cup {x}
    BY <1>3
  <2> QED BY <1>0, <1>3, <2>1, FS_AddElement DEF One
<1> QED BY <1>1, <1>2, <1>3

LEMMA Finite ==
  ASSUME NEW f
  PROVE  /\ IsFiniteSet(Holders(f)) /\ IsFiniteSet(Owed(f))
         /\ IsFiniteSet(Holders(f)') /\ IsFiniteSet(Owed(f)')
<1>1. IsFiniteSet(Work \cup {Nothing})
  BY FiniteAssumption, FS_AddElement
<1>2. IsFiniteSet(Proc \X (Work \cup {Nothing}))
  BY <1>1, FiniteAssumption, FS_Product
<1>3. Owed(f) \in SUBSET (Proc \X (Work \cup {Nothing})) /\ Owed(f)' \in SUBSET (Proc \X (Work \cup {Nothing}))
  BY DEF Owed
<1>4. Holders(f) \in SUBSET Work /\ Holders(f)' \in SUBSET Work
  BY DEF Holders
<1> QED BY <1>2, <1>3, <1>4, FiniteAssumption, FS_Subset

LEMMA CountsAreNat ==
  ASSUME NEW f
  PROVE  /\ Cardinality(Holders(f)) \in Nat /\ Cardinality(Holders(f)') \in Nat
         /\ Cardinality(Owed(f)) \in Nat /\ Cardinality(Owed(f)') \in Nat
BY Finite, FS_CardinalityType

(* One row changes. *)
LEMMA HoldersAfter ==
  ASSUME NEW f, NEW w \in Work, \A v \in Work \ {w} : row'[v] = row[v]
  PROVE  Cardinality(Holders(f)') + One(w \in Holders(f)) =
           Cardinality(Holders(f)) + One(w \in Holders(f)')
<1>1. Holders(f) \ {w} = Holders(f)' \ {w}
  BY DEF Holders
<1> QED BY <1>1, Finite, OneMember

(* One request changes, and for f only on behalf of w. *)
LEMMA OwedAfter ==
  ASSUME NEW f \in File, NEW p \in Proc, NEW w \in Work \cup {Nothing},
         \A q \in Proc \ {p} : call'[q] = call[q],
         \A v \in (Work \cup {Nothing}) \ {w} :
           <<v, f>> \in Pending(call[p]) <=> <<v, f>> \in Pending(call'[p])
  PROVE  Cardinality(Owed(f)') + One(<<w, f>> \in Pending(call[p])) =
           Cardinality(Owed(f)) + One(<<w, f>> \in Pending(call'[p]))
<1> DEFINE o == <<p, w>>
<1>1. Owed(f)' = {x \in Proc \X (Work \cup {Nothing}) : <<x[2], f>> \in Pending(call'[x[1]])}
  BY DEF Owed, Pending
<1>2. \A x \in Proc \X (Work \cup {Nothing}) : x # o => (x \in Owed(f) <=> x \in Owed(f)')
  <2> SUFFICES ASSUME NEW q \in Proc, NEW v \in Work \cup {Nothing}, <<q, v>> # o
               PROVE  <<v, f>> \in Pending(call[q]) <=> <<v, f>> \in Pending(call'[q])
    BY <1>1 DEF Owed
  <2>1. CASE q = p
    BY <2>1
  <2>2. CASE q # p
    BY <2>2
  <2> QED BY <2>1, <2>2
<1>3. Owed(f) \ {o} = Owed(f)' \ {o}
  BY <1>1, <1>2 DEF Owed
<1>4. o \in Owed(f) <=> <<w, f>> \in Pending(call[p])
  BY DEF Owed
<1>5. o \in Owed(f)' <=> <<w, f>> \in Pending(call'[p])
  BY <1>1
<1>6. Cardinality(Owed(f)') + One(o \in Owed(f)) = Cardinality(Owed(f)) + One(o \in Owed(f)')
  BY <1>3, Finite, OneMember
<1> QED BY <1>4, <1>5, <1>6 DEF One

(* One request changes, and owes for f what it owed. *)
LEMMA OwedStays ==
  ASSUME NEW f \in File, NEW p \in Proc,
         \A q \in Proc \ {p} : call'[q] = call[q],
         \A v \in Work \cup {Nothing} : <<v, f>> \in Pending(call[p]) <=> <<v, f>> \in Pending(call'[p])
  PROVE  Owed(f)' = Owed(f)
<1>1. Owed(f)' = {x \in Proc \X (Work \cup {Nothing}) : <<x[2], f>> \in Pending(call'[x[1]])}
  BY DEF Owed, Pending
<1>2. \A x \in Proc \X (Work \cup {Nothing}) :
        <<x[2], f>> \in Pending(call[x[1]]) <=> <<x[2], f>> \in Pending(call'[x[1]])
  <2> SUFFICES ASSUME NEW q \in Proc, NEW v \in Work \cup {Nothing}
               PROVE  <<v, f>> \in Pending(call[q]) <=> <<v, f>> \in Pending(call'[q])
    OBVIOUS
  <2>1. CASE q = p
    BY <2>1
  <2>2. CASE q # p
    BY <2>2
  <2> QED BY <2>1, <2>2
<1> QED BY <1>1, <1>2 DEF Owed
(* LinksSound after a step of one request. *)
LEMMA LinksKept ==
  ASSUME LinksSound, NEW p \in Proc, faults' \in Nat, attached' \subseteq attached,
         \A q \in Proc \ {p} : call'[q] = call[q],
         LinkSound(call'[p]),
         call'[p].op = "attach" => \A q \in Proc \ {p} : Apart(call[q], call'[p])
  PROVE  LinksSound'
<1>1. \A q \in Proc : LinkSound(call[q])'
  <2> SUFFICES ASSUME NEW q \in Proc PROVE LinkSound(call[q])'
    OBVIOUS
  <2>1. CASE q = p
    BY <2>1 DEF LinkSound
  <2>2. CASE q # p
    BY <2>2 DEF LinksSound, LinkSound
  <2> QED BY <2>1, <2>2
<1>2. \A q, r \in Proc : q # r => Apart(call'[q], call'[r])
  <2> SUFFICES ASSUME NEW q \in Proc, NEW r \in Proc, q # r
               PROVE  Apart(call'[q], call'[r])
    OBVIOUS
  <2>1. CASE q # p /\ r # p
    BY <2>1 DEF LinksSound
  <2>2. CASE q = p
    BY <2>2 DEF Apart
  <2>3. CASE r = p
    BY <2>3 DEF Apart
  <2> QED BY <2>1, <2>2, <2>3
<1> QED BY <1>1, <1>2 DEF LinksSound, Apart

(* A request that no longer counts is apart from every other. *)
LEMMA LinksKeptWithout ==
  ASSUME LinksSound, NEW p \in Proc, faults' \in Nat, attached' \subseteq attached,
         \A q \in Proc \ {p} : call'[q] = call[q],
         call'[p].op \notin {"draft", "attach"}
  PROVE  LinksSound'
BY LinksKept DEF LinkSound

(* A step that changes neither what refers to files nor what requests owe. *)
LEMMA CoveredStays ==
  ASSUME NEW f \in File, Covered(f), NEW p \in Proc,
         UNCHANGED <<attached, receipt, links, faults>>, Holders(f)' = Holders(f),
         \A q \in Proc \ {p} : call'[q] = call[q],
         \A v \in Work \cup {Nothing} : <<v, f>> \in Pending(call[p]) <=> <<v, f>> \in Pending(call'[p])
  PROVE  Covered(f)'
<1>1. Owed(f)' = Owed(f)
  BY OwedStays
<1> QED BY <1>1 DEF Covered, Uses

LEMMA NoPending ==
  ASSUME NEW c, c.op \notin {"draft", "attach", "uncount"} 
  PROVE  Pending(c) = {}
BY DEF Pending

(* Requests begin without a count of their own: only Detach owes one at once. *)
LEMMA BeginCounts ==
  ASSUME Inv, CountInv, NEW p \in Proc, NEW op \in Ops \ {"none", "uncount"}, NEW w \in Work \cup {Nothing},
         NEW text \in Text, NEW files \in SUBSET File, NEW left \in SUBSET Refs,
         NEW score \in Score \cup {Nothing},
         op \in {"draft", "attach"} => left = Of(w, files),
         op = "attach" => /\ w = Nothing /\ files \cap attached = {}
                          /\ \A q \in Proc \ {p} : call[q].op = "attach" => call[q].files \cap files = {},
         Begin(p, Call(op, w, text, files, left, score)),
         UNCHANGED <<kind, store, links, receipt, faults, overtaken>>
  PROVE  CountInv'
<1> DEFINE c == Call(op, w, text, files, left, score)
<1>1. c \in CallRow /\ c.op = op /\ c.work = w /\ c.files = files /\ c.left = left
  BY NewCall
<1>2. Begin(p, c)
  OBVIOUS
<1> HIDE DEF c
<1>3. call'[p] = c /\ call[p] = NoCall /\ \A q \in Proc \ {p} : call'[q] = call[q]
  BY <1>1, <1>2, BeginOK DEF Inv, Begin
<1>4. LinksSound'
  <2>1. LinkSound(c)
    BY <1>1 DEF LinkSound
  <2>2. op = "attach" => \A q \in Proc \ {p} : Apart(call[q], c)
    BY <1>1 DEF Apart
  <2> QED BY <1>1, <1>3, <2>1, <2>2, LinksKept DEF CountInv, LinksSound, store
<1>5. Pending(call[p]) = {} /\ Pending(call'[p]) = {}
  <2>1. Pending(NoCall) = {}
    BY NoCallTyped, NoPending
  <2>2. Pending(c) = {}
    BY <1>1 DEF Pending
  <2> QED BY <1>3, <2>1, <2>2
<1>6. ASSUME NEW f \in File, Covered(f) PROVE Covered(f)'
  <2>1. Holders(f)' = Holders(f)
    BY DEF Holders, store
  <2> QED BY <1>3, <1>5, <1>6, <2>1, CoveredStays DEF store
<1> QED BY <1>4, <1>6 DEF CountInv

LEMMA BeginsCount ==
  ASSUME Inv, CountInv, NEW p \in Proc,
         \/ BeginDelete(p)
         \/ \E f \in File : BeginAttach(p, f)
         \/ \E w \in Work :
              \/ BeginSubmit(p, w) \/ BeginSubmitGroup(p, w) \/ BeginDiscard(p, w)
              \/ \E text \in Text, files \in SUBSET File :
                   BeginSaveDraft(p, w, text, files) \/ BeginSaveSubmission(p, w, text, files)
              \/ \E score \in Score : BeginGrade(p, w, score) \/ BeginGradeMember(p, w, score)
  PROVE  CountInv'
<1>1. Nothing \in Text /\ {} \in SUBSET File /\ {} \in SUBSET Refs
  BY NothingAssumption
<1>2. CASE BeginDelete(p)
  <2>1. Referred \in SUBSET Refs
    BY ReferredTyped
  <2>2. Begin(p, Call("delete", Nothing, Nothing, {}, Referred, Nothing))
        /\ UNCHANGED <<kind, store, links, receipt, faults, overtaken>>
    BY <1>2 DEF BeginDelete
  <2> QED BY <1>1, <2>1, <2>2, BeginCounts DEF Ops
<1>3. ASSUME NEW f \in File, BeginAttach(p, f) PROVE CountInv'
  <2>1. Begin(p, Call("attach", Nothing, Nothing, {f}, Of(Nothing, {f}), Nothing))
        /\ UNCHANGED <<kind, store, links, receipt, faults, overtaken>>
    BY <1>3 DEF BeginAttach
  <2>2. {f} \in SUBSET File /\ Of(Nothing, {f}) \in SUBSET Refs
    BY RefsTyped
  <2>3. /\ {f} \cap attached = {}
        /\ \A q \in Proc \ {p} : call[q].op = "attach" => call[q].files \cap {f} = {}
    BY <1>3 DEF BeginAttach
  <2> QED BY <1>1, <2>1, <2>2, <2>3, BeginCounts DEF Ops
<1>4. ASSUME NEW w \in Work, BeginSubmit(p, w) \/ BeginSubmitGroup(p, w) PROVE CountInv'
  <2>1. row[w].text \in Text
    BY <1>4 DEF Inv, TypeOK, SubmissionRow, BeginSubmit, BeginSubmitGroup, ReadToSubmit
  <2>2. Begin(p, Call("check", w, row[w].text, {}, {}, Nothing))
        /\ UNCHANGED <<kind, store, links, receipt, faults, overtaken>>
    BY <1>4 DEF BeginSubmit, BeginSubmitGroup, ReadToSubmit
  <2> QED BY <1>1, <2>1, <2>2, BeginCounts DEF Ops
<1>5. ASSUME NEW w \in Work, BeginDiscard(p, w) PROVE CountInv'
  <2>1. Of(w, row[w].files) \in SUBSET Refs
    <3>1. row[w].files \in SUBSET File
      BY <1>5 DEF Inv, TypeOK, SubmissionRow, BeginDiscard
    <3> QED BY <3>1, RefsTyped
  <2>2. Begin(p, Call("discard", w, Nothing, {}, Of(w, row[w].files), Nothing))
        /\ UNCHANGED <<kind, store, links, receipt, faults, overtaken>>
    BY <1>5 DEF BeginDiscard
  <2> QED BY <1>1, <2>1, <2>2, BeginCounts DEF Ops
<1>6. ASSUME NEW w \in Work, NEW text \in Text, NEW files \in SUBSET File,
             BeginSaveDraft(p, w, text, files) \/ BeginSaveSubmission(p, w, text, files)
      PROVE  CountInv'
  <2>1. Of(w, files) \in SUBSET Refs
    BY RefsTyped
  <2>2. Begin(p, Call("draft", w, text, files, Of(w, files), Nothing))
        /\ UNCHANGED <<kind, store, links, receipt, faults, overtaken>>
    BY <1>6 DEF BeginSaveDraft, BeginSaveSubmission, BeginSave
  <2> QED BY <1>1, <2>1, <2>2, BeginCounts DEF Ops
<1>7. ASSUME NEW w \in Work, NEW score \in Score, BeginGrade(p, w, score) \/ BeginGradeMember(p, w, score)
      PROVE  CountInv'
  <2>1. /\ \E op \in {"grade", "upsert"} : Begin(p, Call(op, w, Nothing, {}, {}, score))
        /\ UNCHANGED <<kind, store, links, receipt, faults, overtaken>>
    BY <1>7 DEF BeginGrade, BeginGradeMember
  <2> QED BY <1>1, <2>1, BeginCounts DEF Ops
<1> QED BY <1>2, <1>3, <1>4, <1>5, <1>6, <1>7
(* linkAll counts one file more and owes it to the row to come. *)
LEMMA LinkCounts == ASSUME Inv, CountInv, NEW p \in Proc, LinkFile(p) PROVE CountInv'
<1> DEFINE c == call[p]
<1>1. PICK r \in c.left :
        /\ links[r[2]] >= 1
        /\ links' = [links EXCEPT ![r[2]] = @ + 1]
        /\ Goes(p, c.op, c.left \ {r})
  BY DEF LinkFile
<1>2. /\ c \in CallRow /\ c.op \in {"draft", "attach"}
      /\ c.left \in SUBSET Refs /\ r \in Refs /\ c.left \subseteq Of(c.work, c.files)
      /\ UNCHANGED <<row, attached, receipt, faults, overtaken>>
  BY CallFields DEF LinkFile, Inv, TypeOK, CountInv, LinksSound, LinkSound, store
<1>3. r[1] = c.work /\ r[2] \in c.files /\ r[2] \in File /\ r[1] \in Work \cup {Nothing} /\ r = <<r[1], r[2]>>
  BY <1>2 DEF Of, Refs
<1>4. /\ call'[p].op = c.op /\ call'[p].work = c.work /\ call'[p].files = c.files
      /\ call'[p].left = c.left \ {r} /\ \A q \in Proc \ {p} : call'[q] = call[q]
  <2>1. c.op \in Ops /\ c.left \ {r} \in SUBSET Refs
    BY <1>2 DEF Ops
  <2> QED BY <1>1, <2>1, GoesOK DEF Inv
<1>5. LinksSound'
  <2>1. LinkSound(call'[p])
    BY <1>2, <1>4 DEF LinkSound, CountInv, LinksSound
  <2>2. call'[p].op = "attach" => \A q \in Proc \ {p} : Apart(call[q], call'[p])
    BY <1>4 DEF Apart, CountInv, LinksSound
  <2> QED BY <1>2, <1>4, <2>1, <2>2, LinksKept DEF CountInv, LinksSound
<1>6. \A s \in Refs : s \in Pending(call'[p]) <=> s \in Pending(c) \/ s = r
  BY <1>2, <1>4 DEF Pending
<1>7. r \notin Pending(c)
  BY <1>1, <1>2 DEF Pending
<1>8. ASSUME NEW f \in File, Covered(f) PROVE Covered(f)'
  <2>1. Holders(f)' = Holders(f)
    BY <1>2 DEF Holders
  <2>2. CASE f = r[2]
    <3>1. Cardinality(Owed(f)') = Cardinality(Owed(f)) + 1
      <4>1. \A v \in (Work \cup {Nothing}) \ {r[1]} :
              <<v, f>> \in Pending(call[p]) <=> <<v, f>> \in Pending(call'[p])
        BY <1>3, <1>6, <2>2 DEF Refs
      <4>2. <<r[1], f>> \notin Pending(call[p]) /\ <<r[1], f>> \in Pending(call'[p])
        BY <1>2, <1>3, <1>6, <1>7, <2>2
      <4>3. Cardinality(Owed(f)') + One(<<r[1], f>> \in Pending(call[p])) =
              Cardinality(Owed(f)) + One(<<r[1], f>> \in Pending(call'[p]))
        BY <1>3, <1>4, <4>1, OwedAfter
      <4> QED BY <4>2, <4>3, CountsAreNat DEF One
    <3>2. links'[f] = links[f] + 1 /\ links[f] \in Nat
      BY <1>1, <1>3, <2>2 DEF Inv, TypeOK
    <3> QED BY <1>2, <1>8, <2>1, <3>1, <3>2, CountsAreNat DEF Covered, Uses, One
  <2>3. CASE f # r[2]
    <3>1. \A v \in Work \cup {Nothing} : <<v, f>> \in Pending(call[p]) <=> <<v, f>> \in Pending(call'[p])
      BY <1>3, <1>6, <2>3 DEF Refs
    <3>2. Owed(f)' = Owed(f)
      BY <1>4, <3>1, OwedStays
    <3>3. links'[f] = links[f]
      BY <1>1, <1>3, <2>3 DEF Inv, TypeOK
    <3> QED BY <1>2, <1>8, <2>1, <3>2, <3>3 DEF Covered, Uses
  <2> QED BY <2>2, <2>3
<1> QED BY <1>2, <1>5, <1>8 DEF CountInv

(* unlinkLogged counts one file less, or fails and leaves one too many. *)
LEMMA UnlinkCounts == ASSUME Inv, CountInv, NEW p \in Proc, UnlinkFile(p) PROVE CountInv'
<1> DEFINE c == call[p]
<1>1. PICK r \in c.left :
        /\ \/ links' = [links EXCEPT ![r[2]] = IF @ >= 1 THEN @ - 1 ELSE @] /\ UNCHANGED faults
           \/ faults' = faults + 1 /\ UNCHANGED links
        /\ Goes(p, c.op, c.left \ {r})
  BY DEF UnlinkFile, Fault
<1>2. /\ c \in CallRow /\ c.op = "uncount" /\ c.left \in SUBSET Refs /\ r \in Refs
      /\ UNCHANGED <<row, attached, receipt, overtaken>>
  BY CallFields DEF UnlinkFile, Inv, TypeOK, store
<1>3. r[2] \in File /\ r[1] \in Work \cup {Nothing} /\ r = <<r[1], r[2]>>
  BY <1>2 DEF Refs
<1>4. /\ call'[p].op = "uncount" /\ call'[p].left = c.left \ {r}
      /\ \A q \in Proc \ {p} : call'[q] = call[q]
  <2>1. c.op \in Ops /\ c.left \ {r} \in SUBSET Refs
    BY <1>2 DEF Ops
  <2> QED BY <1>1, <1>2, <2>1, GoesOK DEF Inv
<1>5. faults' \in Nat /\ faults \in Nat
  BY <1>1 DEF CountInv, LinksSound
<1>6. LinksSound'
  BY <1>2, <1>4, <1>5, LinksKeptWithout DEF CountInv
<1>7. r \in Pending(c) /\ \A s \in Refs : s \in Pending(call'[p]) <=> s \in Pending(c) /\ s # r
  BY <1>2, <1>4 DEF Pending
<1>8. ASSUME NEW f \in File, Covered(f) PROVE Covered(f)'
  <2>1. Holders(f)' = Holders(f)
    BY <1>2 DEF Holders
  <2>2. CASE f = r[2]
    <3>1. Cardinality(Owed(f)) = Cardinality(Owed(f)') + 1
      <4>1. \A v \in (Work \cup {Nothing}) \ {r[1]} :
              <<v, f>> \in Pending(call[p]) <=> <<v, f>> \in Pending(call'[p])
        BY <1>3, <1>7, <2>2 DEF Refs
      <4>2. <<r[1], f>> \in Pending(call[p]) /\ <<r[1], f>> \notin Pending(call'[p])
        BY <1>2, <1>3, <1>7, <2>2
      <4>3. Cardinality(Owed(f)') + One(<<r[1], f>> \in Pending(call[p])) =
              Cardinality(Owed(f)) + One(<<r[1], f>> \in Pending(call'[p]))
        BY <1>3, <1>4, <4>1, OwedAfter
      <4> QED BY <4>2, <4>3, CountsAreNat DEF One
    <3>2. links[f] \in Nat /\ links[f] >= 1
      <4>1. links[f] \in Nat
        BY DEF Inv, TypeOK
      <4> QED BY <1>8, <3>1, <4>1, CountsAreNat DEF Covered, Uses, One
    <3>3. \/ links'[f] = links[f] - 1 /\ UNCHANGED faults
          \/ links'[f] = links[f] /\ faults' # 0
      BY <1>1, <1>3, <1>5, <2>2, <3>2 DEF Inv, TypeOK
    <3> QED BY <1>2, <1>5, <1>8, <2>1, <3>1, <3>2, <3>3, CountsAreNat DEF Covered, Uses, One
  <2>3. CASE f # r[2]
    <3>1. \A v \in Work \cup {Nothing} : <<v, f>> \in Pending(call[p]) <=> <<v, f>> \in Pending(call'[p])
      BY <1>3, <1>7, <2>3 DEF Refs
    <3>2. Owed(f)' = Owed(f)
      BY <1>4, <3>1, OwedStays
    <3>3. links'[f] = links[f] /\ (faults' = 0 => faults = 0)
      BY <1>1, <1>3, <1>5, <2>3 DEF Inv, TypeOK
    <3> QED BY <1>2, <1>8, <2>1, <3>2, <3>3 DEF Covered, Uses
  <2> QED BY <2>2, <2>3
<1> QED BY <1>2, <1>6, <1>8 DEF CountInv

(* A link fails: what was counted is owed back, and nothing else. *)
LEMMA LinkFailsCounts == ASSUME Inv, CountInv, NEW p \in Proc, LinkFails(p) PROVE CountInv'
<1> DEFINE c == call[p]
           left == Of(c.work, c.files) \ c.left
<1>1. /\ c \in CallRow /\ c.op \in {"draft", "attach"}
      /\ Goes(p, "uncount", left)
      /\ UNCHANGED <<row, attached, receipt, links, overtaken>>
      /\ faults' = faults \/ faults' = faults + 1
  BY DEF LinkFails, Fault, Inv, TypeOK, store
<1>2. left \in SUBSET Refs
  BY <1>1, CallFields, RefsTyped
<1> HIDE DEF left
<1>3. /\ call'[p].op = "uncount" /\ call'[p].left = left
      /\ \A q \in Proc \ {p} : call'[q] = call[q]
  BY <1>1, <1>2, GoesOK DEF Inv, Ops
<1>4. faults' \in Nat /\ (faults' = 0 => faults = 0)
  BY <1>1 DEF CountInv, LinksSound
<1>5. LinksSound'
  BY <1>1, <1>3, <1>4, LinksKeptWithout DEF CountInv
<1>6. Pending(call'[p]) = Pending(c)
  BY <1>1, <1>3 DEF Pending, left
<1>7. ASSUME NEW f \in File, Covered(f) PROVE Covered(f)'
  <2>1. Holders(f)' = Holders(f) /\ Owed(f)' = Owed(f)
    BY <1>1, <1>3, <1>6, OwedStays DEF Holders
  <2> QED BY <1>1, <1>4, <1>7, <2>1 DEF Covered, Uses
<1> QED BY <1>1, <1>5, <1>7 DEF CountInv
(* A request that owes nothing ends. *)
LEMMA EndCounts ==
  ASSUME Inv, CountInv, NEW p \in Proc, Pending(call[p]) = {}, End(p),
         UNCHANGED <<row, attached, links, receipt, faults, overtaken>>
  PROVE  CountInv'
<1>1. call'[p] = NoCall /\ \A q \in Proc \ {p} : call'[q] = call[q]
  BY DEF End, Inv, TypeOK
<1>2. Pending(call'[p]) = {}
  BY <1>1, NoCallTyped, NoPending
<1>3. \A f \in File : Covered(f) => Covered(f)'
  BY <1>1, <1>2, CoveredStays DEF Holders
<1>4. LinksSound'
  BY <1>1, NoCallTyped, LinksKeptWithout DEF CountInv, LinksSound
<1> QED BY <1>3, <1>4 DEF CountInv
(* A row takes over the count of its request, and hands the request what   *)
(* it referred to before: for every file the two exchange places.          *)
LEMMA Exchanged ==
  ASSUME NEW f \in File, Covered(f), NEW p \in Proc, NEW w \in Work,
         UNCHANGED <<attached, receipt, links, faults>>,
         \A v \in Work \ {w} : row'[v] = row[v],
         \A q \in Proc \ {p} : call'[q] = call[q],
         \A v \in (Work \cup {Nothing}) \ {w} :
           <<v, f>> \in Pending(call[p]) <=> <<v, f>> \in Pending(call'[p]),
         <<w, f>> \in Pending(call[p]) <=> w \in Holders(f)',
         <<w, f>> \in Pending(call'[p]) <=> w \in Holders(f)
  PROVE  Covered(f)'
<1>1. Cardinality(Holders(f)') + One(w \in Holders(f)) =
        Cardinality(Holders(f)) + One(w \in Holders(f)')
  BY HoldersAfter
<1>2. Cardinality(Owed(f)') + One(<<w, f>> \in Pending(call[p])) =
        Cardinality(Owed(f)) + One(<<w, f>> \in Pending(call'[p]))
  BY OwedAfter
<1>3. Cardinality(Holders(f)') + Cardinality(Owed(f)') =
        Cardinality(Holders(f)) + Cardinality(Owed(f))
  BY <1>1, <1>2, CountsAreNat DEF One
<1> QED BY <1>3, CountsAreNat DEF Covered, Uses, One

LEMMA SaveCounts == ASSUME Inv, CountInv, NEW p \in Proc, SaveDraft(p) PROVE CountInv'
<1> DEFINE c == call[p]
           w == c.work
           r == Submission(c.text, c.files, FALSE, Nothing)
<1>1. /\ c \in CallRow /\ c.op = "draft" /\ c.left = {} /\ w \in Work
      /\ c.text \in Text /\ c.files \in SUBSET File
      /\ UNCHANGED <<attached, links, receipt, faults, overtaken>>
  BY CallFields DEF SaveDraft, Inv, TypeOK, CallsSound, CallSound, OnWork
<1>2. Pending(c) = Of(w, c.files)
  BY <1>1, RefsTyped DEF Pending
<1>3. CASE Refused(w)
  <2>1. Goes(p, "uncount", Of(w, c.files)) /\ row' = row
    BY <1>3 DEF SaveDraft
  <2>2. Of(w, c.files) \in SUBSET Refs
    BY <1>1, RefsTyped
  <2>3. /\ call'[p].op = "uncount" /\ call'[p].left = Of(w, c.files)
        /\ \A q \in Proc \ {p} : call'[q] = call[q]
    BY <2>1, <2>2, GoesOK DEF Inv, Ops
  <2>4. Pending(call'[p]) = Pending(c)
    BY <1>2, <2>2, <2>3 DEF Pending
  <2>5. \A f \in File : Covered(f) => Covered(f)'
    BY <1>1, <2>1, <2>3, <2>4, CoveredStays DEF Holders
  <2>6. LinksSound'
    BY <1>1, <2>3, LinksKeptWithout DEF CountInv, LinksSound
  <2> QED BY <1>1, <2>5, <2>6 DEF CountInv
<1>4. CASE ~ Refused(w)
  <2> DEFINE left == IF row[w] = Nothing THEN {} ELSE Of(w, row[w].files)
  <2>1. row' = [row EXCEPT ![w] = r] /\ Goes(p, "uncount", left)
    BY <1>4 DEF SaveDraft
  <2>2. left \in SUBSET Refs
    <3>1. CASE row[w] = Nothing
      BY <3>1
    <3>2. CASE row[w] # Nothing
      <4>1. row[w].files \in SUBSET File
        BY <1>1, <3>2 DEF Inv, TypeOK, SubmissionRow
      <4> QED BY <1>1, <4>1, RefsTyped, <3>2
    <3> QED BY <3>1, <3>2
  <2>3. \A v : \A f \in File : <<v, f>> \in left <=> v = w /\ w \in Holders(f)
    BY <1>1 DEF Of, Holders
  <2> HIDE DEF left
  <2>4. /\ call'[p].op = "uncount" /\ call'[p].left = left
        /\ \A q \in Proc \ {p} : call'[q] = call[q]
    BY <2>1, <2>2, GoesOK DEF Inv, Ops
  <2>5. r \in SubmissionRow /\ r.files = c.files /\ r # Nothing
    <3>1. r \in SubmissionRow /\ r.files = c.files
      BY <1>1, DraftRow
    <3> HIDE DEF r
    <3> QED BY <3>1, NothingAssumption
  <2> HIDE DEF r
  <2>6. row'[w] = r /\ \A v \in Work \ {w} : row'[v] = row[v]
    BY <1>1, <2>1 DEF Inv, TypeOK
  <2>7. Pending(call'[p]) = left
    BY <2>2, <2>4 DEF Pending
  <2>8. ASSUME NEW f \in File, Covered(f) PROVE Covered(f)'
    <3>1. \A v \in (Work \cup {Nothing}) \ {w} :
            <<v, f>> \in Pending(c) <=> <<v, f>> \in Pending(call'[p])
      BY <1>2, <2>3, <2>7 DEF Of
    <3>2. <<w, f>> \in Pending(c) <=> w \in Holders(f)'
      BY <1>1, <1>2, <2>5, <2>6 DEF Of, Holders
    <3>3. <<w, f>> \in Pending(call'[p]) <=> w \in Holders(f)
      BY <2>3, <2>7
    <3> QED BY <1>1, <2>4, <2>6, <2>8, <3>1, <3>2, <3>3, Exchanged
  <2>9. LinksSound'
    BY <1>1, <2>4, LinksKeptWithout DEF CountInv, LinksSound
  <2> QED BY <1>1, <2>8, <2>9 DEF CountInv
<1> QED BY <1>3, <1>4

(* Discard: on the list it read, or the delete is marked as overtaken. *)
LEMMA DiscardCounts == ASSUME Inv, CountInv, NEW p \in Proc, DiscardDraft(p) PROVE CountInv'
<1> DEFINE c == call[p]
           w == c.work
<1>1. /\ c \in CallRow /\ c.op = "discard" /\ w \in Work /\ c.left \in SUBSET Refs
      /\ UNCHANGED <<attached, links, receipt, faults>>
  BY CallFields DEF DiscardDraft, Inv, TypeOK, CallsSound, CallSound, OnWork
<1>2. Pending(c) = {}
  BY <1>1, NoPending
<1>3. CASE row[w] # Nothing /\ ~ row[w].submitted
  <2>1. /\ row' = [row EXCEPT ![w] = Nothing] /\ Goes(p, "uncount", c.left)
        /\ overtaken' = (overtaken \/ c.left # Of(w, row[w].files))
    BY <1>3 DEF DiscardDraft
  <2>2. /\ call'[p].op = "uncount" /\ call'[p].left = c.left
        /\ \A q \in Proc \ {p} : call'[q] = call[q]
    BY <1>1, <2>1, GoesOK DEF Inv, Ops
  <2>3. Pending(call'[p]) = c.left
    BY <1>1, <2>2 DEF Pending
  <2>4. row'[w] = Nothing /\ \A v \in Work \ {w} : row'[v] = row[v]
    BY <1>1, <2>1 DEF Inv, TypeOK
  <2>5. ASSUME NEW f \in File, Covered(f), c.left = Of(w, row[w].files) PROVE Covered(f)'
    <3>1. \A v \in (Work \cup {Nothing}) \ {w} :
            <<v, f>> \in Pending(c) <=> <<v, f>> \in Pending(call'[p])
      BY <1>2, <2>3, <2>5 DEF Of
    <3>2. <<w, f>> \notin Pending(c) /\ w \notin Holders(f)'
      BY <1>2, <2>4 DEF Holders
    <3>3. <<w, f>> \in Pending(call'[p]) <=> w \in Holders(f)
      BY <1>1, <1>3, <2>3, <2>5 DEF Of, Holders
    <3> QED BY <1>1, <2>2, <2>4, <2>5, <3>1, <3>2, <3>3, Exchanged
  <2>6. LinksSound'
    BY <1>1, <2>2, LinksKeptWithout DEF CountInv, LinksSound
  <2> QED BY <2>1, <2>5, <2>6 DEF CountInv
<1>4. CASE ~ (row[w] # Nothing /\ ~ row[w].submitted)
  <2>1. End(p) /\ UNCHANGED <<row, overtaken>>
    BY <1>4 DEF DiscardDraft
  <2> QED BY <1>1, <1>2, <2>1, EndCounts DEF store
<1> QED BY <1>3, <1>4

(* Attaching takes over the count of the request, detaching gives it one. *)
LEMMA AttachCounts == ASSUME Inv, CountInv, NEW p \in Proc, CreateAttachment(p) PROVE CountInv'
<1> DEFINE c == call[p]
<1>1. /\ c \in CallRow /\ c.op = "attach" /\ c.left = {} /\ c.work = Nothing
      /\ c.files \in SUBSET File /\ c.files \cap attached = {}
      /\ UNCHANGED <<row, links, receipt, faults, overtaken>>
  BY CallFields DEF CreateAttachment, Inv, TypeOK, CountInv, LinksSound, LinkSound
<1>2. Pending(c) = Of(Nothing, c.files) /\ Of(Nothing, c.files) \in SUBSET Refs
  BY <1>1, RefsTyped DEF Pending
<1>3. CASE parent = Nothing
  <2>1. Goes(p, "uncount", Of(Nothing, c.files)) /\ attached' = attached
    BY <1>3 DEF CreateAttachment
  <2>2. /\ call'[p].op = "uncount" /\ call'[p].left = Of(Nothing, c.files)
        /\ \A q \in Proc \ {p} : call'[q] = call[q]
    BY <1>2, <2>1, GoesOK DEF Inv, Ops
  <2>3. Pending(call'[p]) = Pending(c)
    BY <1>2, <2>2 DEF Pending
  <2>4. \A f \in File : Covered(f) => Covered(f)'
    BY <1>1, <2>1, <2>2, <2>3, CoveredStays DEF Holders
  <2>5. LinksSound'
    BY <1>1, <2>1, <2>2, LinksKeptWithout DEF CountInv, LinksSound
  <2> QED BY <1>1, <2>4, <2>5 DEF CountInv
<1>4. CASE parent # Nothing
  <2>1. End(p) /\ attached' = attached \cup c.files
    BY <1>4 DEF CreateAttachment
  <2>2. call'[p] = NoCall /\ \A q \in Proc \ {p} : call'[q] = call[q]
    BY <2>1 DEF End, Inv, TypeOK
  <2>3. Pending(call'[p]) = {}
    BY <2>2, NoCallTyped, NoPending
  <2>4. ASSUME NEW f \in File, Covered(f) PROVE Covered(f)'
    <3>1. \A v \in (Work \cup {Nothing}) \ {Nothing} :
            <<v, f>> \in Pending(c) <=> <<v, f>> \in Pending(call'[p])
      BY <1>2, <2>3 DEF Of
    <3>2. <<Nothing, f>> \in Pending(c) <=> f \in c.files
      BY <1>2 DEF Of
    <3>3. Cardinality(Owed(f)') + One(<<Nothing, f>> \in Pending(call[p])) =
            Cardinality(Owed(f)) + One(<<Nothing, f>> \in Pending(call'[p]))
      BY <2>2, <3>1, OwedAfter
    <3>4. Holders(f)' = Holders(f)
      BY <1>1 DEF Holders
    <3>5. One(f \in attached') = One(f \in attached) + One(f \in c.files)
      BY <1>1, <2>1 DEF One
    <3>6. Cardinality(Owed(f)') + One(f \in attached') = Cardinality(Owed(f)) + One(f \in attached)
      BY <2>3, <3>2, <3>3, <3>5, CountsAreNat DEF One
    <3>7. Uses(f)' = Uses(f)
      BY <1>1, <3>4, <3>6, CountsAreNat DEF Uses, One
    <3> QED BY <1>1, <2>4, <3>7 DEF Covered
  <2>5. LinksSound'
    <3>1. \A q \in Proc : LinkSound(call[q])'
      <4> SUFFICES ASSUME NEW q \in Proc PROVE LinkSound(call[q])'
        OBVIOUS
      <4>1. CASE q = p
        BY <4>1, <2>2, NoCallTyped DEF LinkSound
      <4>2. CASE q # p
        <5>1. LinkSound(call[q]) /\ Apart(call[p], call[q]) /\ call'[q] = call[q]
          BY <2>2, <4>2 DEF CountInv, LinksSound
        <5> QED BY <1>1, <2>1, <5>1 DEF LinkSound, Apart
      <4> QED BY <4>1, <4>2
    <3>2. \A q, r \in Proc : q # r => Apart(call'[q], call'[r])
      <4> SUFFICES ASSUME NEW q \in Proc, NEW r \in Proc, q # r
                   PROVE  Apart(call'[q], call'[r])
        OBVIOUS
      <4>1. CASE q = p \/ r = p
        BY <4>1, <2>2, NoCallTyped DEF Apart
      <4>2. CASE q # p /\ r # p
        BY <4>2, <2>2 DEF CountInv, LinksSound
      <4> QED BY <4>1, <4>2
    <3> QED BY <1>1, <3>1, <3>2 DEF CountInv, LinksSound, Apart
  <2> QED BY <1>1, <2>4, <2>5 DEF CountInv
<1> QED BY <1>3, <1>4

LEMMA DetachCounts ==
  ASSUME Inv, CountInv, NEW p \in Proc, NEW g \in File, Detach(p, g)
  PROVE  CountInv'
<1> DEFINE c == Call("uncount", Nothing, Nothing, {}, Of(Nothing, {g}), Nothing)
<1>1. /\ g \in attached /\ attached' = attached \ {g} /\ Begin(p, c)
      /\ UNCHANGED <<row, links, receipt, faults, overtaken>>
  BY DEF Detach
<1>2. Of(Nothing, {g}) \in SUBSET Refs
  <2>1. {g} \in SUBSET File
    OBVIOUS
  <2> QED BY <2>1, RefsTyped
<1>3. c \in CallRow /\ c.op = "uncount" /\ c.left = Of(Nothing, {g})
  BY <1>2, UncountCall DEF Call
<1> HIDE DEF c
<1>4. call'[p] = c /\ call[p] = NoCall /\ \A q \in Proc \ {p} : call'[q] = call[q]
  BY <1>1, <1>3, BeginOK DEF Inv, Begin
<1>5. Pending(call[p]) = {} /\ Pending(call'[p]) = Of(Nothing, {g})
  <2>1. Pending(NoCall) = {}
    BY NoCallTyped, NoPending
  <2> QED BY <1>2, <1>3, <1>4, <2>1 DEF Pending
<1>6. ASSUME NEW f \in File, Covered(f) PROVE Covered(f)'
  <2>1. \A v \in (Work \cup {Nothing}) \ {Nothing} :
          <<v, f>> \in Pending(call[p]) <=> <<v, f>> \in Pending(call'[p])
    BY <1>5 DEF Of
  <2>2. <<Nothing, f>> \in Pending(call'[p]) <=> f = g
    BY <1>5 DEF Of
  <2>3. Cardinality(Owed(f)') + One(<<Nothing, f>> \in Pending(call[p])) =
          Cardinality(Owed(f)) + One(<<Nothing, f>> \in Pending(call'[p]))
    BY <1>4, <2>1, OwedAfter
  <2>4. Holders(f)' = Holders(f)
    BY <1>1 DEF Holders
  <2>5. One(f \in attached) = One(f \in attached') + One(f = g)
    BY <1>1 DEF One
  <2>6. Cardinality(Owed(f)') + One(f \in attached') = Cardinality(Owed(f)) + One(f \in attached)
    BY <1>5, <2>2, <2>3, <2>5, CountsAreNat DEF One
  <2>7. Uses(f)' = Uses(f)
    BY <1>1, <2>4, <2>6, CountsAreNat DEF Uses, One
  <2> QED BY <1>1, <1>6, <2>7 DEF Covered
<1>7. LinksSound'
  BY <1>1, <1>3, <1>4, LinksKeptWithout DEF CountInv, LinksSound
<1> QED BY <1>1, <1>6, <1>7 DEF CountInv
(* The whole parent: everything it referred to is owed by its request.     *)
LEMMA DeleteCounts == ASSUME Inv, CountInv, NEW p \in Proc, DeleteParent(p) PROVE CountInv'
<1> DEFINE c == call[p]
<1>1. /\ c \in CallRow /\ c.op = "delete" /\ c.left \in SUBSET Refs
      /\ UNCHANGED <<links, receipt, faults>>
  BY CallFields DEF DeleteParent, Inv, TypeOK
<1>2. Pending(c) = {}
  BY <1>1, NoPending
<1>3. CASE parent = Nothing
  BY <1>1, <1>2, <1>3, EndCounts DEF DeleteParent, store
<1>4. CASE parent # Nothing
  <2>1. /\ row' = [w \in Work |-> Nothing] /\ attached' = {} /\ Goes(p, "uncount", c.left)
        /\ overtaken' = (overtaken \/ c.left # Referred)
    BY <1>4 DEF DeleteParent
  <2>2. /\ call'[p].op = "uncount" /\ call'[p].left = c.left
        /\ \A q \in Proc \ {p} : call'[q] = call[q]
    BY <1>1, <2>1, GoesOK DEF Inv, Ops
  <2>3. Pending(call'[p]) = c.left
    BY <1>1, <2>2 DEF Pending
  <2>4. LinksSound'
    <3>1. attached' \subseteq attached
      BY <2>1
    <3> QED BY <1>1, <2>2, <3>1, LinksKeptWithout DEF CountInv, LinksSound
  <2>5. ASSUME NEW f \in File, Covered(f), c.left = Referred PROVE Covered(f)'
    <3> DEFINE given == {<<p, w>> : w \in Holders(f)}
               both == Owed(f) \cup given
    <3>1. \A v \in Work : <<v, f>> \in Referred <=> v \in Holders(f)
      BY NothingAssumption DEF Referred, Of, Holders
    <3>2. <<Nothing, f>> \in Referred <=> f \in attached
      BY NothingAssumption DEF Referred, Of
    <3>3. Owed(f)' = {x \in Proc \X (Work \cup {Nothing}) : <<x[2], f>> \in Pending(call'[x[1]])}
      BY DEF Owed, Pending
    <3>4. \A q \in Proc, v \in Work \cup {Nothing} :
            <<q, v>> \in Owed(f)' <=> \/ <<q, v>> \in Owed(f)
                                      \/ q = p /\ v \in Holders(f)
                                      \/ q = p /\ v = Nothing /\ f \in attached
      <4> SUFFICES ASSUME NEW q \in Proc, NEW v \in Work \cup {Nothing}
                   PROVE  <<q, v>> \in Owed(f)' <=> \/ <<q, v>> \in Owed(f)
                                                    \/ q = p /\ v \in Holders(f)
                                                    \/ q = p /\ v = Nothing /\ f \in attached
        OBVIOUS
      <4>1. <<q, v>> \in Owed(f)' <=> <<v, f>> \in Pending(call'[q])
        BY <3>3
      <4>2. <<q, v>> \in Owed(f) <=> <<v, f>> \in Pending(call[q])
        BY DEF Owed
      <4>3. CASE q # p
        BY <2>2, <4>1, <4>2, <4>3
      <4>4. CASE q = p
        <5>1. <<v, f>> \in Pending(call'[q]) <=> <<v, f>> \in Referred
          BY <2>3, <2>5, <4>4
        <5>2. v \in Work => (<<v, f>> \in Referred <=> v \in Holders(f))
          BY <3>1
        <5>3. Nothing \notin Holders(f)
          BY NothingAssumption DEF Holders
        <5>4. <<v, f>> \notin Pending(call[q])
          BY <1>2, <4>4
        <5>5. CASE v = Nothing
          BY <3>2, <4>1, <4>2, <4>4, <5>1, <5>3, <5>4, <5>5
        <5>6. CASE v # Nothing
          BY <4>1, <4>2, <4>4, <5>1, <5>2, <5>4, <5>6
        <5> QED BY <5>5, <5>6
      <4> QED BY <4>3, <4>4
    <3>5. /\ Owed(f)' \in SUBSET (Proc \X (Work \cup {Nothing}))
          /\ Owed(f) \in SUBSET (Proc \X (Work \cup {Nothing}))
          /\ given \in SUBSET (Proc \X (Work \cup {Nothing}))
      BY <3>3 DEF Owed, Holders
    <3>6. Owed(f)' = IF f \in attached THEN both \cup {<<p, Nothing>>} ELSE both
      <4>1. \A q \in Proc, v \in Work \cup {Nothing} :
              <<q, v>> \in given <=> q = p /\ v \in Holders(f)
        OBVIOUS
      <4>2. \A q \in Proc, v \in Work \cup {Nothing} :
              <<q, v>> \in Owed(f)' <=>
                <<q, v>> \in (IF f \in attached THEN both \cup {<<p, Nothing>>} ELSE both)
        BY <3>4, <4>1
      <4> DEFINE all == IF f \in attached THEN both \cup {<<p, Nothing>>} ELSE both
      <4>3. all \in SUBSET (Proc \X (Work \cup {Nothing}))
        BY <3>5
      <4>4. \A q \in Proc, v \in Work \cup {Nothing} : <<q, v>> \in Owed(f)' <=> <<q, v>> \in all
        BY <4>2
      <4> HIDE DEF all
      <4>5. \A x \in Proc \X (Work \cup {Nothing}) : x \in Owed(f)' <=> x \in all
        BY <4>4
      <4>6. Owed(f)' = all
        BY <3>5, <4>3, <4>5
      <4> QED BY <4>6 DEF all
    <3>7. IsFiniteSet(given) /\ Cardinality(given) = Cardinality(Holders(f))
      <4> DEFINE pair == [w \in Holders(f) |-> <<p, w>>]
      <4>1. pair \in Bijection(Holders(f), given)
        BY DEF Bijection, Injection, Surjection, IsInjective
      <4>2. ExistsBijection(Holders(f), given)
        BY <4>1 DEF ExistsBijection
      <4> QED BY <4>2, Finite, FS_Bijection
    <3>8. \A v : <<p, v>> \notin Owed(f)
      BY <1>2 DEF Owed
    <3>9. Owed(f) \cap given = {} /\ <<p, Nothing>> \notin both
      <4>1. <<p, Nothing>> \notin given
        BY NothingAssumption DEF Holders
      <4> QED BY <3>8, <4>1
    <3>10. IsFiniteSet(both) /\ Cardinality(both) = Cardinality(Owed(f)) + Cardinality(Holders(f))
      <4> HIDE DEF given
      <4>1. Cardinality(Owed(f) \cap given) = 0
        BY <3>9, FS_EmptySet
      <4>2. /\ IsFiniteSet(both)
            /\ Cardinality(both) =
                 Cardinality(Owed(f)) + Cardinality(given) - Cardinality(Owed(f) \cap given)
        BY <3>7, Finite, FS_Union
      <4> QED BY <3>7, <4>1, <4>2, CountsAreNat
    <3>11. Cardinality(Owed(f)') =
             Cardinality(Owed(f)) + Cardinality(Holders(f)) + One(f \in attached)
      <4> HIDE DEF both
      <4>1. CASE f \in attached
        BY <3>6, <3>9, <3>10, <4>1, FS_AddElement DEF One
      <4>2. CASE f \notin attached
        BY <3>6, <3>10, <4>2, CountsAreNat DEF One
      <4> QED BY <4>1, <4>2
    <3>12. Holders(f)' = {} /\ Cardinality(Holders(f)') = 0
      <4>1. Holders(f)' = {}
        BY <2>1 DEF Holders
      <4> QED BY <4>1, FS_EmptySet
    <3>13. Uses(f)' = Uses(f)
      BY <1>1, <2>1, <3>11, <3>12, CountsAreNat DEF Uses, One
    <3> QED BY <1>1, <2>5, <3>13 DEF Covered
  <2> QED BY <2>1, <2>4, <2>5 DEF CountInv
<1> QED BY <1>3, <1>4

(* Handing in and grading leave the files of a row as they are. *)
LEMMA StampCounts ==
  ASSUME Inv, CountInv, NEW p \in Proc, SubmitDraft(p) \/ GradeSubmission(p) \/ UpsertGrade(p)
  PROVE  CountInv'
<1> DEFINE w == call[p].work
<1>1. /\ w \in Work /\ End(p) /\ call[p].op \in {"submit", "grade", "upsert"}
      /\ UNCHANGED <<attached, links, receipt, faults, overtaken>>
  BY DEF SubmitDraft, GradeSubmission, UpsertGrade, Inv, CallsSound, CallSound, OnWork
<1>2. Pending(call[p]) = {}
  BY <1>1, NoPending
<1>3. \/ row' = row
      \/ /\ row[w] # Nothing
         /\ \E submitted \in BOOLEAN, grade \in Score \cup {Nothing} :
              row' = [row EXCEPT ![w] = Submission(row[w].text, row[w].files, submitted, grade)]
  <2>1. row[w] # Nothing => row[w].grade \in Score \cup {Nothing} /\ row[w].submitted \in BOOLEAN
    BY <1>1 DEF Inv, TypeOK, SubmissionRow
  <2>2. call[p].score \in Score \cup {Nothing}
    BY CallFields DEF Inv, TypeOK
  <2>3. CASE SubmitDraft(p)
    BY <2>1, <2>3 DEF SubmitDraft
  <2>4. CASE GradeSubmission(p) \/ UpsertGrade(p)
    BY <2>1, <2>2, <2>4 DEF GradeSubmission, UpsertGrade, Graded
  <2> QED BY <2>3, <2>4
<1>4. CASE row' = row
  BY <1>1, <1>2, <1>4, EndCounts
<1>5. ASSUME row[w] # Nothing, NEW submitted \in BOOLEAN, NEW grade \in Score \cup {Nothing},
             row' = [row EXCEPT ![w] = Submission(row[w].text, row[w].files, submitted, grade)]
      PROVE  CountInv'
  <2> DEFINE r == Submission(row[w].text, row[w].files, submitted, grade)
  <2>1. r \in SubmissionRow /\ r.files = row[w].files
    <3>1. row[w] \in SubmissionRow
      BY <1>1, <1>5 DEF Inv, TypeOK
    <3>2. row[w].text \in Text /\ row[w].files \in SUBSET File
      BY <3>1 DEF SubmissionRow
    <3> QED BY <1>5, <3>2 DEF Submission, SubmissionRow
  <2>2. row' = [row EXCEPT ![w] = r]
    BY <1>5
  <2> HIDE DEF r
  <2>3. r # Nothing /\ row'[w] = r /\ \A v \in Work \ {w} : row'[v] = row[v]
    BY <1>1, <2>1, <2>2, NothingAssumption DEF Inv, TypeOK
  <2>4. \A f : Holders(f)' = Holders(f)
    BY <1>1, <1>5, <2>1, <2>3 DEF Holders
  <2>5. call'[p] = NoCall /\ \A q \in Proc \ {p} : call'[q] = call[q]
    BY <1>1 DEF End, Inv, TypeOK
  <2>6. Pending(call'[p]) = {}
    BY <2>5, NoCallTyped, NoPending
  <2>7. \A f \in File : Covered(f) => Covered(f)'
    BY <1>1, <1>2, <2>4, <2>5, <2>6, CoveredStays
  <2>8. LinksSound'
    BY <1>1, <2>5, NoCallTyped, LinksKeptWithout DEF CountInv, LinksSound
  <2> QED BY <1>1, <2>7, <2>8 DEF CountInv
<1> QED BY <1>3, <1>4, <1>5

LEMMA CheckCounts == ASSUME Inv, CountInv, NEW p \in Proc, CheckWork(p) \/ Done(p) PROVE CountInv'
<1>1. UNCHANGED <<row, attached, links, receipt, faults, overtaken>>
  BY DEF CheckWork, Done, store
<1>2. Pending(call[p]) = {}
  BY DEF CheckWork, Done, Pending
<1>3. CASE End(p)
  BY <1>1, <1>2, <1>3, EndCounts
<1>4. CASE Goes(p, "submit", {})
  <2>1. {} \in SUBSET Refs
    OBVIOUS
  <2>2. call'[p].op = "submit" /\ \A q \in Proc \ {p} : call'[q] = call[q]
    BY <1>4, <2>1, GoesOK DEF Inv, Ops
  <2>3. Pending(call'[p]) = {}
    BY <2>2, NoPending
  <2>4. \A f \in File : Covered(f) => Covered(f)'
    BY <1>1, <1>2, <2>2, <2>3, CoveredStays DEF Holders
  <2>5. LinksSound'
    BY <1>1, <2>2, LinksKeptWithout DEF CountInv, LinksSound
  <2> QED BY <1>1, <2>4, <2>5 DEF CountInv
<1> QED BY <1>3, <1>4 DEF CheckWork, Done

(* A crash forgets what was owed: the counts stay too high.  An expired    *)
(* receipt takes its own count along.                                      *)
LEMMA WorldCounts ==
  ASSUME Inv, CountInv, Update \/ Crash \/ (\E g \in File : ExpireReceipt(g))
  PROVE  CountInv'
<1>1. CASE Update
  <2>1. UNCHANGED <<row, attached, links, receipt, call, faults, overtaken>>
    BY <1>1 DEF Update
  <2> QED BY <2>1 DEF CountInv, LinksSound, LinkSound, Covered, Uses, Holders, Owed, Pending, Apart
<1>2. CASE Crash
  <2>1. /\ call' = [p \in Proc |-> NoCall] /\ faults' = faults + 1
        /\ UNCHANGED <<row, attached, links, receipt, overtaken>>
    BY <1>2 DEF Crash, Fault, store
  <2>2. faults' \in Nat /\ faults' # 0
    BY <2>1 DEF CountInv, LinksSound
  <2>3. LinksSound'
    <3>1. \A p \in Proc : LinkSound(call[p])'
      BY <2>1, NoCallTyped DEF LinkSound
    <3>2. \A p, q \in Proc : Apart(call'[p], call'[q])
      BY <2>1, NoCallTyped DEF Apart
    <3> QED BY <2>2, <3>1, <3>2 DEF LinksSound, Apart
  <2>4. ASSUME NEW f \in File, Covered(f) PROVE Covered(f)'
    <3>1. Holders(f)' = Holders(f)
      BY <2>1 DEF Holders
    <3>2. Owed(f)' = {}
      <4>1. \A p \in Proc : Pending(call'[p]) = {}
        BY <2>1, NoCallTyped, NoPending
      <4> QED BY <4>1 DEF Owed, Pending
    <3>3. Cardinality(Owed(f)') = 0
      BY <3>2, FS_EmptySet
    <3>4. links[f] \in Nat
      BY DEF Inv, TypeOK
    <3> QED BY <2>1, <2>2, <2>4, <3>1, <3>3, <3>4, CountsAreNat DEF Covered, Uses, One
  <2> QED BY <2>1, <2>3, <2>4 DEF CountInv
<1>3. ASSUME NEW g \in File, ExpireReceipt(g) PROVE CountInv'
  <2>1. /\ g \in receipt /\ links[g] >= 1 /\ receipt' = receipt \ {g}
        /\ links' = [links EXCEPT ![g] = @ - 1]
        /\ UNCHANGED <<row, attached, call, faults, overtaken>>
    BY <1>3 DEF ExpireReceipt, store
  <2>2. LinksSound'
    BY <2>1 DEF CountInv, LinksSound, LinkSound, Apart
  <2>3. ASSUME NEW f \in File, Covered(f) PROVE Covered(f)'
    <3>1. Holders(f)' = Holders(f) /\ Owed(f)' = Owed(f)
      BY <2>1 DEF Holders, Owed, Pending
    <3>2. links[f] \in Nat /\ links'[f] = links[f] - One(f = g)
      BY <2>1 DEF Inv, TypeOK, One
    <3>3. One(f \in receipt') = One(f \in receipt) - One(f = g)
      BY <2>1 DEF One
    <3> QED BY <2>1, <2>3, <3>1, <3>2, <3>3, CountsAreNat DEF Covered, Uses, One
  <2> QED BY <2>1, <2>2, <2>3 DEF CountInv
<1> QED BY <1>1, <1>2, <1>3, SMTT(30)

LEMMA CountInit == Init => CountInv
<1> SUFFICES ASSUME Init PROVE CountInv
  OBVIOUS
<1>1. LinksSound
  BY NoCallTyped DEF Init, LinksSound, LinkSound, Apart
<1>2. ASSUME NEW f \in File PROVE Covered(f)
  <2>1. Holders(f) = {} /\ Owed(f) = {}
    <3>1. \A p \in Proc : Pending(call[p]) = {}
      BY NoCallTyped, NoPending DEF Init
    <3> QED BY <3>1 DEF Init, Holders, Owed
  <2>2. Cardinality(Holders(f)) = 0 /\ Cardinality(Owed(f)) = 0
    BY <2>1, FS_EmptySet
  <2> QED BY <2>2 DEF Init, Covered, Uses, One
<1> QED BY <1>1, <1>2 DEF CountInv

LEMMA CountNext == Inv /\ CountInv /\ [Next]_vars => CountInv'
<1> SUFFICES ASSUME Inv, CountInv, [Next]_vars PROVE CountInv'
  BY SMTT(30)
<1>1. CASE UNCHANGED vars
  BY <1>1 DEF vars, CountInv, LinksSound, LinkSound, Apart, Covered, Uses, Holders, Owed, Pending
<1>2. CASE Next
  BY <1>2, WorldCounts, LinkCounts, LinkFailsCounts, UnlinkCounts, SaveCounts, AttachCounts,
     DetachCounts, CheckCounts, StampCounts, DiscardCounts, DeleteCounts, BeginsCount DEF Next
<1> QED BY <1>1, <1>2

(* The counting law for graded work: a file is counted at least once for   *)
(* every submission, attachment and receipt that refers to it, whatever    *)
(* requests are in flight, fail or die, unless a delete ran on a list a    *)
(* save had outdated; and while no call has failed, exactly once for each  *)
(* when nothing is in flight (postgres/assignment.go:223).                 *)
THEOREM CountsAddUpAlways == Spec => []CountsAddUp
<1>1. Spec => []CountInv
  <2>1. Spec => []Inv
    BY Invariance
  <2> QED BY <2>1, CountInit, CountNext, PTL DEF Spec
<1>2. Inv /\ CountInv => CountsAddUp
  <2> SUFFICES ASSUME Inv, CountInv PROVE CountsAddUp
    OBVIOUS
  <2>1. ASSUME NEW f \in File
        PROVE  /\ References(f) \in Nat /\ links[f] \in Nat /\ References(f) <= Uses(f)
               /\ (\A p \in Proc : call[p] = NoCall) => References(f) = Uses(f)
    <3>1. References(f) = Cardinality(Holders(f)) + One(f \in attached) + One(f \in receipt)
      BY DEF References, Holders, One
    <3>2. (\A p \in Proc : call[p] = NoCall) => Cardinality(Owed(f)) = 0
      <4> SUFFICES ASSUME \A p \in Proc : call[p] = NoCall PROVE Cardinality(Owed(f)) = 0
        OBVIOUS
      <4>1. \A p \in Proc : Pending(call[p]) = {}
        BY NoCallTyped, NoPending
      <4>2. Owed(f) = {}
        BY <4>1 DEF Owed
      <4> QED BY <4>2, FS_EmptySet
    <3>3. links[f] \in Nat
      BY DEF Inv, TypeOK
    <3> QED BY <3>1, <3>2, <3>3, CountsAreNat DEF Uses, One
  <2>2. LinksCoverUnlessOvertaken
    BY <2>1, CountsAreNat DEF CountInv, Covered, LinksCoverUnlessOvertaken, LinksCoverReferences, Uses, One
  <2>3. CountsSettle
    BY <2>1 DEF CountInv, Covered, CountsSettle
  <2> QED BY <2>2, <2>3 DEF CountsAddUp
<1>3. Spec => []Inv
  BY Invariance
<1> QED BY <1>1, <1>2, <1>3, PTL
-----------------------------------------------------------------------------
(* The board.  A thread not there yet is asked by one call; what the board  *)
(* shows of a status stays there, so an edit that writes a status back      *)
(* finds what belongs to it.                                                *)

BoardTables ==
  /\ questions \in [Questions -> Board!Row \cup {NotYet}]
  /\ asked = [q \in Questions |-> asked[q]]
  /\ answers = [q \in Questions |-> answers[q]]
  /\ boardCalls = [c \in Proc |-> boardCalls[c]]
  /\ counts \in [File -> Nat]

Shown(status, q) ==
  /\ status = "answered" => answers[q] # NotYet
  /\ status = "rejected" => q \in rejections

(* What a call has on its mind. *)
BoardCallSound(c) ==
  LET mine == boardCalls[c]
  IN  /\ mine.pc \in {"ask", "plant", "answer", "edit", "reject", "delete"} =>
            mine.q \in Questions
      /\ mine.pc \in {"ask", "plant"} =>
            /\ questions[mine.q] = NotYet
            /\ \A d \in Proc : boardCalls[d].pc \in {"ask", "plant"} /\ boardCalls[d].q = mine.q
                               => d = c
      /\ mine.pc \in {"answer", "edit", "reject", "delete"} => questions[mine.q] # NotYet
      /\ mine.pc = "edit" => mine.seen \in Board!Row /\ Shown(mine.seen.status, mine.q)

BoardSound ==
  /\ BoardTables
  /\ \A q \in Questions : questions[q] # NotYet => Shown(questions[q].status, q)
  /\ \A c \in Proc : BoardCallSound(c)

(* Each file of the board is counted for every row that names it, every     *)
(* call that has counted it and not yet entered it, and every row a call is *)
(* about to uncount it for.                                                 *)
Kinds == {"asked", "answer"}
Rows(f) == {p \in Questions \X Kinds : <<p[2], f>> \in Board!Attached(p[1])}
Carriers(f) ==
  {c \in Proc : boardCalls[c].pc \in {"ask", "plant", "answer"}
                /\ boardCalls[c].file = f /\ f # NoFile}
Goners(f) ==
  {p \in Proc \X Kinds :
      boardCalls[p[1]].pc = "unlink" /\ <<p[2], f>> \in boardCalls[p[1]].files}
Total(f) == Cardinality(Rows(f)) + Cardinality(Carriers(f)) + Cardinality(Goners(f))

Named(files) == \A a \in files : a[1] \in Kinds /\ a = <<a[1], a[2]>>

CallFilesSound ==
  \A c \in Proc : LET mine == boardCalls[c]
                  IN  /\ mine.pc \in {"ask", "plant", "answer"} => mine.file \in File \cup {NoFile}
                      /\ mine.pc = "unlink" => Named(mine.files)
                      /\ mine.pc = "delete" => Named(mine.listed)

BoardCounts ==
  outdated = {} => \A f \in File : Total(f) <= counts[f]

BoardInv == BoardSound /\ CallFilesSound /\ BoardCounts

(* A call that moves on leaves the others as they are. *)
LEMMA BoardCallStep ==
  ASSUME BoardTables, NEW c \in Proc, NEW n, Board!Set(c, n)
  PROVE  /\ boardCalls' = [d \in Proc |-> boardCalls'[d]] /\ boardCalls'[c] = n
         /\ \A d \in Proc \ {c} : boardCalls'[d] = boardCalls[d]
<1>1. boardCalls' = [d \in Proc |-> IF d = c THEN n ELSE boardCalls[d]]
  BY DEF BoardTables, Board!Set
<1> QED BY <1>1

(* The board stays sound if what it shows stays there and no call loses what *)
(* it relies on.                                                             *)
LEMMA BoardSoundStep ==
  ASSUME BoardSound, NEW c \in Proc, BoardTables',
         \A d \in Proc \ {c} : boardCalls'[d] = boardCalls[d],
         \A q \in Questions : questions[q] # NotYet =>
            /\ questions'[q] # NotYet
            /\ answers[q] # NotYet => answers'[q] # NotYet,
         rejections \subseteq rejections',
         \A q \in Questions : questions'[q] # NotYet => Shown(questions[q].status, q)',
         \A d \in Proc \ {c} : boardCalls[d].pc \in {"ask", "plant"} =>
            /\ questions'[boardCalls[d].q] = NotYet
            /\ boardCalls'[c].pc \in {"ask", "plant"} => boardCalls'[c].q # boardCalls[d].q,
         BoardCallSound(c)'
  PROVE  BoardSound'
<1>1. ASSUME NEW d \in Proc, d # c
      PROVE  BoardCallSound(d)'
  <2>1. boardCalls'[d] = boardCalls[d] /\ BoardCallSound(d)
    BY <1>1 DEF BoardSound
  <2>2. boardCalls[d].pc \in {"ask", "plant"} =>
            /\ questions'[boardCalls[d].q] = NotYet
            /\ \A e \in Proc : boardCalls'[e].pc \in {"ask", "plant"}
                               /\ boardCalls'[e].q = boardCalls[d].q => e = d
    BY <1>1, <2>1 DEF BoardCallSound
  <2>3. boardCalls[d].pc = "edit" => Shown(boardCalls[d].seen.status, boardCalls[d].q)'
    BY <2>1 DEF BoardCallSound, Shown
  <2> QED BY <2>1, <2>2, <2>3 DEF BoardCallSound
<1>2. \A d \in Proc : BoardCallSound(d)'
  BY <1>1
<1> QED BY <1>2 DEF BoardSound, Shown

(* The same for a step that writes no question, answer or rejection and      *)
(* begins no thread.                                                         *)
LEMMA BoardCallsMove ==
  ASSUME BoardSound, NEW c \in Proc, NEW n, Board!Set(c, n), counts' \in [File -> Nat],
         UNCHANGED <<questions, asked, answers, rejections>>,
         n.pc \notin {"ask", "plant"},
         n.pc \in {"answer", "edit", "reject", "delete"} =>
            n.q \in Questions /\ questions[n.q] # NotYet,
         n.pc = "edit" => n.seen \in Board!Row /\ Shown(n.seen.status, n.q)
  PROVE  BoardSound'
<1>1. /\ boardCalls' = [d \in Proc |-> boardCalls'[d]] /\ boardCalls'[c] = n
      /\ \A d \in Proc \ {c} : boardCalls'[d] = boardCalls[d]
  BY BoardCallStep DEF BoardSound
<1>2. BoardTables' /\ BoardCallSound(c)'
  BY <1>1 DEF BoardSound, BoardTables, BoardCallSound, Shown
<1>3. /\ \A q \in Questions : questions'[q] # NotYet => Shown(questions[q].status, q)'
      /\ \A q \in Questions : questions[q] # NotYet =>
            /\ questions'[q] # NotYet
            /\ answers[q] # NotYet => answers'[q] # NotYet
      /\ rejections \subseteq rejections'
  BY DEF BoardSound, Shown
<1>4. \A d \in Proc \ {c} : boardCalls[d].pc \in {"ask", "plant"} =>
            questions'[boardCalls[d].q] = NotYet
  BY DEF BoardSound, BoardCallSound
<1> QED BY <1>1, <1>2, <1>3, <1>4, BoardSoundStep

(* What is left to uncount when a call ends. *)
LEMMA ThenUnlinkIs ==
  ASSUME NEW c \in Proc, NEW files, Board!ThenUnlink(c, files)
  PROVE  \E n : /\ Board!Set(c, n)
                /\ \/ n.pc = "idle" /\ files = {}
                   \/ n.pc = "unlink" /\ n.files = files /\ files # {}
<1>1. CASE files = {}
  <2> DEFINE n == [pc |-> "idle"]
  <2>1. n.pc = "idle"
    OBVIOUS
  <2>2. Board!Set(c, n)
    BY <1>1 DEF Board!ThenUnlink, Board!Idle
  <2> HIDE DEF n
  <2> QED BY <1>1, <2>1, <2>2
<1>2. CASE files # {}
  <2> DEFINE n == [pc |-> "unlink", files |-> files]
  <2>1. n.pc = "unlink" /\ n.files = files
    OBVIOUS
  <2>2. Board!Set(c, n)
    BY <1>2 DEF Board!ThenUnlink
  <2> HIDE DEF n
  <2> QED BY <1>2, <2>1, <2>2
<1> QED BY <1>1, <1>2

LEMMA LinkIs ==
  ASSUME counts \in [File -> Nat], NEW f \in File \cup {NoFile}, Board!Link(f)
  PROVE  /\ counts' \in [File -> Nat]
         /\ \A g \in File : counts'[g] = IF g = f /\ f # NoFile THEN counts[g] + 1 ELSE counts[g]
BY DEF Board!Link


(* The rows the board writes are rows. *)
LEMMA NewRow ==
  ASSUME NEW s \in {"pending", "answered", "rejected"}, NEW v \in 0..MaxEdits, NEW b \in BOOLEAN
  PROVE  LET new == [status |-> s, version |-> v, deleted |-> b]
         IN  new \in Board!Row /\ new # NotYet /\ new.status = s
<1>1. NotYet \notin Board!Row
  BY BoardAssumption DEF Board!BoardAssumption
<1>2. [status |-> s, version |-> v, deleted |-> b] \in Board!Row
  BY DEF Board!Row
<1> QED BY <1>1, <1>2

(* Each action keeps what the calls rely on. *)
LEMMA BeginAskSound ==
  ASSUME BoardSound, NEW c \in Proc, NEW pc \in {"ask", "plant"}, NEW q \in Questions,
         NEW f \in File \cup {NoFile}, Board!BeginAsk(c, pc, q, f)
  PROVE  BoardSound'
<1> DEFINE n == [pc |-> pc, q |-> q, file |-> f]
<1>1. n.pc = pc /\ n.q = q /\ Board!Set(c, n)
  BY DEF Board!BeginAsk
<1> HIDE DEF n
<1>2. /\ counts' \in [File -> Nat] /\ questions[q] = NotYet
      /\ \A d \in Proc : boardCalls[d].pc \in {"ask", "plant"} => boardCalls[d].q # q
      /\ UNCHANGED <<questions, asked, answers, rejections>>
  BY LinkIs DEF Board!BeginAsk, BoardSound, BoardTables
<1>3. /\ boardCalls' = [d \in Proc |-> boardCalls'[d]] /\ boardCalls'[c] = n
      /\ \A d \in Proc \ {c} : boardCalls'[d] = boardCalls[d]
  BY <1>1, BoardCallStep DEF BoardSound
<1>4. BoardTables'
  BY <1>2, <1>3 DEF BoardSound, BoardTables
<1>5. BoardCallSound(c)'
  BY <1>1, <1>2, <1>3 DEF BoardCallSound
<1>6. /\ \A p \in Questions : questions'[p] # NotYet => Shown(questions[p].status, p)'
      /\ \A p \in Questions : questions[p] # NotYet =>
            questions'[p] # NotYet /\ (answers[p] # NotYet => answers'[p] # NotYet)
      /\ rejections \subseteq rejections'
  BY <1>2 DEF BoardSound, Shown
<1>7. \A d \in Proc \ {c} : boardCalls[d].pc \in {"ask", "plant"} =>
            /\ questions'[boardCalls[d].q] = NotYet
            /\ boardCalls'[c].pc \in {"ask", "plant"} => boardCalls'[c].q # boardCalls[d].q
  BY <1>1, <1>2, <1>3 DEF BoardSound, BoardCallSound
<1> QED BY <1>3, <1>4, <1>5, <1>6, <1>7, BoardSoundStep

LEMMA CreateThreadSound ==
  ASSUME BoardSound, CallFilesSound, NEW c \in Proc, Board!CreateThread(c)
  PROVE  BoardSound'
<1> DEFINE q == boardCalls[c].q
           file == boardCalls[c].file
<1>0. /\ q \in Questions /\ questions[q] = NotYet
      /\ boardCalls[c].pc \in {"ask", "plant"} /\ file \in File \cup {NoFile}
      /\ \A d \in Proc : boardCalls[d].pc \in {"ask", "plant"} /\ boardCalls[d].q = q => d = c
      /\ counts' = counts /\ counts \in [File -> Nat]
  BY DEF Board!CreateThread, BoardSound, BoardTables, BoardCallSound, CallFilesSound
<1>1. CASE UNCHANGED <<questions, asked, answers>> /\ Board!ThenUnlink(c, Board!Own(file))
  <2>1. PICK n : Board!Set(c, n) /\ n.pc \in {"idle", "unlink"}
    BY <1>1, ThenUnlinkIs
  <2> QED BY <1>0, <1>1, <2>1, BoardCallsMove DEF Board!CreateThread
<1>2. CASE ~(UNCHANGED <<questions, asked, answers>> /\ Board!ThenUnlink(c, Board!Own(file)))
  <2> DEFINE status == IF boardCalls[c].pc = "plant" THEN "answered" ELSE "pending"
             new    == [status |-> status, version |-> 0, deleted |-> FALSE]
  <2>1. /\ questions' = [questions EXCEPT ![q] = new]
        /\ Board!Set(c, Board!Idle) /\ rejections' = rejections
    BY <1>2 DEF Board!CreateThread
  <2>2. PICK f \in IF boardCalls[c].pc = "plant" THEN {file, NoFile} ELSE {NotYet} :
            /\ answers' = [answers EXCEPT ![q] = f]
            /\ asked' = [asked EXCEPT ![q] = IF f = file THEN NoFile ELSE file]
    BY <1>2 DEF Board!CreateThread
  <2>3. boardCalls[c].pc = "plant" => f # NotYet
    BY <1>0, <2>2, BoardAssumption DEF Board!BoardAssumption
  <2>4. new \in Board!Row /\ new # NotYet /\ new.status = status
    <3>1. status \in {"pending", "answered", "rejected"}
      OBVIOUS
    <3>2. 0 \in 0..MaxEdits
      BY BoardAssumption DEF Board!BoardAssumption
    <3> HIDE DEF status
    <3> QED BY <3>1, <3>2, NewRow
  <2> HIDE DEF new
  <2>5. /\ questions'[q] = new /\ answers'[q] = f
        /\ \A p \in Questions \ {q} : questions'[p] = questions[p] /\ answers'[p] = answers[p]
    BY <1>0, <2>1, <2>2 DEF BoardSound, BoardTables
  <2>6. /\ boardCalls' = [d \in Proc |-> boardCalls'[d]] /\ boardCalls'[c].pc = "idle"
        /\ \A d \in Proc \ {c} : boardCalls'[d] = boardCalls[d]
    BY <2>1, BoardCallStep DEF BoardSound, Board!Idle
  <2>7. BoardTables'
    BY <1>0, <2>1, <2>2, <2>4, <2>6 DEF BoardSound, BoardTables
  <2>8. BoardCallSound(c)'
    BY <2>6 DEF BoardCallSound
  <2>9. \A p \in Questions : questions'[p] # NotYet => Shown(questions[p].status, p)'
    BY <2>1, <2>3, <2>4, <2>5 DEF BoardSound, Shown
  <2>10. \A p \in Questions : questions[p] # NotYet =>
            questions'[p] # NotYet /\ (answers[p] # NotYet => answers'[p] # NotYet)
    BY <1>0, <2>5
  <2>11. \A d \in Proc \ {c} : boardCalls[d].pc \in {"ask", "plant"} =>
            /\ questions'[boardCalls[d].q] = NotYet
            /\ boardCalls'[c].pc \in {"ask", "plant"} => boardCalls'[c].q # boardCalls[d].q
    <3> SUFFICES ASSUME NEW d \in Proc \ {c}, boardCalls[d].pc \in {"ask", "plant"}
                 PROVE  questions'[boardCalls[d].q] = NotYet
      BY <2>6
    <3>1. /\ boardCalls[d].q # q /\ boardCalls[d].q \in Questions
          /\ questions[boardCalls[d].q] = NotYet
      BY <1>0 DEF BoardSound, BoardCallSound
    <3> QED BY <2>5, <3>1
  <2> QED BY <2>1, <2>6, <2>7, <2>8, <2>9, <2>10, <2>11, BoardSoundStep
<1> QED BY <1>1, <1>2

(* The calls that only begin, and those that only uncount. *)
LEMMA BeginsSound ==
  ASSUME BoardSound, NEW c \in Proc, NEW q \in Questions,
         \/ Board!BeginReject(c, q) \/ Board!BeginDelete(c, q)
         \/ \E staff \in BOOLEAN : Board!BeginUpdate(c, q, staff)
         \/ \E f \in File \cup {NoFile} : Board!BeginAnswer(c, q, f)
  PROVE  BoardSound'
<1>0. counts \in [File -> Nat]
  BY DEF BoardSound, BoardTables
<1>1. CASE Board!BeginReject(c, q)
  <2> DEFINE n == [pc |-> "reject", q |-> q]
  <2>1. n.pc = "reject" /\ n.q = q
    OBVIOUS
  <2>2. /\ Board!Set(c, n) /\ questions[q] # NotYet
        /\ UNCHANGED <<questions, asked, answers, rejections, counts>>
    BY <1>1 DEF Board!BeginReject, Board!Live
  <2> HIDE DEF n
  <2> QED BY <1>0, <2>1, <2>2, BoardCallsMove
<1>2. CASE Board!BeginDelete(c, q)
  <2> DEFINE n == [pc |-> "delete", q |-> q, listed |-> Board!Attached(q)]
  <2>1. n.pc = "delete" /\ n.q = q
    OBVIOUS
  <2>2. /\ Board!Set(c, n) /\ questions[q] # NotYet
        /\ UNCHANGED <<questions, asked, answers, rejections, counts>>
    BY <1>2 DEF Board!BeginDelete, Board!Live
  <2> HIDE DEF n
  <2> QED BY <1>0, <2>1, <2>2, BoardCallsMove
<1>3. ASSUME NEW staff \in BOOLEAN, Board!BeginUpdate(c, q, staff)
      PROVE  BoardSound'
  <2> DEFINE n == [pc |-> "edit", q |-> q, seen |-> questions[q], staff |-> staff]
  <2>1. n.pc = "edit" /\ n.q = q /\ n.seen = questions[q]
    OBVIOUS
  <2>2. /\ Board!Set(c, n) /\ questions[q] # NotYet
        /\ UNCHANGED <<questions, asked, answers, rejections, counts>>
    BY <1>3 DEF Board!BeginUpdate, Board!Live
  <2> HIDE DEF n
  <2>3. n.seen \in Board!Row /\ Shown(n.seen.status, n.q)
    BY <2>1, <2>2 DEF BoardSound, BoardTables
  <2> QED BY <1>0, <2>1, <2>2, <2>3, BoardCallsMove
<1>4. ASSUME NEW f \in File \cup {NoFile}, Board!BeginAnswer(c, q, f)
      PROVE  BoardSound'
  <2> DEFINE n == [pc |-> "answer", q |-> q, file |-> f]
  <2>1. n.pc = "answer" /\ n.q = q
    OBVIOUS
  <2>2. /\ Board!Set(c, n) /\ questions[q] # NotYet
        /\ UNCHANGED <<questions, asked, answers, rejections>>
    BY <1>4 DEF Board!BeginAnswer, Board!Live
  <2>3. counts' \in [File -> Nat]
    BY <1>0, <1>4, LinkIs DEF Board!BeginAnswer
  <2> HIDE DEF n
  <2> QED BY <2>1, <2>2, <2>3, BoardCallsMove
<1> QED BY <1>1, <1>2, <1>3, <1>4

(* A call that writes a thread already there, keeps what it shows, and ends. *)
LEMMA BoardSettles ==
  ASSUME BoardSound, NEW c \in Proc, NEW q \in Questions, questions[q] # NotYet,
         NEW r \in Board!Row, questions' = [questions EXCEPT ![q] = r],
         asked' = [p \in Questions |-> asked'[p]], answers' = [p \in Questions |-> answers'[p]],
         \A p \in Questions : answers[p] # NotYet => answers'[p] # NotYet,
         rejections \subseteq rejections', counts' \in [File -> Nat],
         r.status = "answered" => answers'[q] # NotYet,
         r.status = "rejected" => q \in rejections',
         NEW n, Board!Set(c, n), n.pc \in {"idle", "unlink"}
  PROVE  BoardSound'
<1>1. /\ boardCalls' = [d \in Proc |-> boardCalls'[d]] /\ boardCalls'[c].pc \in {"idle", "unlink"}
      /\ \A d \in Proc \ {c} : boardCalls'[d] = boardCalls[d]
  BY BoardCallStep DEF BoardSound
<1>2. /\ questions'[q] = r /\ r # NotYet
      /\ \A p \in Questions \ {q} : questions'[p] = questions[p]
  BY BoardAssumption DEF Board!BoardAssumption, BoardSound, BoardTables
<1>3. BoardTables' /\ BoardCallSound(c)'
  BY <1>1, <1>2 DEF BoardSound, BoardTables, BoardCallSound
<1>4. \A p \in Questions : questions'[p] # NotYet => Shown(questions[p].status, p)'
  <2> SUFFICES ASSUME NEW p \in Questions, questions'[p] # NotYet
               PROVE  Shown(questions[p].status, p)'
    OBVIOUS
  <2>1. CASE p = q
    BY <1>2, <2>1 DEF Shown
  <2>2. CASE p # q
    BY <1>2, <2>2 DEF BoardSound, Shown
  <2> QED BY <2>1, <2>2
<1>5. \A p \in Questions : questions[p] # NotYet =>
          questions'[p] # NotYet /\ (answers[p] # NotYet => answers'[p] # NotYet)
  BY <1>2
<1>6. \A d \in Proc \ {c} : boardCalls[d].pc \in {"ask", "plant"} =>
          /\ questions'[boardCalls[d].q] = NotYet
          /\ boardCalls'[c].pc \in {"ask", "plant"} => boardCalls'[c].q # boardCalls[d].q
  BY <1>1, <1>2 DEF BoardSound, BoardCallSound
<1> QED BY <1>1, <1>3, <1>4, <1>5, <1>6, BoardSoundStep

LEMMA UpdateQuestionSound ==
  ASSUME BoardSound, NEW c \in Proc, Board!UpdateQuestion(c)
  PROVE  BoardSound'
<1> DEFINE q == boardCalls[c].q
           seen == boardCalls[c].seen
<1>0. /\ q \in Questions /\ questions[q] # NotYet /\ Shown(seen.status, q)
      /\ questions[q] \in Board!Row /\ seen \in Board!Row
      /\ Board!Set(c, Board!Idle) /\ Board!Idle.pc = "idle" /\ counts' \in [File -> Nat]
      /\ UNCHANGED <<asked, answers, rejections>>
  BY DEF Board!UpdateQuestion, BoardSound, BoardTables, BoardCallSound, Board!Idle
<1>1. CASE questions' = questions
  BY <1>0, <1>1, BoardCallsMove
<1>2. CASE questions' # questions
  <2> DEFINE status == Board!StatusAfterEdit(seen, boardCalls[c].staff)
             r == [questions[q] EXCEPT !.status = status, !.version = @ + 1]
  <2>1. /\ questions[q].version < MaxEdits
        /\ questions' = [questions EXCEPT ![q] = r]
        /\ questions[q].version = seen.version
    BY <1>2 DEF Board!UpdateQuestion
  <2>2. r \in Board!Row /\ r.status = status
    <3>1. /\ status \in {"pending", "answered", "rejected"}
          /\ questions[q].version + 1 \in 0..MaxEdits
      BY <1>0, <2>1, BoardAssumption DEF Board!BoardAssumption, Board!Row, Board!StatusAfterEdit
    <3> HIDE DEF status
    <3> QED BY <1>0, <3>1 DEF Board!Row
  <2>3. status = "answered" \/ status = "rejected" => status = seen.status
    BY DEF Board!StatusAfterEdit
  <2>4. /\ status = "answered" => answers'[q] # NotYet
        /\ status = "rejected" => q \in rejections'
    BY <1>0, <2>3 DEF Shown
  <2> HIDE DEF r, status
  <2> QED BY <1>0, <2>1, <2>2, <2>4, BoardSettles DEF BoardSound, BoardTables
<1> QED BY <1>1, <1>2

LEMMA AnswerQuestionSound ==
  ASSUME BoardSound, CallFilesSound, NEW c \in Proc, Board!AnswerQuestion(c)
  PROVE  BoardSound'
<1> DEFINE q == boardCalls[c].q
           file == boardCalls[c].file
<1>0. /\ q \in Questions /\ questions[q] # NotYet /\ questions[q] \in Board!Row
      /\ file \in File \cup {NoFile} /\ file # NotYet
      /\ counts' \in [File -> Nat] /\ UNCHANGED <<asked, rejections, counts>>
  BY BoardAssumption DEF Board!AnswerQuestion, BoardSound, BoardTables, BoardCallSound,
     CallFilesSound, Board!BoardAssumption
<1>1. CASE Board!Answerable(q)
  <2> DEFINE r == [questions[q] EXCEPT !.status = "answered"]
  <2>1. /\ questions' = [questions EXCEPT ![q] = r]
        /\ answers' = [answers EXCEPT ![q] = file]
        /\ Board!ThenUnlink(c, {a \in Board!Attached(q) : a[1] = "answer"})
    BY <1>1 DEF Board!AnswerQuestion
  <2>2. r \in Board!Row /\ r.status = "answered"
    BY <1>0 DEF Board!Row
  <2>3. PICK n : Board!Set(c, n) /\ n.pc \in {"idle", "unlink"}
    BY <2>1, ThenUnlinkIs
  <2>4. /\ asked' = [p \in Questions |-> asked'[p]]
        /\ answers' = [p \in Questions |-> answers'[p]]
        /\ answers'[q] # NotYet
        /\ \A p \in Questions : answers[p] # NotYet => answers'[p] # NotYet
    BY <1>0, <2>1 DEF BoardSound, BoardTables
  <2> HIDE DEF r, q
  <2> QED BY <1>0, <2>1, <2>2, <2>3, <2>4, BoardSettles
<1>2. CASE ~Board!Answerable(q)
  <2>1. PICK n : Board!Set(c, n) /\ n.pc \in {"idle", "unlink"}
    BY <1>2, ThenUnlinkIs DEF Board!AnswerQuestion
  <2>2. UNCHANGED <<questions, answers>>
    BY <1>2 DEF Board!AnswerQuestion
  <2> QED BY <1>0, <2>1, <2>2, BoardCallsMove
<1> QED BY <1>1, <1>2

LEMMA RejectQuestionSound ==
  ASSUME BoardSound, NEW c \in Proc, Board!RejectQuestion(c)
  PROVE  BoardSound'
<1> DEFINE q == boardCalls[c].q
<1>0. /\ q \in Questions /\ questions[q] # NotYet /\ questions[q] \in Board!Row
      /\ counts' \in [File -> Nat] /\ UNCHANGED <<asked, answers, counts>>
      /\ Board!Set(c, Board!Idle) /\ Board!Idle.pc = "idle"
  BY DEF Board!RejectQuestion, BoardSound, BoardTables, BoardCallSound, Board!Idle
<1>1. CASE Board!Live(q) /\ questions[q].status = "pending"
  <2> DEFINE r == [questions[q] EXCEPT !.status = "rejected"]
  <2>1. /\ questions' = [questions EXCEPT ![q] = r]
        /\ rejections' = rejections \cup {q}
    BY <1>1 DEF Board!RejectQuestion
  <2>2. r \in Board!Row /\ r.status = "rejected"
    BY <1>0 DEF Board!Row
  <2>3. asked' = [p \in Questions |-> asked'[p]] /\ answers' = [p \in Questions |-> answers'[p]]
    BY <1>0 DEF BoardSound, BoardTables
  <2> HIDE DEF r, q
  <2> QED BY <1>0, <2>1, <2>2, <2>3, BoardSettles
<1>2. CASE ~(Board!Live(q) /\ questions[q].status = "pending")
  <2>1. UNCHANGED <<questions, rejections>>
    BY <1>2 DEF Board!RejectQuestion
  <2> QED BY <1>0, <2>1, BoardCallsMove
<1> QED BY <1>1, <1>2

LEMMA SoftDeleteQuestionSound ==
  ASSUME BoardSound, NEW c \in Proc, Board!SoftDeleteQuestion(c)
  PROVE  BoardSound'
<1> DEFINE q == boardCalls[c].q
<1>0. /\ q \in Questions /\ questions[q] # NotYet /\ questions[q] \in Board!Row
      /\ Shown(questions[q].status, q)
      /\ counts' \in [File -> Nat] /\ UNCHANGED <<rejections, counts>>
      /\ Board!Idle.pc = "idle"
  BY DEF Board!SoftDeleteQuestion, BoardSound, BoardTables, BoardCallSound, Board!Idle
<1>1. CASE Board!Live(q)
  <2> DEFINE r == [questions[q] EXCEPT !.deleted = TRUE]
  <2>1. /\ questions' = [questions EXCEPT ![q] = r]
        /\ asked' = [asked EXCEPT ![q] = NoFile]
        /\ answers' = [answers EXCEPT ![q] = IF @ = NotYet THEN NotYet ELSE NoFile]
        /\ Board!ThenUnlink(c, boardCalls[c].listed)
    BY <1>1 DEF Board!SoftDeleteQuestion
  <2>2. r \in Board!Row /\ r.status = questions[q].status
    BY <1>0 DEF Board!Row
  <2>3. PICK n : Board!Set(c, n) /\ n.pc \in {"idle", "unlink"}
    BY <2>1, ThenUnlinkIs
  <2>4. /\ asked' = [p \in Questions |-> asked'[p]]
        /\ answers' = [p \in Questions |-> answers'[p]]
        /\ \A p \in Questions : answers[p] # NotYet => answers'[p] # NotYet
    BY <1>0, <2>1, BoardAssumption DEF BoardSound, BoardTables, Board!BoardAssumption
  <2>5. /\ r.status = "answered" => answers'[q] # NotYet
        /\ r.status = "rejected" => q \in rejections'
    BY <1>0, <2>2, <2>4 DEF Shown
  <2> HIDE DEF r, q
  <2> QED BY <1>0, <2>1, <2>2, <2>3, <2>4, <2>5, BoardSettles
<1>2. CASE ~Board!Live(q)
  <2>1. UNCHANGED <<questions, asked, answers>> /\ Board!Set(c, Board!Idle)
    BY <1>2 DEF Board!SoftDeleteQuestion
  <2> QED BY <1>0, <2>1, BoardCallsMove
<1> QED BY <1>1, <1>2

LEMMA UnlinkSound ==
  ASSUME BoardSound, NEW c \in Proc, Board!Unlink(c)
  PROVE  BoardSound'
<1>1. PICK a \in boardCalls[c].files :
          /\ counts' = [counts EXCEPT ![a[2]] = IF @ = 0 THEN 0 ELSE @ - 1]
          /\ Board!ThenUnlink(c, boardCalls[c].files \ {a})
  BY DEF Board!Unlink
<1>2. PICK n : Board!Set(c, n) /\ n.pc \in {"idle", "unlink"}
  BY <1>1, ThenUnlinkIs
<1>3. counts' \in [File -> Nat]
  <2>1. counts \in [File -> Nat]
    BY DEF BoardSound, BoardTables
  <2>2. \A k \in Nat : (IF k = 0 THEN 0 ELSE k - 1) \in Nat
    OBVIOUS
  <2> QED BY <1>1, <2>1, <2>2
<1>4. UNCHANGED <<questions, asked, answers, rejections>>
  BY DEF Board!Unlink
<1> QED BY <1>2, <1>3, <1>4, BoardCallsMove

LEMMA BoardSoundNext ==
  ASSUME BoardSound, CallFilesSound, [Board!Next]_boardVars
  PROVE  BoardSound'
<1>1. CASE UNCHANGED boardVars
  BY <1>1 DEF boardVars, BoardSound, BoardTables, BoardCallSound, Shown
<1>2. ASSUME NEW c \in Proc, Board!CreateThread(c) PROVE BoardSound'
  BY <1>2, CreateThreadSound
<1>3. ASSUME NEW c \in Proc, Board!UpdateQuestion(c) PROVE BoardSound'
  BY <1>3, UpdateQuestionSound
<1>4. ASSUME NEW c \in Proc, Board!AnswerQuestion(c) PROVE BoardSound'
  BY <1>4, AnswerQuestionSound
<1>5. ASSUME NEW c \in Proc, Board!RejectQuestion(c) PROVE BoardSound'
  BY <1>5, RejectQuestionSound
<1>6. ASSUME NEW c \in Proc, Board!SoftDeleteQuestion(c) PROVE BoardSound'
  BY <1>6, SoftDeleteQuestionSound
<1>7. ASSUME NEW c \in Proc, Board!Unlink(c) PROVE BoardSound'
  BY <1>7, UnlinkSound
<1>8. ASSUME NEW c \in Proc, NEW q \in Questions,
             \/ Board!BeginReject(c, q) \/ Board!BeginDelete(c, q)
             \/ \E staff \in BOOLEAN : Board!BeginUpdate(c, q, staff)
             \/ \E f \in File \cup {NoFile} : Board!BeginAnswer(c, q, f)
      PROVE  BoardSound'
  BY <1>8, BeginsSound
<1>9. ASSUME NEW c \in Proc, NEW q \in Questions, NEW f \in File \cup {NoFile},
             NEW pc \in {"ask", "plant"}, Board!BeginAsk(c, pc, q, f)
      PROVE  BoardSound'
  BY <1>9, BeginAskSound
<1> QED BY <1>1, <1>2, <1>3, <1>4, <1>5, <1>6, <1>7, <1>8, <1>9 DEF Board!Next

(* The files of the calls are files. *)
LEMMA CallFilesStep ==
  ASSUME BoardSound, CallFilesSound, NEW c \in Proc, NEW n, Board!Set(c, n),
         n.pc \in {"ask", "plant", "answer"} => n.file \in File \cup {NoFile},
         n.pc = "unlink" => Named(n.files),
         n.pc = "delete" => Named(n.listed)
  PROVE  CallFilesSound'
<1>1. boardCalls'[c] = n /\ \A d \in Proc \ {c} : boardCalls'[d] = boardCalls[d]
  BY BoardCallStep DEF BoardSound
<1> QED BY <1>1 DEF CallFilesSound

LEMMA AttachedIs ==
  ASSUME NEW q, NEW k, NEW f
  PROVE  <<k, f>> \in Board!Attached(q) <=>
            \/ k = "asked" /\ f = asked[q] /\ f # NoFile
            \/ k = "answer" /\ f = answers[q] /\ f \notin {NoFile, NotYet}
BY DEF Board!Attached

LEMMA AttachedTyped ==
  ASSUME NEW q
  PROVE  Named(Board!Attached(q))
BY DEF Board!Attached, Kinds, Named

LEMMA SetsFinite ==
  ASSUME NEW f
  PROVE  /\ IsFiniteSet(Rows(f)) /\ IsFiniteSet(Carriers(f)) /\ IsFiniteSet(Goners(f))
         /\ IsFiniteSet(Rows(f)') /\ IsFiniteSet(Carriers(f)') /\ IsFiniteSet(Goners(f)')
<1>1. IsFiniteSet(Kinds) /\ IsFiniteSet(Questions) /\ IsFiniteSet(Proc)
  <2>1. Kinds = {"asked"} \cup {"answer"}
    BY DEF Kinds
  <2>2. \A S : Board!IsFiniteSet(S) <=> IsFiniteSet(S)
    BY Zenon DEF Board!IsFiniteSet, IsFiniteSet
  <2> QED BY <2>1, <2>2, FS_Singleton, FS_Union, BoardAssumption DEF Board!BoardAssumption
<1>2. IsFiniteSet(Questions \X Kinds) /\ IsFiniteSet(Proc \X Kinds)
  BY <1>1, FS_Product
<1>3. /\ Rows(f) \subseteq Questions \X Kinds /\ Rows(f)' \subseteq Questions \X Kinds
      /\ Goners(f) \subseteq Proc \X Kinds /\ Goners(f)' \subseteq Proc \X Kinds
      /\ Carriers(f) \subseteq Proc /\ Carriers(f)' \subseteq Proc
  BY DEF Rows, Goners, Carriers
<1> QED BY <1>1, <1>2, <1>3, FS_Subset

LEMMA AtMostOneMore ==
  ASSUME NEW S, NEW T, NEW x, IsFiniteSet(S), IsFiniteSet(T), T \ {x} \subseteq S \ {x}
  PROVE  /\ Cardinality(S) \in Nat /\ Cardinality(T) \in Nat
         /\ Cardinality(T) + One(x \in S) <= Cardinality(S) + One(x \in T)
<1> DEFINE U == (T \ {x}) \cup (S \cap {x})
<1>1. U \subseteq S /\ (x \in U <=> x \in S) /\ U \ {x} = T \ {x}
  OBVIOUS
<1> HIDE DEF U
<1>2. IsFiniteSet(U) /\ Cardinality(U) <= Cardinality(S)
  BY <1>1, FS_Subset
<1>3. /\ Cardinality(U) \in Nat /\ Cardinality(T) \in Nat
      /\ Cardinality(T) + One(x \in U) = Cardinality(U) + One(x \in T)
  BY <1>1, <1>2, OneMember
<1>4. Cardinality(S) \in Nat /\ One(x \in S) \in Nat /\ One(x \in T) \in Nat
  BY FS_CardinalityType DEF One
<1> QED BY <1>1, <1>2, <1>3, <1>4 DEF One

(* One row, one call and one uncounting change their part in a file's count. *)
LEMMA TotalStep ==
  ASSUME NEW f, NEW r, NEW c, NEW g,
         Rows(f)' \ {r} \subseteq Rows(f) \ {r},
         Carriers(f)' \ {c} \subseteq Carriers(f) \ {c},
         Goners(f)' \ {g} \subseteq Goners(f) \ {g}
  PROVE  /\ Total(f) \in Nat /\ Total(f)' \in Nat
         /\ Total(f)' + One(r \in Rows(f)) + One(c \in Carriers(f)) + One(g \in Goners(f))
              <= Total(f) + One(r \in Rows(f)') + One(c \in Carriers(f)') + One(g \in Goners(f)')
<1>1. /\ Cardinality(Rows(f)) \in Nat /\ Cardinality(Rows(f)') \in Nat
      /\ Cardinality(Rows(f)') + One(r \in Rows(f)) <= Cardinality(Rows(f)) + One(r \in Rows(f)')
  BY SetsFinite, AtMostOneMore
<1>2. /\ Cardinality(Carriers(f)) \in Nat /\ Cardinality(Carriers(f)') \in Nat
      /\ Cardinality(Carriers(f)') + One(c \in Carriers(f))
           <= Cardinality(Carriers(f)) + One(c \in Carriers(f)')
  BY SetsFinite, AtMostOneMore
<1>3. /\ Cardinality(Goners(f)) \in Nat /\ Cardinality(Goners(f)') \in Nat
      /\ Cardinality(Goners(f)') + One(g \in Goners(f))
           <= Cardinality(Goners(f)) + One(g \in Goners(f)')
  BY SetsFinite, AtMostOneMore
<1>4. /\ Total(f) = Cardinality(Rows(f)) + Cardinality(Carriers(f)) + Cardinality(Goners(f))
      /\ Total(f)' = Cardinality(Rows(f)') + Cardinality(Carriers(f)') + Cardinality(Goners(f)')
  BY DEF Total
<1> HIDE DEF Total
<1>5. /\ One(r \in Rows(f)) \in Nat /\ One(r \in Rows(f)') \in Nat
      /\ One(c \in Carriers(f)) \in Nat /\ One(c \in Carriers(f)') \in Nat
      /\ One(g \in Goners(f)) \in Nat /\ One(g \in Goners(f)') \in Nat
  BY DEF One
<1> QED BY <1>1, <1>2, <1>3, <1>4, <1>5

(* What a call comes to carry and to uncount when it moves on. *)
LEMMA CallMoves ==
  ASSUME BoardTables, NEW c \in Proc, NEW n, Board!Set(c, n), NEW f
  PROVE  /\ Carriers(f)' \ {c} = Carriers(f) \ {c}
         /\ c \in Carriers(f)' <=> /\ n.pc \in {"ask", "plant", "answer"}
                                   /\ n.file = f /\ f # NoFile
         /\ \A p \in Proc \X Kinds :
               p \in Goners(f)' <=> IF p[1] = c THEN n.pc = "unlink" /\ <<p[2], f>> \in n.files
                                    ELSE p \in Goners(f)
<1>1. boardCalls'[c] = n /\ \A d \in Proc \ {c} : boardCalls'[d] = boardCalls[d]
  BY BoardCallStep
<1>2. /\ Carriers(f)' \ {c} = Carriers(f) \ {c}
      /\ c \in Carriers(f)' <=> n.pc \in {"ask", "plant", "answer"} /\ n.file = f /\ f # NoFile
  BY <1>1 DEF Carriers
<1>3. ASSUME NEW p \in Proc \X Kinds
      PROVE  p \in Goners(f)' <=> IF p[1] = c THEN n.pc = "unlink" /\ <<p[2], f>> \in n.files
                                  ELSE p \in Goners(f)
  BY <1>1 DEF Goners
<1> QED BY <1>2, <1>3

LEMMA UnlinkMoves ==
  ASSUME BoardTables, NEW c \in Proc, NEW files, Board!ThenUnlink(c, files), NEW f
  PROVE  /\ Carriers(f)' = Carriers(f) \ {c}
         /\ \A p \in Proc \X Kinds :
               p \in Goners(f)' <=> IF p[1] = c THEN <<p[2], f>> \in files ELSE p \in Goners(f)
<1>1. PICK n : /\ Board!Set(c, n)
               /\ \/ n.pc = "idle" /\ files = {}
                  \/ n.pc = "unlink" /\ n.files = files
  BY ThenUnlinkIs
<1>2. /\ Carriers(f)' \ {c} = Carriers(f) \ {c}
      /\ c \in Carriers(f)' <=> /\ n.pc \in {"ask", "plant", "answer"}
                                /\ n.file = f /\ f # NoFile
      /\ \A p \in Proc \X Kinds :
            p \in Goners(f)' <=> IF p[1] = c THEN n.pc = "unlink" /\ <<p[2], f>> \in n.files
                                 ELSE p \in Goners(f)
  BY <1>1, CallMoves
<1> QED BY <1>1, <1>2

LEMMA RowsMove ==
  ASSUME NEW f, NEW q \in Questions
  PROVE  /\ UNCHANGED <<asked, answers>> => Rows(f)' = Rows(f)
         /\ \A k \in Kinds : /\ <<q, k>> \in Rows(f) <=> <<k, f>> \in Board!Attached(q)
                             /\ <<q, k>> \in Rows(f)' <=> <<k, f>> \in Board!Attached(q)'
         /\ (\A p \in Questions \ {q} : asked'[p] = asked[p] /\ answers'[p] = answers[p]) =>
               \A r \in Questions \X Kinds : r[1] # q => (r \in Rows(f)' <=> r \in Rows(f))
BY DEF Rows, Board!Attached

(* A call that carries and uncounts nothing, before and after, on a board   *)
(* whose files stay.                                                         *)
LEMMA QuietStep ==
  ASSUME BoardInv, NEW c \in Proc, NEW n, Board!Set(c, n),
         UNCHANGED <<asked, answers, counts>>, outdated \subseteq outdated',
         boardCalls[c].pc \notin {"ask", "plant", "answer", "unlink"},
         n.pc \notin {"ask", "plant", "answer", "unlink"},
         n.pc = "delete" => Named(n.listed)
  PROVE  CallFilesSound' /\ BoardCounts'
<1>1. CallFilesSound'
  BY CallFilesStep DEF BoardInv
<1>2. ASSUME NEW f \in File
      PROVE  Rows(f)' = Rows(f) /\ Carriers(f)' = Carriers(f) /\ Goners(f)' = Goners(f)
  <2>1. Rows(f)' = Rows(f)
    BY DEF Rows, Board!Attached
  <2>2. c \notin Carriers(f) /\ c \notin Carriers(f)' /\ Carriers(f)' \ {c} = Carriers(f) \ {c}
    BY CallMoves DEF Carriers, BoardInv, BoardSound
  <2>3. \A p \in Proc \X Kinds : p \in Goners(f)' <=> p \in Goners(f)
    BY CallMoves, SMTT(30) DEF Goners, BoardInv, BoardSound
  <2>4. Goners(f)' = Goners(f)
    BY <2>3 DEF Goners
  <2> QED BY <2>1, <2>2, <2>4
<1>3. \A f \in File : Total(f)' = Total(f)
  BY <1>2 DEF Total
<1> QED BY <1>1, <1>3 DEF BoardInv, BoardCounts

(* A call that has counted the file it carries. *)
LEMMA CarryStep ==
  ASSUME BoardInv, NEW c \in Proc, NEW n, Board!Set(c, n), NEW file \in File \cup {NoFile},
         Board!Link(file), UNCHANGED <<asked, answers, outdated>>,
         boardCalls[c].pc = "idle", n.pc \in {"ask", "plant", "answer"}, n.file = file
  PROVE  CallFilesSound' /\ BoardCounts'
<1>1. CallFilesSound'
  BY CallFilesStep DEF BoardInv
<1>2. ASSUME NEW f \in File
      PROVE  Total(f) \in Nat /\ Total(f)' <= Total(f) + One(f = file /\ f # NoFile)
  <2>1. Rows(f)' = Rows(f)
    BY DEF Rows, Board!Attached
  <2>2. /\ Carriers(f)' \ {c} = Carriers(f) \ {c} /\ c \notin Carriers(f)
        /\ c \in Carriers(f)' <=> f = file /\ f # NoFile
    BY CallMoves DEF Carriers, BoardInv, BoardSound
  <2>3. Goners(f)' = Goners(f)
    <3>1. \A p \in Proc \X Kinds : p \in Goners(f)' <=> p \in Goners(f)
      BY CallMoves DEF Goners, BoardInv, BoardSound
    <3> QED BY <3>1 DEF Goners
  <2> DEFINE r == CHOOSE r : r \notin Rows(f)
             g == CHOOSE g : g \notin Goners(f)
  <2>4. /\ Total(f) \in Nat /\ Total(f)' \in Nat
        /\ Total(f)' + One(r \in Rows(f)) + One(c \in Carriers(f)) + One(g \in Goners(f))
             <= Total(f) + One(r \in Rows(f)') + One(c \in Carriers(f)') + One(g \in Goners(f)')
    BY <2>1, <2>2, <2>3, TotalStep
  <2> HIDE DEF r, g
  <2> QED BY <2>1, <2>2, <2>3, <2>4 DEF One
<1>3. \A f \in File : counts[f] \in Nat /\ counts'[f] = counts[f] + One(f = file /\ f # NoFile)
  BY LinkIs DEF BoardInv, BoardSound, BoardTables, One
<1>4. \A f \in File : One(f = file /\ f # NoFile) \in Nat
  BY DEF One
<1>5. ASSUME outdated' = {}, NEW f \in File PROVE Total(f)' <= counts'[f]
  <2>1. Total(f) <= counts[f]
    BY <1>5 DEF BoardInv, BoardCounts
  <2>2. Total(f)' \in Nat
    BY SetsFinite, FS_CardinalityType DEF Total
  <2> HIDE DEF Total, One
  <2> QED BY <1>2, <1>3, <1>4, <2>1, <2>2
<1>6. BoardCounts'
  BY <1>5 DEF BoardCounts
<1> QED BY <1>1, <1>6

(* The thread is there, or its file is to be uncounted. *)
LEMMA CreateThreadCounts ==
  ASSUME BoardInv, NEW c \in Proc, Board!CreateThread(c)
  PROVE  CallFilesSound' /\ BoardCounts'
<1> DEFINE q    == boardCalls[c].q
           file == boardCalls[c].file
           made == ~(/\ UNCHANGED <<questions, asked, answers>>
                     /\ Board!ThenUnlink(c, Board!Own(file)))
<1>0. /\ q \in Questions /\ file \in File \cup {NoFile}
      /\ boardCalls[c].pc \in {"ask", "plant"}
      /\ BoardTables /\ counts' = counts /\ outdated' = outdated
  BY DEF Board!CreateThread, BoardInv, BoardSound, BoardCallSound, CallFilesSound
<1>1. made => /\ Board!ThenUnlink(c, {})
              /\ \E f \in {file, NoFile, NotYet} :
                    /\ answers' = [answers EXCEPT ![q] = f]
                    /\ asked' = [asked EXCEPT ![q] = IF f = file THEN NoFile ELSE file]
  BY DEF Board!CreateThread, Board!ThenUnlink
<1>2. ~made => UNCHANGED <<asked, answers>> /\ Board!ThenUnlink(c, Board!Own(file))
  OBVIOUS
<1> HIDE DEF made
<1>3. PICK n : /\ Board!Set(c, n)
               /\ \/ n.pc = "idle"
                  \/ n.pc = "unlink" /\ n.files = Board!Own(file)
  <2>1. PICK files : Board!ThenUnlink(c, files) /\ files \in {{}, Board!Own(file)}
    BY <1>1, <1>2
  <2> QED BY <2>1, ThenUnlinkIs
<1>4. CallFilesSound'
  BY <1>0, <1>3, CallFilesStep DEF BoardInv, Board!Own, Kinds, Named
<1>5. ASSUME NEW f \in File PROVE Total(f)' <= Total(f)
  <2> DEFINE g == <<c, "answer">>
             r == <<q, IF answers'[q] = file THEN "answer" ELSE "asked">>
  <2>1. /\ g \in Proc \X Kinds /\ r \in Questions \X Kinds
        /\ g \notin Goners(f)
        /\ c \in Carriers(f) <=> f = file /\ f # NoFile
    BY <1>0 DEF Kinds, Goners, Carriers
  <2>2. CASE made
    <3>1. Carriers(f)' = Carriers(f) \ {c} /\ Goners(f)' \subseteq Goners(f)
      <4>1. /\ Carriers(f)' = Carriers(f) \ {c}
            /\ \A p \in Proc \X Kinds :
                  p \in Goners(f)' <=> IF p[1] = c THEN <<p[2], f>> \in {} ELSE p \in Goners(f)
        BY <1>0, <1>1, <2>2, UnlinkMoves
      <4> QED BY <4>1 DEF Goners
    <3>2. PICK new \in {file, NoFile, NotYet} :
             /\ answers' = [answers EXCEPT ![q] = new]
             /\ asked' = [asked EXCEPT ![q] = IF new = file THEN NoFile ELSE file]
      BY <1>1, <2>2
    <3>3. /\ \A p \in Questions \ {q} : asked'[p] = asked[p] /\ answers'[p] = answers[p]
          /\ answers'[q] = new /\ asked'[q] = IF new = file THEN NoFile ELSE file
      BY <1>0, <3>2 DEF BoardTables
    <3>4. \A t \in Questions \X Kinds : t[1] # q => (t \in Rows(f)' <=> t \in Rows(f))
      BY <1>0, <3>3, RowsMove
    <3>5. \A k \in Kinds : <<q, k>> \in Rows(f)' => <<q, k>> = r /\ f = file /\ f # NoFile
      BY <1>0, <3>2, <3>3 DEF Rows, Board!Attached, Kinds
    <3>6. Rows(f)' \ {r} \subseteq Rows(f) \ {r} /\ (r \in Rows(f)' => f = file /\ f # NoFile)
      <4>1. ASSUME NEW t \in Rows(f)' \ {r} PROVE t \in Rows(f)
        <5>1. t \in Questions \X Kinds /\ t = <<t[1], t[2]>>
          BY DEF Rows
        <5> QED BY <3>4, <3>5, <5>1
      <4>2. r \in Rows(f)' => f = file /\ f # NoFile
        BY <2>1, <3>5
      <4> QED BY <4>1, <4>2
    <3>7. /\ Total(f) \in Nat /\ Total(f)' \in Nat
          /\ Total(f)' + One(r \in Rows(f)) + One(c \in Carriers(f)) + One(g \in Goners(f))
               <= Total(f) + One(r \in Rows(f)') + One(c \in Carriers(f)') + One(g \in Goners(f)')
      BY <3>1, <3>6, TotalStep
    <3> HIDE DEF r, g
    <3> QED BY <2>1, <3>1, <3>6, <3>7 DEF One
  <2>3. CASE ~made
    <3>1. /\ Carriers(f)' = Carriers(f) \ {c}
          /\ \A p \in Proc \X Kinds :
                p \in Goners(f)' <=> IF p[1] = c THEN <<p[2], f>> \in Board!Own(file)
                                     ELSE p \in Goners(f)
      BY <1>0, <1>2, <2>3, UnlinkMoves
    <3>2. \A k : <<k, f>> \in Board!Own(file) <=> k = "answer" /\ f = file /\ f # NoFile
      BY DEF Board!Own
    <3>3. /\ Goners(f)' \ {g} \subseteq Goners(f) \ {g}
          /\ g \in Goners(f)' => f = file /\ f # NoFile
      <4>1. ASSUME NEW t \in Goners(f)' \ {g} PROVE t \in Goners(f)
        <5>1. t \in Proc \X Kinds /\ t = <<t[1], t[2]>>
          BY DEF Goners
        <5> QED BY <3>1, <3>2, <5>1
      <4>2. g \in Goners(f)' => f = file /\ f # NoFile
        BY <2>1, <3>1, <3>2
      <4> QED BY <4>1, <4>2
    <3>4. Rows(f)' = Rows(f)
      BY <1>0, <1>2, <2>3, RowsMove
    <3>5. /\ Total(f) \in Nat /\ Total(f)' \in Nat
          /\ Total(f)' + One(r \in Rows(f)) + One(c \in Carriers(f)) + One(g \in Goners(f))
               <= Total(f) + One(r \in Rows(f)') + One(c \in Carriers(f)') + One(g \in Goners(f)')
      BY <3>1, <3>3, <3>4, TotalStep
    <3> HIDE DEF r, g
    <3> QED BY <2>1, <3>1, <3>3, <3>4, <3>5 DEF One
  <2> QED BY <2>2, <2>3
<1>6. \A f \in File : Total(f) \in Nat /\ Total(f)' \in Nat /\ counts[f] \in Nat
  BY <1>0, SetsFinite, FS_CardinalityType DEF Total, BoardTables
<1>7. BoardCounts'
  <2> SUFFICES ASSUME outdated' = {}, NEW f \in File PROVE Total(f)' <= counts'[f]
    BY DEF BoardCounts
  <2>1. Total(f) <= counts[f]
    BY <1>0 DEF BoardInv, BoardCounts
  <2> HIDE DEF Total
  <2> QED BY <1>0, <1>5, <1>6, <2>1
<1> QED BY <1>4, <1>7

(* What the answer displaces, or the refused answer's file, is to be uncounted. *)
LEMMA AnswerQuestionCounts ==
  ASSUME BoardInv, NEW c \in Proc, Board!AnswerQuestion(c)
  PROVE  CallFilesSound' /\ BoardCounts'
<1> DEFINE q     == boardCalls[c].q
           file  == boardCalls[c].file
           went  == Board!Answerable(q)
           files == IF went THEN {a \in Board!Attached(q) : a[1] = "answer"} ELSE Board!Own(file)
<1>0. /\ q \in Questions /\ file \in File \cup {NoFile} /\ file # NotYet
      /\ boardCalls[c].pc = "answer"
      /\ BoardTables /\ counts' = counts /\ outdated' = outdated /\ asked' = asked
  BY BoardAssumption DEF Board!AnswerQuestion, BoardInv, BoardSound, BoardCallSound,
     CallFilesSound, Board!BoardAssumption
<1>1. /\ Board!ThenUnlink(c, files)
      /\ went => answers' = [answers EXCEPT ![q] = file]
      /\ ~went => answers' = answers
  BY DEF Board!AnswerQuestion
<1> HIDE DEF went
<1>2. \A k, f : <<k, f>> \in files <=>
          /\ k = "answer" /\ f # NoFile
          /\ IF went THEN f = answers[q] /\ f # NotYet ELSE f = file
  <2> SUFFICES ASSUME NEW k, NEW f
               PROVE  <<k, f>> \in files <=> /\ k = "answer" /\ f # NoFile
                                             /\ IF went THEN f = answers[q] /\ f # NotYet ELSE f = file
    OBVIOUS
  <2>1. CASE went
    <3>1. <<k, f>> \in files <=> <<k, f>> \in Board!Attached(q) /\ k = "answer"
      BY <2>1
    <3> QED BY <2>1, <3>1, AttachedIs
  <2>2. CASE ~went
    BY <2>2 DEF Board!Own
  <2> QED BY <2>1, <2>2
<1>3. CallFilesSound'
  <2>1. Named(files)
    BY <1>0, AttachedTyped DEF Board!Own, Kinds, Named
  <2> HIDE DEF files
  <2>2. PICK n : /\ Board!Set(c, n)
                 /\ \/ n.pc = "idle"
                    \/ n.pc = "unlink" /\ n.files = files
    BY <1>1, ThenUnlinkIs
  <2> QED BY <2>1, <2>2, CallFilesStep DEF BoardInv
<1>5. ASSUME NEW f \in File PROVE Total(f)' <= Total(f)
  <2> DEFINE g == <<c, "answer">>
             r == <<q, "answer">>
  <2>1. /\ g \in Proc \X Kinds /\ r \in Questions \X Kinds
        /\ g \notin Goners(f)
        /\ c \in Carriers(f) <=> f = file /\ f # NoFile
        /\ r \in Rows(f) <=> f = answers[q] /\ f \notin {NoFile, NotYet}
        /\ r \in Rows(f)' <=> f = answers'[q] /\ f \notin {NoFile, NotYet}
    BY <1>0 DEF Kinds, Goners, Carriers, Rows, Board!Attached
  <2>2. /\ Carriers(f)' = Carriers(f) \ {c}
        /\ \A p \in Proc \X Kinds :
              p \in Goners(f)' <=> IF p[1] = c THEN <<p[2], f>> \in files ELSE p \in Goners(f)
    BY <1>0, <1>1, UnlinkMoves
  <2> HIDE DEF files
  <2>3. /\ Goners(f)' \ {g} \subseteq Goners(f) \ {g}
        /\ g \in Goners(f)' <=> <<"answer", f>> \in files
    <3>1. ASSUME NEW t \in Goners(f)' \ {g} PROVE t \in Goners(f)
      <4>1. t \in Proc \X Kinds /\ t = <<t[1], t[2]>>
        BY DEF Goners
      <4> QED BY <1>2, <2>2, <4>1
    <3>2. g \in Goners(f)' <=> <<"answer", f>> \in files
      BY <2>1, <2>2
    <3> QED BY <3>1, <3>2
  <2>4. Rows(f)' \ {r} \subseteq Rows(f) \ {r}
    <3>1. ASSUME NEW t \in Rows(f)' \ {r} PROVE t \in Rows(f)
      <4>1. /\ t \in Questions \X Kinds /\ t = <<t[1], t[2]>>
            /\ <<t[2], f>> \in Board!Attached(t[1])'
        BY DEF Rows
      <4>2. t[2] = "answer" => t[1] # q
        BY <3>1, <4>1
      <4>3. t[2] = "answer" => answers'[t[1]] = answers[t[1]]
        BY <1>0, <1>1, <4>1, <4>2 DEF BoardTables
      <4> QED BY <1>0, <4>1, <4>3 DEF Rows, Board!Attached
    <3> QED BY <3>1
  <2>5. /\ Total(f) \in Nat /\ Total(f)' \in Nat
        /\ Total(f)' + One(r \in Rows(f)) + One(c \in Carriers(f)) + One(g \in Goners(f))
             <= Total(f) + One(r \in Rows(f)') + One(c \in Carriers(f)') + One(g \in Goners(f)')
    BY <2>2, <2>3, <2>4, TotalStep
  <2>6. answers'[q] = IF went THEN file ELSE answers[q]
    BY <1>0, <1>1 DEF BoardTables
  <2> HIDE DEF r, g
  <2>7. CASE went
    BY <1>0, <1>2, <2>1, <2>2, <2>3, <2>5, <2>6, <2>7 DEF One
  <2>8. CASE ~went
    BY <1>0, <1>2, <2>1, <2>2, <2>3, <2>5, <2>6, <2>8 DEF One
  <2> QED BY <2>7, <2>8
<1>6. \A f \in File : Total(f) \in Nat /\ Total(f)' \in Nat /\ counts[f] \in Nat
  BY <1>0, SetsFinite, FS_CardinalityType DEF Total, BoardTables
<1>7. BoardCounts'
  <2> SUFFICES ASSUME outdated' = {}, NEW f \in File PROVE Total(f)' <= counts'[f]
    BY DEF BoardCounts
  <2>1. Total(f) <= counts[f]
    BY <1>0 DEF BoardInv, BoardCounts
  <2> HIDE DEF Total
  <2> QED BY <1>0, <1>5, <1>6, <2>1
<1> QED BY <1>3, <1>7

(* One uncounting. *)
LEMMA BoardUnlinkCounts ==
  ASSUME BoardInv, NEW c \in Proc, Board!Unlink(c)
  PROVE  CallFilesSound' /\ BoardCounts'
<1>1. PICK a \in boardCalls[c].files :
          /\ counts' = [counts EXCEPT ![a[2]] = IF @ = 0 THEN 0 ELSE @ - 1]
          /\ Board!ThenUnlink(c, boardCalls[c].files \ {a})
  BY DEF Board!Unlink
<1> DEFINE files == boardCalls[c].files \ {a}
<1>2. /\ boardCalls[c].pc = "unlink" /\ Named(files)
      /\ a[1] \in Kinds /\ a = <<a[1], a[2]>>
      /\ BoardTables /\ UNCHANGED <<asked, answers, outdated>>
  BY DEF Board!Unlink, BoardInv, BoardSound, CallFilesSound, Named
<1>3. CallFilesSound'
  <2>0. Board!ThenUnlink(c, files)
    BY <1>1
  <2> HIDE DEF files
  <2>1. PICK n : /\ Board!Set(c, n)
                 /\ \/ n.pc = "idle"
                    \/ n.pc = "unlink" /\ n.files = files
    BY <2>0, ThenUnlinkIs
  <2> QED BY <1>2, <2>1, CallFilesStep DEF BoardInv
<1>5. ASSUME NEW f \in File PROVE Total(f)' + One(f = a[2]) <= Total(f)
  <2> DEFINE g == <<c, a[1]>>
             r == <<CHOOSE q : TRUE, "answer">>
  <2>1. /\ g \in Proc \X Kinds /\ c \notin Carriers(f)
        /\ f = a[2] => g \in Goners(f)
    BY <1>1, <1>2 DEF Goners, Carriers
  <2>2. /\ Carriers(f)' = Carriers(f) \ {c}
        /\ \A p \in Proc \X Kinds :
              p \in Goners(f)' <=> IF p[1] = c THEN <<p[2], f>> \in files ELSE p \in Goners(f)
    BY <1>1, <1>2, UnlinkMoves
  <2>3. /\ Goners(f)' \subseteq Goners(f)
        /\ f = a[2] => g \notin Goners(f)'
    <3>1. ASSUME NEW t \in Goners(f)' PROVE t \in Goners(f)
      <4>1. t \in Proc \X Kinds
        BY DEF Goners
      <4> QED BY <1>2, <2>2, <4>1 DEF Goners
    <3>2. f = a[2] => g \notin Goners(f)'
      BY <1>2, <2>1, <2>2
    <3> QED BY <3>1, <3>2
  <2>4. Rows(f)' = Rows(f)
    BY <1>2 DEF Rows, Board!Attached
  <2>5. /\ Total(f) \in Nat /\ Total(f)' \in Nat
        /\ Total(f)' + One(r \in Rows(f)) + One(c \in Carriers(f)) + One(g \in Goners(f))
             <= Total(f) + One(r \in Rows(f)') + One(c \in Carriers(f)') + One(g \in Goners(f)')
    BY <2>2, <2>3, <2>4, TotalStep
  <2> HIDE DEF r, g
  <2> QED BY <2>1, <2>2, <2>3, <2>4, <2>5 DEF One
<1>6. \A f \in File : Total(f) \in Nat /\ Total(f)' \in Nat /\ counts[f] \in Nat
  BY <1>2, SetsFinite, FS_CardinalityType DEF Total, BoardTables
<1>7. BoardCounts'
  <2> SUFFICES ASSUME outdated' = {}, NEW f \in File PROVE Total(f)' <= counts'[f]
    BY DEF BoardCounts
  <2>1. Total(f) <= counts[f]
    BY <1>2 DEF BoardInv, BoardCounts
  <2>2. counts'[f] = IF f = a[2] /\ counts[f] # 0 THEN counts[f] - 1 ELSE counts[f]
    BY <1>1, <1>2 DEF BoardTables
  <2> HIDE DEF Total
  <2> QED BY <1>5, <1>6, <2>1, <2>2 DEF One
<1> QED BY <1>3, <1>7

(* The thread's files are to be uncounted, as the delete listed them. *)
LEMMA SoftDeleteQuestionCounts ==
  ASSUME BoardInv, NEW c \in Proc, Board!SoftDeleteQuestion(c)
  PROVE  CallFilesSound' /\ BoardCounts'
<1> DEFINE q      == boardCalls[c].q
           listed == boardCalls[c].listed
<1>0. /\ q \in Questions /\ boardCalls[c].pc = "delete" /\ Named(listed)
      /\ BoardTables /\ counts' = counts /\ outdated \subseteq outdated'
  BY DEF Board!SoftDeleteQuestion, BoardInv, BoardSound, BoardCallSound, CallFilesSound
<1>1. CASE ~Board!Live(q)
  <2>1. UNCHANGED <<asked, answers>> /\ Board!Set(c, Board!Idle) /\ Board!Idle.pc = "idle"
    BY <1>1 DEF Board!SoftDeleteQuestion, Board!Idle
  <2> QED BY <1>0, <2>1, QuietStep
<1>2. CASE Board!Live(q)
  <2>1. /\ asked' = [asked EXCEPT ![q] = NoFile]
        /\ answers' = [answers EXCEPT ![q] = IF @ = NotYet THEN NotYet ELSE NoFile]
        /\ outdated' = {} => outdated = {} /\ Board!Attached(q) = listed
        /\ Board!ThenUnlink(c, listed)
    BY <1>2 DEF Board!SoftDeleteQuestion
  <2>2. CallFilesSound'
    <3> HIDE DEF listed
    <3>1. PICK n : /\ Board!Set(c, n)
                   /\ \/ n.pc = "idle"
                      \/ n.pc = "unlink" /\ n.files = listed
      BY <2>1, ThenUnlinkIs
    <3> QED BY <1>0, <3>1, CallFilesStep DEF BoardInv
  <2>3. \A p \in Questions \ {q} : asked'[p] = asked[p] /\ answers'[p] = answers[p]
    BY <1>0, <2>1 DEF BoardTables
  <2>4. asked'[q] = NoFile /\ answers'[q] \in {NotYet, NoFile}
    BY <1>0, <2>1 DEF BoardTables
  <2>5. ASSUME NEW f \in File, Board!Attached(q) = listed PROVE Total(f)' <= Total(f)
    <3> DEFINE ra == <<q, "asked">>
               rb == <<q, "answer">>
               ga == <<c, "asked">>
               gb == <<c, "answer">>
               R  == Rows(f) \ {ra}
               G  == Goners(f)' \ {ga}
    <3>1. /\ ra # rb /\ {ra, rb} \subseteq Questions \X Kinds
          /\ ga # gb /\ {ga, gb} \subseteq Proc \X Kinds
          /\ ga \notin Goners(f) /\ gb \notin Goners(f)
      BY <1>0 DEF Kinds, Goners
    <3>2. /\ Carriers(f)' = Carriers(f) \ {c}
          /\ \A p \in Proc \X Kinds :
                p \in Goners(f)' <=> IF p[1] = c THEN <<p[2], f>> \in listed ELSE p \in Goners(f)
      BY <1>0, <2>1, UnlinkMoves
    <3>3. /\ ra \in Rows(f) <=> <<"asked", f>> \in listed
          /\ rb \in Rows(f) <=> <<"answer", f>> \in listed
          /\ ga \in Goners(f)' <=> <<"asked", f>> \in listed
          /\ gb \in Goners(f)' <=> <<"answer", f>> \in listed
      <4>1. (ga \in Goners(f)' <=> <<"asked", f>> \in listed)
            /\ (gb \in Goners(f)' <=> <<"answer", f>> \in listed)
        BY <3>1, <3>2
      <4>2. (ra \in Rows(f) <=> <<"asked", f>> \in listed)
            /\ (rb \in Rows(f) <=> <<"answer", f>> \in listed)
        BY <1>0, <2>5, <3>1, RowsMove DEF Kinds
      <4> QED BY <4>1, <4>2
    <3>4. Rows(f)' \subseteq R \ {rb}
      <4>1. ASSUME NEW t \in Rows(f)' PROVE t \in Rows(f) /\ t[1] # q
        <5>1. /\ t \in Questions \X Kinds /\ t = <<t[1], t[2]>>
              /\ <<t[2], f>> \in Board!Attached(t[1])'
          BY DEF Rows
        <5>2. t[1] # q
          BY <2>4, <5>1 DEF Board!Attached
        <5> QED BY <1>0, <2>3, <5>1, <5>2, RowsMove
      <4> QED BY <4>1
    <3>5. G \ {gb} \subseteq Goners(f)
      <4>1. ASSUME NEW t \in G \ {gb} PROVE t \in Goners(f)
        <5>1. t \in Proc \X Kinds /\ t = <<t[1], t[2]>> /\ t[2] \in {"asked", "answer"}
          BY DEF Goners, Kinds
        <5> QED BY <3>2, <5>1
      <4> QED BY <4>1
    <3> HIDE DEF R, G
    <3>6. /\ IsFiniteSet(Rows(f)) /\ IsFiniteSet(Rows(f)') /\ IsFiniteSet(R)
          /\ IsFiniteSet(Goners(f)) /\ IsFiniteSet(Goners(f)') /\ IsFiniteSet(G)
          /\ IsFiniteSet(Carriers(f))
      BY SetsFinite, FS_Subset DEF R, G
    <3>7. /\ Cardinality(R) \in Nat /\ Cardinality(Rows(f)) \in Nat
          /\ Cardinality(R) + One(ra \in Rows(f)) = Cardinality(Rows(f))
      <4>1. Cardinality(R) \in Nat /\ Cardinality(Rows(f)) \in Nat
        BY <3>6, FS_CardinalityType
      <4>2. Cardinality(R) = IF ra \in Rows(f) THEN Cardinality(Rows(f)) - 1 ELSE Cardinality(Rows(f))
        BY <3>6, FS_RemoveElement DEF R
      <4> QED BY <4>1, <4>2 DEF One
    <3>8. /\ Cardinality(Rows(f)') \in Nat
          /\ Cardinality(Rows(f)') + One(rb \in Rows(f)) <= Cardinality(R)
      <4>1. /\ Rows(f)' \ {rb} \subseteq R \ {rb} /\ rb \notin Rows(f)'
            /\ rb \in R <=> rb \in Rows(f)
        BY <3>1, <3>4 DEF R
      <4>2. Cardinality(Rows(f)') + One(rb \in R) <= Cardinality(R) + One(rb \in Rows(f)')
        BY <3>6, <4>1, AtMostOneMore
      <4> QED BY <3>6, <3>7, <4>1, <4>2, FS_CardinalityType DEF One
    <3>9. /\ Cardinality(Goners(f)') \in Nat /\ Cardinality(G) \in Nat
          /\ Cardinality(G) + One(ga \in Goners(f)') = Cardinality(Goners(f)')
      BY <3>6, FS_RemoveElement, FS_CardinalityType, SMTT(30) DEF G, One
    <3>10. /\ Cardinality(Goners(f)) \in Nat
           /\ Cardinality(G) <= Cardinality(Goners(f)) + One(gb \in Goners(f)')
      <4>1. G \ {gb} \subseteq Goners(f) \ {gb} /\ (gb \in G <=> gb \in Goners(f)')
        BY <3>1, <3>5 DEF G
      <4>2. Cardinality(G) + One(gb \in Goners(f)) <= Cardinality(Goners(f)) + One(gb \in G)
        BY <3>6, <4>1, AtMostOneMore
      <4> QED BY <3>1, <3>6, <3>9, <4>1, <4>2, FS_CardinalityType DEF One
    <3>11. /\ Cardinality(Carriers(f)') \in Nat /\ Cardinality(Carriers(f)) \in Nat
           /\ Cardinality(Carriers(f)') <= Cardinality(Carriers(f))
      BY <3>2, <3>6, FS_Subset, FS_CardinalityType
    <3>12. /\ One(ra \in Rows(f)) = One(ga \in Goners(f)')
           /\ One(rb \in Rows(f)) = One(gb \in Goners(f)')
           /\ One(ra \in Rows(f)) \in Nat /\ One(rb \in Rows(f)) \in Nat
      BY <3>3 DEF One
    <3>13. /\ Total(f) = Cardinality(Rows(f)) + Cardinality(Carriers(f)) + Cardinality(Goners(f))
           /\ Total(f)' = Cardinality(Rows(f)') + Cardinality(Carriers(f)') + Cardinality(Goners(f)')
      BY DEF Total
    <3> HIDE DEF ra, rb, ga, gb, Total
    <3> QED BY <3>7, <3>8, <3>9, <3>10, <3>11, <3>12, <3>13
  <2>6. \A f \in File : Total(f) \in Nat /\ Total(f)' \in Nat /\ counts[f] \in Nat
    BY <1>0, SetsFinite, FS_CardinalityType DEF Total, BoardTables
  <2>7. BoardCounts'
    <3> SUFFICES ASSUME outdated' = {}, NEW f \in File PROVE Total(f)' <= counts'[f]
      BY DEF BoardCounts
    <3>1. Total(f) <= counts[f] /\ Total(f)' <= Total(f)
      BY <2>1, <2>5 DEF BoardInv, BoardCounts
    <3> HIDE DEF Total
    <3> QED BY <1>0, <2>6, <3>1
  <2> QED BY <2>2, <2>7
<1> QED BY <1>1, <1>2

LEMMA OtherBoardCounts ==
  ASSUME BoardInv, NEW c \in Proc,
         \/ Board!UpdateQuestion(c) \/ Board!RejectQuestion(c)
         \/ \E q \in Questions :
               \/ Board!BeginReject(c, q) \/ Board!BeginDelete(c, q)
               \/ \E staff \in BOOLEAN : Board!BeginUpdate(c, q, staff)
               \/ \E f \in File \cup {NoFile} :
                     \/ Board!BeginAnswer(c, q, f)
                     \/ \E pc \in {"ask", "plant"} : Board!BeginAsk(c, pc, q, f)
  PROVE  CallFilesSound' /\ BoardCounts'
<1>0. Board!Idle.pc = "idle"
  BY DEF Board!Idle
<1>1. CASE Board!UpdateQuestion(c) \/ Board!RejectQuestion(c)
  <2>1. /\ UNCHANGED <<asked, answers, counts>> /\ outdated \subseteq outdated'
        /\ boardCalls[c].pc \in {"edit", "reject"} /\ Board!Set(c, Board!Idle)
    BY <1>1 DEF Board!UpdateQuestion, Board!RejectQuestion
  <2> QED BY <1>0, <2>1, QuietStep, SMTT(30)
<1>2. ASSUME NEW q \in Questions, Board!BeginReject(c, q)
      PROVE  CallFilesSound' /\ BoardCounts'
  <2> DEFINE n == [pc |-> "reject", q |-> q]
  <2>1. n.pc = "reject" /\ Board!Set(c, n) /\ boardCalls[c].pc = "idle"
        /\ UNCHANGED <<asked, answers, counts, outdated>>
    BY <1>0, <1>2 DEF Board!BeginReject
  <2> HIDE DEF n
  <2> QED BY <2>1, QuietStep
<1>3. ASSUME NEW q \in Questions, Board!BeginDelete(c, q)
      PROVE  CallFilesSound' /\ BoardCounts'
  <2> DEFINE n == [pc |-> "delete", q |-> q, listed |-> Board!Attached(q)]
  <2>1. /\ n.pc = "delete" /\ Board!Set(c, n) /\ boardCalls[c].pc = "idle"
        /\ UNCHANGED <<asked, answers, counts, outdated>> /\ n.listed = Board!Attached(q)
    BY <1>0, <1>3 DEF Board!BeginDelete
  <2>2. Named(n.listed)
    BY AttachedTyped
  <2> HIDE DEF n
  <2> QED BY <2>1, <2>2, QuietStep
<1>4. ASSUME NEW q \in Questions, NEW staff \in BOOLEAN, Board!BeginUpdate(c, q, staff)
      PROVE  CallFilesSound' /\ BoardCounts'
  <2> DEFINE n == [pc |-> "edit", q |-> q, seen |-> questions[q], staff |-> staff]
  <2>1. n.pc = "edit" /\ Board!Set(c, n) /\ boardCalls[c].pc = "idle"
        /\ UNCHANGED <<asked, answers, counts, outdated>>
    BY <1>0, <1>4 DEF Board!BeginUpdate
  <2> HIDE DEF n
  <2> QED BY <2>1, QuietStep
<1>5. ASSUME NEW q \in Questions, NEW f \in File \cup {NoFile}, Board!BeginAnswer(c, q, f)
      PROVE  CallFilesSound' /\ BoardCounts'
  <2> DEFINE n == [pc |-> "answer", q |-> q, file |-> f]
  <2>1. n.pc = "answer" /\ n.file = f /\ Board!Set(c, n) /\ boardCalls[c].pc = "idle"
        /\ UNCHANGED <<asked, answers, outdated>> /\ Board!Link(f)
    BY <1>0, <1>5 DEF Board!BeginAnswer
  <2> HIDE DEF n
  <2> QED BY <2>1, CarryStep
<1>6. ASSUME NEW q \in Questions, NEW f \in File \cup {NoFile}, NEW pc \in {"ask", "plant"},
             Board!BeginAsk(c, pc, q, f)
      PROVE  CallFilesSound' /\ BoardCounts'
  <2> DEFINE n == [pc |-> pc, q |-> q, file |-> f]
  <2>1. n.pc = pc /\ n.file = f /\ Board!Set(c, n) /\ boardCalls[c].pc = "idle"
        /\ UNCHANGED <<asked, answers, outdated>> /\ Board!Link(f)
    BY <1>0, <1>6 DEF Board!BeginAsk
  <2> HIDE DEF n
  <2> QED BY <2>1, CarryStep
<1> QED BY <1>1, <1>2, <1>3, <1>4, <1>5, <1>6

LEMMA BoardInvInit == Board!Init => BoardInv
<1> SUFFICES ASSUME Board!Init PROVE BoardInv
  OBVIOUS
<1>1. \A c \in Proc : boardCalls[c].pc = "idle"
  BY DEF Board!Init, Board!Idle
<1>2. BoardTables
  BY DEF BoardTables, Board!Init
<1>3. BoardSound
  BY <1>1, <1>2 DEF BoardSound, BoardCallSound, Board!Init
<1>4. CallFilesSound
  BY <1>1 DEF CallFilesSound
<1>5. ASSUME NEW f \in File PROVE Total(f) <= counts[f]
  <2>1. Rows(f) = {} /\ Carriers(f) = {} /\ Goners(f) = {}
    BY <1>1 DEF Rows, Carriers, Goners, Board!Init, Board!Attached
  <2>2. counts[f] = 0
    BY DEF Board!Init
  <2> QED BY <2>1, <2>2, FS_EmptySet DEF Total
<1> QED BY <1>3, <1>4, <1>5 DEF BoardInv, BoardCounts

LEMMA BoardInvNext == BoardInv /\ [Board!Next]_boardVars => BoardInv'
<1> SUFFICES ASSUME BoardInv, [Board!Next]_boardVars PROVE BoardInv'
  OBVIOUS
<1>0. BoardSound'
  BY BoardSoundNext DEF BoardInv
<1>1. CASE UNCHANGED boardVars
  <2>1. \A f \in File : Rows(f)' = Rows(f) /\ Carriers(f)' = Carriers(f) /\ Goners(f)' = Goners(f)
    BY <1>1 DEF boardVars, Rows, Carriers, Goners, Board!Attached
  <2>2. \A f \in File : Total(f)' = Total(f)
    BY <2>1 DEF Total
  <2>3. CallFilesSound' /\ BoardCounts'
    BY <1>1, <2>2 DEF boardVars, BoardInv, BoardCounts, CallFilesSound
  <2> QED BY <1>0, <2>3 DEF BoardInv
<1>2. CASE Board!Next
  <2>1. PICK c \in Proc :
           \/ Board!CreateThread(c) \/ Board!AnswerQuestion(c) \/ Board!SoftDeleteQuestion(c)
           \/ Board!Unlink(c) \/ Board!UpdateQuestion(c) \/ Board!RejectQuestion(c)
           \/ \E q \in Questions :
                 \/ Board!BeginReject(c, q) \/ Board!BeginDelete(c, q)
                 \/ \E staff \in BOOLEAN : Board!BeginUpdate(c, q, staff)
                 \/ \E f \in File \cup {NoFile} :
                       \/ Board!BeginAnswer(c, q, f)
                       \/ \E pc \in {"ask", "plant"} : Board!BeginAsk(c, pc, q, f)
    BY <1>2 DEF Board!Next
  <2>2. CallFilesSound' /\ BoardCounts'
    BY <2>1, CreateThreadCounts, AnswerQuestionCounts, SoftDeleteQuestionCounts, BoardUnlinkCounts,
       OtherBoardCounts
  <2> QED BY <1>0, <2>2 DEF BoardInv
<1> QED BY <1>1, <1>2

(* What the board shows is there, for any number of questions, files and     *)
(* calls: an answered question has its answer, a rejected one its reason,    *)
(* and every file has a count for each row that names it, unless the files   *)
(* of a thread changed while a delete was listing them (postgres/qa.go:      *)
(* AnswerQuestion, RejectQuestion, SoftDeleteQuestion; qa.go: Create,        *)
(* CreateFAQ, Update, Answer, Reject, Delete).                               *)
THEOREM BoardAlwaysAddsUp == Board!Spec => []BoardAddsUp
<1>1. BoardInv => BoardAddsUp
  <2> SUFFICES ASSUME BoardInv PROVE BoardAddsUp
    OBVIOUS
  <2>1. \A q \in Questions : Board!Live(q) =>
            /\ questions[q].status = "answered" => answers[q] # NotYet
            /\ questions[q].status = "rejected" => q \in rejections
    BY DEF BoardInv, BoardSound, Shown, Board!Live
  <2>2. ASSUME outdated = {}, NEW f \in File PROVE counts[f] >= Board!Naming(f)
    <3>1. Board!Naming(f) = Cardinality(Rows(f))
      <4>1. Rows(f) = {p \in Questions \X {"asked", "answer"} :
                          <<p[2], f>> \in Board!Attached(p[1])}
        BY DEF Rows, Kinds
      <4>2. \A S : Board!Cardinality(S) = Cardinality(S)
        BY Zenon DEF Board!Cardinality, Cardinality
      <4> QED BY <4>1, <4>2 DEF Board!Naming
    <3>2. Total(f) <= counts[f] /\ counts[f] \in Nat
      BY <2>2 DEF BoardInv, BoardCounts, BoardSound, BoardTables
    <3>3. /\ Cardinality(Rows(f)) \in Nat /\ Cardinality(Carriers(f)) \in Nat
          /\ Cardinality(Goners(f)) \in Nat
      BY SetsFinite, FS_CardinalityType
    <3> QED BY <3>1, <3>2, <3>3 DEF Total
  <2> QED BY <2>1, <2>2 DEF BoardAddsUp, Board!BoardAddsUp
<1>2. Board!Spec => []BoardInv
  BY BoardInvInit, BoardInvNext, PTL DEF Board!Spec, boardVars, Board!vars
<1> QED BY <1>1, <1>2, PTL

(* Who takes a decision back has seen it: a step of the board that no edit  *)
(* on its way has overtaken leaves a rejected question rejected, and sends   *)
(* an answered one back to wait only by its author's edit.                   *)
LEMMA DecisionStands ==
  ASSUME BoardSound, [Board!Next]_boardVars, NEW q \in Questions,
         Board!Live(q), Board!Live(q)', q \notin outdated'
  PROVE  /\ questions[q].status = "rejected" => questions'[q].status = "rejected"
         /\ questions[q].status = "answered" /\ questions'[q].status # "answered" =>
               \E c \in Proc : boardCalls[c].pc = "edit" /\ boardCalls[c].q = q
                               /\ ~boardCalls[c].staff
<1>0. questions[q] # NotYet /\ questions[q] \in Board!Row
  BY DEF Board!Live, BoardSound, BoardTables
<1>1. CASE questions'[q] = questions[q]
  BY <1>1
<1>2. ASSUME NEW c \in Proc, boardCalls[c].q # q,
             \/ Board!CreateThread(c) \/ Board!UpdateQuestion(c) \/ Board!AnswerQuestion(c)
             \/ Board!RejectQuestion(c) \/ Board!SoftDeleteQuestion(c)
      PROVE  questions'[q] = questions[q]
  <2>1. \E r : questions' = [questions EXCEPT ![boardCalls[c].q] = r] \/ questions' = questions
    BY <1>2 DEF Board!CreateThread, Board!UpdateQuestion, Board!AnswerQuestion,
       Board!RejectQuestion, Board!SoftDeleteQuestion
  <2> QED BY <1>2, <2>1, SMTT(30) DEF BoardSound, BoardTables
<1>3. ASSUME NEW c \in Proc, boardCalls[c].q = q, Board!CreateThread(c) PROVE FALSE
  BY <1>0, <1>3 DEF Board!CreateThread, BoardSound, BoardCallSound
<1>4. ASSUME NEW c \in Proc, boardCalls[c].q = q, Board!UpdateQuestion(c),
             questions'[q] # questions[q]
      PROVE  /\ questions[q].status = boardCalls[c].seen.status /\ boardCalls[c].pc = "edit"
             /\ questions'[q].status =
                  Board!StatusAfterEdit(boardCalls[c].seen, boardCalls[c].staff)
  <2> DEFINE status == Board!StatusAfterEdit(boardCalls[c].seen, boardCalls[c].staff)
  <2>1. /\ questions' = [questions EXCEPT ![q].status = status, ![q].version = @ + 1]
        /\ q \notin outdated' => questions[q].status = boardCalls[c].seen.status
    BY <1>4 DEF Board!UpdateQuestion
  <2> HIDE DEF status
  <2>2. questions'[q].status = status
    BY <1>0, <2>1 DEF Board!Row, BoardSound, BoardTables
  <2> QED BY <1>4, <2>1, <2>2 DEF status, Board!UpdateQuestion
<1>5. ASSUME NEW c \in Proc, boardCalls[c].q = q, Board!AnswerQuestion(c),
             questions'[q] # questions[q]
      PROVE  questions[q].status # "rejected" /\ questions'[q].status = "answered"
  BY <1>0, <1>5 DEF Board!AnswerQuestion, Board!Answerable, Board!Row, BoardSound, BoardTables
<1>6. ASSUME NEW c \in Proc, boardCalls[c].q = q, Board!RejectQuestion(c),
             questions'[q] # questions[q]
      PROVE  questions[q].status = "pending"
  BY <1>0, <1>6 DEF Board!RejectQuestion
<1>7. ASSUME NEW c \in Proc, boardCalls[c].q = q, Board!SoftDeleteQuestion(c),
             questions'[q] # questions[q]
      PROVE  FALSE
  <2>1. questions' = [questions EXCEPT ![q].deleted = TRUE]
    BY <1>7 DEF Board!SoftDeleteQuestion
  <2>2. questions'[q].deleted = TRUE
    BY <1>0, <2>1 DEF Board!Row, BoardSound, BoardTables
  <2> QED BY <2>2 DEF Board!Live
<1>8. CASE questions'[q] # questions[q]
  <2>1. PICK c \in Proc :
           \/ Board!CreateThread(c) \/ Board!UpdateQuestion(c) \/ Board!AnswerQuestion(c)
           \/ Board!RejectQuestion(c) \/ Board!SoftDeleteQuestion(c)
    BY <1>8 DEF boardVars, Board!Next, Board!Unlink, Board!BeginReject, Board!BeginDelete,
       Board!BeginUpdate, Board!BeginAnswer, Board!BeginAsk
  <2>2. boardCalls[c].q = q
    BY <1>2, <1>8, <2>1
  <2>3. CASE Board!UpdateQuestion(c)
    BY <1>4, <1>8, <2>2, <2>3 DEF Board!StatusAfterEdit
  <2> QED BY <1>3, <1>5, <1>6, <1>7, <1>8, <2>1, <2>2, <2>3
<1> QED BY <1>1, <1>8

(* A decision stands, for any number of questions and calls: a rejected      *)
(* question stays rejected, and an answered one goes back to wait only when  *)
(* its author edits it, unless the decision was made under an edit already   *)
(* on its way (qa.go: Update, Answer, Reject).                               *)
THEOREM DecisionsAlwaysStand == Board!Spec => DecisionsStandUnlessOvertaken
<1>1. BoardSound /\ [Board!Next]_boardVars =>
        [\A q \in Questions : Board!Live(q) /\ Board!Live(q)' /\ q \notin outdated' =>
            /\ questions[q].status = "rejected" => questions'[q].status = "rejected"
            /\ questions[q].status = "answered" /\ questions'[q].status # "answered" =>
                  \E c \in Proc : boardCalls[c].pc = "edit" /\ boardCalls[c].q = q
                                  /\ ~boardCalls[c].staff]_boardVars
  BY DecisionStands
<1>2. Board!Spec => []BoardSound
  <2>1. BoardInv => BoardSound
    BY DEF BoardInv
  <2> QED BY <2>1, BoardInvInit, BoardInvNext, PTL DEF Board!Spec, boardVars, Board!vars
<1> QED BY <1>1, <1>2, PTL DEF Board!Spec, boardVars, Board!vars, DecisionsStandUnlessOvertaken,
           Board!DecisionsStandUnlessOvertaken

(* A request to write a team's row has read the team, and if no version was  *)
(* written since, its leader asked for it; a rename writes that leader back. *)
WriteSound(p) ==
  LET c == teamCall[p]
  IN  c.op \in {"rename", "transfer"} =>
        /\ c.team \in File /\ c.x \in Work /\ c.version \in Nat
        /\ team[c.team] # None
        /\ c.op = "rename" => c.x = c.by
        /\ Teamwork!Exists(c.team) =>
              /\ c.version <= team[c.team].version
              /\ c.version = team[c.team].version => c.by = team[c.team].leader

LeaderInv ==
  /\ team \in [File -> Teamwork!TeamRow \cup {None, Gone}]
  /\ teamCall = [p \in Proc |-> teamCall[p]]
  /\ \A p \in Proc : WriteSound(p)

(* Requests come and go over the teams as they are. *)
LEMMA TeamCallMoves ==
  ASSUME LeaderInv, NEW p \in Proc, NEW n, teamCall' = [teamCall EXCEPT ![p] = n], team' = team,
         n.op \in {"rename", "transfer"} =>
            /\ n.team \in File /\ n.x \in Work /\ Teamwork!Exists(n.team)
            /\ n.op = "rename" => n.x = n.by
            /\ n.version = team[n.team].version /\ n.by = team[n.team].leader
  PROVE  LeaderInv'
<1>1. /\ teamCall' = [q \in Proc |-> teamCall'[q]] /\ teamCall'[p] = n
      /\ \A q \in Proc \ {p} : teamCall'[q] = teamCall[q]
  BY DEF LeaderInv
<1>2. ASSUME NEW q \in Proc \ {p} PROVE WriteSound(q)'
  BY <1>1 DEF LeaderInv, WriteSound, Teamwork!Exists
<1>3. WriteSound(p)'
  <2> SUFFICES ASSUME n.op \in {"rename", "transfer"} PROVE WriteSound(p)'
    BY <1>1 DEF WriteSound
  <2>1. team[n.team] \in Teamwork!TeamRow
    BY DEF LeaderInv, Teamwork!Exists
  <2>2. team[n.team].version \in Nat
    BY <2>1 DEF Teamwork!TeamRow
  <2> QED BY <1>1, <2>2 DEF WriteSound, Teamwork!Exists
<1> QED BY <1>1, <1>2, <1>3 DEF LeaderInv

(* A process that ends its request. *)
LEMMA TeamCallEnds ==
  ASSUME LeaderInv, NEW p \in Proc, Teamwork!End(p), team' = team
  PROVE  LeaderInv'
<1>1. Teamwork!NoCall.op = "none"
  BY DEF Teamwork!NoCall
<1>2. teamCall' = [teamCall EXCEPT ![p] = Teamwork!NoCall]
  BY DEF Teamwork!End
<1> QED BY <1>1, <1>2, TeamCallMoves

(* A new team has had no requests, and a deleted one is written no more. *)
LEMMA TeamCreatedOrGone ==
  ASSUME LeaderInv, NEW t \in File,
         \/ \E s \in Work : Teamwork!CreateTeam(t, s)
         \/ team' = [team EXCEPT ![t] = Gone] /\ \E p \in Proc : Teamwork!End(p)
  PROVE  LeaderInv'
<1>1. CASE \E s \in Work : Teamwork!CreateTeam(t, s)
  <2>1. PICK s \in Work : Teamwork!CreateTeam(t, s)
    BY <1>1
  <2> DEFINE new == [leader |-> s, version |-> 0, cohort |-> Cohort[s]]
  <2>2. new \in Teamwork!TeamRow
    BY TeamAssumption DEF Teamwork!GroupAssumption, Teamwork!TeamAssumption, Teamwork!TeamRow
  <2> HIDE DEF new
  <2>3. /\ team[t] = None /\ teamCall' = teamCall
        /\ team' = [team EXCEPT ![t] = new]
    BY <2>1 DEF Teamwork!CreateTeam, new
  <2>4. /\ team' \in [File -> Teamwork!TeamRow \cup {None, Gone}]
        /\ \A u \in File \ {t} : team'[u] = team[u]
    BY <2>2, <2>3 DEF LeaderInv
  <2>5. ASSUME NEW p \in Proc PROVE WriteSound(p)'
    <3>1. WriteSound(p)
      BY DEF LeaderInv
    <3> QED BY <2>3, <2>4, <3>1 DEF WriteSound, Teamwork!Exists
  <2> QED BY <2>3, <2>4, <2>5 DEF LeaderInv
<1>2. ASSUME NEW p \in Proc, team' = [team EXCEPT ![t] = Gone], Teamwork!End(p)
      PROVE  LeaderInv'
  <2>1. /\ team' \in [File -> Teamwork!TeamRow \cup {None, Gone}]
        /\ team'[t] = Gone /\ Gone # None
        /\ \A u \in File \ {t} : team'[u] = team[u]
    BY <1>2, TeamAssumption DEF LeaderInv, Teamwork!GroupAssumption, Teamwork!TeamAssumption
  <2>2. /\ teamCall' = [q \in Proc |-> teamCall'[q]] /\ teamCall'[p].op = "none"
        /\ \A q \in Proc \ {p} : teamCall'[q] = teamCall[q]
    BY <1>2 DEF LeaderInv, Teamwork!End, Teamwork!NoCall
  <2>3. ASSUME NEW q \in Proc PROVE WriteSound(q)'
    <3>1. CASE q = p
      BY <2>2, <3>1 DEF WriteSound
    <3>2. CASE q # p
      <4>1. WriteSound(q) /\ teamCall'[q] = teamCall[q]
        BY <2>2, <3>2 DEF LeaderInv
      <4> QED BY <2>1, <4>1 DEF WriteSound, Teamwork!Exists
    <3> QED BY <3>1, <3>2
  <2> QED BY <2>1, <2>2, <2>3 DEF LeaderInv
<1> QED BY <1>1, <1>2

(* The write itself: it raises the version past every other request's. *)
LEMMA TeamWritten ==
  ASSUME LeaderInv, NEW p \in Proc, Teamwork!FinishUpdate(p), team' # team
  PROVE  /\ LeaderInv'
         /\ teamCall[p].team \in File
         /\ \A u \in File \ {teamCall[p].team} : team'[u] = team[u]
         /\ teamCall[p].op \in {"rename", "transfer"}
         /\ teamCall[p].by = team[teamCall[p].team].leader
         /\ team'[teamCall[p].team].leader = teamCall[p].x
         /\ teamCall[p].op = "rename" => teamCall[p].x = teamCall[p].by
<1> DEFINE c == teamCall[p]
           t == c.team
           new == [leader |-> c.x, version |-> c.version + 1, cohort |-> team[t].cohort]
<1>1. /\ c.op \in {"rename", "transfer"} /\ t \in File /\ c.x \in Work /\ c.version \in Nat
      /\ Teamwork!Exists(t) /\ team[t].version = c.version /\ c.version < MaxRenames
      /\ team' = [team EXCEPT ![t] = new]
      /\ c.by = team[t].leader /\ (c.op = "rename" => c.x = c.by)
  BY DEF LeaderInv, WriteSound, Teamwork!FinishUpdate, Teamwork!UpdateTeam
<1>2. team[t] \in Teamwork!TeamRow
  BY <1>1 DEF LeaderInv, Teamwork!Exists
<1>3. new \in Teamwork!TeamRow
  <2>1. c.version + 1 \in 0..MaxRenames /\ team[t].cohort \in {Cohort[s] : s \in Work}
    BY <1>1, <1>2, TeamAssumption DEF Teamwork!GroupAssumption, Teamwork!TeamAssumption, Teamwork!TeamRow
  <2> QED BY <1>1, <2>1 DEF Teamwork!TeamRow
<1>4. new.leader = c.x /\ new.version = c.version + 1
  OBVIOUS
<1> HIDE DEF new
<1>5. /\ team' \in [File -> Teamwork!TeamRow \cup {None, Gone}]
      /\ team'[t] = new /\ new # None
      /\ \A u \in File \ {t} : team'[u] = team[u]
  BY <1>1, <1>3, TeamAssumption DEF LeaderInv, Teamwork!GroupAssumption, Teamwork!TeamAssumption
<1>6. /\ teamCall' = [q \in Proc |-> teamCall'[q]] /\ teamCall'[p].op = "none"
      /\ \A q \in Proc \ {p} : teamCall'[q] = teamCall[q]
  BY DEF LeaderInv, Teamwork!FinishUpdate, Teamwork!End, Teamwork!NoCall
<1>7. ASSUME NEW q \in Proc PROVE WriteSound(q)'
  <2>1. CASE q = p
    BY <1>6, <2>1 DEF WriteSound
  <2>2. CASE q # p
    <3>1. WriteSound(q) /\ teamCall'[q] = teamCall[q]
      BY <1>6, <2>2 DEF LeaderInv
    <3>2. CASE teamCall[q].team = t
      BY <1>1, <1>4, <1>5, <3>1, <3>2 DEF WriteSound, Teamwork!Exists
    <3>3. CASE teamCall[q].team # t
      BY <1>5, <3>1, <3>3 DEF WriteSound, Teamwork!Exists
    <3> QED BY <3>2, <3>3
  <2> QED BY <2>1, <2>2
<1>8. LeaderInv'
  BY <1>5, <1>6, <1>7 DEF LeaderInv
<1> QED BY <1>1, <1>4, <1>5, <1>8

LEMMA LeaderInvInit == Teamwork!Init => LeaderInv
<1> SUFFICES ASSUME Teamwork!Init PROVE LeaderInv
  OBVIOUS
<1>1. team \in [File -> {None} \cup [leader : Work, version : {0}, cohort : {Cohort[s] : s \in Work}]]
  BY DEF Teamwork!Init, Teamwork!TeamInit
<1>2. 0 \in 0..MaxRenames
  BY TeamAssumption DEF Teamwork!GroupAssumption, Teamwork!TeamAssumption
<1>3. team \in [File -> Teamwork!TeamRow \cup {None, Gone}]
  <2>1. [leader : Work, version : {0}, cohort : {Cohort[s] : s \in Work}] \subseteq Teamwork!TeamRow
    BY <1>2 DEF Teamwork!TeamRow
  <2> QED BY <1>1, <2>1
<1>4. teamCall = [p \in Proc |-> teamCall[p]] /\ \A p \in Proc : teamCall[p].op = "none"
  BY DEF Teamwork!Init, Teamwork!TeamInit, Teamwork!NoCall
<1> QED BY <1>3, <1>4 DEF LeaderInv, WriteSound

(* The requests on teams, by what they do to the rows. *)
LEMMA TeamSteps ==
  ASSUME LeaderInv, [Teamwork!Next]_(Teamwork!vars)
  PROVE  \/ team' = team /\ LeaderInv'
         \/ \E t \in File : /\ LeaderInv'
                            /\ \/ team[t] = None \/ team'[t] = Gone
                            /\ \A u \in File \ {t} : team'[u] = team[u]
         \/ \E p \in Proc : Teamwork!FinishUpdate(p) /\ team' # team
<1>0. team \in [File -> Teamwork!TeamRow \cup {None, Gone}]
  BY DEF LeaderInv
<1>1. ASSUME team' = team, teamCall' = teamCall
      PROVE  LeaderInv'
  BY <1>1 DEF LeaderInv, WriteSound, Teamwork!Exists
<1>2. ASSUME NEW p \in Proc, Teamwork!End(p), team' = team
      PROVE  LeaderInv'
  BY <1>2, TeamCallEnds
<1>3. ASSUME NEW p \in Proc, NEW t \in File, NEW s \in Work, NEW x \in Work, NEW op,
             Teamwork!Begin(p, op, t, s, x), team' = team,
             op \in {"rename", "transfer"} => Teamwork!leaderTeam(t, s) /\ (op = "rename" => x = s)
      PROVE  LeaderInv'
  <2> DEFINE n == [op |-> op, team |-> t, by |-> s, x |-> x, version |-> team[t].version]
  <2>1. /\ n.op = op /\ n.team = t /\ n.by = s /\ n.x = x /\ n.version = team[t].version
        /\ teamCall' = [teamCall EXCEPT ![p] = n]
    BY <1>3 DEF Teamwork!Begin
  <2> HIDE DEF n
  <2> QED BY <1>3, <2>1, TeamCallMoves DEF Teamwork!leaderTeam
<1>4. ASSUME Teamwork!TeamStep
      PROVE  \/ team' = team /\ LeaderInv'
             \/ \E t \in File, s \in Work : Teamwork!CreateTeam(t, s)
             \/ \E p \in Proc : Teamwork!FinishUpdate(p) /\ team' # team
  <2>1. ASSUME NEW p \in Proc, NEW t \in File, NEW s \in Work, NEW x \in Work,
               \/ Teamwork!BeginRename(p, t, s) \/ Teamwork!BeginLeave(p, t, s)
               \/ Teamwork!BeginDelete(p, t, s) \/ Teamwork!BeginAddMember(p, t, s, x)
               \/ Teamwork!BeginRemoveMember(p, t, s, x) \/ Teamwork!BeginTransfer(p, t, s, x)
        PROVE  team' = team /\ LeaderInv'
    <3>1. team' = team
      BY <2>1 DEF Teamwork!BeginRename, Teamwork!BeginLeave, Teamwork!BeginDelete,
         Teamwork!BeginAddMember, Teamwork!BeginRemoveMember, Teamwork!BeginTransfer
    <3>2. CASE Teamwork!BeginRename(p, t, s)
      BY <1>3, <3>1, <3>2 DEF Teamwork!BeginRename
    <3>3. CASE Teamwork!BeginLeave(p, t, s)
      BY <1>3, <3>1, <3>3 DEF Teamwork!BeginLeave
    <3>4. CASE Teamwork!BeginDelete(p, t, s)
      BY <1>3, <3>1, <3>4 DEF Teamwork!BeginDelete
    <3>5. CASE Teamwork!BeginAddMember(p, t, s, x)
      BY <1>3, <3>1, <3>5 DEF Teamwork!BeginAddMember
    <3>6. CASE Teamwork!BeginRemoveMember(p, t, s, x)
      BY <1>3, <3>1, <3>6 DEF Teamwork!BeginRemoveMember
    <3>7. CASE Teamwork!BeginTransfer(p, t, s, x)
      BY <1>3, <3>1, <3>7 DEF Teamwork!BeginTransfer
    <3> QED BY <2>1, <3>1, <3>2, <3>3, <3>4, <3>5, <3>6, <3>7
  <2>2. ASSUME NEW p \in Proc, Teamwork!FinishUpdate(p), team' = team
        PROVE  LeaderInv'
    BY <1>2, <2>2 DEF Teamwork!FinishUpdate
  <2>3. ASSUME NEW p \in Proc, Teamwork!CheckAdd(p)
        PROVE  team' = team /\ LeaderInv'
    <3>1. CASE Teamwork!End(p)
      BY <1>2, <2>3, <3>1 DEF Teamwork!CheckAdd
    <3>2. CASE teamCall' = [teamCall EXCEPT ![p].op = "insert"]
      <4> DEFINE n == [teamCall[p] EXCEPT !.op = "insert"]
      <4>1. n.op \notin {"rename", "transfer"}
        BY <2>3, <3>2 DEF Teamwork!CheckAdd
      <4>2. teamCall' = [teamCall EXCEPT ![p] = n] /\ team' = team
        BY <2>3, <3>2 DEF Teamwork!CheckAdd
      <4> HIDE DEF n
      <4> QED BY <4>1, <4>2, TeamCallMoves
    <3> QED BY <2>3, <3>1, <3>2 DEF Teamwork!CheckAdd
  <2>4. ASSUME NEW p \in Proc, Teamwork!InsertMember(p) \/ Teamwork!RemoveMember(p)
        PROVE  team' = team /\ LeaderInv'
    BY <1>2, <2>4 DEF Teamwork!InsertMember, Teamwork!RemoveMember
  <2> QED BY <1>4, <2>1, <2>2, <2>3, <2>4 DEF Teamwork!TeamStep
<1>5. ASSUME NEW t \in File, NEW s \in Work, Teamwork!CreateTeam(t, s)
      PROVE  LeaderInv' /\ team[t] = None /\ \A u \in File \ {t} : team'[u] = team[u]
  BY <1>0, <1>5, TeamCreatedOrGone DEF Teamwork!CreateTeam
<1>6. ASSUME NEW p \in Proc, Teamwork!DeleteTeam(p)
      PROVE  \/ team' = team /\ LeaderInv'
             \/ \E t \in File : /\ LeaderInv' /\ team'[t] = Gone
                                /\ \A u \in File \ {t} : team'[u] = team[u]
  <2> DEFINE t == teamCall[p].team
  <2>1. Teamwork!End(p) /\ (team' = team \/ team' = [team EXCEPT ![t] = Gone])
    BY <1>6 DEF Teamwork!DeleteTeam, Teamwork!Forget
  <2>2. CASE t \in File /\ team' # team
    <3>1. team'[t] = Gone /\ \A u \in File \ {t} : team'[u] = team[u]
      BY <1>0, <2>1, <2>2
    <3> QED BY <2>1, <2>2, <3>1, TeamCreatedOrGone
  <2>3. CASE t \notin File
    BY <1>0, <1>2, <2>1, <2>3
  <2>4. CASE team' = team
    BY <1>2, <2>1, <2>4
  <2> QED BY <2>2, <2>3, <2>4
<1>7. ASSUME UNCHANGED Teamwork!vars
      PROVE  team' = team /\ teamCall' = teamCall
  BY <1>7, SMTT(30) DEF Teamwork!vars
<1>8. ASSUME Teamwork!Next, ~Teamwork!TeamStep, \A p \in Proc : ~Teamwork!DeleteTeam(p)
      PROVE  team' = team /\ teamCall' = teamCall
  BY <1>8 DEF Teamwork!Next, Teamwork!teamVars, Teamwork!UpdateProject, Teamwork!DeleteProject,
     Teamwork!Tick, Teamwork!InsertRegistration, Teamwork!DeleteRegistration,
     Teamwork!BeginFormGroups, Teamwork!LockRegs, Teamwork!FreezeGroups,
     Teamwork!BeginRegister, Teamwork!BeginUnregister, Teamwork!FirstSave
<1> QED BY <1>1, <1>4, <1>5, <1>6, <1>7, <1>8

(* Leadership is handed over by the leader of the moment alone, for any      *)
(* number of students, teams and requests: the version a request has read is *)
(* the team's only while the leader it read still leads (team.go: Rename,    *)
(* TransferLeadership; postgres/team.go: UpdateTeam).                        *)
THEOREM OnlyLeadersHandOver == Teamwork!Spec => OnlyTheLeaderHandsOver
<1>1. ASSUME LeaderInv, [Teamwork!Next]_(Teamwork!vars)
      PROVE  LeaderInv' /\ \A t \in File :
               Teamwork!Exists(t) /\ Teamwork!Exists(t)' /\ team'[t].leader # team[t].leader =>
                 \E p \in Proc : /\ teamCall[p].op = "transfer" /\ teamCall[p].team = t
                                 /\ teamCall[p].by = team[t].leader
  <2>1. CASE team' = team /\ LeaderInv'
    BY <2>1
  <2>2. CASE \E t \in File : /\ LeaderInv'
                             /\ \/ team[t] = None \/ team'[t] = Gone
                             /\ \A u \in File \ {t} : team'[u] = team[u]
    BY <2>2 DEF Teamwork!Exists
  <2>3. ASSUME NEW p \in Proc, Teamwork!FinishUpdate(p), team' # team
        PROVE  LeaderInv' /\ \A t \in File :
                 Teamwork!Exists(t) /\ Teamwork!Exists(t)' /\ team'[t].leader # team[t].leader =>
                   \E q \in Proc : /\ teamCall[q].op = "transfer" /\ teamCall[q].team = t
                                   /\ teamCall[q].by = team[t].leader
    BY <1>1, <2>3, TeamWritten
  <2> QED BY <1>1, <2>1, <2>2, <2>3, TeamSteps
<1>2. Teamwork!Spec => []LeaderInv
  <2>1. LeaderInv /\ [Teamwork!Next]_(Teamwork!vars) => LeaderInv'
    BY <1>1
  <2> QED BY <2>1, LeaderInvInit, PTL DEF Teamwork!Spec
<1>3. LeaderInv /\ [Teamwork!Next]_(Teamwork!vars) =>
        [\A t \in File :
            Teamwork!Exists(t) /\ Teamwork!Exists(t)' /\ team'[t].leader # team[t].leader =>
              \E p \in Proc : /\ teamCall[p].op = "transfer" /\ teamCall[p].team = t
                              /\ teamCall[p].by = team[t].leader]_(Teamwork!vars)
  BY <1>1
<1> QED BY <1>2, <1>3, PTL DEF Teamwork!Spec, OnlyTheLeaderHandsOver,
           Teamwork!OnlyTheLeaderHandsOver

-----------------------------------------------------------------------------
Below == {ss \in Nat \X Nat : ss[1] < ss[2]}

(* The order of the natural numbers is well-founded. *)
LEMMA BelowIsWellFounded == IsWellFoundedOn(Below, Nat)
BY NatLessThanWellFounded DEF OpToRel, Below

(* Induction, for a set: the least number outside it has none before it. *)
LEMMA UpFromZero ==
  ASSUME NEW S, 0 \in S, \A n \in Nat : n \in S => n + 1 \in S
  PROVE  Nat \subseteq S
<1> DEFINE T == Nat \ S
<1>1. SUFFICES ASSUME T # {} PROVE FALSE
  OBVIOUS
<1>2. PICK x \in T : \A y \in T : ~ (<<y, x>> \in Below)
  <2>1. T \subseteq Nat
    OBVIOUS
  <2> HIDE DEF T
  <2> QED BY <1>1, <2>1, BelowIsWellFounded, WFMin
<1>3. \A y \in T : ~ (y < x)
  BY <1>2 DEF Below
<1>4. x # 0 /\ x - 1 \in Nat /\ x - 1 \in S
  BY <1>3
<1> QED BY <1>4

(* What holds at the start and of every next element holds of all. *)
LEMMA Along ==
  ASSUME NEW n \in Nat, NEW acc, NEW A, acc[0] \in A,
         \A k \in 1..n : acc[k - 1] \in A => acc[k] \in A
  PROVE  \A k \in 0..n : acc[k] \in A
<1> DEFINE S == {k \in Nat : k <= n => acc[k] \in A}
<1>1. 0 \in S
  OBVIOUS
<1>2. \A k \in Nat : k \in S => k + 1 \in S
  <2> SUFFICES ASSUME NEW k \in Nat, k \in S, k + 1 <= n PROVE acc[k + 1] \in A
    OBVIOUS
  <2> k + 1 \in 1..n /\ (k + 1) - 1 = k /\ k <= n
    OBVIOUS
  <2> QED OBVIOUS
<1> HIDE DEF S
<1>3. Nat \subseteq S
  BY <1>1, <1>2, UpFromZero
<1> QED BY <1>3 DEF S

(* The largest of the numbers up to m, when m is among them. *)
LEMMA MaxIs ==
  ASSUME NEW m \in Nat, NEW s, s \subseteq 1..m, m \in s
  PROVE  Max(s) = m
<1>1. \A x \in s : m >= x
  OBVIOUS
<1>2. \A y \in s : (\A x \in s : y >= x) => y = m
  OBVIOUS
<1> QED BY <1>1, <1>2 DEF Max

(* A set of numbers up to n has a largest. *)
LEMMA MaxIn ==
  ASSUME NEW n \in Nat, NEW s \in SUBSET (1..n), s # {}
  PROVE  Max(s) \in s
<1> DEFINE S == {m \in Nat : \A t \in SUBSET (1..m) : t # {} => Max(t) \in t}
<1>1. 0 \in S
  <2>1. 1..0 = {}
    OBVIOUS
  <2> QED BY <2>1
<1>2. ASSUME NEW m \in Nat, m \in S PROVE m + 1 \in S
  <2> SUFFICES ASSUME NEW t \in SUBSET (1..(m + 1)), t # {} PROVE Max(t) \in t
    OBVIOUS
  <2>1. CASE m + 1 \in t
    <3>1. m + 1 \in Nat /\ t \subseteq 1..(m + 1)
      OBVIOUS
    <3> HIDE DEF S
    <3> QED BY <2>1, <3>1, MaxIs
  <2>2. CASE m + 1 \notin t
    <3>1. t \in SUBSET (1..m)
      BY <2>2
    <3> QED BY <1>2, <3>1
  <2> QED BY <2>1, <2>2
<1> HIDE DEF S
<1>3. n \in S
  BY <1>1, <1>2, UpFromZero
<1> QED BY <1>3 DEF S

(* The values of a fold along a sequence, over the subsets of its domain. *)
FoldValues(it, A, st, base, n, seq) ==
  /\ it \in [SUBSET (1..n) -> A] /\ it[{}] = base
  /\ \A s \in SUBSET (1..n) : s # {} =>
       /\ Max(s) \in 1..n /\ it[s \ {Max(s)}] \in A
       /\ it[s] = st[<<it[s \ {Max(s)}], seq[Max(s)]>>]

(* A fold along a sequence is well defined. *)
LEMMA FoldExists ==
  ASSUME NEW A, NEW B, NEW st \in [A \X B -> A], NEW base \in A, NEW n \in Nat,
         NEW seq \in [1..n -> B]
  PROVE  \E it : FoldValues(it, A, st, base, n, seq)
<1> DEFINE Obeys(it, m) ==
             /\ it[{}] = base
             /\ \A s \in SUBSET (1..m) : s # {} =>
                  it[s] = st[<<it[s \ {Max(s)}], seq[Max(s)]>>]
           Q(m) == \E it \in [SUBSET (1..m) -> A] : Obeys(it, m)
           S == {m \in Nat : m <= n => Q(m)}
<1>1. Q(0)
  <2> DEFINE it == [s \in SUBSET (1..0) |-> base]
  <2>1. 1..0 = {} /\ SUBSET (1..0) = {{}}
    OBVIOUS
  <2>2. it[{}] = base /\ it \in [SUBSET (1..0) -> A]
    BY <2>1
  <2> HIDE DEF it
  <2> QED BY <2>1, <2>2
<1>2. ASSUME NEW m \in Nat, Q(m), m + 1 <= n PROVE Q(m + 1)
  <2>1. PICK it \in [SUBSET (1..m) -> A] : Obeys(it, m)
    BY <1>2
  <2> DEFINE new == [s \in SUBSET (1..(m + 1)) |->
                       IF m + 1 \in s THEN st[<<it[s \ {m + 1}], seq[m + 1]>>] ELSE it[s]]
  <2>2. ASSUME NEW s \in SUBSET (1..(m + 1)), m + 1 \in s
        PROVE  /\ s # {} /\ s \ {m + 1} \in SUBSET (1..m) /\ Max(s) = m + 1
               /\ new[s \ {m + 1}] = it[s \ {m + 1}]
    <3>1. Max(s) = m + 1
      <4> HIDE DEF new
      <4>1. m + 1 \in Nat /\ s \subseteq 1..(m + 1)
        OBVIOUS
      <4> QED BY <2>2, <4>1, MaxIs
    <3>2. s \ {m + 1} \in SUBSET (1..m)
      OBVIOUS
    <3>3. s \ {m + 1} \in SUBSET (1..(m + 1)) /\ m + 1 \notin s \ {m + 1}
      OBVIOUS
    <3> QED BY <2>2, <3>1, <3>2, <3>3
  <2>3. ASSUME NEW s \in SUBSET (1..(m + 1)), m + 1 \notin s
        PROVE  /\ s \in SUBSET (1..m)
               /\ s # {} => new[s \ {Max(s)}] = it[s \ {Max(s)}]
    <3>1. s \in SUBSET (1..m)
      BY <2>3
    <3>2. s \ {Max(s)} \in SUBSET (1..(m + 1)) /\ m + 1 \notin s \ {Max(s)}
      BY <2>3
    <3> QED BY <3>1, <3>2
  <2>4. seq[m + 1] \in B
    BY <1>2
  <2>5. new \in [SUBSET (1..(m + 1)) -> A]
    <3> SUFFICES ASSUME NEW s \in SUBSET (1..(m + 1)) PROVE new[s] \in A
      OBVIOUS
    <3>1. CASE m + 1 \in s
      <4>1. it[s \ {m + 1}] \in A
        BY <2>2, <3>1
      <4>2. <<it[s \ {m + 1}], seq[m + 1]>> \in A \X B
        BY <4>1, <2>4
      <4> QED BY <3>1, <4>2
    <3>2. CASE m + 1 \notin s
      BY <3>2, <2>3
    <3> QED BY <3>1, <3>2
  <2>6. ASSUME NEW s \in SUBSET (1..(m + 1)), s # {}
        PROVE  new[s] = st[<<new[s \ {Max(s)}], seq[Max(s)]>>]
    <3>1. CASE m + 1 \in s
      <4>1. new[s] = st[<<it[s \ {m + 1}], seq[m + 1]>>]
        BY <3>1
      <4> HIDE DEF new
      <4> QED BY <3>1, <2>2, <4>1
    <3>2. CASE m + 1 \notin s
      <4>1. new[s] = it[s] /\ s \in SUBSET (1..m)
        BY <3>2, <2>3
      <4> HIDE DEF new
      <4> QED BY <2>1, <4>1, <2>3, <2>6, <3>2
    <3> QED BY <3>1, <3>2
  <2>7. new[{}] = base
    <3>1. {} \in SUBSET (1..(m + 1)) /\ m + 1 \notin {}
      OBVIOUS
    <3> QED BY <2>1, <3>1
  <2> HIDE DEF new
  <2> QED BY <2>5, <2>6, <2>7
<1> HIDE DEF Q
<1>3. 0 \in S
  BY <1>1
<1>4. \A m \in Nat : m \in S => m + 1 \in S
  <2> SUFFICES ASSUME NEW m \in Nat, m \in S, m + 1 <= n PROVE Q(m + 1)
    OBVIOUS
  <2> QED BY <1>2
<1>5. Nat \subseteq S
  <2> HIDE DEF S
  <2> QED BY <1>3, <1>4, UpFromZero
<1>6. Q(n)
  BY <1>5
<1>7. PICK it \in [SUBSET (1..n) -> A] : Obeys(it, n)
  BY <1>6 DEF Q
<1>8. ASSUME NEW s \in SUBSET (1..n), s # {}
      PROVE  Max(s) \in 1..n /\ it[s \ {Max(s)}] \in A
  <2>1. Max(s) \in 1..n
    BY <1>8, MaxIn
  <2>2. s \ {Max(s)} \in SUBSET (1..n)
    OBVIOUS
  <2> QED BY <2>1, <2>2
<1> QED BY <1>7, <1>8 DEF FoldValues

(* The prefixes of a domain, that a fold goes through. *)
LEMMA Prefixed ==
  ASSUME NEW n \in Nat, NEW k \in 1..n
  PROVE  /\ 1..k \in SUBSET (1..n) /\ 1..k # {} /\ Max(1..k) = k /\ (1..k) \ {k} = 1..(k - 1)
         /\ 1..(k - 1) \in SUBSET (1..n) /\ k - 1 \in 0..n /\ k \in 0..n
<1>1. 1..k \subseteq 1..k /\ k \in 1..k /\ k \in Nat
  OBVIOUS
<1>2. Max(1..k) = k
  BY <1>1, MaxIs
<1> QED BY <1>2

(* A set of teams to be packed: each has a size. *)
SeedSet(Seed) == \A x \in Seed : x.size \in Nat

(* The elements kept, one after the other. *)
OnlyTrace(acc, B, seq, keep) ==
  /\ acc \in [0..Len(seq) -> Seq(B)] /\ acc[0] = <<>>
  /\ \A k \in 1..Len(seq) : acc[k] = IF seq[k] \in keep THEN Append(acc[k - 1], seq[k]) ELSE acc[k - 1]

(* Only keeps them element by element. *)
LEMMA OnlyAlong ==
  ASSUME NEW B, NEW seq \in Seq(B), NEW keep
  PROVE  \E acc : OnlyTrace(acc, B, seq, keep) /\ Only(seq, keep) = acc[Len(seq)]
<1> DEFINE n == Len(seq)
           A == Seq(B)
           base == <<>>
           Op(a, x) == IF x \in keep THEN Append(a, x) ELSE a
           st == [p \in A \X B |-> Op(p[1], p[2])]
           R(it) == [s \in SUBSET (1..n) |->
                       IF s = {} THEN base ELSE Op(it[s \ {Max(s)}], seq[Max(s)])]
           fold == CHOOSE it : it = R(it)
           acc == [k \in 0..n |-> fold[1..k]]
<1>1. n \in Nat /\ DOMAIN seq = 1..n /\ seq \in [1..n -> B]
  OBVIOUS
<1>2. \A a \in A, x \in B : Op(a, x) \in A
  OBVIOUS
<1>3. st \in [A \X B -> A] /\ base \in A
  <2> HIDE DEF Op
  <2> QED BY <1>2
<1>4. Only(seq, keep) = fold[1..n]
  BY <1>1 DEF Only, FoldLeft, MapThenFoldSet
<1> HIDE DEF Op
<1>5. \E it : it = R(it)
  <2>1. PICK it : FoldValues(it, A, st, base, n, seq)
    <3> HIDE DEF st, n, A, base
    <3> QED BY <1>1, <1>3, FoldExists
  <2>2. ASSUME NEW s \in SUBSET (1..n), s # {}
        PROVE  it[s] = Op(it[s \ {Max(s)}], seq[Max(s)])
    <3>1. /\ Max(s) \in 1..n /\ it[s \ {Max(s)}] \in A
          /\ it[s] = st[<<it[s \ {Max(s)}], seq[Max(s)]>>]
      BY <2>1, <2>2 DEF FoldValues
    <3>2. <<it[s \ {Max(s)}], seq[Max(s)]>> \in A \X B
      BY <1>1, <3>1
    <3> HIDE DEF A, n
    <3> QED BY <3>1, <3>2
  <2>3. it = [s \in SUBSET (1..n) |-> it[s]]
    BY <2>1 DEF FoldValues
  <2>4. it = R(it)
    <3> HIDE DEF n, A, st
    <3> QED BY <2>1, <2>2, <2>3 DEF FoldValues
  <2> QED BY <2>4
<1>6. fold = R(fold)
  <2> HIDE DEF R
  <2> QED BY <1>5
<1>7. /\ fold[{}] = base
      /\ \A s \in SUBSET (1..n) : s # {} => fold[s] = Op(fold[s \ {Max(s)}], seq[Max(s)])
  <2> HIDE DEF fold, n
  <2> QED BY <1>6
<1> HIDE DEF fold, st, R
<1>8. acc[0] = base
  BY <1>1, <1>7
<1>9. ASSUME NEW k \in 1..n PROVE acc[k] = Op(acc[k - 1], seq[k])
  <2> HIDE DEF n
  <2>0. /\ 1..k \in SUBSET (1..n) /\ 1..k # {} /\ Max(1..k) = k
        /\ (1..k) \ {k} = 1..(k - 1)
    BY <1>1, Prefixed
  <2>1. fold[1..k] = Op(fold[1..(k - 1)], seq[k])
    BY <2>0, <1>7
  <2> QED BY <1>1, <2>1, Prefixed
<1> HIDE DEF acc
<1>10. ASSUME NEW k \in 1..n, acc[k - 1] \in A PROVE acc[k] \in A
  <2>1. seq[k] \in B
    BY <1>1
  <2> HIDE DEF A
  <2>2. Op(acc[k - 1], seq[k]) \in A
    BY <1>2, <1>10, <2>1
  <2> QED BY <1>9, <2>2
<1>11. \A k \in 0..n : acc[k] \in A
  <2> HIDE DEF n, A
  <2>1. acc[0] \in A
    BY <1>3, <1>8
  <2> QED BY <1>1, <2>1, <1>10, Along
<1>12. acc \in [0..n -> A] /\ acc[n] = fold[1..n]
  BY <1>1, <1>11 DEF acc
<1> QED BY <1>4, <1>8, <1>9, <1>12 DEF Op, OnlyTrace

(* The size of a group, team by team. *)
SizeTrace(acc, seq) ==
  /\ acc \in [0..Len(seq) -> Nat] /\ acc[0] = 0
  /\ \A k \in 1..Len(seq) : acc[k] = acc[k - 1] + seq[k].size

(* The size of a group is counted team by team. *)
LEMMA SizeAlong ==
  ASSUME NEW B, SeedSet(B), NEW seq \in Seq(B)
  PROVE  \E acc : SizeTrace(acc, seq) /\ GroupSize(seq) = acc[Len(seq)]
<1> DEFINE n == Len(seq)
           A == Nat
           base == 0
           Op(a, x) == a + x.size
           st == [p \in A \X B |-> Op(p[1], p[2])]
           R(it) == [s \in SUBSET (1..n) |->
                       IF s = {} THEN base ELSE Op(it[s \ {Max(s)}], seq[Max(s)])]
           fold == CHOOSE it : it = R(it)
           acc == [k \in 0..n |-> fold[1..k]]
<1>1. n \in Nat /\ DOMAIN seq = 1..n /\ seq \in [1..n -> B]
  OBVIOUS
<1>2. \A a \in A, x \in B : Op(a, x) \in A
  BY DEF SeedSet
<1>3. st \in [A \X B -> A] /\ base \in A
  <2> HIDE DEF Op
  <2> QED BY <1>2
<1>4. GroupSize(seq) = fold[1..n]
  BY <1>1 DEF GroupSize, FoldLeft, MapThenFoldSet
<1> HIDE DEF Op
<1>5. \E it : it = R(it)
  <2>1. PICK it : FoldValues(it, A, st, base, n, seq)
    <3> HIDE DEF st, n, A, base
    <3> QED BY <1>1, <1>3, FoldExists
  <2>2. ASSUME NEW s \in SUBSET (1..n), s # {}
        PROVE  it[s] = Op(it[s \ {Max(s)}], seq[Max(s)])
    <3>1. /\ Max(s) \in 1..n /\ it[s \ {Max(s)}] \in A
          /\ it[s] = st[<<it[s \ {Max(s)}], seq[Max(s)]>>]
      BY <2>1, <2>2 DEF FoldValues
    <3>2. <<it[s \ {Max(s)}], seq[Max(s)]>> \in A \X B
      BY <1>1, <3>1
    <3> HIDE DEF A, n
    <3> QED BY <3>1, <3>2
  <2>3. it = [s \in SUBSET (1..n) |-> it[s]]
    BY <2>1 DEF FoldValues
  <2>4. it = R(it)
    <3> HIDE DEF n, A, st
    <3> QED BY <2>1, <2>2, <2>3 DEF FoldValues
  <2> QED BY <2>4
<1>6. fold = R(fold)
  <2> HIDE DEF R
  <2> QED BY <1>5
<1>7. /\ fold[{}] = base
      /\ \A s \in SUBSET (1..n) : s # {} => fold[s] = Op(fold[s \ {Max(s)}], seq[Max(s)])
  <2> HIDE DEF fold, n
  <2> QED BY <1>6
<1> HIDE DEF fold, st, R
<1>8. acc[0] = base
  BY <1>1, <1>7
<1>9. ASSUME NEW k \in 1..n PROVE acc[k] = Op(acc[k - 1], seq[k])
  <2> HIDE DEF n
  <2>0. /\ 1..k \in SUBSET (1..n) /\ 1..k # {} /\ Max(1..k) = k
        /\ (1..k) \ {k} = 1..(k - 1)
    BY <1>1, Prefixed
  <2>1. fold[1..k] = Op(fold[1..(k - 1)], seq[k])
    BY <2>0, <1>7
  <2> QED BY <1>1, <2>1, Prefixed
<1> HIDE DEF acc
<1>10. ASSUME NEW k \in 1..n, acc[k - 1] \in A PROVE acc[k] \in A
  <2>1. seq[k] \in B
    BY <1>1
  <2> HIDE DEF A
  <2>2. Op(acc[k - 1], seq[k]) \in A
    BY <1>2, <1>10, <2>1
  <2> QED BY <1>9, <2>2
<1>11. \A k \in 0..n : acc[k] \in A
  <2> HIDE DEF n, A
  <2>1. acc[0] \in A
    BY <1>3, <1>8
  <2> QED BY <1>1, <2>1, <1>10, Along
<1>12. acc \in [0..n -> A] /\ acc[n] = fold[1..n]
  BY <1>1, <1>11 DEF acc
<1> QED BY <1>4, <1>8, <1>9, <1>12 DEF Op, SizeTrace

(* Two sequences of values that start alike and go on alike are the same. *)
GoAlike(n, f, g) == \A k \in 1..n : f[k - 1] = g[k - 1] => f[k] = g[k]

(* So they are. *)
LEMMA SameAlong ==
  ASSUME NEW n \in Nat, NEW f, NEW g, f[0] = g[0], GoAlike(n, f, g)
  PROVE  \A k \in 0..n : f[k] = g[k]
<1> DEFINE h == [k \in 0..n |-> IF f[k] = g[k] THEN TRUE ELSE FALSE]
<1>1. h[0] \in {TRUE}
  OBVIOUS
<1>2. ASSUME NEW k \in 1..n, h[k - 1] \in {TRUE} PROVE h[k] \in {TRUE}
  <2>1. k - 1 \in 0..n /\ k \in 0..n
    OBVIOUS
  <2> QED BY <1>2, <2>1 DEF GoAlike
<1>3. \A k \in 0..n : h[k] \in {TRUE}
  <2> HIDE DEF h
  <2> QED BY <1>1, <1>2, Along
<1> QED BY <1>3

(* The size of a group is a number. *)
LEMMA SizeIsNat ==
  ASSUME NEW B, SeedSet(B), NEW g \in Seq(B)
  PROVE  GroupSize(g) \in Nat
<1>1. PICK acc : SizeTrace(acc, g) /\ GroupSize(g) = acc[Len(g)]
  BY SizeAlong
<1>2. Len(g) \in Nat
  OBVIOUS
<1> QED BY <1>1, <1>2 DEF SizeTrace

(* Two groups joined are as large as both. *)
LEMMA SizeOfJoined ==
  ASSUME NEW B, SeedSet(B), NEW g \in Seq(B), NEW h \in Seq(B)
  PROVE  GroupSize(g \o h) = GroupSize(g) + GroupSize(h)
<1> DEFINE n == Len(g)
           m == Len(h)
           gh == g \o h
<1>1. /\ gh \in Seq(B) /\ Len(gh) = n + m /\ n \in Nat /\ m \in Nat
      /\ \A k \in 1..n : gh[k] = g[k]
      /\ \A k \in 1..m : gh[n + k] = h[k]
      /\ \A k \in 1..n : g[k] \in B
      /\ \A k \in 1..m : h[k] \in B
  OBVIOUS
<1>2. PICK a : SizeTrace(a, g) /\ GroupSize(g) = a[n]
  BY SizeAlong
<1>3. PICK b : SizeTrace(b, h) /\ GroupSize(h) = b[m]
  BY SizeAlong
<1>4. PICK c : SizeTrace(c, gh) /\ GroupSize(gh) = c[Len(gh)]
  <2> HIDE DEF gh
  <2> QED BY <1>1, SizeAlong
<1> HIDE DEF gh
<1>5. /\ a[0] = 0 /\ a \in [0..n -> Nat]
      /\ \A k \in 1..n : a[k] = a[k - 1] + g[k].size
  BY <1>2 DEF SizeTrace
<1>6. /\ b[0] = 0 /\ b \in [0..m -> Nat]
      /\ \A k \in 1..m : b[k] = b[k - 1] + h[k].size
  BY <1>3 DEF SizeTrace
<1>7. /\ c[0] = 0 /\ c \in [0..(n + m) -> Nat]
      /\ \A k \in 1..(n + m) : c[k] = c[k - 1] + gh[k].size
  <2> HIDE DEF n, m
  <2> QED BY <1>1, <1>4 DEF SizeTrace
<1> HIDE DEF n, m
<1>8. c[n] = a[n]
  <2>1. ASSUME NEW k \in 1..n, c[k - 1] = a[k - 1] PROVE c[k] = a[k]
    <3>1. k \in 1..(n + m)
      BY <1>1
    <3>2. gh[k] = g[k]
      BY <1>1
    <3>3. c[k] = c[k - 1] + gh[k].size
      BY <1>7, <3>1
    <3>4. a[k] = a[k - 1] + g[k].size
      BY <1>5
    <3> QED BY <2>1, <3>2, <3>3, <3>4
  <2>2. \A k \in 0..n : c[k] = a[k]
    <3>1. c[0] = a[0] /\ n \in Nat
      BY <1>1, <1>5, <1>7
    <3>2. GoAlike(n, c, a)
      BY <2>1 DEF GoAlike
    <3> QED BY <3>1, <3>2, SameAlong
  <2> QED BY <1>1, <2>2
<1>9. c[n + m] = a[n] + b[m]
  <2> DEFINE f == [k \in 0..m |-> c[n + k]]
             e == [k \in 0..m |-> a[n] + b[k]]
  <2>1. f[0] = e[0]
    BY <1>1, <1>5, <1>6, <1>8
  <2>2. ASSUME NEW k \in 1..m, f[k - 1] = e[k - 1] PROVE f[k] = e[k]
    <3>1. k - 1 \in 0..m /\ k \in 0..m /\ n + k \in 1..(n + m) /\ (n + k) - 1 = n + (k - 1)
      BY <1>1
    <3>2. c[n + (k - 1)] = a[n] + b[k - 1]
      BY <2>2, <3>1
    <3>3. c[n + k] = c[n + (k - 1)] + gh[n + k].size
      BY <1>7, <3>1
    <3>4. gh[n + k] = h[k] /\ h[k] \in B
      BY <1>1
    <3>5. h[k].size \in Nat
      BY <3>4 DEF SeedSet
    <3>6. a[n] \in Nat /\ b[k - 1] \in Nat
      BY <1>1, <1>5, <1>6, <3>1
    <3>7. b[k] = b[k - 1] + h[k].size
      BY <1>6
    <3>8. c[n + k] = a[n] + b[k]
      BY <3>2, <3>3, <3>4, <3>5, <3>6, <3>7
    <3> QED BY <3>1, <3>8
  <2>3. \A k \in 0..m : f[k] = e[k]
    <3>1. m \in Nat
      BY <1>1
    <3> HIDE DEF f, e
    <3>2. GoAlike(m, f, e)
      BY <2>2 DEF GoAlike
    <3> QED BY <2>1, <3>1, <3>2, SameAlong
  <2> QED BY <1>1, <2>3
<1> QED BY <1>1, <1>2, <1>3, <1>4, <1>8, <1>9 DEF gh

(* A group of one team is as large as the team. *)
LEMMA SizeOfOne ==
  ASSUME NEW B, SeedSet(B), NEW x \in B
  PROVE  <<x>> \in Seq(B) /\ GroupSize(<<x>>) = x.size
<1>1. <<x>> \in Seq(B) /\ Len(<<x>>) = 1 /\ <<x>>[1] = x
  OBVIOUS
<1> DEFINE g == <<x>>
<1> HIDE DEF g
<1>2. g \in Seq(B) /\ Len(g) = 1 /\ g[1] = x
  BY <1>1 DEF g
<1>3. PICK a : SizeTrace(a, g) /\ GroupSize(g) = a[Len(g)]
  BY <1>2, SizeAlong
<1>4. a[0] = 0 /\ a[1] = a[1 - 1] + g[1].size
  BY <1>2, <1>3 DEF SizeTrace
<1>5. x.size \in Nat
  BY DEF SeedSet
<1>6. a[1] = x.size
  BY <1>2, <1>3, <1>4, <1>5
<1> QED BY <1>2, <1>3, <1>6 DEF g

(* A group that takes in a team grows by its size. *)
LEMMA SizeOfAppended ==
  ASSUME NEW B, SeedSet(B), NEW g \in Seq(B), NEW x \in B
  PROVE  /\ Append(g, x) \in Seq(B)
         /\ GroupSize(Append(g, x)) = GroupSize(g) + x.size
<1>1. Append(g, x) = g \o <<x>> /\ Append(g, x) \in Seq(B)
  OBVIOUS
<1> QED BY <1>1, SizeOfOne, SizeOfJoined

(* Groups of teams. *)
Groups(B) == Seq(Seq(B))

(* Sequences joined to one, one after the other. *)
JoinTrace(acc, B, gs) ==
  /\ acc \in [0..Len(gs) -> Seq(B)] /\ acc[0] = <<>>
  /\ \A k \in 1..Len(gs) : acc[k] = acc[k - 1] \o gs[k]

(* FlattenSeq joins them one by one. *)
LEMMA JoinAlong ==
  ASSUME NEW B, NEW gs \in Groups(B)
  PROVE  \E acc : JoinTrace(acc, B, gs) /\ FlattenSeq(gs) = acc[Len(gs)]
<1> DEFINE n == Len(gs)
           A == Seq(B)
           base == <<>>
           st == [p \in A \X A |-> p[1] \o p[2]]
           R(f) == [i \in 1..n |-> IF i = 1 THEN gs[i] ELSE f[i - 1] \o gs[i]]
           flatten == CHOOSE f : f = R(f)
           acc == [k \in 0..n |-> IF k = 0 THEN <<>> ELSE flatten[k]]
<1>1. n \in Nat /\ DOMAIN gs = 1..n /\ gs \in [1..n -> A]
  BY DEF Groups
<1>2. \A x \in A, y \in A : x \o y \in A
  OBVIOUS
<1>3. st \in [A \X A -> A] /\ base \in A
  BY <1>2
<1>4. \A x \in A : base \o x = x
  OBVIOUS
<1>5. FlattenSeq(gs) = acc[n]
  <2>1. CASE n = 0
    <3>1. gs = <<>>
      BY <2>1
    <3>2. acc[n] = <<>>
      BY <2>1
    <3> QED BY <2>1, <3>1, <3>2 DEF FlattenSeq
  <2>2. CASE n # 0
    <3>1. FlattenSeq(gs) = flatten[n]
      BY <2>2 DEF FlattenSeq
    <3> HIDE DEF flatten
    <3> QED BY <1>1, <2>2, <3>1
  <2> QED BY <2>1, <2>2
<1>6. \E f : f = R(f)
  <2>1. PICK it : FoldValues(it, A, st, base, n, gs)
    <3> HIDE DEF st, n, A, base
    <3> QED BY <1>1, <1>3, FoldExists
  <2> DEFINE f == [i \in 1..n |-> it[1..i]]
  <2>2. ASSUME NEW i \in 1..n PROVE f[i] = IF i = 1 THEN gs[i] ELSE f[i - 1] \o gs[i]
    <3>0. /\ 1..i \in SUBSET (1..n) /\ 1..i # {} /\ Max(1..i) = i
          /\ (1..i) \ {i} = 1..(i - 1)
      BY <1>1, Prefixed
    <3>1. /\ it[(1..i) \ {i}] \in A /\ it[1..i] = st[<<it[(1..i) \ {i}], gs[i]>>]
      BY <2>1, <3>0 DEF FoldValues
    <3>2. it[1..(i - 1)] \in A /\ it[1..i] = st[<<it[1..(i - 1)], gs[i]>>] /\ gs[i] \in A
      BY <1>1, <3>0, <3>1
    <3>3. it[1..i] = it[1..(i - 1)] \o gs[i]
      <4> HIDE DEF A, n
      <4> QED BY <3>2
    <3>4. CASE i = 1
      <4>1. 1..(i - 1) = {} /\ it[{}] = base
        BY <2>1, <3>4 DEF FoldValues
      <4>2. it[1..i] = base \o gs[i]
        BY <3>3, <4>1
      <4> HIDE DEF A
      <4> QED BY <1>4, <3>2, <3>4, <4>2
    <3>5. CASE i # 1
      <4>1. i - 1 \in 1..n
        BY <1>1, <3>5
      <4> QED BY <3>3, <3>5, <4>1
    <3> QED BY <3>4, <3>5
  <2>3. f = [i \in 1..n |-> f[i]]
    OBVIOUS
  <2>4. f = R(f)
    <3> HIDE DEF n, A, st, f
    <3> QED BY <2>2, <2>3
  <2> QED BY <2>4
<1>7. flatten = R(flatten)
  <2> HIDE DEF R
  <2> QED BY <1>6
<1>8. \A i \in 1..n : flatten[i] = IF i = 1 THEN gs[i] ELSE flatten[i - 1] \o gs[i]
  <2> HIDE DEF flatten, n
  <2> QED BY <1>7
<1> HIDE DEF flatten, R, st
<1>9. ASSUME NEW k \in 1..n PROVE acc[k] = acc[k - 1] \o gs[k]
  <2>0. gs[k] \in A
    BY <1>1
  <2>1. CASE k = 1
    <3>1. acc[k] = gs[k] /\ acc[k - 1] = base
      BY <1>1, <1>8, <2>1
    <3> HIDE DEF acc, A
    <3> QED BY <1>4, <2>0, <3>1
  <2>2. CASE k # 1
    <3>1. k - 1 \in 1..n /\ k - 1 # 0 /\ k - 1 \in 0..n /\ k \in 0..n /\ k # 0
      BY <1>1, <2>2
    <3> HIDE DEF n
    <3> QED BY <1>8, <2>2, <3>1
  <2> QED BY <2>1, <2>2
<1>10. acc[0] = <<>>
  BY <1>1
<1> HIDE DEF acc
<1>11. ASSUME NEW k \in 1..n, acc[k - 1] \in A PROVE acc[k] \in A
  <2>1. gs[k] \in A
    BY <1>1
  <2> HIDE DEF A
  <2> QED BY <1>2, <1>9, <1>11, <2>1
<1>12. \A k \in 0..n : acc[k] \in A
  <2> HIDE DEF n, A
  <2>1. acc[0] \in A
    BY <1>3, <1>10
  <2> QED BY <1>1, <2>1, <1>11, Along
<1>13. acc \in [0..n -> A]
  BY <1>1, <1>12 DEF acc
<1> QED BY <1>5, <1>9, <1>10, <1>13 DEF JoinTrace

(* Joined sequences are a sequence of their elements. *)
LEMMA JoinIsSeq ==
  ASSUME NEW B, NEW gs \in Groups(B)
  PROVE  FlattenSeq(gs) \in Seq(B)
<1>1. PICK a : JoinTrace(a, B, gs) /\ FlattenSeq(gs) = a[Len(gs)]
  BY JoinAlong
<1>2. Len(gs) \in 0..Len(gs)
  OBVIOUS
<1> QED BY <1>1, <1>2 DEF JoinTrace

(* Two sequences joined, index by index. *)
LEMMA Joined ==
  ASSUME NEW B, NEW s \in Seq(B), NEW t \in Seq(B)
  PROVE  /\ s \o t \in Seq(B) /\ Len(s \o t) = Len(s) + Len(t)
         /\ Len(s) \in Nat /\ Len(t) \in Nat /\ Len(s \o t) \in Nat
         /\ DOMAIN (s \o t) = 1..Len(s \o t) /\ DOMAIN s = 1..Len(s) /\ DOMAIN t = 1..Len(t)
         /\ \A k \in 1..Len(s) : (s \o t)[k] = s[k]
         /\ \A k \in 1..Len(t) : (s \o t)[Len(s) + k] = t[k]
OBVIOUS

(* What is in two sequences joined is in one of them. *)
LEMMA SetOfJoined ==
  ASSUME NEW B, NEW s \in Seq(B), NEW t \in Seq(B)
  PROVE  s \o t \in Seq(B) /\ ToSet(s \o t) = ToSet(s) \cup ToSet(t)
<1> DEFINE st == s \o t
<1>1. /\ st \in Seq(B) /\ Len(st) = Len(s) + Len(t) /\ Len(s) \in Nat /\ Len(t) \in Nat
      /\ DOMAIN st = 1..Len(st) /\ DOMAIN s = 1..Len(s) /\ DOMAIN t = 1..Len(t)
      /\ \A k \in 1..Len(s) : st[k] = s[k]
      /\ \A k \in 1..Len(t) : st[Len(s) + k] = t[k]
  BY Joined
<1> HIDE DEF st
<1>2. ASSUME NEW x \in ToSet(st) PROVE x \in ToSet(s) \cup ToSet(t)
  <2>1. PICK k \in 1..(Len(s) + Len(t)) : x = st[k]
    BY <1>1 DEF ToSet
  <2>2. CASE k <= Len(s)
    BY <1>1, <2>1, <2>2, SMTT(30) DEF ToSet
  <2>3. CASE k > Len(s)
    <3>1. k - Len(s) \in 1..Len(t) /\ Len(s) + (k - Len(s)) = k
      BY <1>1, <2>3
    <3>2. x = t[k - Len(s)]
      BY <1>1, <2>1, <3>1
    <3> QED BY <1>1, <3>1, <3>2 DEF ToSet
  <2> QED BY <1>1, <2>2, <2>3
<1>3. ASSUME NEW x \in ToSet(s) PROVE x \in ToSet(st)
  BY <1>1 DEF ToSet
<1>4. ASSUME NEW x \in ToSet(t) PROVE x \in ToSet(st)
  <2>1. PICK k \in 1..Len(t) : x = t[k]
    BY <1>1 DEF ToSet
  <2>2. Len(s) + k \in 1..Len(st) /\ x = st[Len(s) + k]
    BY <1>1, <2>1
  <2> QED BY <1>1, <2>2 DEF ToSet
<1> QED BY <1>1, <1>2, <1>3, <1>4 DEF st

(* What a trace of joined sequences is, value by value. *)
JoinStep(a, B, gs, k) ==
  /\ a[k - 1] \in Seq(B) /\ a[k] \in Seq(B) /\ gs[k] \in Seq(B)
  /\ a[k] = a[k - 1] \o gs[k]
  /\ Len(a[k - 1]) \in Nat /\ Len(gs[k]) \in Nat
  /\ Len(a[k]) = Len(a[k - 1]) + Len(gs[k])
  /\ \A p \in 1..Len(a[k - 1]) : a[k][p] = a[k - 1][p]
  /\ \A j \in 1..Len(gs[k]) : a[k][Len(a[k - 1]) + j] = gs[k][j]

(* Every step of a trace is one. *)
LEMMA JoinParts ==
  ASSUME NEW B, NEW gs \in Groups(B), NEW a, JoinTrace(a, B, gs)
  PROVE  \A k \in 1..Len(gs) : JoinStep(a, B, gs, k)
<1> SUFFICES ASSUME NEW k \in 1..Len(gs) PROVE JoinStep(a, B, gs, k)
  OBVIOUS
<1>1. gs[k] \in Seq(B) /\ k - 1 \in 0..Len(gs) /\ k \in 0..Len(gs)
  BY DEF Groups
<1>2. a[k - 1] \in Seq(B) /\ a[k] \in Seq(B) /\ a[k] = a[k - 1] \o gs[k]
  BY <1>1 DEF JoinTrace
<1> DEFINE s == a[k - 1]
           t == gs[k]
<1>3. s \in Seq(B) /\ t \in Seq(B) /\ a[k] = s \o t
  BY <1>1, <1>2
<1> HIDE DEF s, t
<1>4. /\ Len(a[k]) = Len(s) + Len(t) /\ Len(s) \in Nat /\ Len(t) \in Nat
      /\ \A p \in 1..Len(s) : a[k][p] = s[p]
      /\ \A j \in 1..Len(t) : a[k][Len(s) + j] = t[j]
  BY <1>3, Joined
<1> QED BY <1>1, <1>2, <1>4 DEF s, t, JoinStep

(* Nothing is in the empty sequence. *)
LEMMA EmptySet == \A s : s = <<>> => ToSet(s) = {} /\ Len(s) = 0
BY DEF ToSet

(* The elements of joined sequences are those of each. *)
LEMMA JoinSet ==
  ASSUME NEW B, NEW gs \in Groups(B)
  PROVE  ToSet(FlattenSeq(gs)) = UNION {ToSet(gs[i]) : i \in 1..Len(gs)}
<1> DEFINE n == Len(gs)
<1>1. PICK a : JoinTrace(a, B, gs) /\ FlattenSeq(gs) = a[n]
  BY JoinAlong
<1> DEFINE f == [k \in 0..n |-> ToSet(a[k])]
           e == [k \in 0..n |-> UNION {ToSet(gs[i]) : i \in 1..k}]
<1>2. f[0] = e[0]
  <2>1. a[0] = <<>> /\ 1..0 = {} /\ 0 \in 0..n
    BY <1>1 DEF JoinTrace
  <2> QED BY <2>1, EmptySet
<1>3. ASSUME NEW k \in 1..n, f[k - 1] = e[k - 1] PROVE f[k] = e[k]
  <2>1. k - 1 \in 0..n /\ k \in 0..n /\ 1..k = (1..(k - 1)) \cup {k}
    OBVIOUS
  <2>2. a[k - 1] \in Seq(B) /\ gs[k] \in Seq(B) /\ a[k] = a[k - 1] \o gs[k]
    <3>1. JoinStep(a, B, gs, k)
      BY <1>1, JoinParts
    <3> QED BY <3>1 DEF JoinStep
  <2>3. ToSet(a[k]) = ToSet(a[k - 1]) \cup ToSet(gs[k])
    BY <2>2, SetOfJoined
  <2>4. ToSet(a[k - 1]) = UNION {ToSet(gs[i]) : i \in 1..(k - 1)}
    BY <1>3, <2>1
  <2>5. UNION {ToSet(gs[i]) : i \in 1..k}
          = (UNION {ToSet(gs[i]) : i \in 1..(k - 1)}) \cup ToSet(gs[k])
    BY <2>1
  <2>6. ToSet(a[k]) = UNION {ToSet(gs[i]) : i \in 1..k}
    BY <2>3, <2>4, <2>5
  <2> QED BY <2>1, <2>6
<1>4. n \in Nat
  OBVIOUS
<1>5. \A k \in 0..n : f[k] = e[k]
  <2> HIDE DEF f, e, n
  <2>1. GoAlike(n, f, e)
    BY <1>3 DEF GoAlike
  <2> QED BY <1>2, <1>4, <2>1, SameAlong
<1>6. n \in 0..n
  BY <1>4
<1> QED BY <1>1, <1>5, <1>6

(* The lengths of a trace of joined sequences. *)
JoinLengths(w, z, a, gs, n) ==
  /\ w \in [0..n -> Nat] /\ z \in [1..n -> Nat] /\ w[0] = 0
  /\ \A k \in 0..n : Len(a[k]) = w[k]
  /\ \A k \in 1..n : Len(gs[k]) = z[k] /\ w[k] = w[k - 1] + z[k]

(* They add up. *)
LEMMA LengthsOfJoined ==
  ASSUME NEW B, NEW gs \in Groups(B), NEW a, JoinTrace(a, B, gs)
  PROVE  \E w, z : JoinLengths(w, z, a, gs, Len(gs))
<1> DEFINE n == Len(gs)
           w == [k \in 0..n |-> Len(a[k])]
           z == [k \in 1..n |-> Len(gs[k])]
<1>1. \A k \in 1..n : JoinStep(a, B, gs, k)
  BY JoinParts
<1>2. \A k \in 0..n : a[k] \in Seq(B)
  BY DEF JoinTrace
<1>3. a[0] = <<>> /\ Len(a[0]) = 0
  BY EmptySet DEF JoinTrace
<1>4. w \in [0..n -> Nat] /\ z \in [1..n -> Nat]
  <2>1. \A k \in 0..n : Len(a[k]) \in Nat
    BY <1>2
  <2>2. \A k \in 1..n : Len(gs[k]) \in Nat
    BY <1>1 DEF JoinStep
  <2> HIDE DEF n
  <2> QED BY <2>1, <2>2
<1>5. n \in Nat
  OBVIOUS
<1> HIDE DEF n
<1>6. w[0] = 0
  BY <1>3, <1>5
<1>7. ASSUME NEW k \in 1..n PROVE w[k] = w[k - 1] + z[k]
  <2>1. Len(a[k]) = Len(a[k - 1]) + Len(gs[k])
    BY <1>1 DEF JoinStep
  <2>2. k \in 0..n /\ k - 1 \in 0..n
    BY <1>5
  <2> QED BY <2>1, <2>2
<1>8. (\A k \in 0..n : Len(a[k]) = w[k]) /\ (\A k \in 1..n : Len(gs[k]) = z[k])
  OBVIOUS
<1> HIDE DEF w, z
<1>9. JoinLengths(w, z, a, gs, n)
  BY <1>4, <1>6, <1>7, <1>8 DEF JoinLengths
<1> QED BY <1>9 DEF n

(* A sequence more, joined at the end. *)
LEMMA JoinAppended ==
  ASSUME NEW B, NEW gs \in Groups(B), NEW g \in Seq(B)
  PROVE  /\ Append(gs, g) \in Groups(B)
         /\ FlattenSeq(Append(gs, g)) = FlattenSeq(gs) \o g
<1> DEFINE n == Len(gs)
           hs == Append(gs, g)
<1>1. /\ hs \in Groups(B) /\ Len(hs) = n + 1 /\ n \in Nat /\ hs[n + 1] = g
      /\ \A k \in 1..n : hs[k] = gs[k]
  BY DEF Groups
<1>2. PICK a : JoinTrace(a, B, gs) /\ FlattenSeq(gs) = a[n]
  BY JoinAlong
<1> HIDE DEF hs
<1>3. PICK b : JoinTrace(b, B, hs) /\ FlattenSeq(hs) = b[Len(hs)]
  BY <1>1, JoinAlong
<1>4. /\ a[0] = b[0] /\ (\A k \in 1..n : a[k] = a[k - 1] \o gs[k])
      /\ \A k \in 1..(n + 1) : b[k] = b[k - 1] \o hs[k]
  <2> HIDE DEF n
  <2>1. a[0] = b[0] /\ \A k \in 1..(n + 1) : b[k] = b[k - 1] \o hs[k]
    BY <1>1, <1>2, <1>3 DEF JoinTrace
  <2> QED BY <1>2, <2>1 DEF JoinTrace, n
<1> HIDE DEF n
<1>5. \A k \in 0..n : a[k] = b[k]
  <2>1. GoAlike(n, a, b)
    <3> SUFFICES ASSUME NEW k \in 1..n, a[k - 1] = b[k - 1] PROVE a[k] = b[k]
      BY DEF GoAlike
    <3>1. k \in 1..(n + 1) /\ hs[k] = gs[k]
      BY <1>1
    <3> QED BY <1>4, <3>1
  <2> QED BY <1>1, <1>4, <2>1, SameAlong
<1>6. b[n + 1] = b[(n + 1) - 1] \o hs[n + 1] /\ (n + 1) - 1 = n /\ b[n] = a[n]
  <2>1. n + 1 \in 1..(n + 1) /\ n \in 0..n /\ (n + 1) - 1 = n
    BY <1>1
  <2>2. b[n + 1] = b[(n + 1) - 1] \o hs[n + 1]
    BY <1>4, <2>1
  <2> QED BY <1>5, <2>1, <2>2
<1>7. FlattenSeq(hs) = FlattenSeq(gs) \o g
  BY <1>1, <1>2, <1>3, <1>6
<1> QED BY <1>1, <1>7 DEF hs

(* One of the joined sequences is another: what changes is its share. *)
LEMMA JoinReplaced ==
  ASSUME NEW B, NEW gs \in Groups(B), NEW b \in 1..Len(gs), NEW g \in Seq(B)
  PROVE  /\ [gs EXCEPT ![b] = g] \in Groups(B)
         /\ Len(FlattenSeq([gs EXCEPT ![b] = g])) = (Len(FlattenSeq(gs)) - Len(gs[b])) + Len(g)
<1> DEFINE n == Len(gs)
           hs == [gs EXCEPT ![b] = g]
<1>1. /\ hs \in Groups(B) /\ Len(hs) = n /\ n \in Nat /\ hs[b] = g /\ b \in 1..n
      /\ \A k \in 1..n : k # b => hs[k] = gs[k]
      /\ gs[b] \in Seq(B) /\ Len(gs[b]) \in Nat /\ Len(g) \in Nat
  BY DEF Groups
<1>2. PICK a : JoinTrace(a, B, gs) /\ FlattenSeq(gs) = a[n]
  BY JoinAlong
<1> HIDE DEF hs
<1>3. PICK c : JoinTrace(c, B, hs) /\ FlattenSeq(hs) = c[Len(hs)]
  BY <1>1, JoinAlong
<1>4. PICK w, z : JoinLengths(w, z, a, gs, n)
  BY <1>2, LengthsOfJoined
<1>5. PICK v, y : JoinLengths(v, y, c, hs, n)
  <2>1. \E v, y : JoinLengths(v, y, c, hs, Len(hs))
    <3> HIDE DEF n
    <3> QED BY <1>1, <1>3, LengthsOfJoined
  <2> HIDE DEF n
  <2> QED BY <1>1, <2>1
<1>6. \A k \in 1..n : k # b => y[k] = z[k]
  BY <1>1, <1>4, <1>5 DEF JoinLengths
<1>7. y[b] = Len(g) /\ z[b] = Len(gs[b]) /\ n \in 0..n
  BY <1>1, <1>4, <1>5 DEF JoinLengths
<1>8. /\ w \in [0..n -> Nat] /\ z \in [1..n -> Nat] /\ w[0] = 0
      /\ v \in [0..n -> Nat] /\ y \in [1..n -> Nat] /\ v[0] = 0
      /\ \A k \in 1..n : w[k] = w[k - 1] + z[k] /\ v[k] = v[k - 1] + y[k]
  BY <1>4, <1>5 DEF JoinLengths
<1> DEFINE e == [k \in 0..n |-> IF k < b THEN w[k] ELSE (w[k] - z[b]) + y[b]]
<1> HIDE DEF n
<1>9. v[0] = e[0]
  BY <1>1, <1>8
<1>10. ASSUME NEW k \in 1..n, v[k - 1] = e[k - 1] PROVE v[k] = e[k]
  <2>1. k - 1 \in 0..n /\ k \in 0..n /\ k \in Nat /\ b \in Nat /\ k >= 1
    BY <1>1
  <2>2. /\ w[k - 1] \in Nat /\ z[k] \in Nat /\ y[k] \in Nat /\ v[k - 1] \in Nat
        /\ z[b] \in Nat /\ y[b] \in Nat /\ w[k] \in Nat /\ v[k] \in Nat
    BY <1>1, <1>8, <2>1
  <2>3. w[k] = w[k - 1] + z[k] /\ v[k] = v[k - 1] + y[k]
    BY <1>8
  <2>4. v[k - 1] = IF k - 1 < b THEN w[k - 1] ELSE (w[k - 1] - z[b]) + y[b]
    BY <1>10, <2>1
  <2>5. v[k] = IF k < b THEN w[k] ELSE (w[k] - z[b]) + y[b]
    <3>1. CASE k = b
      BY <2>1, <2>2, <2>3, <2>4, <3>1
    <3>2. CASE k # b
      <4>1. y[k] = z[k] /\ (k < b <=> k - 1 < b)
        BY <1>6, <2>1, <3>2
      <4>2. CASE k < b
        BY <2>2, <2>3, <2>4, <4>1, <4>2
      <4>3. CASE ~ (k < b)
        <5>1. v[k - 1] = (w[k - 1] - z[b]) + y[b]
          BY <2>4, <4>1, <4>3
        <5>2. v[k] = ((w[k - 1] - z[b]) + y[b]) + z[k]
          BY <2>3, <4>1, <5>1
        <5>3. \A q, r, s, t \in Int : ((q - r) + s) + t = ((q + t) - r) + s
          OBVIOUS
        <5>4. v[k] = ((w[k - 1] + z[k]) - z[b]) + y[b]
          BY <2>2, <5>2, <5>3, SMTT(30)
        <5> QED BY <2>3, <4>3, <5>4
      <4> QED BY <4>2, <4>3
    <3> QED BY <3>1, <3>2
  <2> QED BY <2>1, <2>5
<1>11. \A k \in 0..n : v[k] = e[k]
  <2> HIDE DEF e
  <2>1. GoAlike(n, v, e)
    BY <1>10 DEF GoAlike
  <2> QED BY <1>1, <1>9, <2>1, SameAlong
<1>12. v[n] = (w[n] - z[b]) + y[b]
  BY <1>1, <1>7, <1>11
<1>13. Len(FlattenSeq(gs)) = w[n] /\ Len(FlattenSeq(hs)) = v[n]
  BY <1>1, <1>2, <1>3, <1>4, <1>5, <1>7 DEF JoinLengths
<1> QED BY <1>1, <1>7, <1>12, <1>13 DEF hs

(* A trace of joined sequences keeps what it has. *)
GrowsBy(w, z, a, n) ==
  /\ w \in [0..n -> Nat] /\ z \in [1..n -> Nat]
  /\ \A k \in 1..n : w[k] = w[k - 1] + z[k] /\ \A p \in 1..w[k - 1] : a[k][p] = a[k - 1][p]

LEMMA JoinGrows ==
  ASSUME NEW n \in Nat, NEW w, NEW z, NEW a, GrowsBy(w, z, a, n), NEW m \in 1..n
  PROVE  \A k \in 0..n : k >= m => w[k] >= w[m] /\ \A p \in 1..w[m] : a[k][p] = a[m][p]
<1> DEFINE Grown == {k \in Nat : k <= n /\ k >= m =>
                       w[k] >= w[m] /\ \A p \in 1..w[m] : a[k][p] = a[m][p]}
<1>0. m \in Nat /\ m >= 1 /\ m <= n /\ m \in 0..n /\ w[m] \in Nat
  BY DEF GrowsBy
<1>1. 0 \in Grown
  BY <1>0
<1>2. ASSUME NEW k \in Nat, k \in Grown PROVE k + 1 \in Grown
  <2> SUFFICES ASSUME k + 1 <= n, k + 1 >= m
               PROVE  w[k + 1] >= w[m] /\ \A p \in 1..w[m] : a[k + 1][p] = a[m][p]
    BY <1>0
  <2>1. CASE k + 1 = m
    BY <1>0, <2>1
  <2>2. CASE k + 1 # m
    <3>1. k >= m /\ k <= n /\ k + 1 \in 1..n /\ (k + 1) - 1 = k /\ k \in 0..n /\ k + 1 \in 0..n
      BY <1>0, <2>2
    <3>2. w[k] >= w[m] /\ \A p \in 1..w[m] : a[k][p] = a[m][p]
      BY <1>2, <3>1
    <3>3. w[k + 1] = w[k] + z[k + 1] /\ \A p \in 1..w[k] : a[k + 1][p] = a[k][p]
      BY <3>1 DEF GrowsBy
    <3>4. w[k] \in Nat /\ z[k + 1] \in Nat /\ w[k + 1] \in Nat
      BY <3>1 DEF GrowsBy
    <3> DEFINE q == w[k]
               r == w[m]
               s == z[k + 1]
    <3>5. q \in Nat /\ r \in Nat /\ s \in Nat /\ q >= r /\ w[k + 1] = q + s
      BY <1>0, <3>2, <3>3, <3>4
    <3> HIDE DEF q, r, s
    <3>6. w[k + 1] >= r /\ \A p \in 1..r : p \in 1..q
      BY <3>5
    <3> QED BY <3>2, <3>3, <3>6 DEF q, r
  <2> QED BY <2>1, <2>2
<1>3. Nat \subseteq Grown
  <2> HIDE DEF Grown
  <2> QED BY <1>1, <1>2, UpFromZero
<1> QED BY <1>0, <1>3

(* A place in a part is one in the whole. *)
LEMMA Offset ==
  \A x, y, v, s, q \in Nat : y = x + s /\ v >= y /\ q >= 1 /\ q <= s =>
    x + q \in 1..y /\ x + q \in 1..v /\ x + q <= y /\ x + q > x
OBVIOUS

(* Sized joined sequences with no element twice, no two share an element. *)
LEMMA JoinDistinct ==
  ASSUME NEW B, NEW gs \in Groups(B), IsInjective(FlattenSeq(gs)),
         NEW i \in 1..Len(gs), NEW h \in 1..Len(gs),
         NEW j \in 1..Len(gs[i]), NEW l \in 1..Len(gs[h]), gs[i][j] = gs[h][l]
  PROVE  i = h /\ j = l
<1> DEFINE n == Len(gs)
<1>1. PICK a : JoinTrace(a, B, gs) /\ FlattenSeq(gs) = a[n]
  BY JoinAlong
<1>2. \A k \in 1..n : JoinStep(a, B, gs, k)
  BY <1>1, JoinParts
<1>0. n \in Nat /\ a[n] \in Seq(B)
  <2>1. n \in Nat /\ n \in 0..n
    BY DEF Groups
  <2> QED BY <1>1, <2>1 DEF JoinTrace
<1>3. n \in Nat /\ n \in 0..n /\ i \in 1..n /\ h \in 1..n
  BY <1>0
<1>4. PICK w, z : JoinLengths(w, z, a, gs, n)
  BY <1>1, LengthsOfJoined
<1> HIDE DEF n
<1>5. /\ w \in [0..n -> Nat] /\ z \in [1..n -> Nat]
      /\ \A k \in 0..n : Len(a[k]) = w[k]
      /\ \A k \in 1..n : Len(gs[k]) = z[k] /\ w[k] = w[k - 1] + z[k]
  BY <1>4 DEF JoinLengths
<1>6. ASSUME NEW k \in 1..n
      PROVE  /\ \A p \in 1..w[k - 1] : a[k][p] = a[k - 1][p]
             /\ \A q \in 1..z[k] : a[k][w[k - 1] + q] = gs[k][q]
  <2>1. k - 1 \in 0..n /\ JoinStep(a, B, gs, k)
    BY <1>2, <1>3
  <2>2. Len(a[k - 1]) = w[k - 1] /\ Len(gs[k]) = z[k]
    BY <1>5, <2>1
  <2> QED BY <2>1, <2>2 DEF JoinStep
<1>7. ASSUME NEW m \in 1..n
      PROVE  \A k \in 0..n : k >= m => w[k] >= w[m] /\ \A p \in 1..w[m] : a[k][p] = a[m][p]
  <2>1. GrowsBy(w, z, a, n)
    BY <1>5, <1>6 DEF GrowsBy
  <2> QED BY <1>3, <2>1, JoinGrows
<1>8. ASSUME NEW m \in 1..n, NEW q \in 1..z[m]
      PROVE  /\ w[m - 1] + q \in 1..w[n] /\ a[n][w[m - 1] + q] = gs[m][q]
             /\ w[m - 1] + q <= w[m] /\ w[m - 1] + q > w[m - 1]
  <2>1. m - 1 \in 0..n /\ m \in 0..n /\ n >= m
    BY <1>3, SMTT(30)
  <2>2. /\ w[m] = w[m - 1] + z[m] /\ z[m] \in Nat /\ w[m - 1] \in Nat /\ w[m] \in Nat
        /\ w[n] \in Nat
    BY <1>3, <1>5, <2>1
  <2>3. w[n] >= w[m] /\ \A p \in 1..w[m] : a[n][p] = a[m][p]
    BY <1>3, <1>7, <2>1
  <2>4. a[m][w[m - 1] + q] = gs[m][q]
    BY <1>6
  <2>6. q \in Nat /\ q >= 1 /\ q <= z[m]
    BY <2>2
  <2> DEFINE x == w[m - 1]
             y == w[m]
             v == w[n]
  <2>7. x \in Nat /\ y \in Nat /\ v \in Nat /\ y = x + z[m] /\ v >= y
    BY <2>2, <2>3
  <2> HIDE DEF x, y, v
  <2>5. x + q \in 1..y /\ x + q \in 1..v /\ x + q <= y /\ x + q > x
    BY <2>2, <2>6, <2>7, Offset
  <2>8. a[n][x + q] = a[m][x + q]
    BY <2>3, <2>5 DEF y
  <2> QED BY <2>4, <2>5, <2>8 DEF x, y, v
<1>9. j \in 1..z[i] /\ l \in 1..z[h] /\ gs[i][j] = gs[h][l]
  BY <1>3, <1>5
<1>10. \A p \in 1..w[n], q \in 1..w[n] : a[n][p] = a[n][q] => p = q
  <2>1. DOMAIN a[n] = 1..Len(a[n])
    BY <1>0
  <2>2. DOMAIN a[n] = 1..w[n]
    BY <1>3, <1>5, <2>1
  <2> QED BY <1>1, <2>2 DEF IsInjective
<1>11. w[i - 1] + j = w[h - 1] + l
  <2>1. w[i - 1] + j \in 1..w[n] /\ a[n][w[i - 1] + j] = gs[i][j]
    BY <1>3, <1>8, <1>9
  <2>2. w[h - 1] + l \in 1..w[n] /\ a[n][w[h - 1] + l] = gs[h][l]
    BY <1>3, <1>8, <1>9
  <2> QED BY <1>9, <1>10, <2>1, <2>2
<1>12. ASSUME NEW m \in 1..n, NEW o \in 1..n, NEW q \in 1..z[m], NEW r \in 1..z[o], m < o
       PROVE  w[m - 1] + q # w[o - 1] + r
  <2>1. o - 1 \in 0..n /\ o - 1 >= m /\ m \in 0..n /\ m - 1 \in 0..n
    BY <1>3, <1>12, SMTT(30)
  <2>2. w[o - 1] >= w[m]
    BY <1>7, <2>1
  <2>3. w[m - 1] + q <= w[m] /\ w[o - 1] + r > w[o - 1]
    BY <1>8
  <2>4. w[m - 1] \in Nat /\ w[m] \in Nat /\ w[o - 1] \in Nat /\ z[m] \in Nat /\ z[o] \in Nat
    BY <1>5, <2>1
  <2>5. q \in Nat /\ r \in Nat
    BY <2>4
  <2> QED BY <2>2, <2>3, <2>4, <2>5, SMTT(30)
<1>13. i = h
  <2>1. ~ (i < h) /\ ~ (h < i)
    BY <1>3, <1>9, <1>11, <1>12
  <2> QED BY <1>3, <2>1
<1>14. w[i - 1] \in Nat /\ z[i] \in Nat /\ z[h] \in Nat
  BY <1>3, <1>5
<1>15. j \in Nat /\ l \in Nat
  BY <1>9, <1>14
<1> QED BY <1>11, <1>13, <1>14, <1>15

(* Empty sequences join to an empty one. *)
LEMMA JoinEmpty ==
  ASSUME NEW B, NEW gs \in Groups(B), \A k \in 1..Len(gs) : gs[k] = <<>>
  PROVE  Len(FlattenSeq(gs)) = 0
<1> DEFINE n == Len(gs)
<1>1. PICK a : JoinTrace(a, B, gs) /\ FlattenSeq(gs) = a[n]
  BY JoinAlong
<1>2. PICK w, z : JoinLengths(w, z, a, gs, n)
  BY <1>1, LengthsOfJoined
<1>3. n \in Nat
  BY DEF Groups
<1>4. \A k \in 1..n : Len(gs[k]) = 0
  BY EmptySet
<1> HIDE DEF n
<1>5. w[0] \in {0}
  BY <1>2 DEF JoinLengths
<1>6. ASSUME NEW k \in 1..n, w[k - 1] \in {0} PROVE w[k] \in {0}
  <2>1. w[k] = w[k - 1] + z[k] /\ z[k] = 0
    BY <1>2, <1>4 DEF JoinLengths
  <2> QED BY <1>6, <2>1
<1>7. \A k \in 0..n : w[k] \in {0}
  BY <1>3, <1>5, <1>6, Along
<1>8. n \in 0..n
  BY <1>3
<1>9. Len(a[n]) = w[n]
  BY <1>2, <1>8 DEF JoinLengths
<1> QED BY <1>1, <1>7, <1>8, <1>9

(* A sequence with one element more. *)
LEMMA Appended ==
  ASSUME NEW B, NEW s \in Seq(B), NEW x \in B
  PROVE  /\ Append(s, x) \in Seq(B) /\ Len(Append(s, x)) = Len(s) + 1
         /\ ToSet(Append(s, x)) = ToSet(s) \cup {x}
<1>1. /\ Append(s, x) \in Seq(B) /\ Len(Append(s, x)) = Len(s) + 1 /\ Len(s) \in Nat
      /\ DOMAIN Append(s, x) = 1..(Len(s) + 1) /\ DOMAIN s = 1..Len(s)
      /\ Append(s, x)[Len(s) + 1] = x
      /\ \A k \in 1..Len(s) : Append(s, x)[k] = s[k]
  OBVIOUS
<1> DEFINE t == Append(s, x)
<1> HIDE DEF t
<1>2. t \in Seq(B) /\ DOMAIN t = 1..(Len(s) + 1) /\ t[Len(s) + 1] = x
      /\ \A k \in 1..Len(s) : t[k] = s[k]
  BY <1>1 DEF t
<1>3. 1..(Len(s) + 1) = (1..Len(s)) \cup {Len(s) + 1}
  BY <1>1
<1>4. ToSet(t) = ToSet(s) \cup {x}
  BY <1>1, <1>2, <1>3 DEF ToSet
<1> QED BY <1>1, <1>4 DEF t

(* What is kept of a sequence is what is in the set. *)
LEMMA OnlySet ==
  ASSUME NEW B, NEW seq \in Seq(B), NEW keep
  PROVE  Only(seq, keep) \in Seq(B) /\ ToSet(Only(seq, keep)) = ToSet(seq) \cap keep
<1> DEFINE n == Len(seq)
<1>1. PICK a : OnlyTrace(a, B, seq, keep) /\ Only(seq, keep) = a[n]
  BY OnlyAlong
<1>2. n \in Nat /\ DOMAIN seq = 1..n /\ (\A k \in 1..n : seq[k] \in B)
  OBVIOUS
<1>3. /\ a \in [0..n -> Seq(B)] /\ a[0] = <<>>
      /\ \A k \in 1..n : a[k] = IF seq[k] \in keep THEN Append(a[k - 1], seq[k]) ELSE a[k - 1]
  BY <1>1 DEF OnlyTrace
<1> HIDE DEF n
<1> DEFINE f == [k \in 0..n |-> ToSet(a[k])]
           e == [k \in 0..n |-> {seq[i] : i \in 1..k} \cap keep]
<1>4. f[0] = e[0]
  BY <1>2, <1>3, EmptySet
<1>5. ASSUME NEW k \in 1..n, f[k - 1] = e[k - 1] PROVE f[k] = e[k]
  <2>1. k - 1 \in 0..n /\ k \in 0..n /\ 1..k = (1..(k - 1)) \cup {k}
    BY <1>2
  <2>2. a[k - 1] \in Seq(B) /\ seq[k] \in B
    BY <1>2, <1>3, <2>1
  <2>3. ToSet(Append(a[k - 1], seq[k])) = ToSet(a[k - 1]) \cup {seq[k]}
    BY <2>2, Appended
  <2>4. ToSet(a[k]) = ToSet(a[k - 1]) \cup ({seq[k]} \cap keep)
    BY <1>3, <2>3
  <2>5. ToSet(a[k - 1]) = {seq[i] : i \in 1..(k - 1)} \cap keep
    BY <1>5, <2>1
  <2>6. {seq[i] : i \in 1..k} = {seq[i] : i \in 1..(k - 1)} \cup {seq[k]}
    BY <2>1
  <2>7. ToSet(a[k]) = {seq[i] : i \in 1..k} \cap keep
    BY <2>4, <2>5, <2>6
  <2> QED BY <2>1, <2>7
<1>6. \A k \in 0..n : f[k] = e[k]
  <2> HIDE DEF f, e
  <2>1. GoAlike(n, f, e)
    BY <1>5 DEF GoAlike
  <2> QED BY <1>2, <1>4, <2>1, SameAlong
<1>7. n \in 0..n /\ ToSet(seq) = {seq[i] : i \in 1..n}
  BY <1>2 DEF ToSet
<1>8. ToSet(a[n]) = ToSet(seq) \cap keep /\ a[n] \in Seq(B)
  BY <1>3, <1>6, <1>7
<1> QED BY <1>1, <1>8

(* Teams to be merged are below the minimum, and not empty. *)
BelowMinimum(teams, low) == \A i \in 1..Len(teams) : teams[i].size \in 0..(low - 1)

(* The sort loses no team and adds none. *)
LEMMA Sorted ==
  ASSUME NEW B, SeedSet(B), NEW teams \in Seq(B), NEW low \in Nat, BelowMinimum(teams, low)
  PROVE  /\ LargestFirst(teams, low) \in Seq(B)
         /\ Len(LargestFirst(teams, low)) = Len(teams)
         /\ ToSet(LargestFirst(teams, low)) = ToSet(teams)
<1> DEFINE n == Len(teams)
           Sized(k) == {x \in ToSet(teams) : x.size = low - k}
           gs == [k \in 1..low |-> Only(teams, Sized(k))]
<1>1. n \in Nat /\ DOMAIN teams = 1..n /\ (\A i \in 1..n : teams[i] \in B /\ teams[i] \in ToSet(teams))
  BY DEF ToSet
<1>2. \A k \in 1..low : Only(teams, Sized(k)) \in Seq(B) /\ ToSet(Only(teams, Sized(k))) = Sized(k)
  <2> TAKE k \in 1..low
  <2>1. Sized(k) = ToSet(teams) \cap Sized(k)
    OBVIOUS
  <2> HIDE DEF Sized
  <2> QED BY <2>1, OnlySet
<1>3. gs \in Groups(B) /\ Len(gs) = low
  <2> HIDE DEF Sized
  <2>1. gs \in [1..low -> Seq(B)]
    BY <1>2
  <2>2. gs \in Seq(Seq(B)) /\ Len(gs) = low
    <3> HIDE DEF gs
    <3> DEFINE A == Seq(B)
    <3>1. gs \in [1..low -> A]
      BY <2>1
    <3> HIDE DEF A
    <3>2. gs \in Seq(A) /\ Len(gs) = low
      BY <3>1
    <3> QED BY <3>2 DEF A
  <2> QED BY <2>2 DEF Groups
<1>4. LargestFirst(teams, low) = FlattenSeq(gs)
  BY DEF LargestFirst
<1>5. ToSet(FlattenSeq(gs)) = ToSet(teams)
  <2>1. ToSet(FlattenSeq(gs)) = UNION {ToSet(gs[i]) : i \in 1..low}
    <3> HIDE DEF gs
    <3> QED BY <1>3, JoinSet
  <2>2. \A i \in 1..low : ToSet(gs[i]) = Sized(i)
    BY <1>2
  <2>3. ASSUME NEW x \in ToSet(teams) PROVE \E i \in 1..low : x \in Sized(i)
    <3>1. PICK j \in 1..n : x = teams[j]
      BY <1>1 DEF ToSet
    <3>2. x.size \in 0..(low - 1)
      BY <3>1 DEF BelowMinimum
    <3>3. low - x.size \in 1..low /\ x.size = low - (low - x.size)
      BY <3>2
    <3> QED BY <3>3
  <2>4. \A i \in 1..low : ToSet(gs[i]) \subseteq ToSet(teams)
    <3> HIDE DEF gs
    <3> QED BY <2>2
  <2>5. ASSUME NEW x \in ToSet(teams) PROVE \E i \in 1..low : x \in ToSet(gs[i])
    <3> HIDE DEF gs
    <3>1. PICK i \in 1..low : x \in Sized(i)
      BY <2>3
    <3>2. x \in ToSet(gs[i])
      BY <2>2, <3>1
    <3> QED BY <3>2
  <2> HIDE DEF gs
  <2> QED BY <2>1, <2>4, <2>5
<1> DEFINE tr == [k \in 1..low |-> CHOOSE a : OnlyTrace(a, B, teams, Sized(k))
                                       /\ Only(teams, Sized(k)) = a[n]]
           at(m) == [k \in 1..low |-> tr[k][m]]
<1>6. ASSUME NEW k \in 1..low
      PROVE  /\ tr[k] \in [0..n -> Seq(B)] /\ tr[k][0] = <<>> /\ tr[k][n] = gs[k]
             /\ \A m \in 1..n : tr[k][m] = IF teams[m] \in Sized(k) THEN Append(tr[k][m - 1], teams[m])
                                           ELSE tr[k][m - 1]
  <2>1. \E a : OnlyTrace(a, B, teams, Sized(k)) /\ Only(teams, Sized(k)) = a[n]
    <3> HIDE DEF Sized
    <3> QED BY OnlyAlong
  <2>2. OnlyTrace(tr[k], B, teams, Sized(k)) /\ Only(teams, Sized(k)) = tr[k][n]
    <3> HIDE DEF Sized
    <3> QED BY <2>1
  <2>3. gs[k] = tr[k][n]
    BY <2>2
  <2> HIDE DEF Sized, tr, gs
  <2> QED BY <2>2, <2>3 DEF OnlyTrace
<1> HIDE DEF tr, gs, n
<1>7. ASSUME NEW m \in 0..n PROVE at(m) \in Groups(B) /\ Len(at(m)) = low
  <2>1. \A k \in 1..low : tr[k][m] \in Seq(B)
    BY <1>6
  <2> DEFINE A == Seq(B)
             hs == at(m)
  <2>2. hs \in [1..low -> A]
    BY <2>1
  <2> HIDE DEF A, hs
  <2>3. hs \in Seq(A) /\ Len(hs) = low
    BY <2>2
  <2> QED BY <2>3 DEF A, hs, Groups
<1>8. ASSUME NEW m \in 1..n
      PROVE  Len(FlattenSeq(at(m))) = Len(FlattenSeq(at(m - 1))) + 1
  <2> DEFINE b == low - teams[m].size
             x == teams[m]
             old == at(m - 1)
             g == Append(old[b], x)
  <2>1. x \in B /\ x \in ToSet(teams) /\ x.size \in 0..(low - 1) /\ m \in 0..n /\ m - 1 \in 0..n
    BY <1>1 DEF BelowMinimum, n
  <2>2. b \in 1..low /\ \A k \in 1..low : x \in Sized(k) <=> k = b
    BY <2>1, SMTT(30)
  <2> HIDE DEF b, x, Sized
  <2>3. old[b] = tr[b][m - 1] /\ old[b] \in Seq(B)
    BY <1>6, <2>1, <2>2
  <2>4. g \in Seq(B) /\ Len(g) = Len(old[b]) + 1 /\ Len(old[b]) \in Nat
    <3> HIDE DEF old
    <3>1. Len(old[b]) \in Nat
      BY <2>3
    <3> QED BY <2>1, <2>3, <3>1, Appended
  <2>5. at(m) = [old EXCEPT ![b] = g]
    <3>1. ASSUME NEW k \in 1..low PROVE tr[k][m] = IF k = b THEN g ELSE tr[k][m - 1]
      <4>1. tr[k][m] = IF x \in Sized(k) THEN Append(tr[k][m - 1], x) ELSE tr[k][m - 1]
        BY <1>6 DEF x
      <4> QED BY <2>2, <2>3, <4>1
    <3>2. DOMAIN old = 1..low /\ \A k \in 1..low : old[k] = tr[k][m - 1]
      OBVIOUS
    <3> HIDE DEF g
    <3> QED BY <2>2, <3>1, <3>2
  <2>6. old \in Groups(B) /\ Len(old) = low
    BY <1>7, <2>1
  <2> HIDE DEF old, g, at
  <2>7. Len(FlattenSeq(at(m))) = (Len(FlattenSeq(old)) - Len(old[b])) + Len(g)
    <3>1. b \in 1..Len(old) /\ g \in Seq(B)
      BY <2>2, <2>4, <2>6
    <3>2. Len(FlattenSeq([old EXCEPT ![b] = g])) = (Len(FlattenSeq(old)) - Len(old[b])) + Len(g)
      BY <2>6, <3>1, JoinReplaced
    <3> QED BY <2>5, <3>2
  <2>8. Len(FlattenSeq(old)) \in Nat
    <3>1. FlattenSeq(old) \in Seq(B)
      BY <2>6, JoinIsSeq
    <3> QED BY <3>1
  <2>9. Len(FlattenSeq(at(m))) = Len(FlattenSeq(old)) + 1
    <3>1. \A p, q, r \in Nat : r = q + 1 => (p - q) + r = p + 1
      OBVIOUS
    <3>2. Len(g) \in Nat
      BY <2>4
    <3> QED BY <2>4, <2>7, <2>8, <3>1, <3>2
  <2> QED BY <2>9 DEF old
<1>9. Len(FlattenSeq(at(0))) = 0
  <2>1. at(0) \in Groups(B) /\ Len(at(0)) = low
    BY <1>1, <1>7
  <2>2. \A k \in 1..low : at(0)[k] = <<>>
    BY <1>6
  <2> HIDE DEF at
  <2> QED BY <2>1, <2>2, JoinEmpty
<1>10. gs = at(n)
  <2>1. gs = [k \in 1..low |-> gs[k]]
    BY DEF gs
  <2> QED BY <1>6, <2>1
<1> DEFINE f == [m \in 0..n |-> Len(FlattenSeq(at(m)))]
           e == [m \in 0..n |-> m]
<1>11. ASSUME NEW m \in 1..n, f[m - 1] = e[m - 1] PROVE f[m] = e[m]
  <2>1. m \in 0..n /\ m - 1 \in 0..n
    BY <1>1
  <2> HIDE DEF at
  <2> QED BY <1>8, <1>11, <2>1
<1>12. f[0] = e[0]
  <2> HIDE DEF at
  <2> QED BY <1>1, <1>9
<1>13. \A m \in 0..n : f[m] = e[m]
  <2> HIDE DEF f, e
  <2>1. GoAlike(n, f, e)
    BY <1>11 DEF GoAlike
  <2> QED BY <1>1, <1>12, <2>1, SameAlong
<1>14. Len(FlattenSeq(gs)) = n
  <2> HIDE DEF at
  <2>1. n \in 0..n
    BY <1>1
  <2> QED BY <1>10, <1>13, <2>1
<1> QED BY <1>3, <1>4, <1>5, <1>14, JoinIsSeq DEF n

(* A set of numbers has a least one. *)
LEMMA Least ==
  ASSUME NEW s \in SUBSET Nat, s # {}
  PROVE  \E x \in s : \A y \in s : x <= y
<1>1. PICK x \in s : \A y \in s : ~ (<<y, x>> \in Below)
  BY BelowIsWellFounded, WFMin
<1>2. \A y \in s : ~ (y < x)
  BY <1>1 DEF Below
<1> QED BY <1>2

(* One of the joined sequences grows by what is in another. *)
Gains(hs, gs, B, t) ==
  /\ hs \in Groups(B) /\ Len(hs) = Len(gs)
  /\ Len(FlattenSeq(hs)) = Len(FlattenSeq(gs)) + Len(t)
  /\ ToSet(FlattenSeq(hs)) = ToSet(FlattenSeq(gs)) \cup ToSet(t)

(* Then the sequences joined grow by it. *)
LEMMA JoinGrown ==
  ASSUME NEW B, NEW gs \in Groups(B), NEW b \in 1..Len(gs), NEW g \in Seq(B), NEW t \in Seq(B),
         Len(g) = Len(gs[b]) + Len(t), ToSet(g) = ToSet(gs[b]) \cup ToSet(t)
  PROVE  Gains([gs EXCEPT ![b] = g], gs, B, t)
<1>0. Len(FlattenSeq([gs EXCEPT ![b] = g])) = (Len(FlattenSeq(gs)) - Len(gs[b])) + Len(g)
  BY JoinReplaced
<1> DEFINE n == Len(gs)
           hs == [gs EXCEPT ![b] = g]
<1>1. /\ hs \in Groups(B) /\ Len(hs) = n /\ n \in Nat /\ hs[b] = g /\ b \in 1..n
      /\ \A k \in 1..n : k # b => hs[k] = gs[k]
      /\ gs[b] \in Seq(B)
  BY DEF Groups
<1>2. Len(FlattenSeq(hs)) = (Len(FlattenSeq(gs)) - Len(gs[b])) + Len(g)
  BY <1>0
<1>3. FlattenSeq(gs) \in Seq(B)
  BY JoinIsSeq
<1> HIDE DEF hs, n
<1>4. Len(g) = Len(gs[b]) + Len(t) /\ Len(gs[b]) \in Nat /\ Len(t) \in Nat /\ Len(FlattenSeq(gs)) \in Nat
      /\ Len(g) \in Nat
  BY <1>1, <1>3
<1>5. Len(FlattenSeq(hs)) = Len(FlattenSeq(gs)) + Len(t)
  <2> DEFINE p == Len(FlattenSeq(gs))
             q == Len(gs[b])
             r == Len(t)
             s == Len(g)
  <2>1. p \in Nat /\ q \in Nat /\ r \in Nat /\ s = q + r
    BY <1>4
  <2>2. Len(FlattenSeq(hs)) = (p - q) + s
    BY <1>2
  <2> HIDE DEF p, q, r, s
  <2>3. (p - q) + s = p + r
    BY <2>1
  <2> QED BY <2>2, <2>3 DEF p, r
<1>7. /\ ToSet(FlattenSeq(hs)) = UNION {ToSet(hs[i]) : i \in 1..n}
      /\ ToSet(FlattenSeq(gs)) = UNION {ToSet(gs[i]) : i \in 1..n}
  <2>1. ToSet(FlattenSeq(hs)) = UNION {ToSet(hs[i]) : i \in 1..n}
    BY <1>1, JoinSet
  <2>2. ToSet(FlattenSeq(gs)) = UNION {ToSet(gs[i]) : i \in 1..n}
    BY JoinSet DEF n
  <2> QED BY <2>1, <2>2
<1>8. \A k \in 1..n : ToSet(hs[k]) = IF k = b THEN ToSet(gs[b]) \cup ToSet(t) ELSE ToSet(gs[k])
  BY <1>1
<1>9. ToSet(FlattenSeq(hs)) = ToSet(FlattenSeq(gs)) \cup ToSet(t)
  <2>1. ASSUME NEW x \in ToSet(FlattenSeq(hs)) PROVE x \in ToSet(FlattenSeq(gs)) \cup ToSet(t)
    <3>1. PICK k \in 1..n : x \in ToSet(hs[k])
      BY <1>7
    <3>2. x \in ToSet(gs[k]) \cup ToSet(t)
      BY <1>8, <3>1
    <3> QED BY <1>7, <3>2
  <2>2. ASSUME NEW x \in ToSet(FlattenSeq(gs)) PROVE x \in ToSet(FlattenSeq(hs))
    <3>1. PICK k \in 1..n : x \in ToSet(gs[k])
      BY <1>7
    <3>2. x \in ToSet(hs[k])
      BY <1>8, <3>1
    <3> QED BY <1>7, <3>2
  <2>3. ASSUME NEW x \in ToSet(t) PROVE x \in ToSet(FlattenSeq(hs))
    <3>1. x \in ToSet(hs[b])
      BY <1>1, <1>8
    <3> QED BY <1>1, <1>7, <3>1
  <2> QED BY <2>1, <2>2, <2>3
<1> QED BY <1>1, <1>5, <1>9 DEF hs, n, Gains

(* Groups being packed: none is empty or over the maximum. *)
Packed(gs, B, high) ==
  /\ gs \in Groups(B)
  /\ \A i \in 1..Len(gs) : gs[i] # <<>> /\ GroupSize(gs[i]) <= high

(* Sized the groups with room one is best. *)
IsBest(i, room, fill, aim) ==
  \A j \in room \ {i} :
     \/ BetterFill(fill[i], fill[j], aim)
     \/ fill[i] = fill[j] /\ i < j

(* There is a best one. *)
LEMMA BestExists ==
  ASSUME NEW n \in Nat, NEW room, room \subseteq 1..n, room # {}, NEW fill \in [1..n -> Nat],
         NEW aim \in Nat
  PROVE  \E i \in room : IsBest(i, room, fill, aim)
<1> DEFINE D(i) == Distance(fill[i], aim)
<1>1. \A i \in room : D(i) \in Nat
  BY DEF Distance
<1> HIDE DEF D
<1>2. PICK a \in room : \A i \in room : D(a) <= D(i)
  <2> DEFINE s == {D(i) : i \in room}
  <2>1. s \in SUBSET Nat /\ s # {}
    BY <1>1
  <2> HIDE DEF s
  <2>2. PICK x \in s : \A y \in s : x <= y
    BY <2>1, Least
  <2> QED BY <2>2 DEF s
<1>3. PICK b \in room : D(b) = D(a) /\ \A i \in room : D(i) = D(a) => fill[b] <= fill[i]
  <2> DEFINE s == {fill[i] : i \in {j \in room : D(j) = D(a)}}
  <2>1. s \in SUBSET Nat /\ s # {}
    OBVIOUS
  <2> HIDE DEF s
  <2>2. PICK x \in s : \A y \in s : x <= y
    BY <2>1, Least
  <2> QED BY <2>2 DEF s
<1>4. PICK c \in room : D(c) = D(a) /\ fill[c] = fill[b]
                        /\ \A i \in room : D(i) = D(a) /\ fill[i] = fill[b] => c <= i
  <2> DEFINE s == {j \in room : D(j) = D(a) /\ fill[j] = fill[b]}
  <2>0. b \in s /\ room \subseteq Nat
    BY <1>3
  <2>1. s \in SUBSET Nat /\ s # {}
    <3>1. s \subseteq Nat
      BY <2>0
    <3> HIDE DEF s
    <3> QED BY <2>0, <3>1
  <2> HIDE DEF s
  <2>2. PICK x \in s : \A y \in s : x <= y
    BY <2>1, Least
  <2> QED BY <2>2 DEF s
<1>5. ASSUME NEW j \in room, j # c
      PROVE  BetterFill(fill[c], fill[j], aim) \/ (fill[c] = fill[j] /\ c < j)
  <2>1. D(c) \in Nat /\ D(j) \in Nat /\ fill[c] \in Nat /\ fill[j] \in Nat /\ c \in Nat /\ j \in Nat
    BY <1>1
  <2>2. CASE D(j) # D(c)
    <3>1. D(c) < D(j)
      BY <1>2, <1>4, <2>1, <2>2
    <3> QED BY <3>1 DEF BetterFill, D
  <2>3. CASE D(j) = D(c) /\ fill[j] # fill[c]
    <3>1. fill[c] < fill[j]
      BY <1>3, <1>4, <2>1, <2>3
    <3> QED BY <2>3, <3>1 DEF BetterFill, D
  <2>4. CASE D(j) = D(c) /\ fill[j] = fill[c]
    BY <1>4, <1>5, <2>1, <2>4
  <2> QED BY <2>2, <2>3, <2>4
<1> QED BY <1>5 DEF IsBest

(* Groups hold one team more. *)
Takes(new, old, x) ==
  /\ Len(FlattenSeq(new)) = Len(FlattenSeq(old)) + 1
  /\ ToSet(FlattenSeq(new)) = ToSet(FlattenSeq(old)) \cup {x}

(* Placing a team adds it and no other, and overfills no group. *)
LEMMA Placed ==
  ASSUME NEW B, SeedSet(B), NEW high \in Nat, NEW aim \in Nat, NEW gs, Packed(gs, B, high),
         NEW x \in B, x.size <= high
  PROVE  /\ Packed(Place(gs, x, high, aim), B, high)
         /\ Takes(Place(gs, x, high, aim), gs, x)
<1> DEFINE n == Len(gs)
           fill(i) == GroupSize(gs[i]) + x.size
           room == {i \in 1..n : fill(i) <= high}
           best == CHOOSE i \in room : \A j \in room \ {i} :
                    \/ BetterFill(fill(i), fill(j), aim)
                    \/ fill(i) = fill(j) /\ i < j
           one == <<x>>
           grown == [gs EXCEPT ![best] = Append(@, x)]
           more == Append(gs, <<x>>)
           new == Place(gs, x, high, aim)
<1>1. new = IF room # {} /\ GroupSize(gs[best]) < aim THEN grown ELSE more
  BY DEF Place
<1>2. gs \in Groups(B) /\ n \in Nat /\ \A i \in 1..n : gs[i] \in Seq(B)
  BY DEF Packed, Groups
<1>3. \A i \in 1..n : GroupSize(gs[i]) \in Nat
  BY <1>2, SizeIsNat
<1>4. x.size \in Nat
  BY DEF SeedSet
<1>5. one \in Seq(B) /\ Len(one) = 1 /\ ToSet(one) = {x} /\ one # <<>> /\ GroupSize(one) = x.size
  <2>1. one \in Seq(B) /\ Len(one) = 1 /\ one # <<>> /\ DOMAIN one = 1..1 /\ one[1] = x
    OBVIOUS
  <2>2. ToSet(one) = {x}
    <3> HIDE DEF one
    <3> QED BY <2>1 DEF ToSet
  <2> QED BY <2>1, <2>2, SizeOfOne
<1>6. CASE room # {} /\ GroupSize(gs[best]) < aim
  <2>1. best \in room
    <3> DEFINE f == [i \in 1..n |-> fill(i)]
    <3>1. room \in SUBSET (1..n) /\ f \in [1..n -> Nat] /\ \A i \in room : f[i] = fill(i)
      BY <1>3, <1>4
    <3>2. \E i \in room : \A j \in room \ {i} :
            \/ BetterFill(fill(i), fill(j), aim)
            \/ fill(i) = fill(j) /\ i < j
      <4>1. room # {}
        BY <1>6
      <4> HIDE DEF fill, room, n, f
      <4>2. \E i \in room : IsBest(i, room, f, aim)
        <5>1. n \in Nat /\ f \in [1..n -> Nat] /\ room \subseteq 1..n
          BY <1>2, <3>1
        <5> QED BY <4>1, <5>1, BestExists
      <4> QED BY <3>1, <4>2 DEF IsBest
    <3> HIDE DEF fill, room, n
    <3> QED BY <3>2
  <2> HIDE DEF best
  <2> DEFINE g == Append(gs[best], x)
  <2>2. best \in 1..n /\ gs[best] \in Seq(B) /\ fill(best) <= high /\ new = [gs EXCEPT ![best] = g]
    BY <1>1, <1>2, <1>6, <2>1
  <2>3. /\ g \in Seq(B) /\ g # <<>> /\ GroupSize(g) <= high
        /\ Len(g) = Len(gs[best]) + Len(one) /\ ToSet(g) = ToSet(gs[best]) \cup ToSet(one)
    <3>1. GroupSize(g) = fill(best)
      BY <2>2, SizeOfAppended
    <3>2. /\ g \in Seq(B) /\ Len(g) = Len(gs[best]) + 1
          /\ ToSet(g) = ToSet(gs[best]) \cup {x}
      BY <2>2, Appended
    <3>3. Len(gs[best]) \in Nat
      BY <2>2
    <3>4. g # <<>>
      <4> HIDE DEF g
      <4> QED BY <3>2, <3>3, EmptySet
    <3> QED BY <1>5, <2>2, <3>1, <3>2, <3>4
  <2> HIDE DEF g, one, new
  <2>4. /\ new \in Groups(B) /\ Len(new) = n
        /\ Len(FlattenSeq(new)) = Len(FlattenSeq(gs)) + Len(one)
        /\ ToSet(FlattenSeq(new)) = ToSet(FlattenSeq(gs)) \cup ToSet(one)
    <3>1. gs \in Groups(B) /\ best \in 1..Len(gs) /\ one \in Seq(B)
      BY <1>2, <1>5, <2>2
    <3>2. Gains([gs EXCEPT ![best] = g], gs, B, one)
      BY <2>3, <3>1, JoinGrown
    <3> QED BY <2>2, <3>2 DEF Gains
  <2>5. \A i \in 1..n : new[i] # <<>> /\ GroupSize(new[i]) <= high
    <3>1. \A i \in 1..n : new[i] = IF i = best THEN g ELSE gs[i]
      BY <1>2, <2>2, SMTT(30) DEF Groups
    <3> QED BY <2>3, <3>1 DEF Packed
  <2> QED BY <1>5, <2>4, <2>5 DEF Packed, Takes, new
<1>7. CASE ~ (room # {} /\ GroupSize(gs[best]) < aim)
  <2>1. new = Append(gs, one)
    BY <1>1, <1>7
  <2> HIDE DEF one, new
  <2>2. new \in Groups(B) /\ FlattenSeq(new) = FlattenSeq(gs) \o one
    BY <1>2, <1>5, <2>1, JoinAppended
  <2>3. FlattenSeq(gs) \in Seq(B)
    BY <1>2, JoinIsSeq
  <2>4. /\ Len(FlattenSeq(new)) = Len(FlattenSeq(gs)) + 1
        /\ ToSet(FlattenSeq(new)) = ToSet(FlattenSeq(gs)) \cup {x}
    BY <1>5, <2>2, <2>3, Joined, SetOfJoined
  <2>5. \A i \in 1..Len(new) : new[i] # <<>> /\ GroupSize(new[i]) <= high
    <3>1. Len(new) = n + 1 /\ new[n + 1] = one /\ \A i \in 1..n : new[i] = gs[i]
      BY <1>2, <1>5, <2>1 DEF Groups
    <3>2. ASSUME NEW i \in 1..(n + 1) PROVE i = n + 1 \/ i \in 1..n
      BY <1>2
    <3> QED BY <1>5, <3>1, <3>2 DEF Packed
  <2> QED BY <2>2, <2>4, <2>5 DEF Packed, Takes, new
<1> QED BY <1>6, <1>7

Packings(B, high) == {gs \in Groups(B) : Packed(gs, B, high)}

PackAll(seq, high, aim) ==
  FoldLeft(LAMBDA groups, x : Place(groups, x, high, aim), <<>>, seq)

(* Placing a team keeps groups packed. *)
LEMMA PlacesPacking ==
  ASSUME NEW B, SeedSet(B), NEW high \in Nat, NEW aim \in Nat, \A x \in B : x.size <= high
  PROVE  /\ <<>> \in Packings(B, high)
         /\ \A gs \in Packings(B, high), x \in B : Place(gs, x, high, aim) \in Packings(B, high)
<1>1. <<>> \in Groups(B) /\ Len(<<>>) = 0
  BY DEF Groups
<1>2. <<>> \in Packings(B, high)
  BY <1>1 DEF Packings, Packed
<1>3. ASSUME NEW gs \in Packings(B, high), NEW x \in B
      PROVE  Place(gs, x, high, aim) \in Packings(B, high)
  <2>1. Packed(gs, B, high)
    BY DEF Packings
  <2>2. Packed(Place(gs, x, high, aim), B, high)
    BY <2>1, Placed
  <2> QED BY <2>2 DEF Packings, Packed
<1> QED BY <1>2, <1>3

(* The groups as the teams are placed. *)
PackTrace(acc, B, seq, high, aim) ==
  /\ acc \in [0..Len(seq) -> Packings(B, high)] /\ acc[0] = <<>>
  /\ \A k \in 1..Len(seq) : acc[k] = Place(acc[k - 1], seq[k], high, aim)

(* The groups are packed team by team. *)
LEMMA PackAlong ==
  ASSUME NEW B, SeedSet(B), NEW high \in Nat, NEW aim \in Nat, (\A x \in B : x.size <= high),
         NEW seq \in Seq(B)
  PROVE  \E acc : PackTrace(acc, B, seq, high, aim) /\ PackAll(seq, high, aim) = acc[Len(seq)]
<1> DEFINE n == Len(seq)
           A == Packings(B, high)
           base == <<>>
           Op(a, x) == Place(a, x, high, aim)
           st == [p \in A \X B |-> Op(p[1], p[2])]
           R(it) == [s \in SUBSET (1..n) |->
                       IF s = {} THEN base ELSE Op(it[s \ {Max(s)}], seq[Max(s)])]
           fold == CHOOSE it : it = R(it)
           acc == [k \in 0..n |-> fold[1..k]]
<1>1. n \in Nat /\ DOMAIN seq = 1..n /\ seq \in [1..n -> B]
  OBVIOUS
<1>2. \A a \in A, x \in B : Op(a, x) \in A
  BY PlacesPacking
<1>3. st \in [A \X B -> A] /\ base \in A
  <2> HIDE DEF Op
  <2> QED BY <1>2, PlacesPacking
<1>4. PackAll(seq, high, aim) = fold[1..n]
  BY <1>1 DEF PackAll, FoldLeft, MapThenFoldSet
<1> HIDE DEF Op
<1>5. \E it : it = R(it)
  <2>1. PICK it : FoldValues(it, A, st, base, n, seq)
    <3> HIDE DEF st, n, A, base
    <3> QED BY <1>1, <1>3, FoldExists
  <2>2. ASSUME NEW s \in SUBSET (1..n), s # {}
        PROVE  it[s] = Op(it[s \ {Max(s)}], seq[Max(s)])
    <3>1. /\ Max(s) \in 1..n /\ it[s \ {Max(s)}] \in A
          /\ it[s] = st[<<it[s \ {Max(s)}], seq[Max(s)]>>]
      BY <2>1, <2>2 DEF FoldValues
    <3>2. <<it[s \ {Max(s)}], seq[Max(s)]>> \in A \X B
      BY <1>1, <3>1
    <3> HIDE DEF A, n
    <3> QED BY <3>1, <3>2
  <2>3. it = [s \in SUBSET (1..n) |-> it[s]]
    BY <2>1 DEF FoldValues
  <2>4. it = R(it)
    <3> HIDE DEF n, A, st
    <3> QED BY <2>1, <2>2, <2>3 DEF FoldValues
  <2> QED BY <2>4
<1>6. fold = R(fold)
  <2> HIDE DEF R
  <2> QED BY <1>5
<1>7. /\ fold[{}] = base
      /\ \A s \in SUBSET (1..n) : s # {} => fold[s] = Op(fold[s \ {Max(s)}], seq[Max(s)])
  <2> HIDE DEF fold, n
  <2> QED BY <1>6
<1> HIDE DEF fold, st, R
<1>8. acc[0] = base
  BY <1>1, <1>7
<1>9. ASSUME NEW k \in 1..n PROVE acc[k] = Op(acc[k - 1], seq[k])
  <2> HIDE DEF n
  <2>0. /\ 1..k \in SUBSET (1..n) /\ 1..k # {} /\ Max(1..k) = k
        /\ (1..k) \ {k} = 1..(k - 1)
    BY <1>1, Prefixed
  <2>1. fold[1..k] = Op(fold[1..(k - 1)], seq[k])
    BY <2>0, <1>7
  <2> QED BY <1>1, <2>1, Prefixed
<1> HIDE DEF acc
<1>10. ASSUME NEW k \in 1..n, acc[k - 1] \in A PROVE acc[k] \in A
  <2>1. seq[k] \in B
    BY <1>1
  <2> HIDE DEF A
  <2>2. Op(acc[k - 1], seq[k]) \in A
    BY <1>2, <1>10, <2>1
  <2> QED BY <1>9, <2>2
<1>11. \A k \in 0..n : acc[k] \in A
  <2> HIDE DEF n, A
  <2>1. acc[0] \in A
    BY <1>3, <1>8
  <2> QED BY <1>1, <2>1, <1>10, Along
<1>12. acc \in [0..n -> A] /\ acc[n] = fold[1..n]
  BY <1>1, <1>11 DEF acc
<1> QED BY <1>4, <1>8, <1>9, <1>12 DEF Op, PackTrace

(* The groups packed hold every team, and no other. *)
LEMMA PackedAll ==
  ASSUME NEW B, SeedSet(B), NEW high \in Nat, NEW aim \in Nat, (\A x \in B : x.size <= high),
         NEW seq \in Seq(B)
  PROVE  /\ Packed(PackAll(seq, high, aim), B, high)
         /\ Len(FlattenSeq(PackAll(seq, high, aim))) = Len(seq)
         /\ ToSet(FlattenSeq(PackAll(seq, high, aim))) = ToSet(seq)
<1> DEFINE n == Len(seq)
<1>1. PICK acc : PackTrace(acc, B, seq, high, aim) /\ PackAll(seq, high, aim) = acc[n]
  BY PackAlong
<1>2. n \in Nat /\ DOMAIN seq = 1..n /\ (\A k \in 1..n : seq[k] \in B)
  OBVIOUS
<1>3. /\ \A k \in 0..n : Packed(acc[k], B, high)
      /\ acc[0] = <<>>
      /\ \A k \in 1..n : acc[k] = Place(acc[k - 1], seq[k], high, aim)
  BY <1>1 DEF PackTrace, Packings
<1> HIDE DEF n
<1> DEFINE f == [k \in 0..n |-> <<Len(FlattenSeq(acc[k])), ToSet(FlattenSeq(acc[k]))>>]
           e == [k \in 0..n |-> <<k, {seq[i] : i \in 1..k}>>]
<1>4. f[0] = e[0]
  <2>1. FlattenSeq(acc[0]) = <<>>
    <3>1. Len(<<>>) = 0
      OBVIOUS
    <3> QED BY <1>3, <3>1 DEF FlattenSeq
  <2>2. 1..0 = {} /\ 0 \in 0..n
    BY <1>2
  <2> QED BY <2>1, <2>2, EmptySet
<1>5. ASSUME NEW k \in 1..n, f[k - 1] = e[k - 1] PROVE f[k] = e[k]
  <2>1. k - 1 \in 0..n /\ k \in 0..n /\ 1..k = (1..(k - 1)) \cup {k} /\ k \in Nat
    BY <1>2
  <2>2. Packed(acc[k - 1], B, high) /\ seq[k] \in B /\ seq[k].size <= high
    BY <1>2, <1>3, <2>1
  <2>3. /\ Len(FlattenSeq(acc[k])) = Len(FlattenSeq(acc[k - 1])) + 1
        /\ ToSet(FlattenSeq(acc[k])) = ToSet(FlattenSeq(acc[k - 1])) \cup {seq[k]}
    <3>1. acc[k] = Place(acc[k - 1], seq[k], high, aim)
      BY <1>3
    <3> DEFINE old == acc[k - 1]
               x == seq[k]
    <3>2. Packed(old, B, high) /\ x \in B /\ x.size <= high /\ acc[k] = Place(old, x, high, aim)
      BY <2>2, <3>1
    <3> HIDE DEF old, x
    <3>3. /\ Len(FlattenSeq(acc[k])) = Len(FlattenSeq(old)) + 1
          /\ ToSet(FlattenSeq(acc[k])) = ToSet(FlattenSeq(old)) \cup {x}
      <4>1. Takes(Place(old, x, high, aim), old, x)
        BY <3>2, Placed
      <4> QED BY <3>2, <4>1 DEF Takes
    <3> QED BY <3>3 DEF old, x
  <2>4. /\ Len(FlattenSeq(acc[k - 1])) = k - 1
        /\ ToSet(FlattenSeq(acc[k - 1])) = {seq[i] : i \in 1..(k - 1)}
    BY <1>5, <2>1
  <2>5. {seq[i] : i \in 1..k} = {seq[i] : i \in 1..(k - 1)} \cup {seq[k]}
    BY <2>1
  <2>6. Len(FlattenSeq(acc[k])) = k /\ ToSet(FlattenSeq(acc[k])) = {seq[i] : i \in 1..k}
    BY <2>1, <2>3, <2>4, <2>5
  <2> QED BY <2>1, <2>6
<1>6. \A k \in 0..n : f[k] = e[k]
  <2> HIDE DEF f, e
  <2>1. GoAlike(n, f, e)
    BY <1>5 DEF GoAlike
  <2> QED BY <1>2, <1>4, <2>1, SameAlong
<1>7. n \in 0..n /\ ToSet(seq) = {seq[i] : i \in 1..n}
  BY <1>2 DEF ToSet
<1>8. Len(FlattenSeq(acc[n])) = n /\ ToSet(FlattenSeq(acc[n])) = ToSet(seq)
  BY <1>6, <1>7
<1> QED BY <1>1, <1>3, <1>7, <1>8 DEF n

(* Groups within the bounds, none of them empty. *)
WithinBounds(gs, low, high) ==
  \A i \in 1..Len(gs) : gs[i] # <<>> /\ GroupSize(gs[i]) >= low /\ GroupSize(gs[i]) <= high

(* Plans: such groups, and teams left over. *)
Plans(B, low, high) ==
  {plan \in [groups : Groups(B), unmerged : Seq(B)] : WithinBounds(plan.groups, low, high)}

(* The teams of a plan, in its groups or left over. *)
Everyone(plan) == FlattenSeq(plan.groups) \o plan.unmerged

(* A plan takes in the teams of a group and no other. *)
TakesIn(new, old, g) ==
  /\ Len(Everyone(new)) = Len(Everyone(old)) + Len(g)
  /\ ToSet(Everyone(new)) = ToSet(Everyone(old)) \cup ToSet(g)

(* The parts of a plan. *)
LEMMA PlanFields ==
  ASSUME NEW B, NEW low, NEW high, NEW plan \in Plans(B, low, high)
  PROVE  /\ plan.groups \in Groups(B) /\ plan.unmerged \in Seq(B)
         /\ plan = [groups |-> plan.groups, unmerged |-> plan.unmerged]
         /\ WithinBounds(plan.groups, low, high)
         /\ FlattenSeq(plan.groups) \in Seq(B)
<1>1. plan \in [groups : Groups(B), unmerged : Seq(B)]
  BY DEF Plans
<1>2. /\ plan.groups \in Groups(B) /\ plan.unmerged \in Seq(B)
      /\ plan = [groups |-> plan.groups, unmerged |-> plan.unmerged]
  BY <1>1
<1>4. WithinBounds(plan.groups, low, high)
  BY DEF Plans
<1>5. FlattenSeq(plan.groups) \in Seq(B)
  BY <1>2, JoinIsSeq
<1> QED BY <1>2, <1>4, <1>5

(* A plan of its parts. *)
LEMMA PlanOf ==
  ASSUME NEW B, NEW low, NEW high, NEW gs \in Groups(B), NEW t \in Seq(B), WithinBounds(gs, low, high)
  PROVE  /\ [groups |-> gs, unmerged |-> t] \in Plans(B, low, high)
         /\ [groups |-> gs, unmerged |-> t].groups = gs
         /\ [groups |-> gs, unmerged |-> t].unmerged = t
BY DEF Plans

(* The teams of a plan are those of its parts. *)
LEMMA PlanTeams ==
  ASSUME NEW B, NEW low, NEW high, NEW plan \in Plans(B, low, high)
  PROVE  /\ Len(Everyone(plan)) = Len(FlattenSeq(plan.groups)) + Len(plan.unmerged)
         /\ ToSet(Everyone(plan)) = ToSet(FlattenSeq(plan.groups)) \cup ToSet(plan.unmerged)
         /\ Len(FlattenSeq(plan.groups)) \in Nat /\ Len(plan.unmerged) \in Nat
<1> DEFINE s == FlattenSeq(plan.groups)
           t == plan.unmerged
<1>6. s \in Seq(B) /\ t \in Seq(B)
  BY PlanFields
<1> HIDE DEF s, t
<1>7. Len(s \o t) = Len(s) + Len(t) /\ ToSet(s \o t) = ToSet(s) \cup ToSet(t)
      /\ Len(s) \in Nat /\ Len(t) \in Nat
  BY <1>6, Joined, SetOfJoined
<1> QED BY <1>7 DEF s, t, Everyone

(* Groups that gain a group's teams take it in. *)
LEMMA TakenByGroups ==
  ASSUME NEW B, NEW low, NEW high, NEW old \in Plans(B, low, high), NEW new \in Plans(B, low, high),
         NEW g \in Seq(B), new.unmerged = old.unmerged,
         Len(FlattenSeq(new.groups)) = Len(FlattenSeq(old.groups)) + Len(g),
         ToSet(FlattenSeq(new.groups)) = ToSet(FlattenSeq(old.groups)) \cup ToSet(g)
  PROVE  TakesIn(new, old, g)
<1>1. /\ Len(Everyone(new)) = Len(FlattenSeq(new.groups)) + Len(new.unmerged)
      /\ ToSet(Everyone(new)) = ToSet(FlattenSeq(new.groups)) \cup ToSet(new.unmerged)
  BY PlanTeams
<1>2. /\ Len(Everyone(old)) = Len(FlattenSeq(old.groups)) + Len(old.unmerged)
      /\ ToSet(Everyone(old)) = ToSet(FlattenSeq(old.groups)) \cup ToSet(old.unmerged)
      /\ Len(FlattenSeq(old.groups)) \in Nat /\ Len(old.unmerged) \in Nat
  BY PlanTeams
<1>g. Len(g) \in Nat
  OBVIOUS
<1>3. Len(Everyone(new)) = Len(Everyone(old)) + Len(g)
  <2> DEFINE p == Len(FlattenSeq(old.groups))
             q == Len(old.unmerged)
             r == Len(g)
  <2>1. p \in Nat /\ q \in Nat /\ r \in Nat
    BY <1>2, <1>g
  <2>2. Len(Everyone(new)) = (p + r) + q /\ Len(Everyone(old)) = p + q
    BY <1>1, <1>2
  <2> HIDE DEF p, q, r
  <2>3. Len(Everyone(new)) = Len(Everyone(old)) + r
    BY <2>1, <2>2
  <2> QED BY <2>3 DEF r
<1>4. ToSet(Everyone(new)) = ToSet(Everyone(old)) \cup ToSet(g)
  BY <1>1, <1>2
<1> QED BY <1>3, <1>4 DEF TakesIn

(* So do the teams left over. *)
LEMMA TakenByRest ==
  ASSUME NEW B, NEW low, NEW high, NEW old \in Plans(B, low, high), NEW new \in Plans(B, low, high),
         NEW g \in Seq(B), new.unmerged = old.unmerged \o g, new.groups = old.groups
  PROVE  TakesIn(new, old, g)
<1>1. /\ Len(Everyone(new)) = Len(FlattenSeq(new.groups)) + Len(new.unmerged)
      /\ ToSet(Everyone(new)) = ToSet(FlattenSeq(new.groups)) \cup ToSet(new.unmerged)
  BY PlanTeams
<1>2. /\ Len(Everyone(old)) = Len(FlattenSeq(old.groups)) + Len(old.unmerged)
      /\ ToSet(Everyone(old)) = ToSet(FlattenSeq(old.groups)) \cup ToSet(old.unmerged)
      /\ Len(FlattenSeq(old.groups)) \in Nat /\ Len(old.unmerged) \in Nat
  BY PlanTeams
<1>g. Len(g) \in Nat
  OBVIOUS
<1> DEFINE t == old.unmerged
<1>0. t \in Seq(B)
  BY PlanFields
<1>5. Len(new.unmerged) = Len(t) + Len(g) /\ ToSet(new.unmerged) = ToSet(t) \cup ToSet(g)
  <2> HIDE DEF t
  <2>1. Len(t \o g) = Len(t) + Len(g) /\ ToSet(t \o g) = ToSet(t) \cup ToSet(g)
    BY <1>0, Joined, SetOfJoined
  <2> QED BY <2>1 DEF t
<1>3. Len(Everyone(new)) = Len(Everyone(old)) + Len(g)
  <2> DEFINE p == Len(FlattenSeq(old.groups))
             q == Len(old.unmerged)
             r == Len(g)
  <2>1. p \in Nat /\ q \in Nat /\ r \in Nat
    BY <1>2, <1>g
  <2>2. Len(Everyone(new)) = p + (q + r) /\ Len(Everyone(old)) = p + q
    BY <1>1, <1>2, <1>5
  <2> HIDE DEF p, q, r
  <2>3. Len(Everyone(new)) = Len(Everyone(old)) + r
    BY <2>1, <2>2
  <2> QED BY <2>3 DEF r
<1>4. ToSet(Everyone(new)) = ToSet(Everyone(old)) \cup ToSet(g)
  BY <1>1, <1>2, <1>5
<1> QED BY <1>3, <1>4 DEF TakesIn

(* Changing one part of a plan. *)
LEMMA PlanEdits ==
  \A a, b, c : /\ [[groups |-> a, unmerged |-> b] EXCEPT !.groups = c] = [groups |-> c, unmerged |-> b]
               /\ [[groups |-> a, unmerged |-> b] EXCEPT !.unmerged = c] = [groups |-> a, unmerged |-> c]
OBVIOUS

(* Folding a group in adds its teams and no other, and keeps the bounds. *)
LEMMA Folded ==
  ASSUME NEW B, SeedSet(B), NEW low \in Nat, NEW high \in Nat,
         NEW plan \in Plans(B, low, high), NEW g \in Seq(B), g # <<>>, GroupSize(g) <= high
  PROVE  /\ Fold(plan, g, low, high) \in Plans(B, low, high)
         /\ TakesIn(Fold(plan, g, low, high), plan, g)
<1> DEFINE gs == plan.groups
           left == plan.unmerged
           n == Len(gs)
           room == {i \in 1..n : GroupSize(gs[i]) + GroupSize(g) <= high}
           first == CHOOSE i \in room : \A j \in room : i <= j
           new == Fold(plan, g, low, high)
<1>1. /\ gs \in Groups(B) /\ left \in Seq(B)
      /\ plan = [groups |-> gs, unmerged |-> left]
      /\ WithinBounds(gs, low, high)
      /\ FlattenSeq(gs) \in Seq(B)
  BY PlanFields
<1>0. \A i \in 1..n : gs[i] \in Seq(B)
  BY <1>1 DEF Groups
<1>2. n \in Nat /\ GroupSize(g) \in Nat /\ Len(g) \in Nat
  BY <1>1, SizeIsNat, SMTT(30) DEF Groups
<1>3. new = IF GroupSize(g) >= low THEN [groups |-> Append(gs, g), unmerged |-> left]
            ELSE IF room # {} THEN [groups |-> [gs EXCEPT ![first] = @ \o g], unmerged |-> left]
            ELSE [groups |-> gs, unmerged |-> left \o g]
  <2>1. CASE GroupSize(g) >= low
    <3>1. new = [plan EXCEPT !.groups = Append(gs, g)]
      <4>1. ~ (GroupSize(g) < low)
        BY <1>2, <2>1
      <4> QED BY <2>1, <4>1 DEF Fold
    <3> QED BY <1>1, <2>1, <3>1, PlanEdits
  <2>2. CASE ~ (GroupSize(g) >= low) /\ room # {}
    <3>0. GroupSize(g) < low
      BY <1>2, <2>2
    <3>1. new = [plan EXCEPT !.groups[first] = @ \o g]
      BY <2>2, <3>0 DEF Fold
    <3>2. [plan EXCEPT !.groups[first] = @ \o g] = [plan EXCEPT !.groups = [gs EXCEPT ![first] = @ \o g]]
      OBVIOUS
    <3> QED BY <1>1, <2>2, <3>1, <3>2, PlanEdits
  <2>3. CASE ~ (GroupSize(g) >= low) /\ room = {}
    <3>1. new = [plan EXCEPT !.unmerged = left \o g]
      BY <2>3 DEF Fold
    <3> QED BY <1>1, <2>3, <3>1, PlanEdits
  <2> QED BY <2>1, <2>2, <2>3
<1> HIDE DEF new
<1>5. CASE GroupSize(g) >= low
  <2> DEFINE hs == Append(gs, g)
  <2>1. new = [groups |-> hs, unmerged |-> left]
    BY <1>3, <1>5
  <2>2. hs \in Groups(B) /\ FlattenSeq(hs) = FlattenSeq(gs) \o g
    BY <1>1, JoinAppended
  <2>3. WithinBounds(hs, low, high)
    <3>1. Len(hs) = n + 1 /\ hs[n + 1] = g /\ \A i \in 1..n : hs[i] = gs[i]
      BY <1>1, <1>2 DEF Groups
    <3>2. ASSUME NEW i \in 1..(n + 1) PROVE i = n + 1 \/ i \in 1..n
      BY <1>2
    <3> HIDE DEF hs
    <3> QED BY <1>1, <1>5, <3>1, <3>2 DEF WithinBounds
  <2>4. /\ Len(FlattenSeq(hs)) = Len(FlattenSeq(gs)) + Len(g)
        /\ ToSet(FlattenSeq(hs)) = ToSet(FlattenSeq(gs)) \cup ToSet(g)
    <3> HIDE DEF gs, hs
    <3> QED BY <1>1, <2>2, Joined, SetOfJoined
  <2> HIDE DEF hs
  <2>5. new \in Plans(B, low, high) /\ new.groups = hs /\ new.unmerged = left
    BY <1>1, <2>1, <2>2, <2>3, PlanOf
  <2>6. TakesIn(new, plan, g)
    BY <2>4, <2>5, TakenByGroups
  <2> QED BY <2>5, <2>6 DEF new
<1>6. CASE ~ (GroupSize(g) >= low) /\ room # {}
  <2>1. first \in room
    <3>1. room \in SUBSET Nat
      OBVIOUS
    <3> HIDE DEF room
    <3>2. \E i \in room : \A j \in room : i <= j
      BY <1>6, <3>1, Least
    <3> QED BY <3>2
  <2> HIDE DEF first
  <2> DEFINE h == gs[first] \o g
             hs == [gs EXCEPT ![first] = h]
  <2>2. first \in 1..n /\ gs[first] \in Seq(B) /\ GroupSize(gs[first]) + GroupSize(g) <= high
        /\ GroupSize(gs[first]) >= low
    BY <1>0, <1>1, <2>1 DEF WithinBounds
  <2>3. new = [groups |-> hs, unmerged |-> left]
    BY <1>3, <1>6
  <2>4. /\ h \in Seq(B) /\ Len(h) = Len(gs[first]) + Len(g)
        /\ ToSet(h) = ToSet(gs[first]) \cup ToSet(g)
        /\ GroupSize(h) = GroupSize(gs[first]) + GroupSize(g)
    <3> DEFINE s == gs[first]
    <3>1. s \in Seq(B)
      BY <2>2
    <3> HIDE DEF s
    <3>2. /\ s \o g \in Seq(B) /\ Len(s \o g) = Len(s) + Len(g)
          /\ ToSet(s \o g) = ToSet(s) \cup ToSet(g)
          /\ GroupSize(s \o g) = GroupSize(s) + GroupSize(g)
      BY <3>1, Joined, SetOfJoined, SizeOfJoined
    <3> QED BY <3>2 DEF s
  <2>5. h # <<>> /\ GroupSize(h) >= low /\ GroupSize(h) <= high
    <3>1. Len(g) # 0
      BY <1>2
    <3>2. Len(gs[first]) \in Nat /\ GroupSize(gs[first]) \in Nat
      BY <2>2, SizeIsNat
    <3> HIDE DEF h, gs
    <3>3. Len(h) # 0
      BY <1>2, <2>4, <3>1, <3>2
    <3> QED BY <1>2, <2>2, <2>4, <3>2, <3>3, EmptySet
  <2> HIDE DEF h
  <2>6. Gains(hs, gs, B, g)
    <3> HIDE DEF gs
    <3> QED BY <1>1, <2>2, <2>4, JoinGrown DEF n
  <2>7. WithinBounds(hs, low, high)
    <3>1. \A i \in 1..n : hs[i] = IF i = first THEN h ELSE gs[i]
      BY <1>1, <2>2 DEF Groups
    <3>2. Len(hs) = n
      BY <2>6 DEF Gains
    <3> HIDE DEF hs, gs
    <3> QED BY <1>1, <2>5, <3>1, <3>2 DEF WithinBounds, n
  <2>8. /\ hs \in Groups(B) /\ Len(hs) = n
        /\ Len(FlattenSeq(hs)) = Len(FlattenSeq(gs)) + Len(g)
        /\ ToSet(FlattenSeq(hs)) = ToSet(FlattenSeq(gs)) \cup ToSet(g)
    <3> HIDE DEF gs, hs
    <3> QED BY <2>6 DEF Gains, n
  <2> HIDE DEF hs
  <2>9. new \in Plans(B, low, high) /\ new.groups = hs /\ new.unmerged = left
    BY <1>1, <2>3, <2>7, <2>8, PlanOf
  <2>10. TakesIn(new, plan, g)
    BY <2>8, <2>9, TakenByGroups
  <2> QED BY <2>9, <2>10 DEF new
<1>7. CASE ~ (GroupSize(g) >= low) /\ ~ (room # {})
  <2>1. new = [groups |-> gs, unmerged |-> left \o g]
    BY <1>3, <1>7
  <2>2. left \o g \in Seq(B)
    <3> HIDE DEF left
    <3> QED BY <1>1
  <2>3. new \in Plans(B, low, high) /\ new.groups = gs /\ new.unmerged = left \o g
    <3> HIDE DEF gs, left
    <3> QED BY <1>1, <2>1, <2>2, PlanOf
  <2>4. TakesIn(new, plan, g)
    BY <2>3, TakenByRest
  <2> QED BY <2>3, <2>4 DEF new
<1> QED BY <1>5, <1>6, <1>7

(* Groups that are not empty and not over the maximum. *)
FullGroups(B, high) == {g \in Seq(B) : g # <<>> /\ GroupSize(g) <= high}

EmptyPlan == [groups |-> <<>>, unmerged |-> <<>>]

FoldAll(gs, low, high) == FoldLeft(LAMBDA plan, g : Fold(plan, g, low, high), EmptyPlan, gs)

(* Folding a group in keeps a plan a plan. *)
LEMMA FoldsPlans ==
  ASSUME NEW B, SeedSet(B), NEW low \in Nat, NEW high \in Nat
  PROVE  /\ EmptyPlan \in Plans(B, low, high)
         /\ \A plan \in Plans(B, low, high), g \in FullGroups(B, high) : Fold(plan, g, low, high) \in Plans(B, low, high)
<1>1. EmptyPlan \in Plans(B, low, high)
  <2>1. <<>> \in Groups(B) /\ <<>> \in Seq(B) /\ Len(<<>>) = 0
    BY DEF Groups
  <2>2. WithinBounds(<<>>, low, high)
    BY <2>1 DEF WithinBounds
  <2> QED BY <2>1, <2>2, PlanOf DEF EmptyPlan
<1>2. ASSUME NEW plan \in Plans(B, low, high), NEW g \in FullGroups(B, high)
      PROVE  Fold(plan, g, low, high) \in Plans(B, low, high)
  <2>1. g \in Seq(B) /\ g # <<>> /\ GroupSize(g) <= high
    BY DEF FullGroups
  <2> QED BY <2>1, Folded
<1> QED BY <1>1, <1>2

(* The plan as the groups are folded in. *)
FoldTrace(acc, B, seq, low, high) ==
  /\ acc \in [0..Len(seq) -> Plans(B, low, high)] /\ acc[0] = EmptyPlan
  /\ \A k \in 1..Len(seq) : acc[k] = Fold(acc[k - 1], seq[k], low, high)

(* The plan is made group by group. *)
LEMMA FoldAlong ==
  ASSUME NEW B, SeedSet(B), NEW low \in Nat, NEW high \in Nat, NEW seq \in Seq(FullGroups(B, high))
  PROVE  \E acc : FoldTrace(acc, B, seq, low, high) /\ FoldAll(seq, low, high) = acc[Len(seq)]
<1> DEFINE n == Len(seq)
           A == Plans(B, low, high)
           base == EmptyPlan
           Op(a, x) == Fold(a, x, low, high)
           st == [p \in A \X FullGroups(B, high) |-> Op(p[1], p[2])]
           R(it) == [s \in SUBSET (1..n) |->
                       IF s = {} THEN base ELSE Op(it[s \ {Max(s)}], seq[Max(s)])]
           fold == CHOOSE it : it = R(it)
           acc == [k \in 0..n |-> fold[1..k]]
<1>1. n \in Nat /\ DOMAIN seq = 1..n /\ seq \in [1..n -> FullGroups(B, high)]
  OBVIOUS
<1>2. \A a \in A, x \in FullGroups(B, high) : Op(a, x) \in A
  BY FoldsPlans
<1>3. st \in [A \X FullGroups(B, high) -> A] /\ base \in A
  <2> HIDE DEF Op
  <2> QED BY <1>2, FoldsPlans
<1>4. FoldAll(seq, low, high) = fold[1..n]
  BY <1>1 DEF FoldAll, FoldLeft, MapThenFoldSet
<1> HIDE DEF Op
<1>5. \E it : it = R(it)
  <2>1. PICK it : FoldValues(it, A, st, base, n, seq)
    <3> HIDE DEF st, n, A, base
    <3> QED BY <1>1, <1>3, FoldExists
  <2>2. ASSUME NEW s \in SUBSET (1..n), s # {}
        PROVE  it[s] = Op(it[s \ {Max(s)}], seq[Max(s)])
    <3>1. /\ Max(s) \in 1..n /\ it[s \ {Max(s)}] \in A
          /\ it[s] = st[<<it[s \ {Max(s)}], seq[Max(s)]>>]
      BY <2>1, <2>2 DEF FoldValues
    <3>2. <<it[s \ {Max(s)}], seq[Max(s)]>> \in A \X FullGroups(B, high)
      BY <1>1, <3>1
    <3> HIDE DEF A, n
    <3> QED BY <3>1, <3>2
  <2>3. it = [s \in SUBSET (1..n) |-> it[s]]
    BY <2>1 DEF FoldValues
  <2>4. it = R(it)
    <3> HIDE DEF n, A, st
    <3> QED BY <2>1, <2>2, <2>3 DEF FoldValues
  <2> QED BY <2>4
<1>6. fold = R(fold)
  <2> HIDE DEF R
  <2> QED BY <1>5
<1>7. /\ fold[{}] = base
      /\ \A s \in SUBSET (1..n) : s # {} => fold[s] = Op(fold[s \ {Max(s)}], seq[Max(s)])
  <2> HIDE DEF fold, n
  <2> QED BY <1>6
<1> HIDE DEF fold, st, R
<1>8. acc[0] = base
  BY <1>1, <1>7
<1>9. ASSUME NEW k \in 1..n PROVE acc[k] = Op(acc[k - 1], seq[k])
  <2> HIDE DEF n
  <2>0. /\ 1..k \in SUBSET (1..n) /\ 1..k # {} /\ Max(1..k) = k
        /\ (1..k) \ {k} = 1..(k - 1)
    BY <1>1, Prefixed
  <2>1. fold[1..k] = Op(fold[1..(k - 1)], seq[k])
    BY <2>0, <1>7
  <2> QED BY <1>1, <2>1, Prefixed
<1> HIDE DEF acc
<1>10. ASSUME NEW k \in 1..n, acc[k - 1] \in A PROVE acc[k] \in A
  <2>1. seq[k] \in FullGroups(B, high)
    BY <1>1
  <2> HIDE DEF A
  <2>2. Op(acc[k - 1], seq[k]) \in A
    BY <1>2, <1>10, <2>1
  <2> QED BY <1>9, <2>2
<1>11. \A k \in 0..n : acc[k] \in A
  <2> HIDE DEF n, A
  <2>1. acc[0] \in A
    BY <1>3, <1>8
  <2> QED BY <1>1, <2>1, <1>10, Along
<1>12. acc \in [0..n -> A] /\ acc[n] = fold[1..n]
  BY <1>1, <1>11 DEF acc
<1> QED BY <1>4, <1>8, <1>9, <1>12 DEF Op, FoldTrace

(* The plan holds the teams of every group, and no other. *)
LEMMA FoldedAll ==
  ASSUME NEW B, SeedSet(B), NEW low \in Nat, NEW high \in Nat, NEW gs, Packed(gs, B, high)
  PROVE  /\ FoldAll(gs, low, high) \in Plans(B, low, high)
         /\ Len(Everyone(FoldAll(gs, low, high))) = Len(FlattenSeq(gs))
         /\ ToSet(Everyone(FoldAll(gs, low, high))) = ToSet(FlattenSeq(gs))
<1> DEFINE n == Len(gs)
<1>1. gs \in Groups(B) /\ n \in Nat /\ \A k \in 1..n : gs[k] \in FullGroups(B, high) /\ gs[k] \in Seq(B)
  <2>1. gs \in Groups(B) /\ n \in Nat /\ \A k \in 1..n : gs[k] \in Seq(B)
    BY DEF Packed, Groups
  <2> QED BY <2>1 DEF Packed, FullGroups
<1>2. gs \in Seq(FullGroups(B, high))
  <2> DEFINE A == Seq(B)
             C == FullGroups(B, high)
  <2>1. gs \in Seq(A) /\ n \in Nat /\ \A k \in 1..n : gs[k] \in C
    BY <1>1 DEF Groups
  <2> HIDE DEF A, C
  <2>2. gs \in [1..n -> C] /\ n \in Nat
    BY <2>1
  <2> HIDE DEF n
  <2>3. \A m \in Nat : \A s \in [1..m -> C] : s \in Seq(C)
    OBVIOUS
  <2>4. gs \in Seq(C)
    BY <2>2, <2>3
  <2> QED BY <2>4 DEF C
<1>3. PICK acc : FoldTrace(acc, B, gs, low, high) /\ FoldAll(gs, low, high) = acc[n]
  BY <1>2, FoldAlong
<1>4. PICK a : JoinTrace(a, B, gs) /\ FlattenSeq(gs) = a[n]
  BY <1>1, JoinAlong
<1>5. \A k \in 1..n : JoinStep(a, B, gs, k)
  BY <1>1, <1>4, JoinParts
<1>6. /\ acc \in [0..n -> Plans(B, low, high)] /\ acc[0] = EmptyPlan /\ a[0] = <<>>
      /\ \A k \in 1..n : acc[k] = Fold(acc[k - 1], gs[k], low, high)
  BY <1>3, <1>4 DEF FoldTrace, JoinTrace
<1> HIDE DEF n
<1> DEFINE f == [k \in 0..n |-> <<Len(Everyone(acc[k])), ToSet(Everyone(acc[k]))>>]
           e == [k \in 0..n |-> <<Len(a[k]), ToSet(a[k])>>]
<1>7. f[0] = e[0]
  <2>1. Everyone(EmptyPlan) = <<>>
    <3>1. Len(<<>>) = 0 /\ <<>> \o <<>> = <<>>
      OBVIOUS
    <3> QED BY <3>1 DEF Everyone, EmptyPlan, FlattenSeq
  <2>2. 0 \in 0..n
    BY <1>1
  <2> QED BY <1>6, <2>1, <2>2
<1>8. ASSUME NEW k \in 1..n, f[k - 1] = e[k - 1] PROVE f[k] = e[k]
  <2>1. k - 1 \in 0..n /\ k \in 0..n
    BY <1>1
  <2> DEFINE old == acc[k - 1]
             g == gs[k]
             was == a[k - 1]
  <2>2. /\ old \in Plans(B, low, high) /\ g \in Seq(B) /\ g # <<>> /\ GroupSize(g) <= high
        /\ acc[k] = Fold(old, g, low, high)
    BY <1>1, <1>6, <2>1 DEF FullGroups
  <2>3. was \in Seq(B) /\ a[k] = was \o g
    BY <1>5 DEF JoinStep
  <2>4. Len(Everyone(old)) = Len(was) /\ ToSet(Everyone(old)) = ToSet(was)
    BY <1>8, <2>1
  <2> HIDE DEF old, g, was
  <2>5. TakesIn(acc[k], old, g)
    <3>1. TakesIn(Fold(old, g, low, high), old, g)
      BY <2>2, Folded
    <3> QED BY <2>2, <3>1
  <2>6. Len(a[k]) = Len(was) + Len(g) /\ ToSet(a[k]) = ToSet(was) \cup ToSet(g)
    BY <2>2, <2>3, Joined, SetOfJoined
  <2>7. Len(Everyone(acc[k])) = Len(a[k]) /\ ToSet(Everyone(acc[k])) = ToSet(a[k])
    BY <2>4, <2>5, <2>6 DEF TakesIn
  <2> QED BY <2>1, <2>7
<1>9. \A k \in 0..n : f[k] = e[k]
  <2> HIDE DEF f, e
  <2>1. GoAlike(n, f, e)
    BY <1>8 DEF GoAlike
  <2> QED BY <1>1, <1>7, <2>1, SameAlong
<1>10. n \in 0..n
  BY <1>1
<1>11. Len(Everyone(acc[n])) = Len(a[n]) /\ ToSet(Everyone(acc[n])) = ToSet(a[n])
  BY <1>9, <1>10
<1> QED BY <1>3, <1>4, <1>6, <1>10, <1>11

(* A merge plan has every team once, in a group of legal size or left over. *)
LEMMA MergePlanIsWhole ==
  ASSUME NEW B, SeedSet(B), NEW teams \in Seq(B), NEW low \in Nat, NEW high \in Nat, low <= high,
         BelowMinimum(teams, low), NEW wanted \in Nat
  PROVE  /\ PlanMerge(teams, low, high, wanted) \in Plans(B, low, high)
         /\ Len(Everyone(PlanMerge(teams, low, high, wanted))) = Len(teams)
         /\ ToSet(Everyone(PlanMerge(teams, low, high, wanted))) = ToSet(teams)
<1> DEFINE C == {x \in B : x.size \in 0..(low - 1)}
           aim == IF wanted \in low..high THEN wanted ELSE low
           sorted == LargestFirst(teams, low)
           packed == PackAll(sorted, high, aim)
<1>1. SeedSet(C) /\ (\A x \in C : x.size <= high) /\ aim \in Nat
  BY DEF SeedSet
<1>2. teams \in Seq(C)
  <2>1. \A i \in 1..Len(teams) : teams[i] \in C
    BY DEF BelowMinimum
  <2> HIDE DEF C
  <2> QED BY <2>1
<1>3. C \subseteq B
  OBVIOUS
<1> HIDE DEF C, aim, sorted, packed
<1>4. sorted \in Seq(C) /\ Len(sorted) = Len(teams) /\ ToSet(sorted) = ToSet(teams)
  BY <1>1, <1>2, Sorted DEF sorted
<1>5. /\ Packed(packed, C, high)
      /\ Len(FlattenSeq(packed)) = Len(teams)
      /\ ToSet(FlattenSeq(packed)) = ToSet(teams)
  BY <1>1, <1>4, PackedAll DEF packed
<1>6. PlanMerge(teams, low, high, wanted) = FoldAll(packed, low, high)
  BY DEF PlanMerge, FoldAll, packed, PackAll, sorted, aim, EmptyPlan
<1>7. /\ FoldAll(packed, low, high) \in Plans(C, low, high)
      /\ Len(Everyone(FoldAll(packed, low, high))) = Len(teams)
      /\ ToSet(Everyone(FoldAll(packed, low, high))) = ToSet(teams)
  BY <1>1, <1>5, FoldedAll
<1>8. Plans(C, low, high) \subseteq Plans(B, low, high)
  <2>1. Seq(C) \subseteq Seq(B)
    BY <1>3
  <2>2. Groups(C) \subseteq Groups(B)
    <3> DEFINE S == Seq(C)
               T == Seq(B)
    <3>1. S \subseteq T
      BY <2>1
    <3> HIDE DEF S, T
    <3>2. Seq(S) \subseteq Seq(T)
      BY <3>1
    <3> QED BY <3>2 DEF S, T, Groups
  <2> QED BY <2>1, <2>2 DEF Plans
<1> QED BY <1>6, <1>7, <1>8
-----------------------------------------------------------------------------
(* The lists of teams that PlanInit and PlanNext make. *)
PlanSeeds == [team : Nat, size : Nat]
PlanInv ==
  /\ lo \in Nat /\ hi \in Nat /\ target \in Nat /\ lo <= hi
  /\ seeds \in Seq(PlanSeeds) /\ BelowMinimum(seeds, lo)

LEMMA PlanInvInit == PlanInit => PlanInv
<1> SUFFICES ASSUME PlanInit PROVE PlanInv
  OBVIOUS
<1>1. lo \in Nat /\ hi \in Nat /\ target \in Nat /\ lo <= hi
  BY PlanAssumption DEF PlanInit
<1>2. seeds \in Seq(PlanSeeds) /\ Len(seeds) = 0
  BY DEF PlanInit
<1> QED BY <1>1, <1>2 DEF PlanInv, BelowMinimum

LEMMA PlanInvNext == PlanInv /\ [PlanNext]_planVars => PlanInv'
<1> SUFFICES ASSUME PlanInv, [PlanNext]_planVars PROVE PlanInv'
  OBVIOUS
<1>1. CASE UNCHANGED planVars
  BY <1>1 DEF PlanInv, planVars, BelowMinimum
<1>2. CASE PlanNext
  <2>1. PICK n \in 1..(lo - 1) : seeds' = Append(seeds, [team |-> Len(seeds) + 1, size |-> n])
    BY <1>2 DEF PlanNext
  <2>2. UNCHANGED <<lo, hi, target>>
    BY <1>2 DEF PlanNext
  <2> DEFINE x == [team |-> Len(seeds) + 1, size |-> n]
  <2>3. x \in PlanSeeds /\ x.size \in 0..(lo - 1)
    BY DEF PlanSeeds, PlanInv
  <2> HIDE DEF x
  <2>4. /\ seeds' \in Seq(PlanSeeds) /\ Len(seeds') = Len(seeds) + 1 /\ Len(seeds) \in Nat
        /\ seeds'[Len(seeds) + 1] = x /\ \A i \in 1..Len(seeds) : seeds'[i] = seeds[i]
    BY <2>1, <2>3 DEF x, PlanInv
  <2>5. ASSUME NEW i \in 1..Len(seeds') PROVE seeds'[i].size \in 0..(lo - 1)
    <3>1. i = Len(seeds) + 1 \/ i \in 1..Len(seeds)
      BY <2>4
    <3> QED BY <2>3, <2>4, <3>1 DEF PlanInv, BelowMinimum
  <2> QED BY <2>2, <2>4, <2>5 DEF PlanInv, BelowMinimum
<1> QED BY <1>1, <1>2

(* The merge plan is whole, for any bounds and any list of teams below the   *)
(* minimum: every merged group is of a legal size, and every team is in one  *)
(* of them or in the list handed back, and in one place only (project.go:    *)
(* PlanMerge).                                                               *)
THEOREM PlanStaysWhole == PlanInit /\ [][PlanNext]_planVars => []PlanIsWhole
<1>1. PlanInv => PlanIsWhole
  <2> SUFFICES ASSUME PlanInv PROVE PlanIsWhole
    OBVIOUS
  <2>1. SeedSet(PlanSeeds)
    BY DEF SeedSet, PlanSeeds
  <2>2. /\ Plan \in Plans(PlanSeeds, lo, hi)
        /\ Len(Everyone(Plan)) = Len(seeds) /\ ToSet(Everyone(Plan)) = ToSet(seeds)
    BY <2>1, MergePlanIsWhole DEF PlanInv, Plan
  <2> HIDE DEF Plan
  <2>3. Plan.groups \in Groups(PlanSeeds) /\ WithinBounds(Plan.groups, lo, hi)
    BY <2>2, PlanFields
  <2>4. ASSUME NEW i \in 1..Len(Plan.groups) PROVE GroupSize(Plan.groups[i]) \in lo..hi
    <3>1. Plan.groups[i] \in Seq(PlanSeeds)
      BY <2>3 DEF Groups
    <3>2. GroupSize(Plan.groups[i]) \in Nat
      BY <2>1, <3>1, SizeIsNat
    <3> QED BY <2>3, <3>2 DEF WithinBounds, PlanInv
  <2> QED BY <2>2, <2>4 DEF PlanIsWhole, Everyone
<1> QED BY <1>1, PlanInvInit, PlanInvNext, PTL

-----------------------------------------------------------------------------
(* The instance of ProjectGroups has operators of its own for what MergePlan *)
(* defines; they are the same.                                               *)
TeamworkPacked(seq, high, aim) ==
  Teamwork!FoldLeft(LAMBDA groups, x : Teamwork!Place(groups, x, high, aim), <<>>, seq)
TeamworkFolded(gs, low, high) ==
  Teamwork!FoldLeft(LAMBDA plan, g : Teamwork!Fold(plan, g, low, high), EmptyPlan, gs)

LEMMA TeamworkSize == \A g : Teamwork!GroupSize(g) = GroupSize(g)
BY SMT DEF Teamwork!GroupSize, GroupSize, Teamwork!FoldLeft, FoldLeft, Teamwork!MapThenFoldSet,
   MapThenFoldSet, Teamwork!Max, Max

LEMMA TeamworkMax == \A S : Teamwork!Max(S) = Max(S)
BY Zenon DEF Teamwork!Max, Max

LEMMA TeamworkDistance == \A a, b : Teamwork!Distance(a, b) = Distance(a, b)
BY Zenon DEF Teamwork!Distance, Distance

LEMMA TeamworkBetter ==
  \A a, b, c : Teamwork!BetterFill(a, b, c) <=> BetterFill(a, b, c)
BY TeamworkDistance, Zenon DEF Teamwork!BetterFill, BetterFill

LEMMA TeamworkPlace ==
  \A gs, x, high, aim : Teamwork!Place(gs, x, high, aim) = Place(gs, x, high, aim)
<1> SUFFICES ASSUME NEW gs, NEW x, NEW high, NEW aim
             PROVE  Teamwork!Place(gs, x, high, aim) = Place(gs, x, high, aim)
  OBVIOUS
<1> DEFINE fill(i) == GroupSize(gs[i]) + x.size
           room == {i \in 1..Len(gs) : fill(i) <= high}
           Best(i) == \A j \in room \ {i} : \/ BetterFill(fill(i), fill(j), aim)
                                            \/ fill(i) = fill(j) /\ i < j
           best == CHOOSE i \in room : Best(i)
           twFill(i) == Teamwork!GroupSize(gs[i]) + x.size
           twRoom == {i \in 1..Len(gs) : twFill(i) <= high}
           TwBest(i) == \A j \in twRoom \ {i} : \/ Teamwork!BetterFill(twFill(i), twFill(j), aim)
                                                \/ twFill(i) = twFill(j) /\ i < j
           twBest == CHOOSE i \in twRoom : TwBest(i)
<1>1. \A i : twFill(i) = fill(i)
  BY TeamworkSize
<1>2. twRoom = room
  <2> HIDE DEF fill, twFill
  <2> QED BY <1>1
<1>3. \A i : TwBest(i) <=> Best(i)
  <2> HIDE DEF fill, twFill, room, twRoom
  <2> QED BY <1>1, <1>2, TeamworkBetter
<1>4. twBest = best
  <2> HIDE DEF room, twRoom, Best, TwBest
  <2> QED BY <1>2, <1>3
<1>5. Place(gs, x, high, aim) = IF room # {} /\ GroupSize(gs[best]) < aim
        THEN [gs EXCEPT ![best] = Append(@, x)] ELSE Append(gs, <<x>>)
  BY Zenon DEF Place
<1>6. Teamwork!Place(gs, x, high, aim) = IF twRoom # {} /\ Teamwork!GroupSize(gs[twBest]) < aim
        THEN [gs EXCEPT ![twBest] = Append(@, x)] ELSE Append(gs, <<x>>)
  BY Zenon DEF Teamwork!Place
<1> HIDE DEF room, best, twRoom, twBest
<1> QED BY <1>2, <1>4, <1>5, <1>6, TeamworkSize

LEMMA TeamworkPack == \A s, high, aim : TeamworkPacked(s, high, aim) = PackAll(s, high, aim)
<1> SUFFICES ASSUME NEW s, NEW high, NEW aim
             PROVE  TeamworkPacked(s, high, aim) = PackAll(s, high, aim)
  OBVIOUS
<1> DEFINE R(it) == [t \in SUBSET (DOMAIN s) |->
                       IF t = {} THEN <<>> ELSE Place(it[t \ {Max(t)}], s[Max(t)], high, aim)]
           TwR(it) == [t \in SUBSET (DOMAIN s) |->
                         IF t = {} THEN <<>>
                         ELSE Teamwork!Place(it[t \ {Teamwork!Max(t)}], s[Teamwork!Max(t)], high, aim)]
<1>1. \A it : TwR(it) = R(it)
  BY TeamworkPlace, TeamworkMax
<1>2. PackAll(s, high, aim) = (CHOOSE it : it = R(it))[DOMAIN s]
  BY Zenon DEF PackAll, FoldLeft, MapThenFoldSet
<1>3. TeamworkPacked(s, high, aim) = (CHOOSE it : it = TwR(it))[DOMAIN s]
  BY Zenon DEF TeamworkPacked, Teamwork!FoldLeft, Teamwork!MapThenFoldSet
<1> HIDE DEF R, TwR
<1> QED BY <1>1, <1>2, <1>3

LEMMA TeamworkFold ==
  \A plan, g, low, high : Teamwork!Fold(plan, g, low, high) = Fold(plan, g, low, high)
<1> SUFFICES ASSUME NEW plan, NEW g, NEW low, NEW high
             PROVE  Teamwork!Fold(plan, g, low, high) = Fold(plan, g, low, high)
  OBVIOUS
<1> DEFINE room == {i \in 1..Len(plan.groups) : GroupSize(plan.groups[i]) + GroupSize(g) <= high}
           twRoom == {i \in 1..Len(plan.groups) :
                        Teamwork!GroupSize(plan.groups[i]) + Teamwork!GroupSize(g) <= high}
           Folds(places, size) ==
             LET first == CHOOSE i \in places : \A j \in places : i <= j
             IN  CASE size >= low -> [plan EXCEPT !.groups = Append(@, g)]
                   [] size < low /\ places # {} -> [plan EXCEPT !.groups[first] = @ \o g]
                   [] OTHER -> [plan EXCEPT !.unmerged = @ \o g]
<1>1. twRoom = room /\ Teamwork!GroupSize(g) = GroupSize(g)
  BY TeamworkSize
<1>2. Fold(plan, g, low, high) = Folds(room, GroupSize(g))
  BY Zenon DEF Fold
<1>3. Teamwork!Fold(plan, g, low, high) = Folds(twRoom, Teamwork!GroupSize(g))
  BY Zenon DEF Teamwork!Fold
<1> HIDE DEF room, twRoom, Folds
<1> QED BY <1>1, <1>2, <1>3

LEMMA TeamworkFoldAll == \A gs, low, high : TeamworkFolded(gs, low, high) = FoldAll(gs, low, high)
<1> SUFFICES ASSUME NEW gs, NEW low, NEW high
             PROVE  TeamworkFolded(gs, low, high) = FoldAll(gs, low, high)
  OBVIOUS
<1> DEFINE R(it) == [t \in SUBSET (DOMAIN gs) |->
                       IF t = {} THEN EmptyPlan ELSE Fold(it[t \ {Max(t)}], gs[Max(t)], low, high)]
           TwR(it) == [t \in SUBSET (DOMAIN gs) |->
                         IF t = {} THEN EmptyPlan
                         ELSE Teamwork!Fold(it[t \ {Teamwork!Max(t)}], gs[Teamwork!Max(t)], low, high)]
<1>1. \A it : TwR(it) = R(it)
  BY TeamworkFold, TeamworkMax
<1>2. FoldAll(gs, low, high) = (CHOOSE it : it = R(it))[DOMAIN gs]
  BY Zenon DEF FoldAll, FoldLeft, MapThenFoldSet
<1>3. TeamworkFolded(gs, low, high) = (CHOOSE it : it = TwR(it))[DOMAIN gs]
  BY Zenon DEF TeamworkFolded, Teamwork!FoldLeft, Teamwork!MapThenFoldSet
<1> HIDE DEF R, TwR
<1> QED BY <1>1, <1>2, <1>3

LEMMA TeamworkOnly == \A s, keep : Teamwork!Only(s, keep) = Only(s, keep)
BY Zenon DEF Teamwork!Only, Only, Teamwork!FoldLeft, FoldLeft, Teamwork!MapThenFoldSet,
   MapThenFoldSet, Teamwork!Max, Max

LEMMA TeamworkToSet == \A s : Teamwork!ToSet(s) = ToSet(s)
BY DEF Teamwork!ToSet, ToSet

LEMMA TeamworkCardinality == \A S : Teamwork!Cardinality(S) = Cardinality(S)
BY Zenon DEF Teamwork!Cardinality, Cardinality

LEMMA TeamworkFlatten == \A s : Teamwork!FlattenSeq(s) = FlattenSeq(s)
BY SMT DEF Teamwork!FlattenSeq, FlattenSeq, Teamwork!FoldLeft, FoldLeft,
   Teamwork!MapThenFoldSet, MapThenFoldSet, Teamwork!Max, Max

LEMMA TeamworkSorted == \A s, low : Teamwork!LargestFirst(s, low) = LargestFirst(s, low)
<1> SUFFICES ASSUME NEW s, NEW low
             PROVE  Teamwork!LargestFirst(s, low) = LargestFirst(s, low)
  OBVIOUS
<1>1. \A k : Teamwork!Only(s, {x \in Teamwork!ToSet(s) : x.size = low - k})
           = Only(s, {x \in ToSet(s) : x.size = low - k})
  BY TeamworkOnly, TeamworkToSet
<1> DEFINE sizes == [k \in 1..low |-> Only(s, {x \in ToSet(s) : x.size = low - k})]
<1>2. [k \in 1..low |-> Teamwork!Only(s, {x \in Teamwork!ToSet(s) : x.size = low - k})] = sizes
  BY <1>1
<1>3. Teamwork!LargestFirst(s, low) = Teamwork!FlattenSeq(sizes)
  BY <1>2 DEF Teamwork!LargestFirst
<1> QED BY <1>3, TeamworkFlatten DEF LargestFirst

(* A forming packs by the plan that is proved whole. *)
LEMMA TeamworkPlan ==
  \A s, low, high, wanted :
    Teamwork!PlanMerge(s, low, high, wanted) = PlanMerge(s, low, high, wanted)
<1>1. \A s, low, high, wanted : PlanMerge(s, low, high, wanted) =
        FoldAll(PackAll(LargestFirst(s, low), high, IF wanted \in low..high THEN wanted ELSE low), low, high)
  BY DEF PlanMerge, FoldAll, PackAll, EmptyPlan
<1>2. \A s, low, high, wanted : Teamwork!PlanMerge(s, low, high, wanted) =
        TeamworkFolded(TeamworkPacked(Teamwork!LargestFirst(s, low), high,
                                      IF wanted \in low..high THEN wanted ELSE low), low, high)
  BY DEF Teamwork!PlanMerge, TeamworkFolded, TeamworkPacked, EmptyPlan
<1> QED BY <1>1, <1>2, TeamworkSorted, TeamworkPack, TeamworkFoldAll

-----------------------------------------------------------------------------
(* A sequence, whatever is in it. *)
IsASeq(s) == s \in Seq(ToSet(s))

LEMMA SeqOfFunction ==
  ASSUME NEW n \in Nat, NEW f, f = [i \in 1..n |-> f[i]]
  PROVE  IsASeq(f) /\ Len(f) = n /\ DOMAIN f = 1..n
<1> DEFINE C == ToSet(f)
<1>1. DOMAIN f = 1..n
  OBVIOUS
<1>2. \A i \in 1..n : f[i] \in C
  BY <1>1 DEF ToSet
<1> HIDE DEF C
<1>3. f \in [1..n -> C]
  BY <1>2
<1>4. \A m \in Nat : \A s \in [1..m -> C] : s \in Seq(C) /\ Len(s) = m
  OBVIOUS
<1> QED BY <1>1, <1>3, <1>4 DEF IsASeq, C

LEMMA StaysInjective ==
  ASSUME NEW B, NEW old \in Seq(B), IsInjective(old), NEW x \in B, x \notin ToSet(old),
         NEW new, new = Append(old, x)
  PROVE  IsInjective(new)
<1> DEFINE n == Len(old)
<1>1. /\ DOMAIN new = 1..(n + 1) /\ new[n + 1] = x
      /\ n \in Nat /\ DOMAIN old = 1..n
      /\ \A i \in 1..n : new[i] = old[i]
  OBVIOUS
<1> HIDE DEF n
<1>2. \A i \in 1..(n + 1) : i = n + 1 \/ i \in 1..n
  BY <1>1
<1>3. \A i \in 1..n : old[i] # x
  BY <1>1 DEF ToSet
<1>4. \A i, j \in 1..n : old[i] = old[j] => i = j
  BY <1>1 DEF IsInjective
<1>5. \A i, j \in 1..(n + 1) : new[i] = new[j] => i = j
  BY <1>1, <1>2, <1>3, <1>4
<1>6. DOMAIN new = 1..(n + 1)
  BY <1>1
<1>7. \A i, j \in DOMAIN new : new[i] = new[j] => i = j
  BY <1>5, <1>6
<1> QED BY <1>7 DEF IsInjective

(* What is kept of a sequence without repetitions has none. *)
LEMMA OnlyInjective ==
  ASSUME NEW B, NEW seq \in Seq(B), IsInjective(seq), NEW keep
  PROVE  IsInjective(Only(seq, keep))
<1> DEFINE n == Len(seq)
<1>1. PICK a : OnlyTrace(a, B, seq, keep) /\ Only(seq, keep) = a[n]
  BY OnlyAlong
<1>2. n \in Nat /\ DOMAIN seq = 1..n /\ \A k \in 1..n : seq[k] \in B
  OBVIOUS
<1>3. /\ a \in [0..n -> Seq(B)] /\ a[0] = <<>>
      /\ \A k \in 1..n : a[k] = IF seq[k] \in keep THEN Append(a[k - 1], seq[k]) ELSE a[k - 1]
  BY <1>1 DEF OnlyTrace
<1>4. \A i, j \in 1..n : seq[i] = seq[j] => i = j
  BY <1>2 DEF IsInjective
<1> HIDE DEF n
<1> DEFINE S == {k \in Nat : k <= n => IsInjective(a[k]) /\ ToSet(a[k]) \subseteq {seq[i] : i \in 1..k}}
<1>5. 0 \in S
  BY <1>3, EmptySet DEF IsInjective
<1>6. ASSUME NEW k \in Nat, k \in S PROVE k + 1 \in S
  <2> SUFFICES ASSUME k + 1 <= n
               PROVE  IsInjective(a[k + 1]) /\ ToSet(a[k + 1]) \subseteq {seq[i] : i \in 1..(k + 1)}
    OBVIOUS
  <2>1. k \in 0..n /\ k + 1 \in 1..n /\ (k + 1) - 1 = k /\ k <= n
    BY <1>2
  <2> DEFINE old == a[k]
             x == seq[k + 1]
  <2>2. /\ old \in Seq(B) /\ x \in B /\ IsInjective(old) /\ ToSet(old) \subseteq {seq[i] : i \in 1..k}
        /\ a[k + 1] = IF x \in keep THEN Append(old, x) ELSE old
    BY <1>2, <1>3, <1>6, <2>1
  <2>3. x \notin ToSet(old)
    <3> SUFFICES ASSUME NEW i \in 1..k, seq[i] = seq[k + 1] PROVE FALSE
      BY <2>2
    <3>1. i \in 1..n /\ i # k + 1
      BY <1>2, <2>1
    <3> QED BY <1>4, <2>1, <3>1
  <2>4. {seq[i] : i \in 1..(k + 1)} = {seq[i] : i \in 1..k} \cup {x}
    <3>1. 1..(k + 1) = (1..k) \cup {k + 1}
      OBVIOUS
    <3> QED BY <3>1
  <2> HIDE DEF old, x
  <2>5. ToSet(Append(old, x)) = ToSet(old) \cup {x}
    BY <2>2, Appended
  <2>6. IsInjective(Append(old, x))
    <3> DEFINE new == Append(old, x)
    <3>1. new = Append(old, x)
      OBVIOUS
    <3>2. old \in Seq(B) /\ x \in B /\ IsInjective(old)
      BY <2>2
    <3> HIDE DEF new
    <3>3. IsInjective(new)
      BY <2>3, <3>1, <3>2, StaysInjective
    <3> QED BY <3>3 DEF new
  <2> QED BY <2>2, <2>4, <2>5, <2>6
<1>7. Nat \subseteq S
  <2> HIDE DEF S
  <2> QED BY <1>5, <1>6, UpFromZero
<1> QED BY <1>1, <1>2, <1>7

(* As many places for the same elements: then none is there twice. *)
LEMMA InjectiveBySize ==
  ASSUME NEW B, NEW s \in Seq(B), NEW t \in Seq(B), IsInjective(s),
         Len(t) = Len(s), ToSet(t) = ToSet(s)
  PROVE  IsInjective(t)
<1> DEFINE n == Len(s)
           T == ToSet(s)
<1>1. n \in Nat /\ DOMAIN s = 1..n /\ DOMAIN t = 1..n /\ s = [i \in 1..n |-> s[i]] /\ t = [i \in 1..n |-> t[i]]
  OBVIOUS
<1>2. T = {s[i] : i \in 1..n} /\ T = {t[i] : i \in 1..n}
  BY <1>1 DEF ToSet
<1> HIDE DEF n, T
<1>3. s \in Surjection(1..n, T) /\ t \in Surjection(1..n, T) /\ s \in Injection(1..n, T)
  BY <1>1, <1>2 DEF Surjection, Injection
<1>4. IsFiniteSet(1..n)
  BY <1>1, FS_Interval
<1>5. Cardinality(1..n) = Cardinality(T)
  BY <1>3, <1>4, FS_Surjection
<1>6. t \in Injection(1..n, T)
  BY <1>3, <1>4, <1>5, FS_SurjSameCardinalityImpliesInj
<1> QED BY <1>6 DEF Injection

-----------------------------------------------------------------------------
LEMMA SeqIsASeq ==
  ASSUME NEW B, NEW s \in Seq(B)
  PROVE  IsASeq(s) /\ Len(s) \in Nat /\ DOMAIN s = 1..Len(s)
<1>1. Len(s) \in Nat /\ DOMAIN s = 1..Len(s) /\ s = [i \in 1..Len(s) |-> s[i]]
  OBVIOUS
<1> DEFINE n == Len(s)
<1> HIDE DEF n
<1>2. n \in Nat /\ s = [i \in 1..n |-> s[i]]
  BY <1>1 DEF n
<1>3. IsASeq(s)
  BY <1>2, SeqOfFunction
<1> QED BY <1>1, <1>3

(* Registrations as a forming has read them: of teams, each once. *)
Roster(rs) ==
  /\ IsASeq(rs) /\ IsInjective(rs)
  /\ \A x \in ToSet(rs) : x.team \in File /\ x.size \in Nat
  /\ \A x, y \in ToSet(rs) : x.team = y.team => x = y

LEMMA OnlyRoster ==
  ASSUME NEW rs, Roster(rs), NEW keep
  PROVE  /\ Roster(Only(rs, keep)) /\ Only(rs, keep) \in Seq(ToSet(rs))
         /\ ToSet(Only(rs, keep)) = ToSet(rs) \cap keep
<1>1. rs \in Seq(ToSet(rs)) /\ IsInjective(rs)
  BY DEF Roster, IsASeq
<1>2. Only(rs, keep) \in Seq(ToSet(rs)) /\ ToSet(Only(rs, keep)) = ToSet(rs) \cap keep
  BY <1>1, OnlySet
<1>3. IsInjective(Only(rs, keep))
  BY <1>1, OnlyInjective
<1>4. IsASeq(Only(rs, keep))
  BY <1>2, SeqIsASeq
<1> QED BY <1>2, <1>3, <1>4 DEF Roster

(* What the rows of the teams are relied on for. *)
TeamsSound ==
  /\ IsASeq(regs) /\ IsInjective(regs) /\ ToSet(regs) \subseteq File
  /\ member = [t \in File |-> member[t]]
  /\ \A t \in File : IsFiniteSet(member[t])

LEMMA UnfrozenRoster ==
  ASSUME TeamsSound
  PROVE  /\ Roster(Teamwork!UnfrozenRegs)
         /\ \A x \in ToSet(Teamwork!UnfrozenRegs) : x.team \in ToSet(regs) /\ ~ Teamwork!Frozen(x.team)
<1> DEFINE open == Only(regs, {t \in File : ~ Teamwork!Frozen(t)})
           read(t) == [team |-> t, size |-> Teamwork!Cardinality(member[t]), leader |-> team[t].leader]
           rs == Teamwork!UnfrozenRegs
           n == Len(open)
<1>1. /\ open \in Seq(ToSet(regs)) /\ IsInjective(open)
      /\ ToSet(open) = ToSet(regs) \cap {t \in File : ~ Teamwork!Frozen(t)}
  BY OnlySet, OnlyInjective DEF TeamsSound, IsASeq
<1>2. n \in Nat /\ DOMAIN open = 1..n
  BY <1>1
<1>3. rs = [i \in 1..n |-> read(open[i])]
  <2> DEFINE same == Teamwork!Only(regs, {t \in File : ~ Teamwork!Frozen(t)})
  <2>1. rs = [i \in DOMAIN same |-> read(same[i])]
    BY DEF Teamwork!UnfrozenRegs
  <2>2. same = open
    BY TeamworkOnly
  <2> HIDE DEF same, open, n, rs, read
  <2> QED BY <1>2, <2>1, <2>2
<1>4. \A t : read(t).team = t /\ read(t).size = Cardinality(member[t])
  BY TeamworkCardinality
<1>5. \A i \in 1..n : open[i] \in ToSet(regs) /\ open[i] \in File /\ ~ Teamwork!Frozen(open[i])
  BY <1>1, <1>2 DEF ToSet
<1>6. \A i, j \in 1..n : open[i] = open[j] => i = j
  BY <1>1, <1>2 DEF IsInjective
<1> HIDE DEF open, read, rs, n
<1>7. rs = [i \in 1..n |-> rs[i]] /\ DOMAIN rs = 1..n /\ \A i \in 1..n : rs[i] = read(open[i])
  BY <1>3
<1>8. IsASeq(rs)
  BY <1>2, <1>7, SeqOfFunction
<1>9. IsInjective(rs)
  BY <1>4, <1>6, <1>7 DEF IsInjective
<1>10. ToSet(rs) = {rs[i] : i \in 1..n}
  BY <1>7 DEF ToSet
<1>11. ASSUME NEW x \in ToSet(rs)
       PROVE  x.team \in ToSet(regs) /\ x.team \in File /\ ~ Teamwork!Frozen(x.team) /\ x.size \in Nat
  <2>1. PICK i \in 1..n : x = read(open[i])
    BY <1>7, <1>10
  <2>2. x.team = open[i] /\ x.size = Cardinality(member[open[i]])
    BY <1>4, <2>1
  <2>3. open[i] \in File /\ IsFiniteSet(member[open[i]])
    BY <1>5 DEF TeamsSound
  <2>4. Cardinality(member[open[i]]) \in Nat
    BY <2>3, FS_CardinalityType
  <2> QED BY <1>5, <2>2, <2>4
<1>12. ASSUME NEW x \in ToSet(rs), NEW y \in ToSet(rs), x.team = y.team PROVE x = y
  <2>1. PICK i \in 1..n : x = read(open[i])
    BY <1>7, <1>10
  <2>2. PICK j \in 1..n : y = read(open[j])
    BY <1>7, <1>10
  <2>3. x.team = open[i] /\ y.team = open[j]
    BY <1>4, <2>1, <2>2
  <2>4. open[i] = open[j]
    BY <1>12, <2>3
  <2> QED BY <2>1, <2>2, <2>4
<1> QED BY <1>8, <1>9, <1>11, <1>12 DEF Roster, rs

-----------------------------------------------------------------------------
(* Each team on its own. *)
Singles(s) == [i \in DOMAIN s |-> <<s[i]>>]

LEMMA SinglesOf ==
  ASSUME NEW B, NEW s \in Seq(B)
  PROVE  /\ Singles(s) \in Groups(B) /\ Len(Singles(s)) = Len(s) /\ Len(s) \in Nat
         /\ \A i \in 1..Len(s) : Singles(s)[i] = <<s[i]>> /\ s[i] \in B
<1> DEFINE n == Len(s)
           S == Seq(B)
<1>1. n \in Nat /\ DOMAIN s = 1..n /\ \A i \in 1..n : s[i] \in B
  OBVIOUS
<1>2. \A i \in 1..n : <<s[i]>> \in S
  BY <1>1
<1>3. Singles(s) = [i \in 1..n |-> <<s[i]>>]
  BY <1>1 DEF Singles
<1> HIDE DEF n, S
<1>4. Singles(s) \in [1..n -> S] /\ \A i \in 1..n : Singles(s)[i] = <<s[i]>>
  BY <1>2, <1>3
<1>5. \A m \in Nat : \A t \in [1..m -> S] : t \in Seq(S) /\ Len(t) = m
  OBVIOUS
<1> QED BY <1>1, <1>4, <1>5 DEF Groups, S, n

(* No element is in two places. *)
Distinct(gs) ==
  \A i, h \in 1..Len(gs) : \A j \in 1..Len(gs[i]), l \in 1..Len(gs[h]) :
    gs[i][j] = gs[h][l] => i = h /\ j = l

LEMMA MergedDistinct ==
  ASSUME NEW B, SeedSet(B), NEW teams \in Seq(B), IsInjective(teams),
         NEW low \in Nat, NEW high \in Nat, low <= high,
         BelowMinimum(teams, low), NEW wanted \in Nat
  PROVE  LET gs == PlanMerge(teams, low, high, wanted).groups
         IN  /\ gs \in Groups(B) /\ WithinBounds(gs, low, high) /\ Distinct(gs)
             /\ \A i \in 1..Len(gs) : \A j \in 1..Len(gs[i]) : gs[i][j] \in ToSet(teams)
<1> DEFINE plan == PlanMerge(teams, low, high, wanted)
           gs == plan.groups
           flat == FlattenSeq(gs)
           all == Everyone(plan)
<1>1. plan \in Plans(B, low, high) /\ Len(all) = Len(teams) /\ ToSet(all) = ToSet(teams)
  BY MergePlanIsWhole
<1> HIDE DEF plan
<1>2. gs \in Groups(B) /\ plan.unmerged \in Seq(B) /\ WithinBounds(gs, low, high) /\ flat \in Seq(B)
  BY <1>1, PlanFields
<1>3. all = flat \o plan.unmerged
  BY DEF Everyone
<1> DEFINE loose == plan.unmerged
<1> HIDE DEF gs, flat, all, loose
<1>4. all \in Seq(B) /\ ToSet(all) = ToSet(flat) \cup ToSet(loose)
  BY <1>2, <1>3, SetOfJoined DEF loose
<1>5. IsInjective(all)
  BY <1>1, <1>4, InjectiveBySize
<1>6. /\ DOMAIN flat = 1..Len(flat) /\ DOMAIN all = 1..Len(all) /\ Len(flat) \in Nat
      /\ Len(all) = Len(flat) + Len(loose) /\ Len(loose) \in Nat
      /\ \A k \in 1..Len(flat) : all[k] = flat[k]
  BY <1>2, <1>3, Joined DEF loose
<1>7. IsInjective(flat)
  <2>1. \A k \in 1..Len(flat) : k \in 1..Len(all)
    BY <1>6
  <2> QED BY <1>5, <1>6, <2>1 DEF IsInjective
<1>8. Distinct(gs)
  BY <1>2, <1>7, JoinDistinct DEF Distinct, flat
<1>9. ASSUME NEW i \in 1..Len(gs), NEW j \in 1..Len(gs[i]) PROVE gs[i][j] \in ToSet(teams)
  <2>1. ToSet(flat) = UNION {ToSet(gs[h]) : h \in 1..Len(gs)}
    BY <1>2, JoinSet DEF flat
  <2>2. gs[i] \in Seq(B)
    BY <1>2 DEF Groups
  <2>3. gs[i][j] \in ToSet(gs[i])
    BY <2>2 DEF ToSet
  <2> QED BY <1>1, <1>4, <2>1, <2>3
<1> QED BY <1>2, <1>8, <1>9 DEF gs, plan

-----------------------------------------------------------------------------
(* The teams of each group that a forming makes. *)
FittingOf(f) == Only(f.regs, {r \in ToSet(f.regs) : r.size \in f.lo..f.hi})
SmallOf(f) == Only(f.regs, {r \in ToSet(f.regs) : r.size < f.lo})
MergedOf(f) == PlanMerge(SmallOf(f), f.lo, f.hi, IF f.target = 0 THEN f.lo ELSE f.target).groups
PartsOf(f) == Singles(FittingOf(f)) \o MergedOf(f)

(* Parts of a list of teams: of legal size, no team in two places, and all   *)
(* the fitting teams are in.                                                 *)
Parted(ps, rs, low, high) ==
  /\ ps \in Groups(ToSet(rs)) /\ WithinBounds(ps, low, high) /\ Distinct(ps)
  /\ \A x \in ToSet(rs) : x.size \in low..high => \E i \in 1..Len(ps) : ps[i] = <<x>>

(* What a forming in flight relies on. *)
FormSound(f) ==
  /\ f = [op |-> f.op, regs |-> f.regs, lo |-> f.lo, hi |-> f.hi, target |-> f.target]
  /\ Roster(f.regs)
  /\ f.lo \in Nat /\ f.hi \in Nat /\ f.target \in Nat
  /\ 1 <= f.lo /\ f.lo <= f.hi

LEMMA FormingParts ==
  ASSUME NEW f, FormSound(f)
  PROVE  /\ Parted(PartsOf(f), f.regs, f.lo, f.hi)
         /\ FittingOf(f) \in Seq(ToSet(f.regs)) /\ MergedOf(f) \in Groups(ToSet(f.regs))
<1> DEFINE B == ToSet(f.regs)
           low == f.lo
           high == f.hi
           fit == FittingOf(f)
           small == SmallOf(f)
           one == Singles(fit)
           gs == MergedOf(f)
           ps == PartsOf(f)
<1>1. low \in Nat /\ high \in Nat /\ f.target \in Nat /\ low <= high
  BY DEF FormSound
<1>2. SeedSet(B)
  BY DEF FormSound, Roster, SeedSet
<1>3. fit \in Seq(B) /\ IsInjective(fit) /\ ToSet(fit) = {r \in B : r.size \in low..high}
  BY OnlyRoster DEF FormSound, FittingOf, Roster
<1>4. small \in Seq(B) /\ IsInjective(small) /\ ToSet(small) = {r \in B : r.size < low}
  BY OnlyRoster DEF FormSound, SmallOf, Roster
<1> HIDE DEF B, low, high, fit, small
<1>5. BelowMinimum(small, low)
  <2> SUFFICES ASSUME NEW i \in 1..Len(small) PROVE small[i].size \in 0..(low - 1)
    BY DEF BelowMinimum
  <2>1. small[i] \in ToSet(small)
    BY <1>4 DEF ToSet
  <2>2. small[i].size \in Nat /\ small[i].size < low
    BY <1>2, <1>4, <2>1 DEF SeedSet
  <2> QED BY <1>1, <2>2
<1>6. /\ one \in Groups(B) /\ Len(one) = Len(fit) /\ Len(fit) \in Nat
      /\ \A i \in 1..Len(fit) : one[i] = <<fit[i]>> /\ fit[i] \in B
  BY <1>3, SinglesOf
<1> DEFINE wanted == IF f.target = 0 THEN low ELSE f.target
<1>7. wanted \in Nat
  BY <1>1
<1>8. gs = PlanMerge(small, low, high, wanted).groups
  BY DEF MergedOf, low, high, small
<1> HIDE DEF wanted, gs
<1>9. /\ gs \in Groups(B) /\ WithinBounds(gs, low, high) /\ Distinct(gs)
      /\ \A i \in 1..Len(gs) : \A j \in 1..Len(gs[i]) : gs[i][j] \in ToSet(small)
  BY <1>1, <1>2, <1>4, <1>5, <1>7, <1>8, MergedDistinct
<1>10. ps = one \o gs
  BY DEF PartsOf, fit, gs
<1> HIDE DEF one, ps
<1> DEFINE m == Len(one)
           k == Len(gs)
<1>11. /\ ps \in Groups(B) /\ Len(ps) = m + k /\ m \in Nat /\ k \in Nat
       /\ \A i \in 1..m : ps[i] = one[i]
       /\ \A i \in 1..k : ps[m + i] = gs[i]
  <2> DEFINE S == Seq(B)
  <2>1. one \in Seq(S) /\ gs \in Seq(S)
    BY <1>6, <1>9 DEF Groups
  <2> HIDE DEF S
  <2>2. /\ ps \in Seq(S) /\ Len(ps) = m + k /\ m \in Nat /\ k \in Nat
        /\ \A i \in 1..m : ps[i] = one[i]
        /\ \A i \in 1..k : ps[m + i] = gs[i]
    BY <1>10, <2>1, Joined
  <2> QED BY <2>2 DEF Groups, S
<1>12. m = Len(fit)
  BY <1>6
<1> HIDE DEF m, k
<1>13. ASSUME NEW i \in 1..Len(ps)
       PROVE  \/ i \in 1..m /\ ps[i] = <<fit[i]>> /\ fit[i] \in ToSet(fit)
              \/ \E j \in 1..k : i = m + j /\ ps[i] = gs[j]
  <2>1. CASE i \in 1..m
    <3>1. fit[i] \in ToSet(fit)
      BY <1>3, <1>12, <2>1 DEF ToSet
    <3> QED BY <1>6, <1>11, <1>12, <2>1, <3>1
  <2>2. CASE i \notin 1..m
    <3>1. i - m \in 1..k /\ i = m + (i - m)
      BY <1>11, <2>2
    <3> QED BY <1>11, <3>1
  <2> QED BY <2>1, <2>2
<1>14. WithinBounds(ps, low, high)
  <2> SUFFICES ASSUME NEW i \in 1..Len(ps)
               PROVE  ps[i] # <<>> /\ GroupSize(ps[i]) >= low /\ GroupSize(ps[i]) <= high
    BY DEF WithinBounds
  <2>1. CASE ps[i] = <<fit[i]>> /\ fit[i] \in ToSet(fit)
    <3>1. fit[i] \in B /\ fit[i].size \in low..high
      BY <1>3, <2>1
    <3>2. GroupSize(<<fit[i]>>) = fit[i].size
      BY <1>2, <3>1, SizeOfOne
    <3> QED BY <1>1, <2>1, <3>1, <3>2
  <2>2. ASSUME NEW j \in 1..k, ps[i] = gs[j]
        PROVE  ps[i] # <<>> /\ GroupSize(ps[i]) >= low /\ GroupSize(ps[i]) <= high
    BY <1>9, <2>2 DEF WithinBounds, k
  <2> QED BY <1>13, <2>1, <2>2
<1>15. Distinct(ps)
  <2> SUFFICES ASSUME NEW i \in 1..Len(ps), NEW h \in 1..Len(ps),
                      NEW j \in 1..Len(ps[i]), NEW l \in 1..Len(ps[h]), ps[i][j] = ps[h][l]
               PROVE  i = h /\ j = l
    BY DEF Distinct
  <2>1. \A x \in ToSet(fit) : x \notin ToSet(small)
    <3> SUFFICES ASSUME NEW x \in ToSet(fit), x \in ToSet(small) PROVE FALSE
      OBVIOUS
    <3>1. x.size \in low..high /\ x.size < low
      BY <1>3, <1>4
    <3> QED BY <1>1, <3>1
  <2>2. \A x, y : Len(<<x>>) = 1 /\ <<x>>[1] = x
    OBVIOUS
  <2>3. ASSUME NEW a \in 1..Len(ps), NEW b \in 1..Len(ps[a])
        PROVE  \/ a \in 1..m /\ b = 1 /\ ps[a][b] = fit[a] /\ ps[a][b] \notin ToSet(small)
               \/ /\ ps[a][b] \in ToSet(small)
                  /\ \E c \in 1..k : a = m + c /\ ps[a] = gs[c]
    <3>1. CASE a \in 1..m /\ ps[a] = <<fit[a]>> /\ fit[a] \in ToSet(fit)
      BY <2>1, <2>2, <3>1
    <3>2. ASSUME NEW c \in 1..k, a = m + c, ps[a] = gs[c]
          PROVE  ps[a][b] \in ToSet(small)
      BY <1>9, <3>2 DEF k
    <3> QED BY <1>13, <3>1, <3>2
  <2>4. CASE ps[i][j] \in ToSet(small)
    <3>1. PICK a \in 1..k : i = m + a /\ ps[i] = gs[a]
      BY <2>3, <2>4
    <3>2. PICK b \in 1..k : h = m + b /\ ps[h] = gs[b]
      BY <2>3, <2>4
    <3>3. a = b /\ j = l
      BY <1>9, <3>1, <3>2 DEF Distinct, k
    <3> QED BY <3>1, <3>2, <3>3
  <2>5. CASE ps[i][j] \notin ToSet(small)
    <3>1. i \in 1..m /\ h \in 1..m /\ j = 1 /\ l = 1 /\ fit[i] = fit[h]
      BY <2>3, <2>5
    <3>2. DOMAIN fit = 1..m
      BY <1>3, <1>12
    <3> QED BY <1>3, <3>1, <3>2 DEF IsInjective
  <2> QED BY <2>4, <2>5
<1>16. ASSUME NEW x \in B, x.size \in low..high PROVE \E i \in 1..Len(ps) : ps[i] = <<x>>
  <2>1. x \in ToSet(fit)
    BY <1>3, <1>16
  <2>2. PICK i \in 1..m : x = fit[i]
    BY <1>3, <1>12, <2>1 DEF ToSet
  <2>3. i \in 1..Len(ps)
    BY <1>11, <2>2
  <2> QED BY <1>6, <1>11, <1>12, <2>2, <2>3
<1> QED BY <1>3, <1>9, <1>11, <1>14, <1>15, <1>16 DEF Parted, ps, B, low, high, fit, gs

LEMMA SeqInLarger ==
  ASSUME NEW s, IsASeq(s), NEW C, ToSet(s) \subseteq C
  PROVE  s \in Seq(C)
BY DEF IsASeq

LEMMA JoinedAs ==
  ASSUME NEW B, NEW s \in Seq(B), NEW t \in Seq(B), NEW d, d = s \o t
  PROVE  /\ Len(d) = Len(s) + Len(t) /\ d \in Seq(B)
         /\ Len(s) \in Nat /\ Len(t) \in Nat
         /\ DOMAIN d = 1..Len(d) /\ DOMAIN s = 1..Len(s) /\ DOMAIN t = 1..Len(t)
         /\ \A i \in 1..Len(s) : d[i] = s[i]
         /\ \A i \in 1..Len(t) : d[Len(s) + i] = t[i]
OBVIOUS

Mapping(f, D) == f = [i \in D |-> f[i]]
Matches(f, D, g, n) == \A i \in D : f[i] = g[n + i]

(* A function of the elements, of two sequences joined. *)
LEMMA JoinedMap ==
  ASSUME NEW S, NEW s \in Seq(S), NEW t \in Seq(S), NEW a, NEW b, NEW c,
         Mapping(a, DOMAIN s), Mapping(b, DOMAIN t), Mapping(c, 1..Len(s \o t)),
         Matches(a, DOMAIN s, c, 0), Matches(b, DOMAIN t, c, Len(s))
  PROVE  a \o b = c
<1> DEFINE m == Len(s)
           k == Len(t)
           C == ToSet(a) \cup ToSet(b)
<1>1. /\ m \in Nat /\ k \in Nat /\ DOMAIN s = 1..m /\ DOMAIN t = 1..k
      /\ Len(s \o t) = m + k
  BY Joined
<1> HIDE DEF m, k
<1>2. IsASeq(a) /\ Len(a) = m /\ IsASeq(b) /\ Len(b) = k
  BY <1>1, SeqOfFunction DEF Mapping
<1>3. a \in Seq(C) /\ b \in Seq(C)
  <2>1. ToSet(a) \subseteq C /\ ToSet(b) \subseteq C
    OBVIOUS
  <2> HIDE DEF C
  <2> QED BY <1>2, <2>1, SeqInLarger
<1> HIDE DEF C
<1> DEFINE d == a \o b
<1>0. d = a \o b
  OBVIOUS
<1> HIDE DEF d
<1>4. /\ d \in Seq(C) /\ Len(d) = m + k
      /\ \A i \in 1..m : d[i] = a[i]
      /\ \A i \in 1..k : d[m + i] = b[i]
      /\ DOMAIN d = 1..(m + k)
  <2>1. /\ Len(d) = Len(a) + Len(b) /\ d \in Seq(C) /\ DOMAIN d = 1..Len(d)
        /\ \A i \in 1..Len(a) : d[i] = a[i]
        /\ \A i \in 1..Len(b) : d[Len(a) + i] = b[i]
    BY <1>0, <1>3, JoinedAs
  <2> QED BY <1>2, <2>1
<1>5. d = [i \in 1..(m + k) |-> d[i]]
  BY <1>4
<1>6. ASSUME NEW i \in 1..(m + k) PROVE d[i] = c[i]
  <2>1. CASE i \in 1..m
    <3>1. 0 + i = i
      BY <1>1, <2>1
    <3> QED BY <1>1, <1>4, <2>1, <3>1 DEF Matches
  <2>2. CASE i \notin 1..m
    <3>1. i - m \in 1..k /\ m + (i - m) = i
      BY <1>1, <2>2
    <3> QED BY <1>1, <1>4, <3>1 DEF m, Matches
  <2> QED BY <2>1, <2>2
<1> QED BY <1>1, <1>5, <1>6 DEF d, Mapping

(* The groups that a forming makes, part by part. *)
LEMMA GroupsOfParts ==
  ASSUME NEW f, FormSound(f)
  PROVE  /\ Len(PartsOf(f)) \in Nat
         /\ Teamwork!NewGroups(f) = [i \in 1..Len(PartsOf(f)) |-> Teamwork!NewGroup(PartsOf(f)[i])]
<1> DEFINE B == ToSet(f.regs)
           fit == FittingOf(f)
           gs == MergedOf(f)
           one == Singles(fit)
           ps == PartsOf(f)
           new(p) == Teamwork!NewGroup(p)
           made == [i \in DOMAIN fit |-> new(<<fit[i]>>)]
           merged == [i \in DOMAIN gs |-> new(gs[i])]
           all == [i \in 1..Len(ps) |-> new(ps[i])]
<1>1. Teamwork!NewGroups(f) = made \o merged
  <2> DEFINE fit2 == Teamwork!Only(f.regs, {r \in Teamwork!ToSet(f.regs) : r.size \in f.lo..f.hi})
             small2 == Teamwork!Only(f.regs, {r \in Teamwork!ToSet(f.regs) : r.size < f.lo})
             gs2 == Teamwork!PlanMerge(small2, f.lo, f.hi, IF f.target = 0 THEN f.lo ELSE f.target).groups
  <2>1. fit2 = fit
    BY TeamworkOnly, TeamworkToSet DEF FittingOf
  <2>2. small2 = SmallOf(f)
    BY TeamworkOnly, TeamworkToSet DEF SmallOf
  <2>3. gs2 = gs
    <3> DEFINE wanted == IF f.target = 0 THEN f.lo ELSE f.target
    <3>1. gs2 = Teamwork!PlanMerge(small2, f.lo, f.hi, wanted).groups
      OBVIOUS
    <3>2. gs = PlanMerge(SmallOf(f), f.lo, f.hi, wanted).groups
      BY DEF MergedOf
    <3> HIDE DEF small2, gs2, gs, wanted
    <3> QED BY <2>2, <3>1, <3>2, TeamworkPlan
  <2>4. Teamwork!NewGroups(f) = [i \in DOMAIN fit2 |-> new(<<fit2[i]>>)] \o [i \in DOMAIN gs2 |-> new(gs2[i])]
    BY Zenon DEF Teamwork!NewGroups
  <2> HIDE DEF fit2, small2, gs2, fit, gs, new
  <2> QED BY <2>1, <2>3, <2>4
<1>2. ps = one \o gs /\ ps \in Groups(B)
  BY FormingParts DEF PartsOf, Parted
<1>3. fit \in Seq(B) /\ gs \in Groups(B)
  BY FormingParts
<1> HIDE DEF B, fit, gs, ps, new
<1> DEFINE S == Seq(B)
<1>4. Len(one) = Len(fit) /\ \A i \in 1..Len(fit) : one[i] = <<fit[i]>>
  BY <1>3, SinglesOf
<1>15. one \in Seq(S)
  BY <1>3, SinglesOf DEF Groups
<1>5. gs \in Seq(S)
  BY <1>3 DEF Groups
<1>6. DOMAIN fit = DOMAIN one /\ DOMAIN one = 1..Len(one)
  BY <1>3, <1>4, <1>15
<1> HIDE DEF S, one
<1> DEFINE d == one \o gs
<1>0. d = one \o gs
  OBVIOUS
<1> HIDE DEF d
<1>7. /\ Len(d) = Len(one) + Len(gs) /\ Len(one) \in Nat /\ Len(gs) \in Nat
      /\ DOMAIN one = 1..Len(one) /\ DOMAIN gs = 1..Len(gs)
      /\ \A i \in 1..Len(one) : d[i] = one[i]
      /\ \A i \in 1..Len(gs) : d[Len(one) + i] = gs[i]
  BY <1>0, <1>15, <1>5, JoinedAs
<1>8. \A i \in DOMAIN one : made[i] = all[i]
  <2> SUFFICES ASSUME NEW i \in DOMAIN one PROVE made[i] = all[i]
    OBVIOUS
  <2>1. i \in 1..Len(ps) /\ i \in DOMAIN fit /\ ps[i] = <<fit[i]>>
    BY <1>0, <1>2, <1>4, <1>6, <1>7
  <2> QED BY <2>1
<1>9. \A i \in DOMAIN gs : merged[i] = all[Len(one) + i]
  <2> SUFFICES ASSUME NEW i \in DOMAIN gs PROVE merged[i] = all[Len(one) + i]
    OBVIOUS
  <2>1. Len(one) + i \in 1..Len(ps) /\ ps[Len(one) + i] = gs[i]
    BY <1>0, <1>2, <1>7
  <2> QED BY <2>1
<1>10. Mapping(made, DOMAIN one)
  BY <1>6 DEF Mapping
<1>11. Mapping(merged, DOMAIN gs)
  BY DEF Mapping
<1>12. Mapping(all, 1..Len(one \o gs))
  BY <1>2 DEF Mapping
<1>13. Len(ps) \in Nat
  BY <1>0, <1>2, <1>7
<1>16. Matches(made, DOMAIN one, all, 0)
  <2>1. \A i \in DOMAIN one : 0 + i = i
    BY <1>7
  <2> HIDE DEF made, all
  <2> QED BY <1>8, <2>1 DEF Matches
<1> HIDE DEF made, merged, all
<1>17. Matches(merged, DOMAIN gs, all, Len(one))
  BY <1>9 DEF Matches
<1>14. made \o merged = all
  BY <1>15, <1>5, <1>10, <1>11, <1>12, <1>16, <1>17, JoinedMap
<1> QED BY <1>1, <1>13, <1>14 DEF all, ps, new

-----------------------------------------------------------------------------
(* The rows of a group, and those that one of its teams brings. *)
Brought(r) == {<<s, r.team>> : s \in member[r.team]}
RowsOf(p) == UNION {Brought(r) : r \in ToSet(p)}

LEMMA NewGroupRows ==
  ASSUME NEW p
  PROVE  \E l : Teamwork!NewGroup(p) = [leader |-> l, rows |-> RowsOf(p)]
<1>1. Teamwork!ToSet(p) = ToSet(p)
  BY TeamworkToSet
<1> DEFINE all == UNION {{<<s, r.team>> : s \in member[r.team]} : r \in Teamwork!ToSet(p)}
           first == CHOOSE i \in DOMAIN p : \A j \in DOMAIN p :
                      p[j].size < p[i].size \/ (p[j].size = p[i].size /\ i <= j)
<1>2. Teamwork!NewGroup(p) = [leader |-> p[first].leader, rows |-> all]
  BY DEF Teamwork!NewGroup
<1>3. all = RowsOf(p)
  BY <1>1 DEF RowsOf, Brought
<1> HIDE DEF all, first
<1> QED BY <1>2, <1>3

LEMMA RowOfOne ==
  ASSUME NEW p, NEW x \in RowsOf(p)
  PROVE  \E r \in ToSet(p) : \E s \in member[r.team] : x = <<s, r.team>>
BY DEF RowsOf, Brought

(* The leader of a new group leads one of its teams. *)
LEMMA NewGroupLeader ==
  ASSUME NEW B, SeedSet(B), NEW p \in Seq(B), p # <<>>
  PROVE  \E r \in ToSet(p) : Teamwork!NewGroup(p).leader = r.leader
<1> DEFINE n == Len(p)
           Largest(i, k) == \A j \in 1..k : p[j].size < p[i].size \/ (p[j].size = p[i].size /\ i <= j)
           S == {k \in Nat : k \in 1..n => \E i \in 1..k : Largest(i, k)}
<1>1. n \in Nat /\ n >= 1 /\ DOMAIN p = 1..n /\ \A i \in 1..n : p[i] \in B /\ p[i].size \in Nat
  BY DEF SeedSet
<1> HIDE DEF n
<1>2. 0 \in S
  OBVIOUS
<1>3. ASSUME NEW k \in Nat, k \in S PROVE k + 1 \in S
  <2> SUFFICES ASSUME k + 1 \in 1..n PROVE \E i \in 1..(k + 1) : Largest(i, k + 1)
    OBVIOUS
  <2> DEFINE new == p[k + 1].size
  <2>1. new \in Nat
    BY <1>1
  <2>2. \A j \in 1..(k + 1) : j = k + 1 \/ j \in 1..k
    OBVIOUS
  <2>3. CASE k = 0
    <3>1. Largest(1, 1)
      OBVIOUS
    <3> QED BY <2>3, <3>1
  <2>4. CASE k # 0
    <3>1. k \in 1..n
      BY <1>1, <2>4
    <3>2. PICK i \in 1..k : Largest(i, k)
      BY <1>3, <3>1
    <3> DEFINE old == p[i].size
    <3>3. old \in Nat /\ i \in 1..(k + 1) /\ i <= k + 1
      BY <1>1, <3>1
    <3>4. \A j \in 1..k : p[j].size \in Nat
      BY <1>1, <3>1
    <3>5. \A j \in 1..k : p[j].size < old \/ (p[j].size = old /\ i <= j)
      BY <3>2
    <3> HIDE DEF new, old
    <3>6. CASE old < new
      <4>1. \A j \in 1..(k + 1) : p[j].size < new \/ (p[j].size = new /\ k + 1 <= j)
        <5>1. \A j \in 1..k : p[j].size < new
          BY <2>1, <3>3, <3>4, <3>5, <3>6
        <5>2. p[k + 1].size = new
          BY DEF new
        <5> QED BY <2>2, <5>1, <5>2
      <4> QED BY <4>1 DEF new
    <3>7. CASE ~ (old < new)
      <4>1. \A j \in 1..(k + 1) : p[j].size < old \/ (p[j].size = old /\ i <= j)
        <5>1. p[k + 1].size = new
          BY DEF new
        <5> QED BY <2>1, <2>2, <3>3, <3>5, <3>7, <5>1
      <4>2. Largest(i, k + 1)
        BY <4>1 DEF old
      <4> QED BY <3>3, <4>2
    <3> QED BY <3>6, <3>7
  <2> QED BY <2>3, <2>4
<1>4. Nat \subseteq S
  <2> HIDE DEF S
  <2> QED BY <1>2, <1>3, UpFromZero
<1>5. \E i \in 1..n : Largest(i, n)
  <2>1. n \in S
    <3> HIDE DEF S
    <3> QED BY <1>1, <1>4
  <2>2. n \in 1..n
    BY <1>1
  <2> HIDE DEF Largest
  <2> QED BY <2>1, <2>2
<1> DEFINE first == CHOOSE i \in DOMAIN p : \A j \in DOMAIN p :
                      p[j].size < p[i].size \/ (p[j].size = p[i].size /\ i <= j)
<1>6. first \in DOMAIN p
  BY <1>1, <1>5
<1>7. Teamwork!NewGroup(p).leader = p[first].leader
  BY DEF Teamwork!NewGroup
<1>8. p[first] \in ToSet(p)
  BY <1>6 DEF ToSet
<1> QED BY <1>7, <1>8

(* Membership as a forming read it. *)
AsRead(r) == /\ IsFiniteSet(member[r.team]) /\ Cardinality(member[r.team]) = r.size
             /\ r.leader \in member[r.team]

LEMMA BroughtSize ==
  ASSUME NEW r, AsRead(r)
  PROVE  IsFiniteSet(Brought(r)) /\ Cardinality(Brought(r)) = r.size
<1> DEFINE M == member[r.team]
           f == [s \in M |-> <<s, r.team>>]
<1>1. f \in Bijection(M, Brought(r))
  <2>1. f \in [M -> Brought(r)] /\ \A s \in M : f[s] = <<s, r.team>>
    BY DEF Brought
  <2>2. \A s, t \in M : f[s] = f[t] => s = t
    BY <2>1
  <2>3. \A x \in Brought(r) : \E s \in M : f[s] = x
    BY DEF Brought
  <2> HIDE DEF f, M
  <2>4. f \in Injection(M, Brought(r))
    BY <2>1, <2>2 DEF Injection, IsInjective
  <2>5. f \in Surjection(M, Brought(r))
    BY <2>1, <2>3 DEF Surjection
  <2> QED BY <2>4, <2>5 DEF Bijection
<1>2. ExistsBijection(M, Brought(r))
  BY <1>1 DEF ExistsBijection
<1> QED BY <1>2, FS_Bijection DEF AsRead

(* A group has as many rows as its teams have members. *)
LEMMA RowsAreCounted ==
  ASSUME NEW B, SeedSet(B), NEW p \in Seq(B), \A x \in B : AsRead(x),
         \A i, j \in 1..Len(p) : p[i].team = p[j].team => i = j
  PROVE  Cardinality(RowsOf(p)) = GroupSize(p)
<1> DEFINE n == Len(p)
           R(k) == UNION {Brought(p[i]) : i \in 1..k}
<1>1. n \in Nat /\ DOMAIN p = 1..n /\ \A i \in 1..n : p[i] \in B /\ p[i].size \in Nat /\ AsRead(p[i])
  BY DEF SeedSet
<1>2. PICK acc : SizeTrace(acc, p) /\ GroupSize(p) = acc[n]
  BY SizeAlong
<1>3. /\ acc \in [0..n -> Nat] /\ acc[0] = 0
      /\ \A k \in 1..n : acc[k] = acc[k - 1] + p[k].size
  BY <1>2 DEF SizeTrace
<1>4. R(n) = RowsOf(p)
  <2>1. ToSet(p) = {p[i] : i \in 1..n}
    BY <1>1 DEF ToSet
  <2> HIDE DEF n
  <2> QED BY <2>1 DEF RowsOf
<1>5. \A i, j \in 1..n : p[i].team = p[j].team => i = j
  OBVIOUS
<1> HIDE DEF n
<1> DEFINE S == {k \in Nat : k <= n => IsFiniteSet(R(k)) /\ Cardinality(R(k)) = acc[k]}
<1>6. 0 \in S
  <2>1. R(0) = {}
    OBVIOUS
  <2> QED BY <1>3, <2>1, FS_EmptySet
<1>7. ASSUME NEW k \in Nat, k \in S PROVE k + 1 \in S
  <2> SUFFICES ASSUME k + 1 <= n
               PROVE  IsFiniteSet(R(k + 1)) /\ Cardinality(R(k + 1)) = acc[k + 1]
    OBVIOUS
  <2>1. k \in 0..n /\ k + 1 \in 1..n /\ (k + 1) - 1 = k /\ k <= n
    BY <1>1
  <2> DEFINE old == R(k)
             new == Brought(p[k + 1])
  <2>2. IsFiniteSet(old) /\ Cardinality(old) = acc[k]
    BY <1>7, <2>1
  <2>3. IsFiniteSet(new) /\ Cardinality(new) = p[k + 1].size
    BY <1>1, <2>1, BroughtSize
  <2>4. R(k + 1) = old \cup new
    <3>1. 1..(k + 1) = (1..k) \cup {k + 1}
      OBVIOUS
    <3> QED BY <3>1
  <2>5. old \cap new = {}
    <3> SUFFICES ASSUME NEW x \in new, NEW i \in 1..k, x \in Brought(p[i]) PROVE FALSE
      OBVIOUS
    <3>1. x[2] = p[k + 1].team /\ x[2] = p[i].team
      BY DEF Brought
    <3>2. i \in 1..n /\ i # k + 1
      BY <1>1, <2>1
    <3> QED BY <1>5, <2>1, <3>1, <3>2
  <2>6. acc[k] \in Nat /\ p[k + 1].size \in Nat /\ acc[k + 1] = acc[k] + p[k + 1].size
    BY <1>1, <1>3, <2>1
  <2>7. Cardinality({}) = 0
    BY FS_EmptySet
  <2> HIDE DEF old, new, R
  <2>8. /\ IsFiniteSet(old \cup new)
        /\ Cardinality(old \cup new) = Cardinality(old) + Cardinality(new) - Cardinality(old \cap new)
    BY <2>2, <2>3, FS_Union
  <2>9. Cardinality(old \cup new) = acc[k] + p[k + 1].size - 0
    BY <2>2, <2>3, <2>5, <2>7, <2>8
  <2>10. acc[k] + p[k + 1].size - 0 = acc[k + 1]
    BY <2>6
  <2>11. IsFiniteSet(R(k + 1))
    BY <2>4, <2>8
  <2>12. Cardinality(R(k + 1)) = acc[k + 1]
    BY <2>4, <2>9, <2>10
  <2> QED BY <2>11, <2>12
<1>8. Nat \subseteq S
  <2> HIDE DEF S
  <2> QED BY <1>6, <1>7, UpFromZero
<1>9. Cardinality(R(n)) = acc[n]
  <2> HIDE DEF R
  <2> QED BY <1>1, <1>8
<1> QED BY <1>2, <1>4, <1>9

-----------------------------------------------------------------------------
LEMMA TeamworkFinite == \A S : Teamwork!IsFiniteSet(S) <=> IsFiniteSet(S)
BY Zenon DEF Teamwork!IsFiniteSet, IsFiniteSet

LEMMA TeamsAreFinite == IsFiniteSet(Work) /\ IsFiniteSet(File) /\ None \notin File
BY TeamAssumption, TeamworkFinite DEF Teamwork!GroupAssumption

(* A request that forms groups, and one that holds its registrations locked. *)
Forming(p) == act[p] # None /\ act[p].op \in {"lock", "freeze"}
Freezing(p) == act[p] # None /\ act[p].op = "freeze"

(* The bounds Create and an edit let through (ValidBounds). *)
BoundsSound ==
  project # None => /\ project.lo \in Nat /\ project.hi \in Nat /\ project.target \in Nat
                    /\ 1 <= project.lo /\ project.lo <= project.hi

(* Groups are a sequence of rows with their leader. *)
GroupsSound ==
  /\ IsASeq(group)
  /\ \A g \in DOMAIN group : group[g] = [leader |-> group[g].leader, rows |-> group[g].rows]

(* A request in flight: a registration is of a team; what a forming read is  *)
(* sound, and the teams it has locked are registered.                        *)
ActSound(p) ==
  /\ act[p] # None /\ act[p].op = "register" => act[p].team \in File
  /\ Forming(p) => FormSound(act[p])
  /\ Freezing(p) => \A x \in ToSet(act[p].regs) : x.team \in ToSet(regs)
ActsSound == act = [p \in Proc |-> act[p]] /\ \A p \in Proc : ActSound(p)

(* Without overlap one forming is under way, of teams in no group yet.       *)
OnceInv ==
  \/ twice
  \/ /\ \A p, q \in Proc : Forming(p) /\ Forming(q) => p = q
     /\ \A p \in Proc : Forming(p) => \A x \in ToSet(act[p].regs) : ~ Teamwork!Frozen(x.team)
     /\ Teamwork!FrozenOnce

(* The inductive invariant of forming groups. *)
FormInv == BoundsSound /\ TeamsSound /\ GroupsSound /\ ActsSound /\ OnceInv

LEMMA FormInvInit == Teamwork!Init => FormInv
<1> SUFFICES ASSUME Teamwork!Init PROVE FormInv
  OBVIOUS
<1>1. BoundsSound
  <2>1. PICK b \in Limits : Teamwork!ValidBounds(b) /\
          \E d \in 0..MaxTime : project = [lo |-> b.lo, hi |-> b.hi, target |-> b.target,
                                           deadline |-> d, published |-> TRUE]
    BY DEF Teamwork!Init
  <2>2. b \in [lo : Nat, hi : Nat, target : Nat]
    BY TeamAssumption DEF Teamwork!GroupAssumption
  <2> QED BY <2>1, <2>2 DEF BoundsSound, Teamwork!ValidBounds
<1>2. TeamsSound
  <2>1. member \in [File -> SUBSET Work]
    BY DEF Teamwork!Init, Teamwork!TeamInit
  <2>2. \A t \in File : IsFiniteSet(member[t])
    BY <2>1, TeamsAreFinite, FS_Subset
  <2>3. PICK s \in SUBSET {t \in File : Teamwork!Exists(t)} : regs \in Teamwork!SetToSeqs(s)
    BY DEF Teamwork!Init, Teamwork!SetToAllKPermutations
  <2> DEFINE n == Teamwork!Cardinality(s)
  <2>4. regs \in [1..n -> s] /\ \A i, j \in 1..n : i # j => regs[i] # regs[j]
    BY <2>3 DEF Teamwork!SetToSeqs
  <2>5. n \in Nat
    <3>1. IsFiniteSet(s)
      BY TeamsAreFinite, FS_Subset
    <3> QED BY <3>1, TeamworkCardinality, FS_CardinalityType
  <2> HIDE DEF n
  <2>6. IsASeq(regs)
    <3>1. regs = [i \in 1..n |-> regs[i]]
      BY <2>4
    <3> QED BY <2>5, <3>1, SeqOfFunction
  <2>7. IsInjective(regs) /\ ToSet(regs) \subseteq File
    BY <2>4 DEF IsInjective, ToSet
  <2> QED BY <2>1, <2>2, <2>6, <2>7 DEF TeamsSound
<1>3. group = <<>> /\ DOMAIN group = {} /\ act = [p \in Proc |-> None]
  BY DEF Teamwork!Init
<1>4. IsASeq(group)
  BY <1>3 DEF IsASeq
<1>5. \A p \in Proc : act[p] = None
  BY <1>3
<1>6. GroupsSound /\ ActsSound
  BY <1>3, <1>4, <1>5 DEF GroupsSound, ActsSound, ActSound, Forming, Freezing
<1>7. OnceInv
  BY <1>3, <1>5 DEF OnceInv, Forming, Teamwork!FrozenOnce
<1> QED BY <1>1, <1>2, <1>6, <1>7 DEF FormInv

-----------------------------------------------------------------------------
(* Formings go on as they are, or end. *)
FormsLess ==
  \A p \in Proc : Forming(p)' => Forming(p) /\ ToSet(act[p].regs)' \subseteq ToSet(act[p].regs)
(* No team is frozen anew. *)
FreezesLess ==
  /\ \A t \in File : Teamwork!Frozen(t)' => Teamwork!Frozen(t)
  /\ Teamwork!FrozenOnce => Teamwork!FrozenOnce'

LEMMA OnceKept ==
  ASSUME ActsSound, OnceInv, twice' = twice, FormsLess, FreezesLess
  PROVE  OnceInv'
<1>1. CASE twice
  BY <1>1 DEF OnceInv
<1>2. CASE ~ twice
  <2>1. \A p, q \in Proc : Forming(p)' /\ Forming(q)' => p = q
    BY <1>2 DEF OnceInv, FormsLess
  <2>2. ASSUME NEW p \in Proc, Forming(p)', NEW x \in ToSet(act[p].regs)'
        PROVE  ~ Teamwork!Frozen(x.team)'
    <3>1. Forming(p) /\ x \in ToSet(act[p].regs)
      BY <2>2 DEF FormsLess
    <3>2. ~ Teamwork!Frozen(x.team)
      BY <1>2, <3>1 DEF OnceInv
    <3>3. x.team \in File
      BY <3>1 DEF ActsSound, ActSound, FormSound, Roster
    <3> QED BY <3>2, <3>3 DEF FreezesLess
  <2>3. Teamwork!FrozenOnce'
    BY <1>2 DEF OnceInv, FreezesLess
  <2> QED BY <2>1, <2>2, <2>3 DEF OnceInv
<1> QED BY <1>1, <1>2

LEMMA SameGroups ==
  ASSUME group' = group
  PROVE  FreezesLess /\ (GroupsSound => GroupsSound')
BY DEF FreezesLess, Teamwork!Frozen, Teamwork!FrozenOnce, GroupsSound

(* Requests other than a forming begin and end. *)
Harmless(v) ==
  v # None => v.op \notin {"lock", "freeze"} /\ (v.op = "register" => v.team \in File)
(* The teams a forming holds locked stay registered. *)
LocksKept ==
  \A p \in Proc : Freezing(p) => \A x \in ToSet(act[p].regs) : x.team \in ToSet(regs')

LEMMA ActsKept ==
  ASSUME ActsSound, LocksKept,
         \/ act' = act
         \/ \E p \in Proc : \E v : Harmless(v) /\ act' = [act EXCEPT ![p] = v]
  PROVE  ActsSound' /\ FormsLess
<1>1. CASE act' = act
  <2>1. ActsSound'
    BY <1>1 DEF ActsSound, ActSound, LocksKept, Forming, Freezing
  <2> QED BY <1>1, <2>1 DEF FormsLess, Forming
<1>2. ASSUME NEW p \in Proc, NEW v, Harmless(v), act' = [act EXCEPT ![p] = v]
      PROVE  ActsSound' /\ FormsLess
  <2>1. /\ act' = [q \in Proc |-> act'[q]] /\ act'[p] = v
        /\ \A q \in Proc \ {p} : act'[q] = act[q]
    BY <1>2 DEF ActsSound
  <2>2. ASSUME NEW q \in Proc
        PROVE  /\ ActSound(q)'
               /\ Forming(q)' => Forming(q) /\ act'[q] = act[q]
    <3>1. CASE q = p
      BY <1>2, <2>1, <3>1 DEF ActSound, Forming, Freezing, Harmless
    <3>2. CASE q # p
      <4>1. act'[q] = act[q] /\ ActSound(q)
        BY <2>1, <3>2 DEF ActsSound
      <4> QED BY <4>1 DEF ActSound, Forming, Freezing, LocksKept
    <3> QED BY <3>1, <3>2
  <2> QED BY <2>1, <2>2 DEF ActsSound, FormsLess
<1> QED BY <1>1, <1>2

LEMMA LocksStay ==
  ASSUME regs' = regs, ActsSound
  PROVE  LocksKept
BY DEF LocksKept, ActsSound, ActSound

LEMMA NotLocked ==
  ASSUME NEW t, ~ Teamwork!RowLocked(t), NEW p \in Proc, Freezing(p), NEW x \in ToSet(act[p].regs)
  PROVE  x.team # t
BY DEF Teamwork!RowLocked, Freezing, ToSet

-----------------------------------------------------------------------------
(* Registrations taken out. *)
LEMMA Dropped ==
  ASSUME TeamsSound, NEW t, regs' = Teamwork!Drop(t),
         member' = [u \in File |-> member'[u]], \A u \in File : IsFiniteSet(member'[u])
  PROVE  TeamsSound' /\ ToSet(regs') = ToSet(regs) \ {t}
<1>1. regs' = Only(regs, ToSet(regs) \ {t})
  BY TeamworkOnly, TeamworkToSet DEF Teamwork!Drop
<1>2. regs \in Seq(ToSet(regs)) /\ IsInjective(regs)
  BY DEF TeamsSound, IsASeq
<1>3. regs' \in Seq(ToSet(regs)) /\ ToSet(regs') = ToSet(regs) \ {t} /\ IsInjective(regs')
  <2>1. ToSet(regs) \cap (ToSet(regs) \ {t}) = ToSet(regs) \ {t}
    OBVIOUS
  <2> QED BY <1>1, <1>2, <2>1, OnlySet, OnlyInjective
<1>4. IsASeq(regs')
  BY <1>3, SeqIsASeq
<1> QED BY <1>3, <1>4 DEF TeamsSound

(* The rows of a deleted team lose its name, and no other. *)
LEMMA Forgotten ==
  ASSUME GroupsSound, NEW t, Teamwork!Forget(t)
  PROVE  /\ GroupsSound' /\ FreezesLess /\ DOMAIN group' = DOMAIN group
<1> DEFINE blank(gr) == <<gr[1], IF gr[2] = t THEN None ELSE gr[2]>>
           rows(g) == {blank(gr) : gr \in group[g].rows}
<1>1. group' = [g \in DOMAIN group |-> [group[g] EXCEPT !.rows = rows(g)]]
  BY DEF Teamwork!Forget
<1>2. ASSUME NEW g \in DOMAIN group
      PROVE  /\ group'[g].rows = rows(g)
             /\ group'[g] = [leader |-> group'[g].leader, rows |-> group'[g].rows]
  <2>1. group[g] = [leader |-> group[g].leader, rows |-> group[g].rows]
    BY DEF GroupsSound
  <2>2. group'[g] = [leader |-> group[g].leader, rows |-> rows(g)]
    BY <1>1, <2>1
  <2> HIDE DEF rows
  <2> QED BY <2>2
<1>3. DOMAIN group' = DOMAIN group /\ group' = [g \in DOMAIN group |-> group'[g]]
  BY <1>1
<1>4. IsASeq(group')
  <2>1. group \in Seq(ToSet(group))
    BY DEF GroupsSound, IsASeq
  <2>2. Len(group) \in Nat /\ DOMAIN group = 1..Len(group)
    BY <2>1
  <2> QED BY <1>3, <2>2, SeqOfFunction
<1>5. GroupsSound'
  BY <1>2, <1>3, <1>4 DEF GroupsSound
<1>6. \A g \in DOMAIN group : \A new \in group'[g].rows : new[2] # None =>
        \E gr \in group[g].rows : gr[2] = new[2]
  <2> SUFFICES ASSUME NEW g \in DOMAIN group, NEW new \in rows(g), new[2] # None
               PROVE  \E gr \in group[g].rows : gr[2] = new[2]
    BY <1>2
  <2>1. PICK gr \in group[g].rows : new = blank(gr)
    OBVIOUS
  <2>2. new[2] = IF gr[2] = t THEN None ELSE gr[2]
    BY <2>1
  <2> QED BY <2>2
<1>7. \A u \in File : Teamwork!Frozen(u)' => Teamwork!Frozen(u)
  BY <1>3, <1>6, TeamsAreFinite DEF Teamwork!Frozen
<1>8. Teamwork!FrozenOnce => Teamwork!FrozenOnce'
  BY <1>3, <1>6 DEF Teamwork!FrozenOnce
<1> QED BY <1>3, <1>5, <1>7, <1>8 DEF FreezesLess

-----------------------------------------------------------------------------
(* A statement on team_members. *)
RosterStep ==
  \/ member' = member
  \/ \E t, s : \/ member' = [member EXCEPT ![t] = {s}]
              \/ member' = [member EXCEPT ![t] = @ \cup {s}]
              \/ member' = [member EXCEPT ![t] = @ \ {s}]

LEMMA MembersStayFinite ==
  ASSUME TeamsSound, RosterStep
  PROVE  member' = [u \in File |-> member'[u]] /\ \A u \in File : IsFiniteSet(member'[u])
<1>1. member = [u \in File |-> member[u]] /\ \A u \in File : IsFiniteSet(member[u])
  BY DEF TeamsSound
<1>2. ASSUME NEW t, NEW new, t \in File => IsFiniteSet(new), member' = [member EXCEPT ![t] = new]
      PROVE  member' = [u \in File |-> member'[u]] /\ \A u \in File : IsFiniteSet(member'[u])
  BY <1>1, <1>2
<1>3. \A s : IsFiniteSet({s})
  BY FS_Singleton
<1>4. \A t, s : t \in File => IsFiniteSet(member[t] \cup {s}) /\ IsFiniteSet(member[t] \ {s})
  BY <1>1, FS_AddElement, FS_RemoveElement
<1>5. CASE member' = member
  BY <1>1, <1>5
<1>6. CASE member' # member
  <2>1. PICK t, s : \/ member' = [member EXCEPT ![t] = {s}]
                    \/ member' = [member EXCEPT ![t] = @ \cup {s}]
                    \/ member' = [member EXCEPT ![t] = @ \ {s}]
    BY <1>6 DEF RosterStep
  <2> QED BY <1>2, <1>3, <1>4, <2>1
<1> QED BY <1>5, <1>6

LEMMA TeamStepMembers ==
  ASSUME Teamwork!TeamStep
  PROVE  group' = group /\ RosterStep
<1>1. ASSUME NEW t \in File, NEW s \in Work, Teamwork!CreateTeam(t, s)
      PROVE  group' = group /\ RosterStep
  BY <1>1 DEF Teamwork!CreateTeam, RosterStep
<1>2. ASSUME NEW p \in Proc, NEW t \in File, NEW s \in Work, NEW x \in Work,
             \/ Teamwork!BeginRename(p, t, s) \/ Teamwork!BeginLeave(p, t, s)
             \/ Teamwork!BeginDelete(p, t, s) \/ Teamwork!BeginAddMember(p, t, s, x)
             \/ Teamwork!BeginRemoveMember(p, t, s, x) \/ Teamwork!BeginTransfer(p, t, s, x)
      PROVE  group' = group /\ RosterStep
  BY <1>2 DEF Teamwork!BeginRename, Teamwork!BeginLeave, Teamwork!BeginDelete, RosterStep,
     Teamwork!BeginAddMember, Teamwork!BeginRemoveMember, Teamwork!BeginTransfer
<1>3. ASSUME NEW p \in Proc, Teamwork!FinishUpdate(p) \/ Teamwork!CheckAdd(p)
      PROVE  group' = group /\ RosterStep
  BY <1>3 DEF Teamwork!FinishUpdate, Teamwork!CheckAdd, RosterStep
<1>4. ASSUME NEW p \in Proc, Teamwork!InsertMember(p)
      PROVE  group' = group /\ RosterStep
  BY <1>4 DEF Teamwork!InsertMember, RosterStep
<1>5. ASSUME NEW p \in Proc, Teamwork!RemoveMember(p)
      PROVE  group' = group /\ RosterStep
  BY <1>5 DEF Teamwork!RemoveMember, RosterStep
<1>6. CASE \E t \in File, s \in Work : Teamwork!CreateTeam(t, s)
  BY <1>1, <1>6
<1>7. CASE \E p \in Proc : act[p] = None /\ \E t \in File, s \in Work :
             \/ Teamwork!BeginRename(p, t, s) \/ Teamwork!BeginLeave(p, t, s) \/ Teamwork!BeginDelete(p, t, s)
             \/ \E x \in Work : \/ Teamwork!BeginAddMember(p, t, s, x)
                               \/ Teamwork!BeginRemoveMember(p, t, s, x)
                               \/ Teamwork!BeginTransfer(p, t, s, x)
  BY <1>2, <1>7
<1>8. CASE \E p \in Proc : \/ Teamwork!FinishUpdate(p) \/ Teamwork!CheckAdd(p)
                           \/ Teamwork!InsertMember(p) \/ Teamwork!RemoveMember(p)
  BY <1>3, <1>4, <1>5, <1>8
<1> QED BY <1>6, <1>7, <1>8 DEF Teamwork!TeamStep

(* Each step keeps what formings rely on. *)
LEMMA TeamStepKeeps == ASSUME FormInv, Teamwork!TeamStep PROVE FormInv'
<1>1. UNCHANGED <<project, regs, act, clock, twice>>
  BY DEF Teamwork!TeamStep
<1>2. group' = group /\ RosterStep
  BY TeamStepMembers
<1>3. TeamsSound'
  BY <1>1, <1>2, MembersStayFinite DEF FormInv, TeamsSound
<1>4. BoundsSound'
  BY <1>1 DEF FormInv, BoundsSound
<1>5. FreezesLess /\ GroupsSound'
  BY <1>2, SameGroups DEF FormInv
<1>6. ActsSound' /\ FormsLess
  BY <1>1, ActsKept, LocksStay DEF FormInv
<1>7. OnceInv'
  BY <1>1, <1>5, <1>6, OnceKept DEF FormInv
<1> QED BY <1>3, <1>4, <1>5, <1>6, <1>7 DEF FormInv

LEMMA UpdateKeeps ==
  ASSUME FormInv, Teamwork!UpdateProject \/ Teamwork!Tick \/ (\E g, s : Teamwork!FirstSave(g, s))
  PROVE  FormInv'
<1>1. /\ UNCHANGED <<regs, act, twice, member, group>>
      /\ BoundsSound'
  <2>1. CASE Teamwork!UpdateProject
    <3>1. UNCHANGED <<regs, act, twice, member, group>>
      BY <2>1 DEF Teamwork!UpdateProject, Teamwork!teamVars
    <3>2. PICK b \in Limits : Teamwork!ValidBounds(b) /\
            \E d \in 0..MaxTime, pub \in BOOLEAN :
              project' = [lo |-> b.lo, hi |-> b.hi, target |-> b.target, deadline |-> d, published |-> pub]
      BY <2>1 DEF Teamwork!UpdateProject
    <3>3. b \in [lo : Nat, hi : Nat, target : Nat]
      BY TeamAssumption DEF Teamwork!GroupAssumption
    <3> QED BY <3>1, <3>2, <3>3 DEF BoundsSound, Teamwork!ValidBounds
  <2>2. CASE Teamwork!Tick
    BY <2>2 DEF Teamwork!Tick, Teamwork!teamVars, FormInv, BoundsSound
  <2>3. CASE \E g, s : Teamwork!FirstSave(g, s)
    BY <2>3 DEF Teamwork!FirstSave, FormInv, BoundsSound
  <2> QED BY <2>1, <2>2, <2>3
<1>2. TeamsSound'
  BY <1>1 DEF FormInv, TeamsSound
<1>3. FreezesLess /\ GroupsSound'
  BY <1>1, SameGroups DEF FormInv
<1>4. ActsSound' /\ FormsLess
  BY <1>1, ActsKept, LocksStay DEF FormInv
<1>5. OnceInv'
  BY <1>1, <1>3, <1>4, OnceKept DEF FormInv
<1> QED BY <1>1, <1>2, <1>3, <1>4, <1>5 DEF FormInv

LEMMA StutterKeeps == ASSUME FormInv, UNCHANGED Teamwork!vars PROVE FormInv'
<1>1. UNCHANGED <<project, regs, act, twice, member, group>>
  BY DEF Teamwork!vars
<1>2. TeamsSound' /\ BoundsSound'
  BY <1>1 DEF FormInv, TeamsSound, BoundsSound
<1>3. FreezesLess /\ GroupsSound'
  BY <1>1, SameGroups DEF FormInv
<1>4. ActsSound' /\ FormsLess
  BY <1>1, ActsKept, LocksStay DEF FormInv
<1>5. OnceInv'
  BY <1>1, <1>3, <1>4, OnceKept DEF FormInv
<1> QED BY <1>2, <1>3, <1>4, <1>5 DEF FormInv

LEMMA DeleteProjectKeeps == ASSUME FormInv, Teamwork!DeleteProject PROVE FormInv'
<1>1. /\ project' = None /\ regs' = <<>> /\ group' = <<>>
      /\ UNCHANGED <<member, act, twice>> /\ \A t \in File : ~ Teamwork!RowLocked(t)
  BY DEF Teamwork!DeleteProject
<1>2. BoundsSound'
  BY <1>1 DEF BoundsSound
<1>3. DOMAIN regs' = {} /\ DOMAIN group' = {} /\ IsASeq(regs') /\ IsASeq(group')
  BY <1>1 DEF IsASeq
<1>4. TeamsSound'
  BY <1>1, <1>3 DEF FormInv, TeamsSound, IsInjective, ToSet
<1>5. FreezesLess /\ GroupsSound'
  BY <1>3 DEF FreezesLess, GroupsSound, Teamwork!Frozen, Teamwork!FrozenOnce
<1>6. LocksKept
  <2> SUFFICES ASSUME NEW p \in Proc, Freezing(p), NEW x \in ToSet(act[p].regs) PROVE FALSE
    BY DEF LocksKept
  <2>1. x.team \in File
    BY DEF FormInv, ActsSound, ActSound, FormSound, Roster, Forming, Freezing
  <2> QED BY <1>1, <2>1, NotLocked
<1>7. ActsSound' /\ FormsLess
  BY <1>1, <1>6, ActsKept DEF FormInv
<1>8. OnceInv'
  BY <1>1, <1>5, <1>7, OnceKept DEF FormInv
<1> QED BY <1>2, <1>4, <1>5, <1>7, <1>8 DEF FormInv

LEMMA BeginKeeps ==
  ASSUME FormInv, NEW p \in Proc, NEW t \in File, NEW s \in Work,
         Teamwork!BeginRegister(p, t, s) \/ Teamwork!BeginUnregister(p, t, s)
  PROVE  FormInv'
<1>1. UNCHANGED <<project, regs, twice, member, group>>
  BY DEF Teamwork!BeginRegister, Teamwork!BeginUnregister
<1>2. \E v : Harmless(v) /\ act' = [act EXCEPT ![p] = v]
  <2>1. CASE Teamwork!BeginRegister(p, t, s)
    <3> DEFINE v == [op |-> "register", team |-> t, lo |-> project.lo, hi |-> project.hi, at |-> clock]
    <3>1. Harmless(v)
      BY DEF Harmless
    <3>2. act' = [act EXCEPT ![p] = v]
      BY <2>1 DEF Teamwork!BeginRegister
    <3> QED BY <3>1, <3>2
  <2>2. CASE Teamwork!BeginUnregister(p, t, s)
    <3> DEFINE v == [op |-> "unregister", team |-> t]
    <3>1. Harmless(v)
      BY DEF Harmless
    <3>2. act' = [act EXCEPT ![p] = v]
      BY <2>2 DEF Teamwork!BeginUnregister
    <3> QED BY <3>1, <3>2
  <2> QED BY <2>1, <2>2
<1>3. TeamsSound' /\ BoundsSound'
  BY <1>1 DEF FormInv, TeamsSound, BoundsSound
<1>4. FreezesLess /\ GroupsSound'
  BY <1>1, SameGroups DEF FormInv
<1>5. ActsSound' /\ FormsLess
  BY <1>1, <1>2, ActsKept, LocksStay DEF FormInv
<1>6. OnceInv'
  BY <1>1, <1>4, <1>5, OnceKept DEF FormInv
<1> QED BY <1>3, <1>4, <1>5, <1>6 DEF FormInv

-----------------------------------------------------------------------------
LEMMA InsertKeeps == ASSUME FormInv, NEW p \in Proc, Teamwork!InsertRegistration(p) PROVE FormInv'
<1> DEFINE t == act[p].team
<1>1. /\ act[p] # None /\ act[p].op = "register" /\ act' = [act EXCEPT ![p] = None]
      /\ UNCHANGED <<project, twice, member, group>>
      /\ regs' = regs \/ (regs' = Append(regs, t) /\ t \notin ToSet(regs))
  BY TeamworkToSet DEF Teamwork!InsertRegistration, Teamwork!Done, Teamwork!teamVars, Teamwork!Registered
<1>2. t \in File /\ regs \in Seq(ToSet(regs)) /\ IsInjective(regs) /\ ToSet(regs) \subseteq File
  BY <1>1 DEF FormInv, ActsSound, ActSound, TeamsSound, IsASeq
<1> HIDE DEF t
<1>3. IsASeq(regs') /\ IsInjective(regs') /\ ToSet(regs') \subseteq File /\ ToSet(regs) \subseteq ToSet(regs')
  <2>1. CASE regs' = regs
    BY <1>2, <2>1 DEF IsASeq
  <2>2. CASE regs' = Append(regs, t) /\ t \notin ToSet(regs)
    <3>1. regs \in Seq(File)
      BY <1>2
    <3>2. regs' \in Seq(File) /\ ToSet(regs') = ToSet(regs) \cup {t}
      BY <1>2, <2>2, <3>1, Appended
    <3>3. IsInjective(regs')
      BY <1>2, <2>2, <3>1, StaysInjective
    <3>4. IsASeq(regs')
      BY <3>2, SeqIsASeq
    <3> QED BY <1>2, <3>2, <3>3, <3>4
  <2> QED BY <1>1, <2>1, <2>2
<1>4. TeamsSound' /\ BoundsSound'
  BY <1>1, <1>3 DEF FormInv, TeamsSound, BoundsSound
<1>5. FreezesLess /\ GroupsSound'
  BY <1>1, SameGroups DEF FormInv
<1>6. LocksKept
  BY <1>3 DEF LocksKept, FormInv, ActsSound, ActSound
<1>7. Harmless(None)
  BY DEF Harmless
<1>8. ActsSound' /\ FormsLess
  BY <1>1, <1>6, <1>7, ActsKept DEF FormInv
<1>9. OnceInv'
  BY <1>1, <1>5, <1>8, OnceKept DEF FormInv
<1> QED BY <1>4, <1>5, <1>8, <1>9 DEF FormInv

LEMMA DeleteKeeps == ASSUME FormInv, NEW p \in Proc, Teamwork!DeleteRegistration(p) PROVE FormInv'
<1> DEFINE t == act[p].team
<1>1. /\ act' = [act EXCEPT ![p] = None]
      /\ UNCHANGED <<project, twice, member, group>>
      /\ regs' = Teamwork!Drop(t) /\ ~ Teamwork!RowLocked(t)
  BY DEF Teamwork!DeleteRegistration, Teamwork!Done, Teamwork!teamVars
<1> HIDE DEF t
<1>2. TeamsSound' /\ ToSet(regs') = ToSet(regs) \ {t}
  <2>1. member' = [u \in File |-> member'[u]] /\ \A u \in File : IsFiniteSet(member'[u])
    BY <1>1 DEF FormInv, TeamsSound
  <2> QED BY <1>1, <2>1, Dropped DEF FormInv
<1>3. BoundsSound'
  BY <1>1 DEF FormInv, BoundsSound
<1>4. FreezesLess /\ GroupsSound'
  BY <1>1, SameGroups DEF FormInv
<1>5. LocksKept
  BY <1>1, <1>2, NotLocked DEF LocksKept, FormInv, ActsSound, ActSound
<1>6. Harmless(None)
  BY DEF Harmless
<1>7. ActsSound' /\ FormsLess
  BY <1>1, <1>5, <1>6, ActsKept DEF FormInv
<1>8. OnceInv'
  BY <1>1, <1>4, <1>7, OnceKept DEF FormInv
<1> QED BY <1>2, <1>3, <1>4, <1>7, <1>8 DEF FormInv

LEMMA DeleteTeamKeeps == ASSUME FormInv, NEW p \in Proc, Teamwork!DeleteTeam(p) PROVE FormInv'
<1> DEFINE t == teamCall[p].team
<1>1. /\ UNCHANGED <<project, act, twice>> /\ ~ Teamwork!RowLocked(t)
      /\ \/ Teamwork!Forget(t) /\ regs' = Teamwork!Drop(t)
         \/ UNCHANGED <<member, group, regs>>
  BY DEF Teamwork!DeleteTeam
<1> HIDE DEF t
<1>2. BoundsSound'
  BY <1>1 DEF FormInv, BoundsSound
<1>3. CASE UNCHANGED <<member, group, regs>>
  <2>1. TeamsSound'
    BY <1>3 DEF FormInv, TeamsSound
  <2>2. FreezesLess /\ GroupsSound'
    BY <1>3, SameGroups DEF FormInv
  <2>3. ActsSound' /\ FormsLess
    BY <1>1, <1>3, ActsKept, LocksStay DEF FormInv
  <2>4. OnceInv'
    BY <1>1, <2>2, <2>3, OnceKept DEF FormInv
  <2> QED BY <1>2, <2>1, <2>2, <2>3, <2>4 DEF FormInv
<1>4. CASE Teamwork!Forget(t) /\ regs' = Teamwork!Drop(t)
  <2>1. TeamsSound' /\ ToSet(regs') = ToSet(regs) \ {t}
    <3>1. RosterStep \/ member' = [member EXCEPT ![t] = {}]
      BY <1>4 DEF Teamwork!Forget
    <3>2. member' = [u \in File |-> member'[u]] /\ \A u \in File : IsFiniteSet(member'[u])
      <4>1. member' = [member EXCEPT ![t] = {}]
        BY <1>4 DEF Teamwork!Forget
      <4> QED BY <4>1, FS_EmptySet DEF FormInv, TeamsSound
    <3> QED BY <1>4, <3>2, Dropped DEF FormInv
  <2>2. FreezesLess /\ GroupsSound'
    BY <1>4, Forgotten DEF FormInv
  <2>3. LocksKept
    BY <1>1, <2>1, NotLocked DEF LocksKept, FormInv, ActsSound, ActSound
  <2>4. ActsSound' /\ FormsLess
    BY <1>1, <2>3, ActsKept DEF FormInv
  <2>5. OnceInv'
    BY <1>1, <2>2, <2>4, OnceKept DEF FormInv
  <2> QED BY <1>2, <2>1, <2>2, <2>4, <2>5 DEF FormInv
<1> QED BY <1>1, <1>3, <1>4

LEMMA BeginFormKeeps == ASSUME FormInv, NEW p \in Proc, Teamwork!BeginFormGroups(p) PROVE FormInv'
<1> DEFINE v == [op |-> "lock", regs |-> Teamwork!UnfrozenRegs, lo |-> project.lo,
                 hi |-> project.hi, target |-> project.target]
<1>1. /\ project # None /\ act' = [act EXCEPT ![p] = v]
      /\ UNCHANGED <<project, regs, member, group>>
      /\ twice' = (twice \/ \E q \in Proc : Forming(q))
  BY DEF Teamwork!BeginFormGroups, Forming
<1>2. /\ Roster(Teamwork!UnfrozenRegs)
      /\ \A x \in ToSet(Teamwork!UnfrozenRegs) : ~ Teamwork!Frozen(x.team)
  BY UnfrozenRoster DEF FormInv
<1>3. v.op = "lock" /\ v.regs = Teamwork!UnfrozenRegs /\ FormSound(v)
  BY <1>1, <1>2 DEF FormInv, BoundsSound, FormSound
<1> HIDE DEF v
<1>4. TeamsSound' /\ BoundsSound'
  BY <1>1 DEF FormInv, TeamsSound, BoundsSound
<1>5. GroupsSound' /\ (\A t : Teamwork!Frozen(t)' <=> Teamwork!Frozen(t))
      /\ (Teamwork!FrozenOnce => Teamwork!FrozenOnce')
  BY <1>1 DEF FormInv, GroupsSound, Teamwork!Frozen, Teamwork!FrozenOnce
<1>6. /\ act' = [q \in Proc |-> act'[q]] /\ act'[p] = v
      /\ \A q \in Proc \ {p} : act'[q] = act[q]
  BY <1>1 DEF FormInv, ActsSound
<1>7. ASSUME NEW q \in Proc PROVE ActSound(q)'
  <2>1. CASE q = p
    BY <1>3, <1>6, <2>1 DEF ActSound, Forming, Freezing
  <2>2. CASE q # p
    <3>1. act'[q] = act[q] /\ ActSound(q)
      BY <1>6, <2>2 DEF FormInv, ActsSound
    <3> QED BY <1>1, <3>1 DEF ActSound, Forming, Freezing
  <2> QED BY <2>1, <2>2
<1>8. OnceInv'
  <2> SUFFICES ASSUME ~ twice'
               PROVE  /\ \A q, r \in Proc : Forming(q)' /\ Forming(r)' => q = r
                      /\ \A q \in Proc : Forming(q)' =>
                           \A x \in ToSet(act[q].regs)' : ~ Teamwork!Frozen(x.team)'
                      /\ Teamwork!FrozenOnce'
    BY DEF OnceInv
  <2>1. ~ twice /\ \A q \in Proc : ~ Forming(q)
    BY <1>1
  <2>2. \A q \in Proc : Forming(q)' => q = p
    BY <1>6, <2>1 DEF Forming
  <2>3. Teamwork!FrozenOnce'
    BY <1>5, <2>1 DEF FormInv, OnceInv
  <2>4. \A x \in ToSet(act[p].regs)' : ~ Teamwork!Frozen(x.team)'
    BY <1>2, <1>3, <1>5, <1>6
  <2> QED BY <2>2, <2>3, <2>4
<1> QED BY <1>4, <1>5, <1>6, <1>7, <1>8 DEF FormInv, ActsSound

LEMMA LockKeeps == ASSUME FormInv, NEW p \in Proc, Teamwork!LockRegs(p) PROVE FormInv'
<1> DEFINE f == act[p]
           left == Only(f.regs, {r \in ToSet(f.regs) : r.team \in ToSet(regs)})
           v == [op |-> "freeze", regs |-> left, lo |-> f.lo, hi |-> f.hi, target |-> f.target]
<1>1. /\ f # None /\ f.op = "lock"
      /\ UNCHANGED <<project, regs, twice, member, group>>
      /\ act' = [act EXCEPT ![p] = [[f EXCEPT !.op = "freeze"] EXCEPT !.regs =
           Teamwork!Only(f.regs, {r \in Teamwork!ToSet(f.regs) : Teamwork!Registered(r.team)})]]
  BY DEF Teamwork!LockRegs, Teamwork!teamVars
<1>2. FormSound(f)
  BY <1>1 DEF FormInv, ActsSound, ActSound, Forming
<1>3. Teamwork!Only(f.regs, {r \in Teamwork!ToSet(f.regs) : Teamwork!Registered(r.team)}) = left
  BY TeamworkOnly, TeamworkToSet DEF Teamwork!Registered
<1>4. f = [op |-> f.op, regs |-> f.regs, lo |-> f.lo, hi |-> f.hi, target |-> f.target]
  BY <1>2 DEF FormSound
<1> HIDE DEF left, f
<1>5. [[f EXCEPT !.op = "freeze"] EXCEPT !.regs = left] = v
  <2> DEFINE l == f.lo
             h == f.hi
             g == f.target
             o == f.op
             rs == f.regs
  <2>1. f = [op |-> o, regs |-> rs, lo |-> l, hi |-> h, target |-> g]
    BY <1>4
  <2>2. v = [op |-> "freeze", regs |-> left, lo |-> l, hi |-> h, target |-> g]
    OBVIOUS
  <2> HIDE DEF l, h, g, o, rs, v
  <2>3. [f EXCEPT !.op = "freeze"] = [op |-> "freeze", regs |-> rs, lo |-> l, hi |-> h, target |-> g]
    BY <2>1
  <2> DEFINE w == [f EXCEPT !.op = "freeze"]
  <2>4. [w EXCEPT !.regs = left] = [op |-> "freeze", regs |-> left, lo |-> l, hi |-> h, target |-> g]
    <3>1. w = [op |-> "freeze", regs |-> rs, lo |-> l, hi |-> h, target |-> g]
      BY <2>3
    <3> HIDE DEF w
    <3> QED BY <3>1
  <2> QED BY <2>2, <2>4
<1>6. act' = [act EXCEPT ![p] = v]
  BY <1>1, <1>3, <1>5
<1>7. /\ Roster(left) /\ ToSet(left) \subseteq ToSet(f.regs)
      /\ \A x \in ToSet(left) : x.team \in ToSet(regs)
  BY <1>2, OnlyRoster DEF FormSound, left
<1>8. v.op = "freeze" /\ v.regs = left /\ FormSound(v)
  BY <1>2, <1>7 DEF FormSound
<1> HIDE DEF v
<1>9. /\ act' = [q \in Proc |-> act'[q]] /\ act'[p] = v
      /\ \A q \in Proc \ {p} : act'[q] = act[q]
  BY <1>6 DEF FormInv, ActsSound
<1>10. ASSUME NEW q \in Proc
       PROVE  ActSound(q)' /\ (Forming(q)' => Forming(q) /\ ToSet(act[q].regs)' \subseteq ToSet(act[q].regs))
  <2>1. CASE q = p
    BY <1>1, <1>7, <1>8, <1>9, <2>1 DEF ActSound, Forming, Freezing, f
  <2>2. CASE q # p
    <3>1. act'[q] = act[q] /\ ActSound(q)
      BY <1>9, <2>2 DEF FormInv, ActsSound
    <3> QED BY <1>1, <3>1 DEF ActSound, Forming, Freezing
  <2> QED BY <2>1, <2>2
<1>11. ActsSound' /\ FormsLess
  BY <1>9, <1>10 DEF ActsSound, FormsLess
<1>12. TeamsSound' /\ BoundsSound'
  BY <1>1 DEF FormInv, TeamsSound, BoundsSound
<1>13. FreezesLess /\ GroupsSound'
  BY <1>1, SameGroups DEF FormInv
<1>14. OnceInv'
  BY <1>1, <1>11, <1>13, OnceKept DEF FormInv
<1> QED BY <1>11, <1>12, <1>13, <1>14 DEF FormInv

-----------------------------------------------------------------------------
(* The groups there are and the new ones. *)
GroupsAfter(ps) ==
  /\ Len(group) \in Nat /\ DOMAIN group = 1..Len(group)
  /\ Len(ps) \in Nat /\ DOMAIN group' = 1..(Len(group) + Len(ps))
  /\ \A g \in 1..Len(group) : group'[g] = group[g]
  /\ \A i \in 1..Len(ps) : group'[Len(group) + i] = Teamwork!NewGroup(ps[i])

LEMMA GroupsAdded ==
  ASSUME GroupsSound, NEW f, FormSound(f), group' = group \o Teamwork!NewGroups(f)
  PROVE  GroupsAfter(PartsOf(f)) /\ GroupsSound'
<1> DEFINE ps == PartsOf(f)
           made == Teamwork!NewGroups(f)
           m == Len(ps)
           n == Len(group)
           C == ToSet(group) \cup ToSet(made)
           new(p) == Teamwork!NewGroup(p)
<1>1. m \in Nat /\ made = [i \in 1..m |-> new(ps[i])]
  BY GroupsOfParts
<1> HIDE DEF new, made
<1>2. \A i \in 1..m : made[i] = new(ps[i])
  BY <1>1
<1>3. made = [i \in 1..m |-> made[i]]
  BY <1>1
<1> HIDE DEF m, ps
<1>4. IsASeq(made) /\ Len(made) = m
  BY <1>1, <1>3, SeqOfFunction
<1>5. IsASeq(group)
  BY DEF GroupsSound
<1>6. group \in Seq(C) /\ made \in Seq(C)
  <2>1. ToSet(group) \subseteq C /\ ToSet(made) \subseteq C
    OBVIOUS
  <2> HIDE DEF C
  <2> QED BY <1>4, <1>5, <2>1, SeqInLarger
<1>7. group' = group \o made
  BY DEF made
<1> HIDE DEF C, n
<1>8. /\ Len(group') = Len(group) + Len(made) /\ group' \in Seq(C)
      /\ Len(group) \in Nat
      /\ DOMAIN group' = 1..Len(group') /\ DOMAIN group = 1..Len(group)
      /\ \A i \in 1..Len(group) : group'[i] = group[i]
      /\ \A i \in 1..Len(made) : group'[Len(group) + i] = made[i]
  BY <1>6, <1>7, JoinedAs
<1>9. GroupsAfter(ps)
  BY <1>1, <1>2, <1>4, <1>8 DEF GroupsAfter, m, new
<1>10. IsASeq(group')
  BY <1>8, SeqIsASeq
<1>11. ASSUME NEW g \in DOMAIN group' PROVE group'[g] = [leader |-> group'[g].leader, rows |-> group'[g].rows]
  <2>1. CASE g \in 1..Len(group)
    BY <1>8, <2>1 DEF GroupsSound
  <2>2. CASE g \notin 1..Len(group)
    <3>1. g - Len(group) \in 1..Len(made) /\ Len(group) + (g - Len(group)) = g
      <4> DEFINE q == Len(group)
                 r == Len(made)
      <4>1. g \in 1..(q + r) /\ q \in Nat /\ r \in Nat
        BY <1>1, <1>4, <1>8
      <4> HIDE DEF q, r
      <4>2. g \notin 1..q
        BY <2>2 DEF q
      <4>3. g - q \in 1..r /\ q + (g - q) = g
        BY <4>1, <4>2
      <4> QED BY <4>3 DEF q, r
    <3>2. PICK i \in 1..m : group'[g] = new(ps[i])
      BY <1>2, <1>4, <1>8, <3>1
    <3>3. PICK l : new(ps[i]) = [leader |-> l, rows |-> RowsOf(ps[i])]
      BY NewGroupRows DEF new
    <3>4. \A x : x = [leader |-> l, rows |-> RowsOf(ps[i])] => x = [leader |-> x.leader, rows |-> x.rows]
      OBVIOUS
    <3> QED BY <3>2, <3>3, <3>4
  <2> QED BY <2>1, <2>2
<1> QED BY <1>9, <1>10, <1>11 DEF GroupsSound, ps

(* The parts of a forming, and the teams that bring their rows. *)
LEMMA PartRows ==
  ASSUME NEW f, FormSound(f), NEW i \in 1..Len(PartsOf(f))
  PROVE  /\ Teamwork!NewGroup(PartsOf(f)[i]).rows = RowsOf(PartsOf(f)[i])
         /\ PartsOf(f)[i] \in Seq(ToSet(f.regs))
         /\ ToSet(PartsOf(f)[i]) \subseteq ToSet(f.regs)
         /\ \A gr \in RowsOf(PartsOf(f)[i]) : \E j \in 1..Len(PartsOf(f)[i]) :
              /\ PartsOf(f)[i][j] \in ToSet(f.regs)
              /\ \E s \in member[PartsOf(f)[i][j].team] : gr = <<s, PartsOf(f)[i][j].team>>
<1> DEFINE p == PartsOf(f)[i]
           B == ToSet(f.regs)
<1>1. p \in Seq(B)
  BY FormingParts DEF Parted, Groups
<1> HIDE DEF p, B
<1>2. Teamwork!NewGroup(p).rows = RowsOf(p)
  BY NewGroupRows
<1>3. DOMAIN p = 1..Len(p) /\ \A j \in 1..Len(p) : p[j] \in B
  BY <1>1
<1>4. ToSet(p) = {p[j] : j \in 1..Len(p)}
  BY <1>3 DEF ToSet
<1>5. ASSUME NEW gr \in RowsOf(p)
      PROVE  \E j \in 1..Len(p) : p[j] \in B /\ \E s \in member[p[j].team] : gr = <<s, p[j].team>>
  <2>1. PICK r \in ToSet(p) : \E s \in member[r.team] : gr = <<s, r.team>>
    BY RowOfOne
  <2>2. PICK j \in 1..Len(p) : r = p[j]
    BY <1>4
  <2> QED BY <1>3, <2>1, <2>2
<1>6. ToSet(p) \subseteq B
  BY <1>3, <1>4
<1> QED BY <1>1, <1>2, <1>5, <1>6 DEF p, B

(* A team is in one part. *)
LEMMA OnePart ==
  ASSUME NEW f, FormSound(f), NEW i \in 1..Len(PartsOf(f)), NEW h \in 1..Len(PartsOf(f)),
         NEW j \in 1..Len(PartsOf(f)[i]), NEW l \in 1..Len(PartsOf(f)[h]),
         PartsOf(f)[i][j].team = PartsOf(f)[h][l].team
  PROVE  i = h /\ j = l
<1> DEFINE ps == PartsOf(f)
           B == ToSet(f.regs)
<1>1. ps[i] \in Seq(B) /\ ps[h] \in Seq(B)
  BY FormingParts DEF Parted, Groups
<1>2. Distinct(ps)
  BY FormingParts DEF Parted
<1> HIDE DEF ps
<1>3. ps[i][j] \in B /\ ps[h][l] \in B
  BY <1>1 DEF ps
<1>4. ps[i][j] = ps[h][l]
  BY <1>3 DEF FormSound, Roster, ps
<1> QED BY <1>2, <1>4 DEF Distinct, ps

LEMMA FreezeKeeps == ASSUME FormInv, NEW p \in Proc, Teamwork!FreezeGroups(p) PROVE FormInv'
<1> DEFINE f == act[p]
           ps == PartsOf(f)
           n == Len(group)
<1>1. /\ f # None /\ f.op = "freeze" /\ Forming(p)
      /\ UNCHANGED <<project, regs, twice, member>>
      /\ act' = [act EXCEPT ![p] = None]
      /\ group' = group \/ group' = group \o Teamwork!NewGroups(f)
  BY DEF Teamwork!FreezeGroups, Teamwork!Done, Forming
<1>2. FormSound(f)
  BY <1>1 DEF FormInv, ActsSound, ActSound
<1>3. TeamsSound' /\ BoundsSound'
  BY <1>1 DEF FormInv, TeamsSound, BoundsSound
<1>4. Harmless(None)
  BY DEF Harmless
<1>5. ActsSound' /\ FormsLess
  BY <1>1, <1>4, ActsKept, LocksStay DEF FormInv
<1>6. CASE group' = group
  <2>1. FreezesLess /\ GroupsSound'
    BY <1>6, SameGroups DEF FormInv
  <2>2. OnceInv'
    BY <1>1, <1>5, <2>1, OnceKept DEF FormInv
  <2> QED BY <1>3, <1>5, <2>1, <2>2 DEF FormInv
<1>7. CASE group' = group \o Teamwork!NewGroups(f)
  <2>1. GroupsAfter(ps) /\ GroupsSound'
    BY <1>2, <1>7, GroupsAdded DEF FormInv
  <2>2. CASE twice
    BY <1>1, <1>3, <1>5, <2>1, <2>2 DEF FormInv, OnceInv
  <2>3. CASE ~ twice
    <3>1. /\ \A q \in Proc : Forming(q) => q = p
          /\ \A x \in ToSet(f.regs) : ~ Teamwork!Frozen(x.team)
          /\ Teamwork!FrozenOnce
      BY <1>1, <2>3 DEF FormInv, OnceInv
    <3>2. \A q \in Proc : ~ Forming(q)'
      <4>1. act'[p] = None
        BY <1>1 DEF FormInv, ActsSound
      <4> QED BY <1>5, <3>1, <4>1 DEF FormsLess, Forming
    <3> HIDE DEF f, ps, n
    <3>3. ASSUME NEW g \in DOMAIN group'
          PROVE  \/ g \in DOMAIN group /\ group'[g] = group[g]
                 \/ \E i \in 1..Len(ps) : g = n + i /\ group'[g] = Teamwork!NewGroup(ps[i])
      <4> DEFINE m == Len(ps)
      <4>1. /\ n \in Nat /\ m \in Nat /\ g \in 1..(n + m) /\ DOMAIN group = 1..n
            /\ \A h \in 1..n : group'[h] = group[h]
            /\ \A i \in 1..m : group'[n + i] = Teamwork!NewGroup(ps[i])
        BY <2>1 DEF GroupsAfter, n
      <4> HIDE DEF m
      <4>2. CASE g \in 1..n
        BY <4>1, <4>2
      <4>3. CASE g \notin 1..n
        <5>1. g - n \in 1..m /\ n + (g - n) = g
          BY <4>1, <4>3
        <5> QED BY <4>1, <5>1 DEF m
      <4> QED BY <4>2, <4>3
    <3>4. ASSUME NEW i \in 1..Len(ps), NEW gr \in Teamwork!NewGroup(ps[i]).rows
          PROVE  \E j \in 1..Len(ps[i]) : ps[i][j] \in ToSet(f.regs) /\ gr[2] = ps[i][j].team
      <4>1. gr \in RowsOf(ps[i])
        BY <1>2, PartRows DEF ps
      <4>2. PICK j \in 1..Len(ps[i]) : ps[i][j] \in ToSet(f.regs) /\ \E s : gr = <<s, ps[i][j].team>>
        BY <1>2, <4>1, PartRows DEF ps
      <4> QED BY <4>2
    <3>5. ASSUME NEW g \in DOMAIN group', NEW h \in DOMAIN group',
                 NEW gr \in group'[g].rows, NEW other \in group'[h].rows,
                 gr[2] # None, other[2] = gr[2]
          PROVE  g = h
      <4>1. CASE g \in DOMAIN group /\ group'[g] = group[g] /\ h \in DOMAIN group /\ group'[h] = group[h]
        BY <3>1, <3>5, <4>1 DEF Teamwork!FrozenOnce
      <4>2. ASSUME NEW a \in DOMAIN group, NEW b \in 1..Len(ps),
                   NEW ra \in group[a].rows, NEW rb \in Teamwork!NewGroup(ps[b]).rows, ra[2] = rb[2]
            PROVE  FALSE
        <5>1. PICK j \in 1..Len(ps[b]) : ps[b][j] \in ToSet(f.regs) /\ rb[2] = ps[b][j].team
          BY <3>4
        <5>2. Teamwork!Frozen(ps[b][j].team)
          BY <4>2, <5>1 DEF Teamwork!Frozen
        <5> QED BY <3>1, <5>1, <5>2
      <4>3. ASSUME NEW i \in 1..Len(ps), NEW k \in 1..Len(ps), g = n + i, h = n + k,
                   group'[g] = Teamwork!NewGroup(ps[i]), group'[h] = Teamwork!NewGroup(ps[k])
            PROVE  g = h
        <5>1. PICK j \in 1..Len(ps[i]) : gr[2] = ps[i][j].team
          BY <3>4, <4>3
        <5>2. PICK l \in 1..Len(ps[k]) : other[2] = ps[k][l].team
          BY <3>4, <4>3
        <5>3. ps[i][j].team = ps[k][l].team
          BY <3>5, <5>1, <5>2
        <5>4. i = k
          BY <1>2, <5>3, OnePart DEF ps
        <5> QED BY <4>3, <5>4
      <4> QED BY <3>3, <3>5, <4>1, <4>2, <4>3
    <3>6. Teamwork!FrozenOnce'
      BY <3>5 DEF Teamwork!FrozenOnce
    <3>7. OnceInv'
      BY <3>2, <3>6 DEF OnceInv
    <3> QED BY <1>3, <1>5, <2>1, <3>7 DEF FormInv
  <2> QED BY <2>2, <2>3
<1> QED BY <1>1, <1>6, <1>7

-----------------------------------------------------------------------------
LEMMA FormInvNext == FormInv /\ [Teamwork!Next]_(Teamwork!vars) => FormInv'
<1> SUFFICES ASSUME FormInv, [Teamwork!Next]_(Teamwork!vars) PROVE FormInv'
  OBVIOUS
<1>1. CASE Teamwork!TeamStep
  BY <1>1, TeamStepKeeps
<1>2. CASE Teamwork!UpdateProject \/ Teamwork!Tick \/ \E g \in 1..MaxGroups, s \in Work : Teamwork!FirstSave(g, s)
  BY <1>2, UpdateKeeps
<1>3. CASE Teamwork!DeleteProject
  BY <1>3, DeleteProjectKeeps
<1>4. ASSUME NEW p \in Proc,
             \/ Teamwork!DeleteTeam(p) \/ Teamwork!InsertRegistration(p) \/ Teamwork!DeleteRegistration(p)
             \/ Teamwork!BeginFormGroups(p) \/ Teamwork!LockRegs(p) \/ Teamwork!FreezeGroups(p)
             \/ \E t \in File, s \in Work : Teamwork!BeginRegister(p, t, s) \/ Teamwork!BeginUnregister(p, t, s)
      PROVE  FormInv'
  <2>1. CASE \E t \in File, s \in Work : Teamwork!BeginRegister(p, t, s) \/ Teamwork!BeginUnregister(p, t, s)
    BY <2>1, BeginKeeps
  <2> QED BY <1>4, <2>1, DeleteTeamKeeps, InsertKeeps, DeleteKeeps, BeginFormKeeps, LockKeeps, FreezeKeeps
<1>5. CASE UNCHANGED Teamwork!vars
  BY <1>5, StutterKeeps
<1> QED BY <1>1, <1>2, <1>3, <1>4, <1>5 DEF Teamwork!Next

(* A team is frozen into one group, for any students, teams and requests, as *)
(* long as no forming begins while another is under way (postgres/           *)
(* project.go:207-306).                                                      *)
THEOREM TeamsFreezeOnce == Teamwork!Spec => []FrozenOnceUnlessTwice
<1>1. FormInv => FrozenOnceUnlessTwice
  BY DEF FormInv, OnceInv, FrozenOnceUnlessTwice, Teamwork!FrozenOnceUnlessTwice
<1> QED BY <1>1, FormInvInit, FormInvNext, PTL DEF Teamwork!Spec

-----------------------------------------------------------------------------
LEMMA ToSetOf == \A f : ToSet(f) = {f[i] : i \in DOMAIN f}
BY DEF ToSet

LEMMA RegisteredIs == \A t : Teamwork!Registered(t) <=> t \in ToSet(regs)
BY TeamworkToSet DEF Teamwork!Registered

(* Only a freeze makes groups, and only a freeze ends a forming.             *)
LEMMA OnlyFreezes ==
  ASSUME FormInv, [Teamwork!Next]_(Teamwork!vars)
  PROVE  \/ /\ DOMAIN group' \subseteq DOMAIN group
            /\ \A p \in Proc : Freezing(p) => act'[p] = act[p]
         \/ \E p \in Proc : Teamwork!FreezeGroups(p)
<1> DEFINE Quiet == /\ DOMAIN group' \subseteq DOMAIN group
                    /\ \A p \in Proc : Freezing(p) => act'[p] = act[p]
<1>0. act = [p \in Proc |-> act[p]]
  BY DEF FormInv, ActsSound
<1>1. ASSUME group' = group, act' = act PROVE Quiet
  BY <1>1
<1>2. ASSUME NEW p \in Proc, ~ Freezing(p), NEW v, act' = [act EXCEPT ![p] = v], group' = group
      PROVE  Quiet
  BY <1>0, <1>2
<1> HIDE DEF Quiet
<1>3. CASE Teamwork!TeamStep
  BY <1>1, <1>3, TeamStepMembers DEF Teamwork!TeamStep
<1>4. CASE Teamwork!UpdateProject \/ Teamwork!Tick \/ \E g \in 1..MaxGroups, s \in Work : Teamwork!FirstSave(g, s)
  BY <1>1, <1>4 DEF Teamwork!UpdateProject, Teamwork!Tick, Teamwork!FirstSave, Teamwork!teamVars
<1>5. CASE Teamwork!DeleteProject
  <2>1. DOMAIN group' = {} /\ act' = act
    BY <1>5 DEF Teamwork!DeleteProject
  <2> QED BY <2>1 DEF Quiet
<1>6. ASSUME NEW p \in Proc, Teamwork!DeleteTeam(p) PROVE Quiet
  <2>1. act' = act /\ (group' = group \/ DOMAIN group' = DOMAIN group)
    BY <1>6 DEF Teamwork!DeleteTeam, Teamwork!Forget
  <2> QED BY <2>1 DEF Quiet
<1>7. ASSUME NEW p \in Proc, Teamwork!InsertRegistration(p) \/ Teamwork!DeleteRegistration(p)
      PROVE  Quiet
  <2>1. ~ Freezing(p) /\ act' = [act EXCEPT ![p] = None] /\ group' = group
    BY <1>7 DEF Teamwork!InsertRegistration, Teamwork!DeleteRegistration, Teamwork!Done,
       Teamwork!teamVars, Freezing
  <2> QED BY <1>2, <2>1
<1>8. ASSUME NEW p \in Proc, Teamwork!BeginFormGroups(p) PROVE Quiet
  <2>1. act[p] = None /\ group' = group /\ \E v : act' = [act EXCEPT ![p] = v]
    BY <1>8 DEF Teamwork!BeginFormGroups, Teamwork!Free
  <2> QED BY <1>2, <2>1 DEF Freezing
<1>9. ASSUME NEW p \in Proc, NEW t \in File, NEW s \in Work, Teamwork!BeginRegister(p, t, s)
      PROVE  Quiet
  <2>1. act[p] = None /\ group' = group /\ \E v : act' = [act EXCEPT ![p] = v]
    BY <1>9 DEF Teamwork!BeginRegister, Teamwork!Free
  <2> QED BY <1>2, <2>1 DEF Freezing
<1>10. ASSUME NEW p \in Proc, NEW t \in File, NEW s \in Work, Teamwork!BeginUnregister(p, t, s)
       PROVE  Quiet
  <2>1. act[p] = None /\ group' = group /\ \E v : act' = [act EXCEPT ![p] = v]
    BY <1>10 DEF Teamwork!BeginUnregister, Teamwork!Free
  <2> QED BY <1>2, <2>1 DEF Freezing
<1>11. ASSUME NEW p \in Proc, Teamwork!LockRegs(p) PROVE Quiet
  <2>1. ~ Freezing(p) /\ group' = group
    BY <1>11 DEF Teamwork!LockRegs, Freezing, Teamwork!teamVars
  <2>2. \E v : act' = [act EXCEPT ![p] = v]
    BY <1>11 DEF Teamwork!LockRegs
  <2> QED BY <1>2, <2>1, <2>2
<1>12. CASE UNCHANGED Teamwork!vars
  BY <1>1, <1>12 DEF Teamwork!vars
<1>13. ASSUME NEW p \in Proc,
              \/ Teamwork!DeleteTeam(p) \/ Teamwork!InsertRegistration(p) \/ Teamwork!DeleteRegistration(p)
              \/ Teamwork!BeginFormGroups(p) \/ Teamwork!LockRegs(p) \/ Teamwork!FreezeGroups(p)
              \/ \E t \in File, s \in Work : Teamwork!BeginRegister(p, t, s) \/ Teamwork!BeginUnregister(p, t, s)
       PROVE  Quiet \/ Teamwork!FreezeGroups(p)
  <2>1. CASE \E t \in File, s \in Work : Teamwork!BeginRegister(p, t, s) \/ Teamwork!BeginUnregister(p, t, s)
    BY <2>1, <1>9, <1>10
  <2> QED BY <1>13, <2>1, <1>6, <1>7, <1>8, <1>11
<1>14. Quiet \/ \E p \in Proc : Teamwork!FreezeGroups(p)
  <2>1. CASE Teamwork!TeamStep \/ Teamwork!UpdateProject \/ Teamwork!DeleteProject \/ Teamwork!Tick
    BY <2>1, <1>3, <1>4, <1>5 DEF Quiet
  <2>2. CASE \E g \in 1..MaxGroups, s \in Work : Teamwork!FirstSave(g, s)
    BY <2>2, <1>4 DEF Quiet
  <2> QED BY <2>1, <2>2, <1>12, <1>13 DEF Teamwork!Next, Quiet
<1> QED BY <1>14 DEF Quiet

-----------------------------------------------------------------------------
LEMMA UnmovedIsAsRead ==
  ASSUME TeamsSound, NEW f, FormSound(f), Teamwork!Unmoved(f)
  PROVE  /\ \A x \in ToSet(f.regs) : AsRead(x)
         /\ \A x, y \in ToSet(f.regs) : x # y => member[x.team] \cap member[y.team] = {}
<1>1. ASSUME NEW x \in ToSet(f.regs)
      PROVE  AsRead(x)
  <2>1. PICK i \in DOMAIN f.regs : x = f.regs[i]
    BY ToSetOf
  <2>2. Cardinality(member[x.team]) = x.size /\ x.leader \in member[x.team]
    BY <2>1, TeamworkCardinality DEF Teamwork!Unmoved
  <2>3. IsFiniteSet(member[x.team])
    BY DEF FormSound, Roster, TeamsSound
  <2> QED BY <2>2, <2>3 DEF AsRead
<1>2. ASSUME NEW x \in ToSet(f.regs), NEW y \in ToSet(f.regs), x # y
      PROVE  member[x.team] \cap member[y.team] = {}
  <2>1. PICK i \in DOMAIN f.regs : x = f.regs[i]
    BY ToSetOf
  <2>2. PICK j \in DOMAIN f.regs : y = f.regs[j]
    BY ToSetOf
  <2>3. i # j
    BY <1>2, <2>1, <2>2
  <2> QED BY <2>1, <2>2, <2>3 DEF Teamwork!Unmoved
<1> QED BY <1>1, <1>2

(* What a part becomes while membership is as it was read.                   *)
LEMMA PartIsSound ==
  ASSUME TeamsSound, NEW f, FormSound(f), Teamwork!Unmoved(f), NEW i \in 1..Len(PartsOf(f))
  PROVE  LET g == Teamwork!NewGroup(PartsOf(f)[i])
         IN  /\ Teamwork!OneRowEach(g)
             /\ Cardinality(g.rows) \in f.lo..f.hi
             /\ \E gr \in g.rows : gr[1] = g.leader
<1> DEFINE p == PartsOf(f)[i]
           B == ToSet(f.regs)
           g == Teamwork!NewGroup(p)
<1>1. p \in Seq(B) /\ ToSet(p) \subseteq B /\ g.rows = RowsOf(p)
  BY PartRows
<1>2. SeedSet(B) /\ f.lo \in Nat /\ f.hi \in Nat
  BY DEF FormSound, Roster, SeedSet
<1>3. /\ \A x \in B : AsRead(x)
      /\ \A x, y \in B : x # y => member[x.team] \cap member[y.team] = {}
  BY UnmovedIsAsRead
<1>4. p # <<>> /\ GroupSize(p) >= f.lo /\ GroupSize(p) <= f.hi
  BY FormingParts DEF Parted, WithinBounds
<1>5. \A j, l \in 1..Len(p) : p[j].team = p[l].team => j = l
  BY OnePart
<1> HIDE DEF p, B, g
<1>6. Cardinality(g.rows) \in f.lo..f.hi
  <2>1. Cardinality(RowsOf(p)) = GroupSize(p)
    BY <1>1, <1>2, <1>3, <1>5, RowsAreCounted
  <2>2. GroupSize(p) \in Nat
    BY <1>1, <1>2, SizeIsNat
  <2> QED BY <1>1, <1>2, <1>4, <2>1, <2>2
<1>7. \E gr \in g.rows : gr[1] = g.leader
  <2>1. PICK r \in ToSet(p) : g.leader = r.leader
    BY <1>1, <1>2, <1>4, NewGroupLeader DEF g
  <2>2. r.leader \in member[r.team]
    BY <1>1, <1>3 DEF AsRead
  <2>3. <<r.leader, r.team>> \in RowsOf(p)
    BY <2>2 DEF RowsOf, Brought
  <2> QED BY <1>1, <2>1, <2>3
<1>8. Teamwork!OneRowEach(g)
  <2> SUFFICES ASSUME NEW r1 \in RowsOf(p), NEW r2 \in RowsOf(p), r1[1] = r2[1]
               PROVE  r1 = r2
    BY <1>1 DEF Teamwork!OneRowEach
  <2>1. PICK x \in ToSet(p) : \E s \in member[x.team] : r1 = <<s, x.team>>
    BY RowOfOne
  <2>2. PICK y \in ToSet(p) : \E s \in member[y.team] : r2 = <<s, y.team>>
    BY RowOfOne
  <2>3. r1 = <<r1[1], x.team>> /\ r1[1] \in member[x.team]
    BY <2>1
  <2>5. r2 = <<r2[1], y.team>> /\ r2[1] \in member[y.team]
    BY <2>2
  <2>4. x = y
    BY <1>1, <1>3, <2>3, <2>5
  <2> QED BY <2>3, <2>4, <2>5
<1> QED BY <1>6, <1>7, <1>8 DEF g, p

(* While membership is as it was read, every part becomes a group.           *)
LEMMA AllPartsFreeze ==
  ASSUME FormInv, NEW p \in Proc, Teamwork!FreezeGroups(p), project # None, Teamwork!Unmoved(act[p])
  PROVE  GroupsAfter(PartsOf(act[p]))
<1> DEFINE f == act[p]
           ps == PartsOf(f)
           made == Teamwork!NewGroups(f)
<1>1. FormSound(f)
  BY DEF Teamwork!FreezeGroups, Forming, FormInv, ActsSound, ActSound
<1>2. made = [i \in 1..Len(ps) |-> Teamwork!NewGroup(ps[i])]
  BY <1>1, GroupsOfParts
<1>3. \A i \in 1..Len(ps) : Teamwork!OneRowEach(Teamwork!NewGroup(ps[i]))
  BY <1>1, PartIsSound DEF FormInv
<1>4. group' = IF project # None /\ \A i \in DOMAIN made : Teamwork!OneRowEach(made[i])
               THEN group \o made ELSE group
  BY DEF Teamwork!FreezeGroups
<1> HIDE DEF ps, made, f
<1>5. \A i \in DOMAIN made : Teamwork!OneRowEach(made[i])
  BY <1>2, <1>3
<1>6. group' = group \o made
  BY <1>4, <1>5
<1> QED BY <1>1, <1>6, GroupsAdded DEF FormInv, made, f

(* The groups formed are those of the parts. *)
LEMMA FormedPart ==
  ASSUME NEW ps, GroupsAfter(ps), NEW g \in DOMAIN group' \ DOMAIN group
  PROVE  \E i \in 1..Len(ps) : g = Len(group) + i /\ group'[g] = Teamwork!NewGroup(ps[i])
<1> DEFINE n == Len(group)
           m == Len(ps)
<1>1. /\ n \in Nat /\ m \in Nat /\ g \in 1..(n + m) /\ g \notin 1..n
      /\ \A i \in 1..m : group'[n + i] = Teamwork!NewGroup(ps[i])
  BY DEF GroupsAfter
<1> HIDE DEF n, m
<1>2. g - n \in 1..m /\ n + (g - n) = g
  BY <1>1
<1> QED BY <1>1, <1>2 DEF n, m

LEMMA PartFormed ==
  ASSUME NEW ps, GroupsAfter(ps), NEW i \in 1..Len(ps)
  PROVE  /\ Len(group) + i \in DOMAIN group' \ DOMAIN group
         /\ group'[Len(group) + i] = Teamwork!NewGroup(ps[i])
<1> DEFINE n == Len(group)
           m == Len(ps)
<1>1. /\ n \in Nat /\ m \in Nat /\ i \in 1..m /\ DOMAIN group = 1..n /\ DOMAIN group' = 1..(n + m)
      /\ \A j \in 1..m : group'[n + j] = Teamwork!NewGroup(ps[j])
  BY DEF GroupsAfter
<1> HIDE DEF n, m
<1>2. n + i \in 1..(n + m) /\ n + i \notin 1..n
  BY <1>1
<1>3. n + i \in DOMAIN group' \ DOMAIN group /\ group'[n + i] = Teamwork!NewGroup(ps[i])
  BY <1>1, <1>2
<1> QED BY <1>3 DEF n

(* The freeze, read against the plan it inserts. *)
LEMMA FreezeIsSound ==
  ASSUME FormInv, NEW p \in Proc, Teamwork!FreezeGroups(p)
  PROVE  Teamwork!FormsSoundly
<1> DEFINE f == act[p]
           ps == PartsOf(f)
           formed == DOMAIN group' \ DOMAIN group
<1>1. /\ Freezing(p) /\ FormSound(f) /\ act' = [act EXCEPT ![p] = None]
      /\ group' = group \/ group' = group \o Teamwork!NewGroups(f)
  BY DEF Teamwork!FreezeGroups, Teamwork!Done, Forming, Freezing, FormInv, ActsSound, ActSound
<1>2. TeamsSound /\ GroupsSound
  BY DEF FormInv
<1>3. \A x \in ToSet(f.regs) : x.team \in ToSet(regs)
  BY <1>1 DEF FormInv, ActsSound, ActSound
<1> HIDE DEF ps
<1>4. ASSUME NEW g \in formed, NEW gr \in group'[g].rows
      PROVE  Teamwork!Registered(gr[2])
  <2>1. CASE group' = group
    BY <2>1
  <2>2. CASE group' = group \o Teamwork!NewGroups(f)
    <3>1. GroupsAfter(ps)
      BY <1>1, <1>2, <2>2, GroupsAdded DEF ps
    <3>2. PICK i \in 1..Len(ps) : group'[g] = Teamwork!NewGroup(ps[i])
      BY <3>1, FormedPart
    <3>3. gr \in RowsOf(ps[i])
      BY <1>1, <3>2, PartRows DEF ps
    <3> HIDE DEF f
    <3>4. FormSound(f)
      BY <1>1
    <3>5. \A r \in RowsOf(ps[i]) : \E j \in 1..Len(ps[i]) :
            ps[i][j] \in ToSet(f.regs) /\ \E s \in member[ps[i][j].team] : r = <<s, ps[i][j].team>>
      BY <3>2, <3>4, PartRows DEF ps
    <3>6. PICK j \in 1..Len(ps[i]) :
            ps[i][j] \in ToSet(f.regs) /\ \E s \in member[ps[i][j].team] : gr = <<s, ps[i][j].team>>
      BY <3>3, <3>5
    <3>7. gr[2] = ps[i][j].team
      BY <3>6
    <3> QED BY <1>3, <3>6, <3>7, RegisteredIs
  <2> QED BY <1>1, <2>1, <2>2
<1>5. ASSUME NEW q \in Proc, act[q] # None, act[q].op = "freeze", act'[q] = None,
             project # None, Teamwork!Unmoved(act[q])
      PROVE  /\ q = p
             /\ \A g \in formed :
                  /\ Teamwork!Cardinality(group'[g].rows) \in f.lo..f.hi
                  /\ \E gr \in group'[g].rows : gr[1] = group'[g].leader
             /\ \A i \in DOMAIN f.regs : f.regs[i].size \in f.lo..f.hi =>
                  \E g \in formed : \E gr \in group'[g].rows : gr[2] = f.regs[i].team
  <2>1. q = p
    BY <1>1, <1>5 DEF FormInv, ActsSound
  <2>2. Teamwork!Unmoved(f) /\ GroupsAfter(ps)
    BY <1>5, <2>1, AllPartsFreeze DEF ps
  <2> HIDE DEF f
  <2>3. ASSUME NEW g \in formed
        PROVE  /\ Teamwork!Cardinality(group'[g].rows) \in f.lo..f.hi
               /\ \E gr \in group'[g].rows : gr[1] = group'[g].leader
    <3>1. PICK i \in 1..Len(ps) : group'[g] = Teamwork!NewGroup(ps[i])
      BY <2>2, FormedPart
    <3> QED BY <1>1, <1>2, <2>2, <3>1, PartIsSound, TeamworkCardinality DEF ps
  <2>4. ASSUME NEW i \in DOMAIN f.regs, f.regs[i].size \in f.lo..f.hi
        PROVE  \E g \in formed : \E gr \in group'[g].rows : gr[2] = f.regs[i].team
    <3> DEFINE x == f.regs[i]
    <3>1. x \in ToSet(f.regs)
      BY ToSetOf
    <3> HIDE DEF x
    <3>2. PICK j \in 1..Len(ps) : ps[j] = <<x>>
      BY <1>1, <2>4, <3>1, FormingParts DEF Parted, ps, x
    <3>3. x.leader \in member[x.team]
      BY <1>1, <1>2, <2>2, <3>1, UnmovedIsAsRead DEF AsRead
    <3>4. x \in ToSet(ps[j])
      <4>1. DOMAIN ps[j] = 1..1 /\ ps[j][1] = x
        BY <3>2
      <4> QED BY <4>1, ToSetOf
    <3>5. <<x.leader, x.team>> \in RowsOf(ps[j])
      BY <3>3, <3>4 DEF RowsOf, Brought
    <3>6. Len(group) + j \in formed /\ group'[Len(group) + j].rows = RowsOf(ps[j])
      BY <1>1, <2>2, PartFormed, PartRows DEF ps
    <3> QED BY <3>5, <3>6 DEF x
  <2> QED BY <2>1, <2>3, <2>4
<1> HIDE DEF f
<1> QED BY <1>4, <1>5 DEF Teamwork!FormsSoundly, f

(* A step that makes no group and ends no forming has nothing to show. *)
LEMMA QuietIsSound ==
  ASSUME DOMAIN group' \subseteq DOMAIN group, \A p \in Proc : Freezing(p) => act'[p] = act[p]
  PROVE  Teamwork!FormsSoundly
BY DEF Teamwork!FormsSoundly, Freezing

(* The groups a forming makes are sound, for any students, teams, bounds and *)
(* requests: of teams still registered; and while membership is as it was    *)
(* read, within the bounds, with a group for every fitting team, each led by *)
(* a member (postgres/project.go:207-306).                                   *)
THEOREM GroupsFormSoundly == Teamwork!Spec => FormedGroupsAreSound
<1>1. FormInv /\ [Teamwork!Next]_(Teamwork!vars) => Teamwork!FormsSoundly
  BY OnlyFreezes, FreezeIsSound, QuietIsSound
<1>2. Teamwork!Spec => []FormInv
  BY FormInvInit, FormInvNext, PTL DEF Teamwork!Spec
<1> QED BY <1>1, <1>2, PTL DEF Teamwork!Spec, FormedGroupsAreSound, Teamwork!FormedGroupsAreSound
=============================================================================
