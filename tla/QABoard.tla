-------------------------------- MODULE QABoard --------------------------------
(***************************************************************************)
(* The moderated question board of an offering: internal/classroom/qa.go   *)
(* and its Postgres adapter.  A question waits for a teacher, who answers  *)
(* or rejects it; author and staff edit it meanwhile.  Edits compare the   *)
(* version they read; answers and rejections compare the status and leave  *)
(* the version alone.  Every file on the board is counted.                 *)
(***************************************************************************)
EXTENDS Naturals, FiniteSets

CONSTANTS
    Questions,
    Calls,
    Files,
    NoFile,
    NotYet,             \* an id not used yet
    MaxVersion,         \* bound: edits of a question
    MaxLinks            \* bound: counts of a file

VARIABLES
    questions,          \* the qa_questions table
    asked,              \* the file on each question
    answers,            \* the file on each answer; NotYet where there is none
    rejections,         \* questions with a row in qa_rejections
    links,              \* the count of each file
    calls,
    overtaken           \* history: questions decided under an edit that then won,
                        \* or whose files changed while a delete listed them

vars == <<questions, asked, answers, rejections, links, calls, overtaken>>

Row == [status : {"pending", "answered", "rejected"}, version : 0..MaxVersion,
        deleted : BOOLEAN]

BoardAssumption ==
    /\ IsFiniteSet(Questions) /\ IsFiniteSet(Calls)
    /\ MaxVersion \in Nat
    /\ NotYet \notin Row \cup Files \cup {NoFile}

Idle == [pc |-> "idle"]

CallRow ==
    {Idle}
    \cup [pc : {"ask", "plant", "answer"}, q : Questions, file : Files \cup {NoFile}]
    \cup [pc : {"edit"}, q : Questions, seen : Row, staff : BOOLEAN]
    \cup [pc : {"reject"}, q : Questions]
    \cup [pc : {"delete"}, q : Questions, listed : SUBSET (Questions \X {"asked", "answer"} \X Files)]
    \cup [pc : {"unlink"}, files : SUBSET ({"asked", "answer"} \X Files)]

Live(q) == questions[q] # NotYet /\ ~questions[q].deleted

TypeOK ==
    /\ questions \in [Questions -> Row \cup {NotYet}]
    /\ asked \in [Questions -> Files \cup {NoFile}]
    /\ answers \in [Questions -> Files \cup {NoFile, NotYet}]
    /\ rejections \subseteq Questions
    /\ links \in [Files -> 0..MaxLinks]
    /\ \A c \in Calls : calls[c].pc \in {"idle", "ask", "plant", "answer", "edit", "reject",
                                         "delete", "unlink"}
    /\ overtaken \subseteq Questions

Init ==
    /\ questions = [q \in Questions |-> NotYet]
    /\ asked = [q \in Questions |-> NoFile]
    /\ answers = [q \in Questions |-> NotYet]
    /\ rejections = {}
    /\ links = [f \in Files |-> 0]
    /\ calls = [c \in Calls |-> Idle]
    /\ overtaken = {}

Set(c, call) == calls' = [calls EXCEPT ![c] = call]

\* Counting a file, or none.
Link(f) ==
    IF f = NoFile THEN UNCHANGED links
    ELSE links[f] < MaxLinks /\ links' = [links EXCEPT ![f] = @ + 1]

\* The files hanging on a thread, each with the row that names it.
Attached(q) ==
    {<<"asked", f>> : f \in {asked[q]} \ {NoFile}}
    \cup {<<"answer", f>> : f \in {answers[q]} \ {NoFile, NotYet}}

\* Uncounting follows the transaction; a file is uncounted once for each row.
ThenUnlink(c, files) ==
    Set(c, IF files = {} THEN Idle ELSE [pc |-> "unlink", files |-> files])

Own(f) == IF f = NoFile THEN {} ELSE {<<"answer", f>>}

-----------------------------------------------------------------------------

\* A question waits for a teacher, a teacher's own comes with its answer.
BeginAsk(c, pc, q, f) ==
    /\ calls[c] = Idle /\ questions[q] = NotYet
    /\ \A d \in Calls : calls[d].pc \in {"ask", "plant"} => calls[d].q # q
    /\ Link(f)
    /\ Set(c, [pc |-> pc, q |-> q, file |-> f])
    /\ UNCHANGED <<questions, asked, answers, rejections, overtaken>>

\* CreateQuestion and CreateFAQ; a planted question's file may be its answer's.
\* A failed insert uncounts the file.
CreateThread(c) ==
    LET call == calls[c]
    IN  /\ call.pc \in {"ask", "plant"}
        /\ \/ /\ questions' = [questions EXCEPT ![call.q] =
                    [status |-> IF call.pc = "plant" THEN "answered" ELSE "pending",
                     version |-> 0, deleted |-> FALSE]]
              /\ \E f \in IF call.pc = "plant" THEN {call.file, NoFile} ELSE {NotYet} :
                    /\ answers' = [answers EXCEPT ![call.q] = f]
                    /\ asked' = [asked EXCEPT ![call.q] = IF f = call.file THEN NoFile ELSE call.file]
              /\ Set(c, Idle)
           \/ ThenUnlink(c, Own(call.file)) /\ UNCHANGED <<questions, asked, answers>>
        /\ UNCHANGED <<rejections, links, overtaken>>

BeginUpdate(c, q, staff) ==
    /\ calls[c] = Idle /\ Live(q)
    /\ Set(c, [pc |-> "edit", q |-> q, seen |-> questions[q], staff |-> staff])
    /\ UNCHANGED <<questions, asked, answers, rejections, links, overtaken>>

\* A bug of its kind: what staff edits counts as answered.
StatusOfStaffEdit(seen, staff) == IF staff THEN "answered" ELSE "pending"

\* An author's edit of an answered question sends it back to wait.
StatusAfterEdit(seen, staff) ==
    IF seen.status = "answered" /\ ~staff THEN "pending" ELSE seen.status

UpdateQuestion(c) ==
    LET call == calls[c]
        q    == call.q
    IN  /\ call.pc = "edit"
        /\ IF Live(q) /\ questions[q].version = call.seen.version
           THEN /\ questions[q].version < MaxVersion
                /\ questions' = [questions EXCEPT ![q].status = StatusAfterEdit(call.seen, call.staff),
                                                  ![q].version = @ + 1]
                /\ overtaken' = IF questions[q].status = call.seen.status THEN overtaken
                                ELSE overtaken \cup {q}
           ELSE UNCHANGED <<questions, overtaken>>
        /\ Set(c, Idle)
        /\ UNCHANGED <<asked, answers, rejections, links>>

BeginAnswer(c, q, f) ==
    /\ calls[c] = Idle /\ Live(q)
    /\ Link(f)
    /\ Set(c, [pc |-> "answer", q |-> q, file |-> f])
    /\ UNCHANGED <<questions, asked, answers, rejections, overtaken>>

\* A bug of its kind: the status in the update's WHERE is forgotten.
AnswerableAlways(q) == Live(q)

Answerable(q) == Live(q) /\ questions[q].status # "rejected"

\* One transaction: the question, its one answer and the answer's files.  The
\* version stays; the replaced files are uncounted, the new ones on refusal.
AnswerQuestion(c) ==
    LET call == calls[c]
        q    == call.q
    IN  /\ call.pc = "answer"
        /\ IF Answerable(q)
           THEN /\ questions' = [questions EXCEPT ![q].status = "answered"]
                /\ answers' = [answers EXCEPT ![q] = call.file]
                /\ ThenUnlink(c, {a \in Attached(q) : a[1] = "answer"})
           ELSE ThenUnlink(c, Own(call.file)) /\ UNCHANGED <<questions, answers>>
        /\ UNCHANGED <<asked, rejections, links, overtaken>>

BeginReject(c, q) ==
    /\ calls[c] = Idle /\ Live(q)
    /\ Set(c, [pc |-> "reject", q |-> q])
    /\ UNCHANGED <<questions, asked, answers, rejections, links, overtaken>>

RejectQuestion(c) ==
    LET q == calls[c].q
    IN  /\ calls[c].pc = "reject"
        /\ IF Live(q) /\ questions[q].status = "pending"
           THEN /\ questions' = [questions EXCEPT ![q].status = "rejected"]
                /\ rejections' = rejections \cup {q}
           ELSE UNCHANGED <<questions, rejections>>
        /\ Set(c, Idle)
        /\ UNCHANGED <<asked, answers, links, overtaken>>

\* The transaction lists the files first, without holding them ...
BeginDelete(c, q) ==
    /\ calls[c] = Idle /\ Live(q)
    /\ Set(c, [pc |-> "delete", q |-> q, listed |-> Attached(q)])
    /\ UNCHANGED <<questions, asked, answers, rejections, links, overtaken>>

\* ... deletes what is there by then and uncounts what it listed.  Somebody
\* else's delete makes it roll back.
SoftDeleteQuestion(c) ==
    LET call == calls[c]
        q    == call.q
    IN  /\ call.pc = "delete"
        /\ IF Live(q)
           THEN /\ questions' = [questions EXCEPT ![q].deleted = TRUE]
                /\ asked' = [asked EXCEPT ![q] = NoFile]
                /\ answers' = [answers EXCEPT ![q] = IF @ = NotYet THEN NotYet ELSE NoFile]
                /\ overtaken' = IF Attached(q) = call.listed THEN overtaken
                                ELSE overtaken \cup {q}
                /\ ThenUnlink(c, call.listed)
           ELSE Set(c, Idle) /\ UNCHANGED <<questions, asked, answers, overtaken>>
        /\ UNCHANGED <<rejections, links>>

\* A count that is already nought refuses.
Unlink(c) ==
    LET call == calls[c]
    IN  /\ call.pc = "unlink"
        /\ \E a \in call.files :
              /\ links' = [links EXCEPT ![a[2]] = IF @ = 0 THEN 0 ELSE @ - 1]
              /\ ThenUnlink(c, call.files \ {a})
        /\ UNCHANGED <<questions, asked, answers, rejections, overtaken>>

Next ==
    \E c \in Calls :
       \/ CreateThread(c) \/ UpdateQuestion(c) \/ AnswerQuestion(c) \/ RejectQuestion(c)
       \/ SoftDeleteQuestion(c) \/ Unlink(c)
       \/ \E q \in Questions :
             \/ BeginReject(c, q) \/ BeginDelete(c, q)
             \/ \E staff \in BOOLEAN : BeginUpdate(c, q, staff)
             \/ \E f \in Files \cup {NoFile} : \/ BeginAnswer(c, q, f)
                                               \/ \E pc \in {"ask", "plant"} : BeginAsk(c, pc, q, f)

Spec == Init /\ [][Next]_vars

-----------------------------------------------------------------------------
(* Properties *)

Naming(f) == Cardinality({p \in Questions \X {"asked", "answer"} : <<p[2], f>> \in Attached(p[1])})

\* What the board shows is there: an answered question has its answer, a rejected
\* one its reason; and every file has a count for each row that names it, unless
\* the files of a thread changed while a delete was listing them.
\* (classroom/postgres/qa.go: AnswerQuestion, RejectQuestion, SoftDeleteQuestion)
BoardAddsUp ==
    /\ \A q \in Questions : Live(q) =>
          /\ questions[q].status = "answered" => answers[q] # NotYet
          /\ questions[q].status = "rejected" => q \in rejections
    /\ overtaken = {} => \A f \in Files : links[f] >= Naming(f)

\* A decision stands: a rejected question stays rejected and an answered one goes
\* back to wait only when its author, having seen the answer, edits it; unless
\* the decision was made under an edit already on its way.
\* (classroom/qa.go: Update, Answer, Reject)
DecisionsStandUnlessOvertaken ==
    [][\A q \in Questions : Live(q) /\ Live(q)' /\ q \notin overtaken' =>
          /\ questions[q].status = "rejected" => questions'[q].status = "rejected"
          /\ questions[q].status = "answered" /\ questions'[q].status # "answered" =>
                \E c \in Calls : calls[c].pc = "edit" /\ calls[c].q = q /\ ~calls[c].staff
      ]_vars

\* The board's own description: a question waits pending until a teacher answers
\* or rejects it, so one that was rejected does not wait again.
\* (classroom/qa.go: "A student's question waits pending until a teacher answers
\* it (making it public) or rejects it with a reason")
RejectedStaysRejected ==
    [][\A q \in Questions : Live(q) /\ questions[q].status = "rejected" =>
          questions'[q].status = "rejected"]_vars
================================================================================
