-------------------------- MODULE KnowledgeProofs ---------------------------
(***************************************************************************)
(* What courses are written from: the knowledge of the experts and the     *)
(* target audiences, for any number of submissions, audiences, calls and   *)
(* events.                                                                 *)
(***************************************************************************)
EXTENDS SmeKnowledge, TargetAudiences, FiniteSetTheorems, TLAPS

-----------------------------------------------------------------------------
(***************************************************************************)
(* The experts' knowledge. An approval writes one row after the other, and *)
(* the page keeps the text that is reviewed apart from the submission it   *)
(* is of; ApprovalProgress and PanelOnItsSubmission say which of the       *)
(* writes have been done and which text is shown.                          *)
(***************************************************************************)
ApprovalRecord == [write : {"none", "submission", "chunk", "task", "expert", "done", "failed"},
                   of : 0..MaxSubmissions, text : 0..MaxSubmissions,
                   expert : SMEStatus, lost : BOOLEAN]
ReviewRecord   == [open : BOOLEAN, text : 0..MaxSubmissions, enhancing : 0..MaxSubmissions,
                   feedback : BOOLEAN, sending : BOOLEAN]

(* The page knows of no submission that the server does not have.          *)
PageBehind == desk.subs <= Len(submissions)

(* The panel edits the text of the submission it shows, and has that one   *)
(* enhanced; what is approved is a submission with its own text.           *)
PanelOnItsSubmission ==
  ~ outdated => /\ review.text \in {0, desk.subs} /\ review.enhancing \in {0, desk.subs}
                /\ approval.text = approval.of

(* How far an approval has come shows in the submission.                   *)
ApprovalAt(writes) == approval.write \in writes
ApprovalProgress ==
  /\ ApprovalAt({"submission", "chunk", "task", "expert"}) => approval.of \in DOMAIN submissions
  /\ ApprovalAt({"chunk", "task", "expert"}) => submissions[approval.of].approved
  /\ ApprovalAt({"task", "expert"}) => submissions[approval.of].learnt

(* Some text was approved and learnt.                                      *)
Learnt == \E i \in DOMAIN submissions : submissions[i].approved /\ submissions[i].learnt
ActiveWasLearnt == approval.expert = "active" => Learnt

(* The type invariant in parts.                                            *)
StatusTyped ==
  /\ expert \in SMEStatus /\ smeTask \in SMETaskStatus /\ assignee \in SMETaskStatus
  /\ outdated \in BOOLEAN
SubmissionsTyped == submissions \in Seq(Submission) /\ Len(submissions) <= MaxSubmissions
ChunksTyped      == chunks \subseteq KnowledgeChunk
DeskTyped        == desk \in Desk
ReviewTyped      == review \in ReviewRecord
ApprovalCallTyped    == approval \in ApprovalRecord
SmeEventsTyped      == smeEvents \in 0..MaxSmeEvents

LEMMA SmeTypedParts ==
  StatusTyped /\ SubmissionsTyped /\ ChunksTyped /\ DeskTyped /\ ReviewTyped /\ ApprovalCallTyped
    /\ SmeEventsTyped => SmeTypeOK
BY DEF SmeTypeOK, StatusTyped, SubmissionsTyped, ChunksTyped, DeskTyped, ReviewTyped,
       ApprovalCallTyped, SmeEventsTyped, ReviewRecord, ApprovalRecord

SmeInv ==
  /\ StatusTyped /\ SubmissionsTyped /\ ChunksTyped /\ DeskTyped /\ ReviewTyped
  /\ ApprovalCallTyped /\ SmeEventsTyped
  /\ PageBehind /\ PanelOnItsSubmission /\ KnowledgeOfItsSubmission
  /\ ApprovalProgress /\ ActiveWasLearnt /\ CompletedIsLearnt

LEMMA SmeInitInv == SmeInit => SmeInv
<1> SUFFICES ASSUME SmeInit
             PROVE  SmeInv
  OBVIOUS
<1>1. StatusTyped
  BY Zenon DEF SmeInit, StatusTyped, SMEStatus, SMETaskStatus
<1>2. SubmissionsTyped /\ ChunksTyped /\ SmeEventsTyped
  BY SmeAssumption DEF SmeInit, SubmissionsTyped, ChunksTyped, SmeEventsTyped
<1>3. DeskTyped /\ ReviewTyped /\ ApprovalCallTyped
  BY SmeAssumption DEF SmeInit, DeskTyped, Desk, ReviewTyped, ReviewRecord, ClosedReview,
     ApprovalCallTyped, ApprovalRecord, NoApproval, SMEStatus, SMETaskStatus
<1>4. PageBehind /\ PanelOnItsSubmission /\ KnowledgeOfItsSubmission /\ ApprovalProgress
        /\ ActiveWasLearnt /\ CompletedIsLearnt
  BY DEF SmeInit, PageBehind, PanelOnItsSubmission, KnowledgeOfItsSubmission, ApprovalProgress, ApprovalAt,
     ActiveWasLearnt, CompletedIsLearnt, ClosedReview, NoApproval
<1> QED BY <1>1, <1>2, <1>3, <1>4 DEF SmeInv

(* A submission with one of its flags set, the rest as they were.          *)
LEMMA ApprovedSubmission ==
  ASSUME NEW s \in Seq(Submission), NEW i \in DOMAIN s,
         NEW t, t = [s EXCEPT ![i].approved = TRUE]
  PROVE  /\ t \in Seq(Submission) /\ Len(t) = Len(s) /\ DOMAIN t = DOMAIN s
         /\ t[i].approved
         /\ \A j \in DOMAIN s : /\ s[j].approved => t[j].approved
                                /\ s[j].learnt => t[j].learnt
<1>1. s[i] \in Submission /\ DOMAIN s = 1..Len(s)
  OBVIOUS
<1>2. t = [s EXCEPT ![i] = [s[i] EXCEPT !.approved = TRUE]]
  OBVIOUS
<1>3. [s[i] EXCEPT !.approved = TRUE] \in Submission
  BY <1>1 DEF Submission
<1>4. t \in Seq(Submission) /\ Len(t) = Len(s) /\ DOMAIN t = DOMAIN s
  BY <1>2, <1>3
<1>5. t[i] = [s[i] EXCEPT !.approved = TRUE] /\ \A j \in DOMAIN s \ {i} : t[j] = s[j]
  BY <1>2
<1>6. t[i].approved /\ t[i].learnt = s[i].learnt
  BY <1>1, <1>5 DEF Submission
<1> QED BY <1>4, <1>5, <1>6

LEMMA LearntSubmission ==
  ASSUME NEW s \in Seq(Submission), NEW i \in DOMAIN s,
         NEW t, t = [s EXCEPT ![i].learnt = TRUE]
  PROVE  /\ t \in Seq(Submission) /\ Len(t) = Len(s) /\ DOMAIN t = DOMAIN s
         /\ t[i].learnt
         /\ \A j \in DOMAIN s : /\ s[j].approved => t[j].approved
                                /\ s[j].learnt => t[j].learnt
<1>1. s[i] \in Submission /\ DOMAIN s = 1..Len(s)
  OBVIOUS
<1>2. t = [s EXCEPT ![i] = [s[i] EXCEPT !.learnt = TRUE]]
  OBVIOUS
<1>3. [s[i] EXCEPT !.learnt = TRUE] \in Submission
  BY <1>1 DEF Submission
<1>4. t \in Seq(Submission) /\ Len(t) = Len(s) /\ DOMAIN t = DOMAIN s
  BY <1>2, <1>3
<1>5. t[i] = [s[i] EXCEPT !.learnt = TRUE] /\ \A j \in DOMAIN s \ {i} : t[j] = s[j]
  BY <1>2
<1>6. t[i].learnt /\ t[i].approved = s[i].approved
  BY <1>1, <1>5 DEF Submission
<1> QED BY <1>4, <1>5, <1>6

(* What the first two writes of an approval do to the submissions.         *)
SubmissionsGrow ==
  /\ SubmissionsTyped' /\ Len(submissions') = Len(submissions)
  /\ \A j \in DOMAIN submissions : /\ submissions[j].approved => submissions'[j].approved
                                   /\ submissions[j].learnt => submissions'[j].learnt

LEMMA FirstWrites ==
  ASSUME SubmissionsTyped, ApprovalCallTyped, ApprovalProgress, UpdateSubmission \/ CreateChunk
  PROVE  SubmissionsGrow /\ ApprovalCallTyped' /\ ApprovalProgress'
<1>1. approval.of \in DOMAIN submissions
  BY DEF UpdateSubmission, CreateChunk, Write, ApprovalProgress, ApprovalAt
<1>2. approval \in ApprovalRecord /\ submissions \in Seq(Submission)
        /\ Len(submissions) <= MaxSubmissions
  BY DEF ApprovalCallTyped, SubmissionsTyped
<1>3. CASE /\ approval.write = "submission" /\ approval' = [approval EXCEPT !.write = "chunk"]
           /\ submissions' = [submissions EXCEPT ![approval.of].approved = TRUE]
  <2>1. /\ submissions' \in Seq(Submission) /\ Len(submissions') = Len(submissions)
        /\ DOMAIN submissions' = DOMAIN submissions
        /\ submissions'[approval.of].approved
        /\ \A j \in DOMAIN submissions : /\ submissions[j].approved => submissions'[j].approved
                                         /\ submissions[j].learnt => submissions'[j].learnt
    BY <1>1, <1>2, <1>3, ApprovedSubmission
  <2>2. approval'.of = approval.of /\ approval'.write = "chunk" /\ approval' \in ApprovalRecord
    BY <1>2, <1>3 DEF ApprovalRecord
  <2> QED BY <1>1, <1>2, <2>1, <2>2
          DEF SubmissionsGrow, SubmissionsTyped, ApprovalCallTyped, ApprovalProgress, ApprovalAt
<1>4. CASE /\ approval.write = "chunk" /\ approval' = [approval EXCEPT !.write = "task"]
           /\ submissions' = [submissions EXCEPT ![approval.of].learnt = TRUE]
  <2>1. /\ submissions' \in Seq(Submission) /\ Len(submissions') = Len(submissions)
        /\ DOMAIN submissions' = DOMAIN submissions
        /\ submissions'[approval.of].learnt
        /\ \A j \in DOMAIN submissions : /\ submissions[j].approved => submissions'[j].approved
                                         /\ submissions[j].learnt => submissions'[j].learnt
    BY <1>1, <1>2, <1>4, LearntSubmission
  <2>2. approval'.of = approval.of /\ approval'.write = "task" /\ approval' \in ApprovalRecord
    BY <1>2, <1>4 DEF ApprovalRecord
  <2>3. submissions[approval.of].approved
    BY <1>4 DEF ApprovalProgress, ApprovalAt
  <2> QED BY <1>1, <1>2, <2>1, <2>2, <2>3
          DEF SubmissionsGrow, SubmissionsTyped, ApprovalCallTyped, ApprovalProgress, ApprovalAt
<1>5. CASE approval' = [approval EXCEPT !.write = "failed"] /\ UNCHANGED submissions
  <2>1. approval'.write = "failed" /\ approval' \in ApprovalRecord
    BY <1>2, <1>5 DEF ApprovalRecord
  <2> QED BY <1>2, <1>5, <2>1
          DEF SubmissionsGrow, SubmissionsTyped, ApprovalCallTyped, ApprovalProgress, ApprovalAt
<1> QED BY <1>3, <1>4, <1>5 DEF UpdateSubmission, CreateChunk, Write

LEMMA LearntStays ==
  ASSUME SubmissionsTyped, SubmissionsGrow, Learnt
  PROVE  Learnt'
<1>1. PICK i \in DOMAIN submissions : submissions[i].approved /\ submissions[i].learnt
  BY DEF Learnt
<1>2. DOMAIN submissions' = DOMAIN submissions
  BY DEF SubmissionsGrow, SubmissionsTyped
<1> QED BY <1>1, <1>2 DEF SubmissionsGrow, Learnt

LEMMA ReviewShape ==
  ASSUME NEW r \in ReviewRecord, NEW n \in 0..MaxSubmissions, NEW m \in 0..MaxSubmissions
  PROVE  /\ [r EXCEPT !.text = n, !.enhancing = m] \in ReviewRecord
         /\ [r EXCEPT !.text = n] \in ReviewRecord
         /\ [r EXCEPT !.enhancing = m] \in ReviewRecord
         /\ [r EXCEPT !.open = TRUE] \in ReviewRecord
         /\ r.enhancing \in 0..MaxSubmissions
         /\ InitializeContent(r, n) \in ReviewRecord
<1> DEFINE N == 0..MaxSubmissions
<1>1. ReviewRecord = [open : BOOLEAN, text : N, enhancing : N, feedback : BOOLEAN, sending : BOOLEAN]
  BY DEF ReviewRecord
<1>2. n \in N /\ m \in N
  OBVIOUS
<1> HIDE DEF N
<1>3. r.enhancing \in N /\ r.text \in N
  BY <1>1
<1>4. [r EXCEPT !.text = n, !.enhancing = m] \in ReviewRecord
  BY <1>1, <1>2
<1>5. [r EXCEPT !.text = n] \in ReviewRecord
  BY <1>1, <1>2
<1>6. [r EXCEPT !.enhancing = m] \in ReviewRecord
  BY <1>1, <1>2
<1>7. [r EXCEPT !.open = TRUE] \in ReviewRecord
  BY <1>1
<1>8. InitializeContent(r, n) \in ReviewRecord
  BY <1>5 DEF InitializeContent
<1> QED BY <1>3, <1>4, <1>5, <1>6, <1>7, <1>8 DEF N

LEMMA SmeRecords ==
  /\ ClosedReview \in ReviewRecord /\ NoApproval \in ApprovalRecord
  /\ SubmissionsTyped => Len(submissions) \in 0..MaxSubmissions
BY SmeAssumption
   DEF ClosedReview, NoApproval, ReviewRecord, ApprovalRecord, SMEStatus, SubmissionsTyped

(* What a step leaves alone stays true: for each part of the invariant,    *)
(* the variables it is about.                                              *)
LEMMA SmeFrame ==
  ASSUME SmeInv
  PROVE  /\ UNCHANGED <<expert, smeTask, assignee, outdated>> => StatusTyped'
         /\ UNCHANGED submissions => SubmissionsTyped'
         /\ UNCHANGED chunks => ChunksTyped'
         /\ UNCHANGED desk => DeskTyped'
         /\ UNCHANGED review => ReviewTyped'
         /\ UNCHANGED approval => ApprovalCallTyped'
         /\ NoSmeEvent \/ SmeEvent \/ UNCHANGED smeEvents => SmeEventsTyped'
         /\ UNCHANGED <<submissions, desk>> => PageBehind'
         /\ UNCHANGED <<desk, review, approval, outdated>> => PanelOnItsSubmission'
         /\ UNCHANGED <<chunks, outdated>> => KnowledgeOfItsSubmission'
         /\ UNCHANGED <<submissions, approval>> => ApprovalProgress' /\ ActiveWasLearnt'
         /\ UNCHANGED <<expert, smeTask, submissions>> => CompletedIsLearnt'
<1>1. /\ UNCHANGED <<expert, smeTask, assignee, outdated>> => StatusTyped'
      /\ UNCHANGED submissions => SubmissionsTyped'
      /\ UNCHANGED chunks => ChunksTyped'
      /\ UNCHANGED desk => DeskTyped'
      /\ UNCHANGED review => ReviewTyped'
      /\ UNCHANGED approval => ApprovalCallTyped'
  BY DEF SmeInv, StatusTyped, SubmissionsTyped, ChunksTyped, DeskTyped, ReviewTyped,
         ApprovalCallTyped
<1>2. NoSmeEvent \/ SmeEvent \/ UNCHANGED smeEvents => SmeEventsTyped'
  BY SmeAssumption DEF SmeInv, NoSmeEvent, SmeEvent, SmeEventsTyped
<1>3. /\ UNCHANGED <<submissions, desk>> => PageBehind'
      /\ UNCHANGED <<desk, review, approval, outdated>> => PanelOnItsSubmission'
      /\ UNCHANGED <<chunks, outdated>> => KnowledgeOfItsSubmission'
  BY DEF SmeInv, PageBehind, PanelOnItsSubmission, KnowledgeOfItsSubmission
<1>4. /\ UNCHANGED <<submissions, approval>> => ApprovalProgress' /\ ActiveWasLearnt'
      /\ UNCHANGED <<expert, smeTask, submissions>> => CompletedIsLearnt'
  BY DEF SmeInv, ApprovalProgress, ApprovalAt, ActiveWasLearnt, Learnt, CompletedIsLearnt
<1> QED BY <1>1, <1>2, <1>3, <1>4

(* The page's copy of an expert or of a task may change at any time; what  *)
(* it knows of the submissions is apart from that.                         *)
LEMMA DeskMoves ==
  ASSUME SmeInv, UNCHANGED <<submissions, review, approval, outdated>>,
         NEW s \in SMEStatus, NEW t \in SMETaskStatus,
         \/ desk' = [desk EXCEPT !.selected = s]
         \/ desk' = [desk EXCEPT !.task = t]
  PROVE  DeskTyped' /\ PageBehind' /\ PanelOnItsSubmission'
<1>1. desk' \in Desk /\ desk'.subs = desk.subs
  BY DEF SmeInv, DeskTyped, Desk
<1> QED BY <1>1 DEF SmeInv, DeskTyped, PageBehind, PanelOnItsSubmission

(* Nor does what the server does with an approval disturb the two pages.   *)
LEMMA WriteApart ==
  ASSUME SmeInv, NEW w, NEW n, Write(w, n)
  PROVE  /\ approval'.of = approval.of /\ approval'.text = approval.text
         /\ approval'.expert = approval.expert /\ approval'.write = n
         /\ n \in {"task", "expert", "done", "failed"} => ApprovalCallTyped'
         /\ DeskTyped' /\ ReviewTyped' /\ PanelOnItsSubmission'
<1>1. approval' = [approval EXCEPT !.write = n] /\ UNCHANGED <<desk, review, assignee, outdated>>
  BY DEF Write
<1>2. approval \in ApprovalRecord
  BY DEF SmeInv, ApprovalCallTyped
<1>3. /\ approval'.of = approval.of /\ approval'.text = approval.text
      /\ approval'.expert = approval.expert /\ approval'.write = n
      /\ n \in {"task", "expert", "done", "failed"} => ApprovalCallTyped'
  BY <1>1, <1>2 DEF ApprovalRecord, ApprovalCallTyped
<1> QED BY <1>1, <1>3, SmeFrame DEF SmeInv, PanelOnItsSubmission

LEMMA SmeInvStep == SmeInv /\ [SmeNext]_smeVars => SmeInv'
<1> SUFFICES ASSUME SmeInv, [SmeNext]_smeVars
             PROVE  SmeInv'
  OBVIOUS
<1> USE SmeAssumption
<1>s. /\ {"none", "draft", "archived", expert} \subseteq SMEStatus
      /\ {"pending", "cancelled", smeTask} \subseteq SMETaskStatus
  BY DEF SmeInv, StatusTyped, SMEStatus, SMETaskStatus
<1>n. Len(submissions) \in 0..MaxSubmissions
  BY SmeRecords DEF SmeInv
<1>1. CASE CreateSME
  <2>1. StatusTyped' /\ CompletedIsLearnt'
    BY <1>1, <1>s DEF CreateSME, AtDesk, SmeInv, StatusTyped, CompletedIsLearnt
  <2> QED BY <1>1, <2>1, SmeFrame DEF CreateSME, AtDesk, SmeInv
<1>2. CASE SelectSME
  <2>1. DeskTyped' /\ PageBehind' /\ PanelOnItsSubmission'
    BY <1>2, <1>s, DeskMoves DEF SelectSME, AtDesk, smeServer
  <2> QED BY <1>2, <2>1, SmeFrame DEF SelectSME, AtDesk, smeServer, SmeInv
<1>3. CASE BackToList
  <2>1. DeskTyped' /\ PageBehind' /\ PanelOnItsSubmission'
    BY <1>3, <1>s, DeskMoves DEF BackToList, AtDesk, smeServer
  <2> QED BY <1>3, <2>1, SmeFrame DEF BackToList, AtDesk, smeServer, SmeInv
<1>4. CASE UpdateSME
  <2>1. DeskTyped' /\ PageBehind' /\ PanelOnItsSubmission'
    BY <1>4, <1>s, DeskMoves DEF UpdateSME, AtDesk, smeServer
  <2> QED BY <1>4, <2>1, SmeFrame DEF UpdateSME, AtDesk, smeServer, SmeInv
<1>5. CASE DeleteSME
  <2>1. StatusTyped' /\ CompletedIsLearnt'
    BY <1>5, <1>s DEF DeleteSME, AtDesk, SmeInv, StatusTyped, CompletedIsLearnt
  <2> QED BY <1>5, <2>1, SmeFrame DEF DeleteSME, AtDesk, SmeInv
<1>6. CASE RestoreSME
  <2>1. StatusTyped' /\ CompletedIsLearnt'
    BY <1>6, <1>s DEF RestoreSME, AtDesk, SmeInv, StatusTyped, CompletedIsLearnt
  <2> QED BY <1>6, <2>1, SmeFrame DEF RestoreSME, AtDesk, SmeInv
<1>7. CASE CreateTask
  <2>1. DeskTyped' /\ PageBehind' /\ PanelOnItsSubmission'
    BY <1>7, <1>s, DeskMoves DEF CreateTask, AtDesk
  <2>2. StatusTyped' /\ CompletedIsLearnt'
    BY <1>7, <1>s DEF CreateTask, AtDesk, SmeInv, StatusTyped, CompletedIsLearnt
  <2> QED BY <1>7, <2>1, <2>2, SmeFrame DEF CreateTask, AtDesk, SmeInv
<1>8. CASE RefetchTasks
  <2>1. DeskTyped' /\ PageBehind' /\ PanelOnItsSubmission'
    BY <1>8, <1>s, DeskMoves DEF RefetchTasks, AtDesk, smeServer
  <2> QED BY <1>8, <2>1, SmeFrame DEF RefetchTasks, AtDesk, smeServer, SmeInv
<1>9. CASE CancelTask
  <2>1. DeskTyped' /\ PageBehind' /\ PanelOnItsSubmission'
    BY <1>9, <1>s, DeskMoves DEF CancelTask, AtDesk
  <2>2. StatusTyped' /\ CompletedIsLearnt'
    BY <1>9, <1>s DEF CancelTask, AtDesk, SmeInv, StatusTyped, CompletedIsLearnt
  <2> QED BY <1>9, <2>1, <2>2, SmeFrame DEF CancelTask, AtDesk, SmeInv
<1>10. CASE AssigneeLooks
  <2>1. StatusTyped'
    BY <1>10, <1>s DEF AssigneeLooks, smeServer, SmeInv, StatusTyped
  <2> QED BY <1>10, <2>1, SmeFrame DEF AssigneeLooks, smeServer, SmeInv
<1>11. CASE SubmitContent
  <2> DEFINE s == [approved |-> FALSE, learnt |-> FALSE]
  <2>1. submissions \in Seq(Submission) /\ s \in Submission
    BY DEF SmeInv, SubmissionsTyped, Submission
  <2>2. submissions' = Append(submissions, s) /\ Len(submissions) < MaxSubmissions
    BY <1>11 DEF SubmitContent
  <2>3. /\ submissions' \in Seq(Submission) /\ Len(submissions') = Len(submissions) + 1
        /\ \A i \in DOMAIN submissions :
              i \in DOMAIN submissions' /\ submissions'[i] = submissions[i]
    BY <2>1, <2>2
  <2>4. StatusTyped'
    BY <1>11 DEF SubmitContent, SmeInv, StatusTyped, SMETaskStatus
  <2>5. SubmissionsTyped' /\ PageBehind'
    BY <1>11, <1>n, <2>2, <2>3
       DEF SubmitContent, SmeInv, SubmissionsTyped, DeskTyped, Desk, PageBehind
  <2>6. Learnt => Learnt'
    BY <2>3 DEF Learnt
  <2>7. ApprovalProgress' /\ ActiveWasLearnt' /\ CompletedIsLearnt'
    BY <1>11, <2>3, <2>6 DEF SubmitContent, SmeInv, ApprovalProgress, ApprovalAt,
       ActiveWasLearnt, CompletedIsLearnt, Learnt
  <2> QED BY <1>11, <2>4, <2>5, <2>7, SmeFrame DEF SubmitContent, SmeInv
<1>12. CASE OpenReview
  <2> DEFINE r == [ClosedReview EXCEPT !.open = TRUE]
  <2>1. review' = InitializeContent(r, desk.subs) /\ desk.subs \in 0..MaxSubmissions
    BY <1>12 DEF OpenReview, InReview, SmeInv, DeskTyped, Desk
  <2>2. r \in ReviewRecord /\ r.text = 0 /\ r.enhancing = 0
    BY <2>1, ReviewShape, SmeRecords DEF ClosedReview
  <2>3. ReviewTyped'
    BY <2>1, <2>2, ReviewShape DEF ReviewTyped
  <2>4. review'.text \in {0, desk.subs} /\ review'.enhancing = 0
    BY <2>1, <2>2 DEF InitializeContent, ReviewRecord
  <2>5. PanelOnItsSubmission'
    BY <1>12, <2>4 DEF OpenReview, InReview, SmeInv, PanelOnItsSubmission
  <2> QED BY <1>12, <2>3, <2>5, SmeFrame DEF OpenReview, InReview, smeServer, SmeInv
<1>13. CASE FetchSubmissions
  <2> DEFINE n == Len(submissions)
  <2>1. review' = InitializeContent(review, n) /\ review \in ReviewRecord
    BY <1>13 DEF FetchSubmissions, SmeInv, ReviewTyped
  <2>2. desk' = [desk EXCEPT !.subs = n] /\ UNCHANGED <<submissions, approval>>
    BY <1>13 DEF FetchSubmissions, AtDesk, smeServer
  <2>3. desk'.subs = n /\ DeskTyped' /\ PageBehind'
    BY <1>n, <2>2 DEF SmeInv, DeskTyped, Desk, PageBehind
  <2>4. ReviewTyped'
    BY <1>n, <2>1, ReviewShape DEF ReviewTyped
  <2>5. review'.text \in {review.text, n} /\ review'.enhancing = review.enhancing
    BY <2>1 DEF InitializeContent, ReviewRecord
  <2>6. n = 0 => desk.subs = 0
    BY <1>n DEF SmeInv, DeskTyped, Desk, PageBehind
  <2>7. PanelOnItsSubmission'
    BY <1>13, <1>n, <2>1, <2>2, <2>3, <2>5, <2>6 DEF FetchSubmissions, InitializeContent, SmeInv,
       ReviewRecord, PanelOnItsSubmission
  <2>8. StatusTyped' /\ KnowledgeOfItsSubmission'
    BY <1>13 DEF FetchSubmissions, AtDesk, smeServer, SmeInv, StatusTyped,
       KnowledgeOfItsSubmission
  <2> QED BY <1>13, <2>3, <2>4, <2>7, <2>8, SmeFrame DEF FetchSubmissions, AtDesk, smeServer, SmeInv
<1>14. CASE CloseReview
  <2>1. ReviewTyped' /\ PanelOnItsSubmission'
    BY <1>14, SmeRecords
       DEF CloseReview, InReview, ClosedReview, SmeInv, ReviewTyped, PanelOnItsSubmission
  <2> QED BY <1>14, <2>1, SmeFrame DEF CloseReview, InReview, smeServer, SmeInv
<1>15. CASE ToggleFeedback
  <2>1. ReviewTyped' /\ PanelOnItsSubmission'
    BY <1>15 DEF ToggleFeedback, InReview, SmeInv, ReviewTyped, ReviewRecord, PanelOnItsSubmission
  <2> QED BY <1>15, <2>1, SmeFrame DEF ToggleFeedback, InReview, smeServer, SmeInv
<1>16. CASE EnhanceSubmissionContent
  <2>1. ReviewTyped' /\ PanelOnItsSubmission'
    BY <1>16 DEF EnhanceSubmissionContent, InReview, SmeInv, DeskTyped, Desk, ReviewTyped,
       ReviewRecord, PanelOnItsSubmission
  <2> QED BY <1>16, <2>1, SmeFrame DEF EnhanceSubmissionContent, InReview, smeServer, SmeInv
<1>17. CASE Enhanced
  <2>1. /\ \/ review' = [review EXCEPT !.text = review.enhancing, !.enhancing = 0]
           \/ review' = [review EXCEPT !.enhancing = 0]
        /\ UNCHANGED <<smeServer, desk, approval, assignee, outdated>>
    BY <1>17 DEF Enhanced, InReview
  <2>2. 0 \in 0..MaxSubmissions
    OBVIOUS
  <2>3. review \in ReviewRecord /\ review.enhancing \in 0..MaxSubmissions
    BY <2>2, ReviewShape DEF SmeInv, ReviewTyped
  <2>4. ReviewTyped'
    <3>1. CASE review' = [review EXCEPT !.text = review.enhancing, !.enhancing = 0]
      BY <2>2, <2>3, <3>1, ReviewShape DEF ReviewTyped
    <3>2. CASE review' = [review EXCEPT !.enhancing = 0]
      BY <2>2, <2>3, <3>2, ReviewShape DEF ReviewTyped
    <3> QED BY <2>1, <3>1, <3>2
  <2>5. PanelOnItsSubmission'
    BY <2>1, <2>3 DEF SmeInv, ReviewRecord, PanelOnItsSubmission
  <2> QED BY <1>17, <2>1, <2>4, <2>5, SmeFrame DEF Enhanced, smeServer, SmeInv
<1>18. CASE Approve
  <2>1. /\ approval' = [write |-> "submission", of |-> desk.subs, text |-> review.text,
                        expert |-> expert, lost |-> FALSE]
        /\ review' = [review EXCEPT !.sending = TRUE]
        /\ desk.subs # 0 /\ review.text # 0
        /\ UNCHANGED <<smeServer, desk, assignee, outdated, smeEvents>>
    BY <1>18 DEF Approve
  <2>2. ReviewTyped' /\ ApprovalCallTyped'
    BY <2>1 DEF SmeInv, StatusTyped, DeskTyped, Desk, ReviewTyped, ReviewRecord,
       ApprovalCallTyped, ApprovalRecord
  <2>3. PanelOnItsSubmission'
    BY <2>1 DEF SmeInv, ReviewTyped, ReviewRecord, PanelOnItsSubmission
  <2>4. ApprovalProgress'
    BY <1>n, <2>1 DEF smeServer, SmeInv, SubmissionsTyped, DeskTyped, Desk, PageBehind,
       ApprovalProgress, ApprovalAt
  <2>5. ActiveWasLearnt'
    BY <2>1 DEF smeServer, SmeInv, ActiveWasLearnt, Learnt, CompletedIsLearnt
  <2> QED BY <2>1, <2>2, <2>3, <2>4, <2>5, SmeFrame DEF smeServer, SmeInv
<1>19. CASE RequestSubmissionChanges
  <2>1. /\ desk' = [desk EXCEPT !.task = smeTask', !.subs = Len(submissions)]
        /\ smeTask' \in {smeTask, "changes_requested"}
        /\ NoSmeEvent \/ SmeEvent
        /\ review' = ClosedReview
        /\ UNCHANGED <<expert, submissions, chunks, approval, assignee, outdated>>
    BY <1>19 DEF RequestSubmissionChanges
  <2>2. StatusTyped' /\ smeTask' \in SMETaskStatus
    BY <2>1 DEF SmeInv, StatusTyped, SMETaskStatus
  <2>3. desk' \in Desk /\ desk'.subs = Len(submissions)
    BY <1>n, <2>1, <2>2 DEF SmeInv, DeskTyped, Desk
  <2>4. ReviewTyped' /\ PanelOnItsSubmission'
    BY <2>1, SmeRecords DEF ClosedReview, SmeInv, ReviewTyped, PanelOnItsSubmission
  <2>5. DeskTyped' /\ PageBehind'
    BY <1>n, <2>1, <2>3 DEF DeskTyped, PageBehind
  <2>6. CompletedIsLearnt'
    BY <2>1 DEF SmeInv, CompletedIsLearnt
  <2> QED BY <2>1, <2>2, <2>4, <2>5, <2>6, SmeFrame DEF SmeInv
<1>20. CASE UpdateSubmission
  <2>1. PICK n \in {"chunk", "failed"} : Write("submission", n)
    BY <1>20 DEF UpdateSubmission
  <2>2. UNCHANGED <<expert, smeTask, chunks, desk, review, assignee, outdated>>
    BY <1>20, <2>1 DEF UpdateSubmission, Write
  <2>3. SubmissionsGrow /\ ApprovalCallTyped' /\ ApprovalProgress'
    BY <1>20, FirstWrites DEF SmeInv
  <2>4. SubmissionsTyped' /\ PageBehind'
    BY <2>2, <2>3 DEF SubmissionsGrow, SmeInv, PageBehind
  <2>5. Learnt => Learnt'
    BY <2>3, LearntStays DEF SmeInv
  <2>6. PanelOnItsSubmission' /\ ActiveWasLearnt'
    BY <2>1, <2>5, WriteApart DEF SmeInv, ActiveWasLearnt
  <2>7. CompletedIsLearnt'
    BY <2>2, <2>5 DEF SmeInv, CompletedIsLearnt, Learnt
  <2> QED BY <1>20, <2>2, <2>3, <2>4, <2>6, <2>7, SmeFrame DEF UpdateSubmission, SmeInv
<1>21. CASE CreateChunk
  <2>1. PICK n \in {"task", "failed"} : Write("chunk", n)
    BY <1>21 DEF CreateChunk
  <2>2. UNCHANGED <<expert, smeTask, desk, review, assignee, outdated>>
    BY <1>21, <2>1 DEF CreateChunk, Write
  <2>3. SubmissionsGrow /\ ApprovalCallTyped' /\ ApprovalProgress'
    BY <1>21, FirstWrites DEF SmeInv
  <2>4. SubmissionsTyped' /\ PageBehind'
    BY <2>2, <2>3 DEF SubmissionsGrow, SmeInv, PageBehind
  <2>5. Learnt => Learnt'
    BY <2>3, LearntStays DEF SmeInv
  <2>6. PanelOnItsSubmission' /\ ActiveWasLearnt'
    BY <2>1, <2>5, WriteApart DEF SmeInv, ActiveWasLearnt
  <2>7. CompletedIsLearnt'
    BY <2>2, <2>5 DEF SmeInv, CompletedIsLearnt, Learnt
  <2>8. UNCHANGED chunks \/ chunks' = chunks \cup {[of |-> approval.of, text |-> approval.text]}
    BY <1>21 DEF CreateChunk
  <2>9. approval.of \in 1..MaxSubmissions /\ approval.text \in 0..Rewritten
    BY <2>1 DEF Write, SmeInv, ApprovalProgress, ApprovalAt, SubmissionsTyped, ApprovalCallTyped,
       ApprovalRecord, Rewritten
  <2>10. ChunksTyped'
    BY <2>8, <2>9 DEF SmeInv, ChunksTyped, KnowledgeChunk
  <2>11. KnowledgeOfItsSubmission'
    BY <2>2, <2>8 DEF SmeInv, KnowledgeOfItsSubmission, PanelOnItsSubmission
  <2> QED BY <1>21, <2>2, <2>3, <2>4, <2>6, <2>7, <2>10, <2>11, SmeFrame DEF CreateChunk, SmeInv
<1>22. CASE CompleteTask
  <2>1. /\ Write("task", "expert") /\ UNCHANGED <<expert, submissions, chunks>>
        /\ smeTask' \in {smeTask, "completed"}
        /\ NoSmeEvent \/ SmeEvent
    BY <1>22 DEF CompleteTask
  <2>2. approval.write = "task" /\ UNCHANGED <<desk, review, assignee, outdated>>
    BY <2>1 DEF Write
  <2>3. approval.of \in DOMAIN submissions /\ submissions[approval.of].approved
          /\ submissions[approval.of].learnt
    BY <2>2 DEF SmeInv, ApprovalProgress, ApprovalAt
  <2>4. ApprovalCallTyped' /\ PanelOnItsSubmission' /\ ApprovalProgress' /\ ActiveWasLearnt'
    BY <2>1, <2>3, WriteApart DEF SmeInv, ApprovalProgress, ApprovalAt, ActiveWasLearnt, Learnt
  <2>5. StatusTyped' /\ CompletedIsLearnt'
    BY <2>1, <2>2, <2>3 DEF SmeInv, StatusTyped, SMETaskStatus, CompletedIsLearnt
  <2> QED BY <2>1, <2>2, <2>4, <2>5, SmeFrame DEF SmeInv
<1>23. CASE SummarizeExpert
  <2>1. /\ Write("expert", "done") /\ UNCHANGED <<smeTask, submissions, chunks>>
        /\ expert' \in {expert, "active", approval.expert}
        /\ NoSmeEvent \/ SmeEvent
    BY <1>23 DEF SummarizeExpert
  <2>2. approval.write = "expert" /\ UNCHANGED <<desk, review, assignee, outdated>>
    BY <2>1 DEF Write
  <2>3. Learnt
    BY <2>2 DEF SmeInv, ApprovalProgress, ApprovalAt, Learnt
  <2>4. ApprovalCallTyped' /\ PanelOnItsSubmission' /\ ApprovalProgress' /\ ActiveWasLearnt'
    BY <2>1, <2>3, WriteApart DEF SmeInv, ApprovalProgress, ApprovalAt, ActiveWasLearnt, Learnt
  <2>5. StatusTyped' /\ CompletedIsLearnt'
    BY <2>1, <2>2, <2>3 DEF SmeInv, StatusTyped, SMEStatus, ApprovalCallTyped, ApprovalRecord,
       CompletedIsLearnt, Learnt
  <2> QED BY <2>1, <2>2, <2>4, <2>5, SmeFrame DEF SmeInv
<1>24. CASE ApproveAnswered
  <2>1. approval' = NoApproval /\ UNCHANGED <<smeServer, assignee, outdated, smeEvents>>
    BY <1>24 DEF ApproveAnswered
  <2>2. /\ UNCHANGED desk \/ review' = ClosedReview
        /\ UNCHANGED review \/ review' = [review EXCEPT !.sending = FALSE] \/ review' = ClosedReview
    BY <1>24 DEF ApproveAnswered
  <2>3. PICK n \in {desk.subs, Len(submissions)} :
            UNCHANGED desk \/ desk' = [desk EXCEPT !.task = smeTask, !.subs = n]
    BY <1>24 DEF ApproveAnswered
  <2>4. desk' \in Desk /\ desk'.subs \in {desk.subs, Len(submissions)}
    BY <1>n, <1>s, <2>3 DEF SmeInv, DeskTyped, Desk
  <2>5. DeskTyped' /\ PageBehind'
    BY <1>n, <2>1, <2>4 DEF smeServer, SmeInv, DeskTyped, PageBehind
  <2>6. ReviewTyped'
    BY <2>2, SmeRecords DEF SmeInv, ReviewTyped, ReviewRecord
  <2>7. PanelOnItsSubmission'
    BY <2>1, <2>2 DEF NoApproval, ClosedReview, SmeInv, ReviewTyped, ReviewRecord,
       PanelOnItsSubmission
  <2>8. ApprovalCallTyped' /\ ApprovalProgress' /\ ActiveWasLearnt'
    BY <2>1, SmeRecords DEF NoApproval, ApprovalCallTyped, ApprovalProgress, ApprovalAt,
       ActiveWasLearnt
  <2> QED BY <2>1, <2>5, <2>6, <2>7, <2>8, SmeFrame DEF smeServer, SmeInv
<1>25. CASE ApproveLost
  <2>1. /\ approval' = [approval EXCEPT !.lost = TRUE] /\ review' = [review EXCEPT !.sending = FALSE]
        /\ UNCHANGED <<smeServer, desk, assignee, outdated>>
    BY <1>25 DEF ApproveLost
  <2>2. ReviewTyped' /\ ApprovalCallTyped' /\ PanelOnItsSubmission'
    BY <2>1 DEF SmeInv, ReviewTyped, ReviewRecord, ApprovalCallTyped, ApprovalRecord,
       PanelOnItsSubmission
  <2>3. ApprovalProgress' /\ ActiveWasLearnt'
    BY <2>1 DEF smeServer, SmeInv, ApprovalCallTyped, ApprovalRecord, ApprovalProgress, ApprovalAt,
       ActiveWasLearnt, Learnt
  <2> QED BY <1>25, <2>1, <2>2, <2>3, SmeFrame DEF ApproveLost, smeServer, SmeInv
<1>26. CASE UpdateKnowledgeChunk
  <2>1. PICK c \in chunks : chunks' = (chunks \ {c}) \cup {[c EXCEPT !.text = Rewritten]}
    BY <1>26 DEF UpdateKnowledgeChunk
  <2>2. [c EXCEPT !.text = Rewritten] \in KnowledgeChunk /\ [c EXCEPT !.text = Rewritten].text = Rewritten
    BY DEF SmeInv, ChunksTyped, KnowledgeChunk, Rewritten
  <2>3. ChunksTyped' /\ KnowledgeOfItsSubmission'
    BY <1>26, <2>1, <2>2
       DEF UpdateKnowledgeChunk, SmeInv, ChunksTyped, KnowledgeOfItsSubmission
  <2> QED BY <1>26, <2>3, SmeFrame DEF UpdateKnowledgeChunk, AtDesk, SmeInv
<1>27. CASE DeleteKnowledgeChunk
  <2>1. ChunksTyped' /\ KnowledgeOfItsSubmission'
    BY <1>27 DEF DeleteKnowledgeChunk, SmeInv, ChunksTyped, KnowledgeOfItsSubmission
  <2> QED BY <1>27, <2>1, SmeFrame DEF DeleteKnowledgeChunk, AtDesk, SmeInv
<1>28. CASE UNCHANGED smeVars
  BY <1>28, SmeFrame DEF smeVars, SmeInv
<1> QED
  BY <1>1, <1>2, <1>3, <1>4, <1>5, <1>6, <1>7, <1>8, <1>9, <1>10, <1>11, <1>12,
     <1>13, <1>14, <1>15, <1>16, <1>17, <1>18, <1>19, <1>20, <1>21, <1>22,
     <1>23, <1>24, <1>25, <1>26, <1>27, <1>28 DEF SmeNext

-----------------------------------------------------------------------------
LEMMA SmeInvariant == SmeSpec => []SmeInv
BY SmeInitInv, SmeInvStep, PTL DEF SmeSpec

(* Every variable of the workflow keeps its type.                          *)
THEOREM SmeTypeCorrect == SmeSpec => []SmeTypeOK
<1>1. SmeInv => SmeTypeOK
  BY SmeTypedParts DEF SmeInv
<1> QED BY <1>1, SmeInvariant, PTL

(* What is learnt from a submission is its own text or one rewritten by    *)
(* hand, as long as no enhancement crossed a change of submission.         *)
THEOREM KnowledgeIsOfItsSubmission == SmeSpec => []KnowledgeOfItsSubmission
<1>1. SmeInv => KnowledgeOfItsSubmission
  BY DEF SmeInv
<1> QED BY <1>1, SmeInvariant, PTL

(* A completed task, and an active expert, have an approved text that was  *)
(* made knowledge, whatever writes failed on the way.                      *)
THEOREM CompletedWasLearnt == SmeSpec => []CompletedIsLearnt
<1>1. SmeInv => CompletedIsLearnt
  BY DEF SmeInv
<1> QED BY <1>1, SmeInvariant, PTL
-----------------------------------------------------------------------------
(***************************************************************************)
(* The target audiences. A row, a copy of it in the tab and what a call    *)
(* says are whole (RowsInv, CallsInv, CacheInv, DialogInv); what a read    *)
(* has fetched is the table as long as no answer to a write is on its way  *)
(* (ReadIsTrue).                                                           *)
(***************************************************************************)
WholeAudience(t) == t.text = t.id /\ t.has = Needed

(* What the tab and a read under way have of the table is whole.           *)
CopiesWhole ==
  /\ \A archived \in BOOLEAN : \A t \in templateLists[archived].rows : WholeAudience(t)
  /\ \A t \in templateRead.rows : WholeAudience(t)

(* The fields are those of the audience that the dialog is for.            *)
FormOfItsAudience ==
  /\ editingTemplate.text = editingTemplate.id
  /\ templateDialog = "create" => editingTemplate = NoTemplate
  /\ ~ listFailed => formText = editingTemplate.text

(* What a call says that has not written yet, and the row read for it.     *)
SaysWhole(c) ==
  /\ c.do = "create" => c.of.text = 0 /\ c.of.has = Needed
  /\ c.do = "update" => WholeAudience(c.of)
SawItsRow(c) == c.do # "create" /\ c.saw.id = c.of.id /\ WholeAudience(c.saw)
CallsWhole ==
  \A c \in templateCalls : /\ c.stage \in {"asked", "read"} => SaysWhole(c)
                           /\ c.stage = "read" => SawItsRow(c)

(* No answer is on its way.                                                *)
NoneWritten == \A c \in templateCalls : c.stage # "written"

(* What a read has fetched is the table, unless it was kept.               *)
ReadIsTrue ==
  NoneWritten /\ templateRead.stage = "read" /\ ~ templateRead.old =>
    templateRead.rows = TemplatesListed(showArchived)

(* The type invariant in parts.                                            *)
RowsTyped  == templates \subseteq Template /\ IsFiniteSet(templates)
AudienceCallsTyped == templateCalls \subseteq TemplateCall
CacheTyped ==
  /\ showArchived \in BOOLEAN /\ listFailed \in BOOLEAN
  /\ templateLists \in [BOOLEAN -> [is : {"absent", "stale", "fresh", "overtaken"},
                                    rows : SUBSET Template]]
  /\ templateRead \in [stage : {"none", "asked", "read"}, rows : SUBSET Template, old : BOOLEAN]
DialogTyped ==
  /\ editingTemplate \in Template
  /\ templateDialog \in {"none", "create", "edit"} /\ formText \in 0..MaxAudiences

(* The invariant, by the part of the state each conjunct is about.         *)
RowsInv   == RowsTyped /\ AudiencesWhole
AudienceCallsInv  == AudienceCallsTyped /\ CallsWhole
CacheInv  == CacheTyped /\ CopiesWhole
DialogInv == DialogTyped /\ FormOfItsAudience
ListsTrue == ReadIsTrue /\ FreshListIsTrue
AudienceInv == RowsInv /\ AudienceCallsInv /\ CacheInv /\ DialogInv /\ ListsTrue

(* Calls that go on, or whose dialog goes, say what they said.             *)
SameCall(c, d) ==
  /\ d.do = c.do /\ d.of = c.of /\ d.saw = c.saw
  /\ d.stage = c.stage \/ (c.stage = "refetching" /\ d.stage = "done")

LEMMA OneGoesOn ==
  ASSUME NEW c \in TemplateCall
  PROVE  /\ [c EXCEPT !.stage = "done"] \in TemplateCall
         /\ [c EXCEPT !.here = FALSE] \in TemplateCall
         /\ c.stage = "refetching" => SameCall(c, [c EXCEPT !.stage = "done"])
         /\ SameCall(c, [c EXCEPT !.here = FALSE]) /\ SameCall(c, c)
<1>1. [c EXCEPT !.stage = "done"] \in TemplateCall /\ [c EXCEPT !.here = FALSE] \in TemplateCall
  BY DEF TemplateCall
<1>2. c.stage = "refetching" => SameCall(c, [c EXCEPT !.stage = "done"])
  <2>1. /\ [c EXCEPT !.stage = "done"].do = c.do /\ [c EXCEPT !.stage = "done"].of = c.of
        /\ [c EXCEPT !.stage = "done"].saw = c.saw /\ [c EXCEPT !.stage = "done"].stage = "done"
    BY DEF TemplateCall
  <2> QED BY <2>1 DEF SameCall
<1>3. SameCall(c, [c EXCEPT !.here = FALSE])
  <2>1. /\ [c EXCEPT !.here = FALSE].do = c.do /\ [c EXCEPT !.here = FALSE].of = c.of
        /\ [c EXCEPT !.here = FALSE].saw = c.saw /\ [c EXCEPT !.here = FALSE].stage = c.stage
    BY DEF TemplateCall
  <2> QED BY <2>1 DEF SameCall
<1>4. SameCall(c, c)
  BY DEF SameCall
<1> QED BY <1>1, <1>2, <1>3, <1>4

LEMMA AudienceCallsGoOn ==
  ASSUME NEW S \in SUBSET TemplateCall
  PROVE  /\ ReadEnds(S) \subseteq TemplateCall
         /\ \A d \in ReadEnds(S) : \E c \in S : SameCall(c, d)
         /\ \A c \in S : \E d \in ReadEnds(S) : SameCall(c, d)
<1> DEFINE next(c) == IF c.stage = "refetching" THEN [c EXCEPT !.stage = "done"] ELSE c
<1>1. ReadEnds(S) = {next(c) : c \in S}
  BY DEF ReadEnds
<1>2. \A c \in S : next(c) \in TemplateCall /\ SameCall(c, next(c))
  BY OneGoesOn
<1> HIDE DEF next
<1> QED BY <1>1, <1>2

LEMMA AudienceCallsLeft ==
  ASSUME NEW S \in SUBSET TemplateCall
  PROVE  /\ DialogGone(S) \subseteq TemplateCall
         /\ \A d \in DialogGone(S) : \E c \in S : SameCall(c, d)
         /\ \A c \in S : \E d \in DialogGone(S) : SameCall(c, d)
<1> DEFINE next(c) == [c EXCEPT !.here = FALSE]
<1>1. DialogGone(S) = {next(c) : c \in S}
  BY DEF DialogGone
<1>2. \A c \in S : next(c) \in TemplateCall /\ SameCall(c, next(c))
  BY OneGoesOn
<1> HIDE DEF next
<1> QED BY <1>1, <1>2

(* The calls after a step, when they are some of those before that went on.*)
Moved(S, T) ==
  /\ T \subseteq TemplateCall
  /\ \A d \in T : \E c \in S : SameCall(c, d)
  /\ \A c \in S : \E d \in T : SameCall(c, d)

LEMMA MovedCalls ==
  ASSUME NEW S \in SUBSET TemplateCall
  PROVE  Moved(S, ReadEnds(S)) /\ Moved(S, DialogGone(S)) /\ Moved(S, DialogGone(ReadEnds(S)))
<1>1. Moved(S, ReadEnds(S)) /\ Moved(S, DialogGone(S))
  BY AudienceCallsGoOn, AudienceCallsLeft DEF Moved
<1>2. Moved(ReadEnds(S), DialogGone(ReadEnds(S)))
  BY <1>1, AudienceCallsLeft DEF Moved
<1>3. \A c, d, e : SameCall(c, d) /\ SameCall(d, e) => SameCall(c, e)
  BY DEF SameCall
<1>4. Moved(S, DialogGone(ReadEnds(S)))
  BY <1>1, <1>2, <1>3 DEF Moved
<1> QED BY <1>1, <1>4

LEMMA MovedKeeps ==
  ASSUME AudienceCallsTyped, CallsWhole, NEW S \in SUBSET templateCalls, Moved(S, templateCalls')
  PROVE  /\ AudienceCallsTyped' /\ CallsWhole'
         /\ NoneWritten' => \A c \in S : c.stage # "written"
<1>1. AudienceCallsTyped'
  BY DEF AudienceCallsTyped, Moved
<1>2. CallsWhole'
  <2> SUFFICES ASSUME NEW d \in templateCalls'
               PROVE  /\ d.stage \in {"asked", "read"} => SaysWhole(d)
                      /\ d.stage = "read" => SawItsRow(d)
    BY DEF CallsWhole, SaysWhole, SawItsRow, WholeAudience
  <2>1. PICK c \in S : SameCall(c, d)
    BY DEF Moved
  <2> QED BY <2>1 DEF CallsWhole, SameCall, SaysWhole, SawItsRow
<1>3. NoneWritten' => \A c \in S : c.stage # "written"
  BY DEF Moved, NoneWritten, SameCall
<1> QED BY <1>1, <1>2, <1>3

(* One call is replaced by another, or a call is added.                    *)
LEMMA CallReplaced ==
  ASSUME AudienceCallsTyped, CallsWhole, NEW S \in SUBSET templateCalls,
         NEW d \in TemplateCall, templateCalls' = S \cup {d},
         d.stage \in {"asked", "read"} => SaysWhole(d),
         d.stage = "read" => SawItsRow(d)
  PROVE  /\ AudienceCallsTyped' /\ CallsWhole' /\ d \in templateCalls'
         /\ NoneWritten' => d.stage # "written"
<1>1. AudienceCallsTyped' /\ d \in templateCalls'
  BY DEF AudienceCallsTyped
<1>2. CallsWhole'
  BY DEF CallsWhole, SaysWhole, SawItsRow, WholeAudience
<1> QED BY <1>1, <1>2 DEF NoneWritten

(* Both lists are to be read again.                                        *)
LEMMA InvalidatedLists ==
  ASSUME CacheTyped
  PROVE  /\ Invalidated \in [BOOLEAN -> [is : {"absent", "stale", "fresh", "overtaken"},
                                          rows : SUBSET Template]]
         /\ \A a \in BOOLEAN : /\ Invalidated[a].is # "fresh"
                               /\ Invalidated[a].rows = templateLists[a].rows
<1> DEFINE List == [is : {"absent", "stale", "fresh", "overtaken"}, rows : SUBSET Template]
<1>1. \A l \in List : /\ StaleList(l) \in List
                      /\ StaleList(l).is # "fresh" /\ StaleList(l).rows = l.rows
  BY DEF StaleList, CountsAsFresh
<1>2. \A a \in BOOLEAN : templateLists[a] \in List
  BY DEF CacheTyped
<1> HIDE DEF List
<1>3. \A a \in BOOLEAN : Invalidated[a] = StaleList(templateLists[a])
  BY DEF Invalidated
<1>4. Invalidated \in [BOOLEAN -> List]
  BY <1>1, <1>2, <1>3 DEF Invalidated
<1> QED BY <1>1, <1>2, <1>3, <1>4 DEF List

(* The rows that the service writes.                                       *)
LEMMA CreatedIsWhole ==
  ASSUME NEW of \in Template, of.text = 0, of.has = Needed, NEW id \in 1..MaxAudiences,
         NEW t, t = [of EXCEPT !.id = id, !.text = IF @ = 0 THEN id ELSE @]
  PROVE  t \in Template /\ WholeAudience(t)
<1> DEFINE Ids == 0..MaxAudiences
<1>1. id \in Ids /\ Template = [id : Ids, archived : BOOLEAN, text : Ids, has : SUBSET Needed]
  BY AudienceAssumption DEF Template
<1> HIDE DEF Ids
<1>2. t = [of EXCEPT !.id = id, !.text = id]
  BY <1>1
<1> QED BY <1>1, <1>2 DEF WholeAudience

LEMMA ChangedIsWhole ==
  ASSUME NEW c \in TemplateCall, SaysWhole(c), SawItsRow(c)
  PROVE  TemplateChanged(c) \in Template /\ WholeAudience(TemplateChanged(c))
<1> DEFINE Ids == 0..MaxAudiences
<1>1. Template = [id : Ids, archived : BOOLEAN, text : Ids, has : SUBSET Needed]
  BY DEF Template
<1>2. c.saw \in Template /\ c.of \in Template /\ c.do \in {"create", "update", "archive", "restore"}
  BY DEF TemplateCall
<1> HIDE DEF Ids
<1>3. CASE c.do = "update"
  <2>1. (c.of.has \cap {"named"}) \cup ((c.of.has \cup c.saw.has) \cap {"goals"}) = Needed
    BY <1>3 DEF SaysWhole, SawItsRow, WholeAudience, Needed
  <2>2. TemplateChanged(c) = [c.saw EXCEPT !.text = c.of.text, !.has = Needed]
    BY <1>1, <1>2, <1>3, <2>1 DEF TemplateChanged
  <2> QED BY <1>1, <1>2, <1>3, <2>2 DEF SaysWhole, SawItsRow, WholeAudience
<1>4. CASE c.do # "update"
  <2>1. TemplateChanged(c) = [c.saw EXCEPT !.archived = (c.do = "archive")]
    BY <1>4 DEF TemplateChanged
  <2>2. (c.do = "archive") \in BOOLEAN
    OBVIOUS
  <2> QED BY <1>1, <1>2, <2>1, <2>2 DEF SawItsRow, WholeAudience
<1> QED BY <1>3, <1>4

LEMMA TemplateRecords ==
  /\ NoTemplate \in Template
  /\ \A of \in Template : \A has \in SUBSET Needed : \A n \in 0..MaxAudiences :
       /\ [of EXCEPT !.text = n, !.has = has] \in Template
       /\ [of EXCEPT !.id = n] \in Template
<1> DEFINE Ids == 0..MaxAudiences
<1>1. Template = [id : Ids, archived : BOOLEAN, text : Ids, has : SUBSET Needed]
  BY DEF Template
<1>2. NoTemplate \in Template
  BY <1>1, AudienceAssumption DEF NoTemplate
<1> HIDE DEF Ids
<1>3. \A of \in Template : \A has \in SUBSET Needed : \A n \in Ids :
        [of EXCEPT !.text = n, !.has = has] \in Template
  BY <1>1
<1>4. \A of \in Template : \A n \in Ids : [of EXCEPT !.id = n] \in Template
  BY <1>1
<1> QED BY <1>2, <1>3, <1>4 DEF Ids

(* A read that has fetched nothing, or none.                               *)
LEMMA NothingRead ==
  /\ NoRead \in [stage : {"none", "asked", "read"}, rows : SUBSET Template, old : BOOLEAN]
  /\ ReadAsked \in [stage : {"none", "asked", "read"}, rows : SUBSET Template, old : BOOLEAN]
  /\ NoRead.rows = {} /\ ReadAsked.rows = {}
  /\ NoRead.stage = "none" /\ ReadAsked.stage = "asked"
BY DEF NoRead, ReadAsked

LEMMA AudienceInitInv == AudienceInit => AudienceInv
<1> SUFFICES ASSUME AudienceInit
             PROVE  AudienceInv
  OBVIOUS
<1>1. RowsTyped /\ AudienceCallsTyped
  BY FS_EmptySet DEF AudienceInit, RowsTyped, AudienceCallsTyped
<1>2. CacheTyped
  BY DEF AudienceInit, CacheTyped, ReadAsked, NoRead
<1>3. DialogTyped /\ FormOfItsAudience
  <2>1. 0 \in 0..MaxAudiences
    BY AudienceAssumption
  <2>2. NoTemplate.text = 0 /\ NoTemplate.id = 0
    BY DEF NoTemplate
  <2> QED BY <2>1, <2>2, TemplateRecords DEF AudienceInit, DialogTyped, FormOfItsAudience
<1>4. AudiencesWhole /\ CopiesWhole /\ CallsWhole /\ ReadIsTrue /\ FreshListIsTrue
  BY DEF AudienceInit, AudiencesWhole, CopiesWhole, CallsWhole, ReadIsTrue, FreshListIsTrue, ReadAsked, NoRead
<1> QED BY <1>1, <1>2, <1>3, <1>4
       DEF AudienceInv, RowsInv, AudienceCallsInv, CacheInv, DialogInv, ListsTrue

-----------------------------------------------------------------------------
(* What a step leaves alone.                                               *)
LEMMA AudienceFrames ==
  ASSUME AudienceInv
  PROVE  /\ UNCHANGED templates => RowsInv'
         /\ UNCHANGED templateCalls => AudienceCallsInv'
         /\ UNCHANGED audienceCache => CacheInv'
         /\ UNCHANGED audienceDialogs /\ UNCHANGED listFailed => DialogInv'
         /\ UNCHANGED <<templates, showArchived, templateLists, templateRead>>
              /\ (NoneWritten' => NoneWritten) => ListsTrue'
         /\ ~ NoneWritten' => ListsTrue'
<1> USE DEF AudienceInv
<1>1. UNCHANGED templates => RowsInv'
  BY DEF RowsInv, RowsTyped, AudiencesWhole
<1>2. UNCHANGED templateCalls => AudienceCallsInv'
  BY DEF AudienceCallsInv, AudienceCallsTyped, CallsWhole, SaysWhole, SawItsRow, WholeAudience
<1>3. UNCHANGED audienceCache => CacheInv'
  BY DEF audienceCache, CacheInv, CacheTyped, CopiesWhole, WholeAudience
<1>4. UNCHANGED audienceDialogs /\ UNCHANGED listFailed => DialogInv'
  BY DEF audienceDialogs, DialogInv, DialogTyped, FormOfItsAudience
<1>5. UNCHANGED <<templates, showArchived, templateLists, templateRead>>
        /\ (NoneWritten' => NoneWritten) => ListsTrue'
  BY DEF ListsTrue, ReadIsTrue, FreshListIsTrue, NoneWritten, TemplatesListed
<1>6. ~ NoneWritten' => ListsTrue'
  BY DEF ListsTrue, ReadIsTrue, FreshListIsTrue, NoneWritten
<1> QED BY <1>1, <1>2, <1>3, <1>4, <1>5, <1>6

(* Calls that move on neither say anything new nor lose an answer.         *)
LEMMA AudienceCallsMoved ==
  ASSUME AudienceInv, NEW S \in SUBSET templateCalls,
         templateCalls' \in {S, ReadEnds(S), DialogGone(S), DialogGone(ReadEnds(S))},
         \A c \in templateCalls \ S : c.stage # "written"
  PROVE  AudienceCallsInv' /\ (NoneWritten' => NoneWritten)
<1>1. AudienceCallsTyped /\ CallsWhole /\ S \in SUBSET TemplateCall
  BY DEF AudienceInv, AudienceCallsInv, AudienceCallsTyped
<1>2. Moved(S, S)
  BY <1>1, OneGoesOn DEF Moved
<1>3. Moved(S, templateCalls')
  BY <1>1, <1>2, MovedCalls
<1> QED BY <1>1, <1>3, MovedKeeps DEF AudienceCallsInv, NoneWritten

(* A call that is asked says what the form, or the card, is about.         *)
LEMMA AskedCall ==
  ASSUME AudienceInv, NEW do \in {"create", "update", "archive", "restore"},
         NEW of \in Template, NEW here \in BOOLEAN, AskTemplate(do, of, here),
         do = "create" => of.text = 0 /\ of.has = Needed,
         do = "update" => WholeAudience(of)
  PROVE  AudienceInv'
<1> DEFINE d == [do |-> do, of |-> of, saw |-> NoTemplate, here |-> here, stage |-> "asked"]
<1>1. d \in TemplateCall /\ d.stage = "asked" /\ SaysWhole(d)
  BY TemplateRecords DEF TemplateCall, SaysWhole
<1>2. templateCalls' = templateCalls \cup {d} /\ UNCHANGED <<templates, audienceCache, audienceDialogs>>
  BY DEF AskTemplate
<1> HIDE DEF d
<1>3. AudienceCallsInv'
  BY <1>1, <1>2, CallReplaced DEF AudienceInv, AudienceCallsInv
<1>4. NoneWritten' => NoneWritten
  BY <1>2 DEF NoneWritten
<1>5. UNCHANGED <<showArchived, templateLists, templateRead, listFailed>>
  BY <1>2 DEF audienceCache
<1> QED BY <1>2, <1>3, <1>4, <1>5, AudienceFrames DEF AudienceInv

(* Dialogs that open show a whole audience or an empty form.               *)
LEMMA OpenedDialog ==
  ASSUME AudienceInv, NEW dialog \in {"create", "edit"}, NEW t \in Template,
         t.text = t.id, dialog = "create" => t = NoTemplate, OpenTemplateDialog(dialog, t)
  PROVE  AudienceInv'
<1>1. /\ templateDialog' = dialog /\ editingTemplate' = t /\ formText' = t.text
      /\ UNCHANGED <<templates, templateCalls, audienceCache>>
  BY DEF OpenTemplateDialog
<1>2. t.text \in 0..MaxAudiences
  BY DEF Template
<1>3. DialogInv'
  BY <1>1, <1>2 DEF DialogInv, DialogTyped, FormOfItsAudience
<1>4. UNCHANGED <<showArchived, templateLists, templateRead, listFailed>> /\ (NoneWritten' => NoneWritten)
  BY <1>1 DEF audienceCache, NoneWritten
<1> QED BY <1>1, <1>3, <1>4, AudienceFrames DEF AudienceInv

LEMMA NoDialogTyped ==
  ASSUME NoDialog
  PROVE  DialogInv'
<1>1. 0 \in 0..MaxAudiences /\ NoTemplate.text = 0 /\ NoTemplate.id = 0
  BY AudienceAssumption DEF NoTemplate
<1> QED BY <1>1, TemplateRecords DEF NoDialog, DialogInv, DialogTyped, FormOfItsAudience

(* A call of the tab is replaced on the server.                            *)
LEMMA AnsweredCall ==
  ASSUME AudienceInv, NEW c \in templateCalls, NEW d \in TemplateCall, TemplateCallTo(c, d),
         d.stage \in {"asked", "read"} => SaysWhole(d),
         d.stage = "read" => SawItsRow(d)
  PROVE  AudienceCallsInv' /\ d \in templateCalls'
<1>1. templateCalls' = (templateCalls \ {c}) \cup {d} /\ templateCalls \ {c} \in SUBSET templateCalls
  BY DEF TemplateCallTo
<1> QED BY <1>1, CallReplaced DEF AudienceInv, AudienceCallsInv

LEMMA WrittenCall ==
  ASSUME NEW c \in TemplateCall
  PROVE  TemplateWritten(c) \in TemplateCall /\ TemplateWritten(c).stage = "written"
BY TemplateRecords DEF TemplateWritten, TemplateCall

LEMMA AudienceInvStep == AudienceInv /\ [AudienceNext]_audienceVars => AudienceInv'
<1> SUFFICES ASSUME AudienceInv, [AudienceNext]_audienceVars
             PROVE  AudienceInv'
  OBVIOUS
<1>T. AudienceCallsTyped /\ CallsWhole /\ CacheTyped /\ CopiesWhole /\ DialogTyped /\ FormOfItsAudience
        /\ RowsTyped /\ AudiencesWhole /\ ReadIsTrue /\ FreshListIsTrue
        /\ templateCalls \in SUBSET templateCalls
  BY DEF AudienceInv, AudienceCallsInv, CacheInv, DialogInv, RowsInv, ListsTrue
<1>1. CASE ToggleArchived
  <2>1. /\ UNCHANGED <<templates, templateLists, listFailed, audienceDialogs>>
        /\ showArchived' \in BOOLEAN /\ templateRead' \in {NoRead, ReadAsked}
        /\ templateCalls' = ReadEnds(templateCalls)
    BY <1>1, <1>T DEF ToggleArchived, CacheTyped
  <2>2. AudienceCallsInv' /\ (NoneWritten' => NoneWritten)
    BY <2>1, AudienceCallsMoved, <1>T
  <2>3. CacheInv' /\ templateRead'.stage # "read"
    <3>1. CacheTyped' /\ templateRead'.rows = {} /\ templateRead'.stage # "read"
      BY <2>1, <1>T, NothingRead DEF CacheTyped
    <3>2. CopiesWhole'
      BY <2>1, <3>1, <1>T DEF CopiesWhole, WholeAudience
    <3> QED BY <3>1, <3>2 DEF CacheInv
  <2>4. ListsTrue'
    BY <2>1, <2>2, <2>3, <1>T DEF ListsTrue, ReadIsTrue, FreshListIsTrue, NoneWritten, TemplatesListed
  <2> QED BY <2>1, <2>2, <2>3, <2>4, AudienceFrames DEF AudienceInv
<1>2. CASE ReadAgain
  <2>1. /\ UNCHANGED <<templates, templateLists, listFailed, audienceDialogs, templateCalls, showArchived>>
        /\ templateRead' = ReadAsked
    BY <1>2 DEF ReadAgain
  <2>2. CacheInv' /\ templateRead'.stage # "read"
    BY <2>1, <1>T DEF CacheInv, CacheTyped, CopiesWhole, ReadAsked, NoRead, WholeAudience
  <2>3. ListsTrue'
    BY <2>1, <2>2, <1>T DEF ListsTrue, ReadIsTrue, FreshListIsTrue, TemplatesListed
  <2> QED BY <2>1, <2>2, <2>3, AudienceFrames DEF AudienceInv
<1>3. CASE ListTemplates
  <2>1. /\ UNCHANGED <<templates, templateLists, listFailed, audienceDialogs, templateCalls, showArchived>>
        /\ templateRead' = [stage |-> "read", rows |-> TemplatesListed(showArchived), old |-> FALSE]
    BY <1>3 DEF ListTemplates
  <2>2. TemplatesListed(showArchived) \subseteq templates
    BY DEF TemplatesListed
  <2>3. CacheInv'
    BY <2>1, <2>2, <1>T DEF CacheInv, CacheTyped, CopiesWhole, RowsTyped, AudiencesWhole, WholeAudience
  <2>4. ListsTrue'
    BY <2>1, <1>T DEF ListsTrue, ReadIsTrue, FreshListIsTrue, TemplatesListed
  <2> QED BY <2>1, <2>3, <2>4, AudienceFrames DEF AudienceInv
<1>4. CASE TemplatesArrive
  <2>1. /\ UNCHANGED <<templates, showArchived, templateDialog, editingTemplate>>
        /\ templateRead.stage = "read" /\ templateRead' = NoRead /\ listFailed' = FALSE
        /\ templateLists' = [templateLists EXCEPT ![showArchived] =
                              [is |-> IF templateRead.old THEN "overtaken" ELSE "fresh",
                               rows |-> templateRead.rows]]
        /\ templateCalls' = ReadEnds(templateCalls)
        /\ formText' = IF listFailed THEN editingTemplate.text ELSE formText
    BY <1>4 DEF TemplatesArrive
  <2>2. AudienceCallsInv' /\ (NoneWritten' => NoneWritten)
    BY <2>1, AudienceCallsMoved, <1>T
  <2>3. CacheInv'
    BY <2>1, <1>T DEF CacheInv, CacheTyped, CopiesWhole, NoRead, WholeAudience
  <2>4. editingTemplate.text \in 0..MaxAudiences
    BY <1>T DEF DialogTyped, Template
  <2>5. DialogInv'
    BY <2>1, <2>4, <1>T DEF DialogInv, DialogTyped, FormOfItsAudience
  <2>6. ListsTrue'
    BY <2>1, <2>2, <1>T
       DEF ListsTrue, ReadIsTrue, FreshListIsTrue, NoneWritten, TemplatesListed, NoRead, CacheTyped
  <2> QED BY <2>1, <2>2, <2>3, <2>5, <2>6, AudienceFrames DEF AudienceInv
<1>5. CASE TemplatesFail
  <2>1. /\ UNCHANGED <<templates, showArchived, templateDialog, editingTemplate>>
        /\ templateRead' = NoRead /\ listFailed' = TRUE
        /\ templateLists' = [templateLists EXCEPT ![showArchived].is = IF @ = "absent" THEN @ ELSE "stale"]
        /\ templateCalls' = DialogGone(ReadEnds(templateCalls))
        /\ formText' = 0
    BY <1>5 DEF TemplatesFail
  <2>2. AudienceCallsInv' /\ (NoneWritten' => NoneWritten)
    BY <2>1, AudienceCallsMoved, <1>T
  <2>3. CacheInv'
    BY <2>1, <1>T DEF CacheInv, CacheTyped, CopiesWhole, NoRead, WholeAudience
  <2>4. DialogInv'
    BY <2>1, <1>T, AudienceAssumption DEF DialogInv, DialogTyped, FormOfItsAudience
  <2>5. templateLists'[showArchived].is # "fresh" /\ templateLists'[~ showArchived] = templateLists[~ showArchived]
    BY <2>1, <1>T DEF CacheTyped
  <2>6. ListsTrue'
    BY <2>1, <2>2, <2>5, <1>T
       DEF ListsTrue, ReadIsTrue, FreshListIsTrue, NoneWritten, TemplatesListed, NoRead, CacheTyped
  <2> QED BY <2>1, <2>2, <2>3, <2>4, <2>6, AudienceFrames DEF AudienceInv
<1>6. CASE HandleEdit
  <2>1. PICK t \in TemplatesShown.rows : OpenTemplateDialog("edit", t)
    BY <1>6 DEF HandleEdit
  <2>2. t \in Template /\ t.text = t.id
    BY <1>T DEF CacheTyped, CopiesWhole, WholeAudience, TemplatesShown
  <2> QED BY <2>1, <2>2, OpenedDialog
<1>7. CASE ShowCreateModal
  <2>1. NoTemplate.text = NoTemplate.id
    BY DEF NoTemplate
  <2> QED BY <1>7, <2>1, TemplateRecords, OpenedDialog DEF ShowCreateModal
<1>8. CASE CloseModal
  <2>1. /\ NoDialog /\ templateCalls' = DialogGone(templateCalls)
        /\ UNCHANGED <<templates, audienceCache>>
    BY <1>8 DEF CloseModal
  <2>2. AudienceCallsInv' /\ (NoneWritten' => NoneWritten)
    BY <2>1, AudienceCallsMoved, <1>T
  <2>3. UNCHANGED <<showArchived, templateLists, templateRead, listFailed>>
    BY <2>1 DEF audienceCache
  <2> QED BY <2>1, <2>2, <2>3, NoDialogTyped, AudienceFrames DEF AudienceInv
<1>9. CASE SubmitCreate
  <2>1. PICK has \in SUBSET Needed : Complete(has) /\ templateDialog = "create" /\ PageShown
               /\ AskTemplate("create", [NoTemplate EXCEPT !.text = formText, !.has = has], TRUE)
    BY <1>9 DEF SubmitCreate, SubmitForm
  <2>2. formText = 0
    BY <2>1, <1>T DEF PageShown, FormOfItsAudience, NoTemplate
  <2>3. [NoTemplate EXCEPT !.text = formText, !.has = has] \in Template
    BY TemplateRecords, <1>T DEF DialogTyped
  <2>4. /\ [NoTemplate EXCEPT !.text = formText, !.has = has].text = 0
        /\ [NoTemplate EXCEPT !.text = formText, !.has = has].has = Needed
    BY <2>1, <2>2 DEF NoTemplate, Complete
  <2> QED BY <2>1, <2>3, <2>4, AskedCall
<1>10. CASE SubmitEdit
  <2>1. PICK has \in SUBSET Needed : Complete(has) /\ PageShown
               /\ AskTemplate("update", [editingTemplate EXCEPT !.text = formText, !.has = has], TRUE)
    BY <1>10 DEF SubmitEdit, SubmitForm
  <2>2. formText = editingTemplate.id /\ editingTemplate \in Template
    BY <2>1, <1>T DEF PageShown, FormOfItsAudience, DialogTyped
  <2>3. [editingTemplate EXCEPT !.text = formText, !.has = has] \in Template
    BY TemplateRecords, <1>T DEF DialogTyped
  <2>4. WholeAudience([editingTemplate EXCEPT !.text = formText, !.has = has])
    BY <2>1, <2>2 DEF Template, Complete, WholeAudience
  <2> QED BY <2>1, <2>3, <2>4, AskedCall
<1>11. CASE HandleArchive
  <2>1. PICK t \in TemplatesShown.rows : AskTemplate("archive", [NoTemplate EXCEPT !.id = t.id], FALSE)
    BY <1>11 DEF HandleArchive
  <2>2. t.id \in 0..MaxAudiences
    BY <1>T DEF CacheTyped, TemplatesShown, Template
  <2> QED BY <2>1, <2>2, TemplateRecords, AskedCall
<1>12. CASE HandleRestore
  <2>1. PICK t \in TemplatesShown.rows : AskTemplate("restore", [NoTemplate EXCEPT !.id = t.id], FALSE)
    BY <1>12 DEF HandleRestore
  <2>2. t.id \in 0..MaxAudiences
    BY <1>T DEF CacheTyped, TemplatesShown, Template
  <2> QED BY <2>1, <2>2, TemplateRecords, AskedCall
<1>13. CASE CreateTemplate
  <2>1. PICK c \in templateCalls :
               /\ c.do = "create" /\ c.stage = "asked" /\ Cardinality(templates) < MaxAudiences
               /\ templates' = templates \cup
                    {[c.of EXCEPT !.id = Cardinality(templates) + 1,
                                  !.text = IF @ = 0 THEN Cardinality(templates) + 1 ELSE @]}
               /\ TemplateCallTo(c, TemplateWritten(c))
               /\ UNCHANGED <<audienceCache, audienceDialogs>>
    BY <1>13 DEF CreateTemplate
  <2>2. c \in TemplateCall /\ c.of \in Template /\ c.of.text = 0 /\ c.of.has = Needed
    BY <2>1, <1>T DEF AudienceCallsTyped, CallsWhole, SaysWhole, TemplateCall
  <2>3. Cardinality(templates) + 1 \in 1..MaxAudiences
    BY <2>1, <1>T, FS_CardinalityType, AudienceAssumption DEF RowsTyped
  <2>4. PICK t : templates' = templates \cup {t} /\ t \in Template /\ WholeAudience(t)
    BY <2>1, <2>2, <2>3, CreatedIsWhole
  <2>5. RowsInv'
    BY <2>4, <1>T, FS_AddElement DEF RowsInv, RowsTyped, AudiencesWhole, WholeAudience
  <2>6. AudienceCallsInv' /\ TemplateWritten(c) \in templateCalls' /\ ~ NoneWritten'
    BY <2>1, <2>2, WrittenCall, AnsweredCall DEF NoneWritten
  <2>7. UNCHANGED listFailed
    BY <2>1 DEF audienceCache
  <2> QED BY <2>1, <2>5, <2>6, <2>7, AudienceFrames DEF AudienceInv
<1>14. CASE GetTemplate
  <2>1. PICK c \in templateCalls, t \in templates :
               /\ c.do # "create" /\ c.stage = "asked" /\ t.id = c.of.id
               /\ TemplateCallTo(c, [c EXCEPT !.stage = "read", !.saw = t])
               /\ UNCHANGED <<templates, audienceCache, audienceDialogs>>
    BY <1>14 DEF GetTemplate
  <2> DEFINE d == [c EXCEPT !.stage = "read", !.saw = t]
  <2>2. c \in TemplateCall /\ t \in Template /\ WholeAudience(t) /\ SaysWhole(c)
    BY <2>1, <1>T DEF AudienceCallsTyped, CallsWhole, RowsTyped, AudiencesWhole, WholeAudience
  <2>3. d \in TemplateCall /\ d.stage = "read" /\ d.do = c.do /\ d.of = c.of /\ d.saw = t
    BY <2>2 DEF TemplateCall
  <2>4. TemplateCallTo(c, d)
    BY <2>1
  <2> HIDE DEF d
  <2>5. SaysWhole(d) /\ SawItsRow(d)
    BY <2>1, <2>2, <2>3 DEF SaysWhole, SawItsRow
  <2>6. AudienceCallsInv'
    BY <2>3, <2>4, <2>5, AnsweredCall
  <2>7. NoneWritten' => NoneWritten
    BY <2>1, <2>4 DEF NoneWritten, TemplateCallTo
  <2>8. UNCHANGED <<showArchived, templateLists, templateRead, listFailed>>
    BY <2>1 DEF audienceCache
  <2> QED BY <2>1, <2>6, <2>7, <2>8, AudienceFrames DEF AudienceInv
<1>15. CASE UpdateTemplate
  <2>1. PICK c \in templateCalls :
               /\ c.stage = "read"
               /\ templates' = {t \in templates : t.id # c.of.id} \cup {TemplateChanged(c)}
               /\ TemplateCallTo(c, TemplateWritten(c))
               /\ UNCHANGED <<audienceCache, audienceDialogs>>
    BY <1>15 DEF UpdateTemplate
  <2>2. c \in TemplateCall /\ SaysWhole(c) /\ SawItsRow(c)
    BY <2>1, <1>T DEF AudienceCallsTyped, CallsWhole
  <2> DEFINE rest == {t \in templates : t.id # c.of.id}
  <2>3. IsFiniteSet(rest) /\ rest \subseteq templates
    BY <1>T, FS_Subset DEF RowsTyped
  <2>4. templates' = rest \cup {TemplateChanged(c)}
    BY <2>1
  <2> HIDE DEF rest
  <2>5. RowsInv'
    BY <2>2, <2>3, <2>4, <1>T, ChangedIsWhole, FS_AddElement DEF RowsInv, RowsTyped, AudiencesWhole, WholeAudience
  <2>6. AudienceCallsInv' /\ TemplateWritten(c) \in templateCalls' /\ ~ NoneWritten'
    BY <2>1, <2>2, WrittenCall, AnsweredCall DEF NoneWritten
  <2>7. UNCHANGED listFailed
    BY <2>1 DEF audienceCache
  <2> QED BY <2>1, <2>5, <2>6, <2>7, AudienceFrames DEF AudienceInv
<1>16. CASE TemplateAnswered
  <2>1. PICK c \in templateCalls :
               /\ \/ /\ templateCalls' = ReadEnds(templateCalls \ {c})
                                             \cup {[c EXCEPT !.stage = "refetching"]}
                     /\ templateRead' = ReadAsked
                  \/ /\ templateCalls' = (templateCalls \ {c}) \cup {[c EXCEPT !.stage = "refetching"]}
                     /\ templateRead' = [templateRead EXCEPT !.old = (templateRead.stage = "read")]
               /\ templateLists' = Invalidated
               /\ UNCHANGED <<templates, showArchived, listFailed, audienceDialogs>>
    BY <1>16 DEF TemplateAnswered, ListReadAnew, TemplateCallTo
  <2> DEFINE d == [c EXCEPT !.stage = "refetching"]
  <2>2. d \in TemplateCall /\ d.stage = "refetching"
    BY <1>T DEF AudienceCallsTyped, TemplateCall
  <2>3. PICK rest \in {templateCalls \ {c}, ReadEnds(templateCalls \ {c})} :
               templateCalls' = rest \cup {d}
    BY <2>1
  <2> HIDE DEF d
  <2>4. AudienceCallsInv'
    <3>1. Moved(templateCalls \ {c}, rest)
      BY <1>T, MovedCalls, OneGoesOn DEF AudienceCallsTyped, Moved
    <3>2. AudienceCallsTyped'
      BY <2>2, <2>3, <3>1 DEF AudienceCallsTyped, Moved
    <3>3. CallsWhole'
      <4> SUFFICES ASSUME NEW e \in templateCalls', e # d
                   PROVE  /\ e.stage \in {"asked", "read"} => SaysWhole(e)
                          /\ e.stage = "read" => SawItsRow(e)
        BY <2>2 DEF CallsWhole, SaysWhole, SawItsRow, WholeAudience
      <4>1. PICK b \in templateCalls : SameCall(b, e)
        BY <2>3, <3>1 DEF Moved
      <4> QED BY <4>1, <1>T DEF CallsWhole, SameCall, SaysWhole, SawItsRow
    <3> QED BY <3>2, <3>3 DEF AudienceCallsInv
  <2>5. /\ templateRead' \in [stage : {"none", "asked", "read"}, rows : SUBSET Template, old : BOOLEAN]
        /\ templateRead'.rows \in {{}, templateRead.rows}
        /\ templateRead'.stage = "read" => templateRead'.old
    <3>1. CASE templateRead' = ReadAsked
      BY <3>1, NothingRead
    <3>2. CASE templateRead' = [templateRead EXCEPT !.old = (templateRead.stage = "read")]
      <4>1. (templateRead.stage = "read") \in BOOLEAN
        OBVIOUS
      <4> QED BY <3>2, <4>1, <1>T DEF CacheTyped
    <3> QED BY <2>1, <3>1, <3>2
  <2>6. CacheInv'
    BY <2>1, <2>5, <1>T, InvalidatedLists DEF CacheInv, CacheTyped, CopiesWhole, WholeAudience
  <2>7. ListsTrue'
    BY <2>1, <2>5, <1>T, InvalidatedLists DEF ListsTrue, ReadIsTrue, FreshListIsTrue
  <2> QED BY <2>1, <2>4, <2>6, <2>7, AudienceFrames DEF AudienceInv
<1>17. CASE HandlerEnds
  <2>1. PICK c \in templateCalls :
               /\ c.stage = "done" /\ UNCHANGED <<templates, audienceCache>>
               /\ \/ NoDialog /\ templateCalls' = DialogGone(templateCalls \ {c})
                  \/ UNCHANGED audienceDialogs /\ templateCalls' = templateCalls \ {c}
    BY <1>17 DEF HandlerEnds
  <2>2. AudienceCallsInv' /\ (NoneWritten' => NoneWritten)
    <3>1. templateCalls \ {c} \in SUBSET templateCalls
      OBVIOUS
    <3>2. \A b \in templateCalls \ (templateCalls \ {c}) : b.stage # "written"
      BY <2>1
    <3> QED BY <2>1, <3>1, <3>2, AudienceCallsMoved
  <2>3. UNCHANGED <<showArchived, templateLists, templateRead, listFailed>>
    BY <2>1 DEF audienceCache
  <2>4. DialogInv'
    BY <2>1, <2>3, NoDialogTyped, AudienceFrames
  <2> QED BY <2>1, <2>2, <2>3, <2>4, AudienceFrames DEF AudienceInv
<1>18. CASE TemplateCallFails
  <2>1. PICK c \in templateCalls :
               /\ c.stage \in {"asked", "read"} /\ templateCalls' = templateCalls \ {c}
               /\ UNCHANGED <<templates, audienceCache, audienceDialogs>>
    BY <1>18 DEF TemplateCallFails
  <2>2. AudienceCallsInv' /\ (NoneWritten' => NoneWritten)
    <3>1. templateCalls \ {c} \in SUBSET templateCalls
      OBVIOUS
    <3>2. \A b \in templateCalls \ (templateCalls \ {c}) : b.stage # "written"
      BY <2>1
    <3> QED BY <2>1, <3>1, <3>2, AudienceCallsMoved
  <2>3. UNCHANGED <<showArchived, templateLists, templateRead, listFailed>>
    BY <2>1 DEF audienceCache
  <2> QED BY <2>1, <2>2, <2>3, AudienceFrames DEF AudienceInv
<1>19. CASE UNCHANGED audienceVars
  <2>1. /\ UNCHANGED <<templates, templateCalls, showArchived, templateLists, templateRead, listFailed>>
        /\ UNCHANGED audienceCache /\ UNCHANGED audienceDialogs
    BY <1>19 DEF audienceVars, audienceCache, audienceDialogs
  <2>2. NoneWritten' => NoneWritten
    BY <2>1 DEF NoneWritten
  <2> QED BY <2>1, <2>2, AudienceFrames DEF AudienceInv
<1> QED
  BY <1>1, <1>2, <1>3, <1>4, <1>5, <1>6, <1>7, <1>8, <1>9, <1>10, <1>11, <1>12, <1>13, <1>14,
     <1>15, <1>16, <1>17, <1>18, <1>19 DEF AudienceNext

-----------------------------------------------------------------------------
LEMMA AudienceInvariant == AudienceSpec => []AudienceInv
BY AudienceInitInv, AudienceInvStep, PTL DEF AudienceSpec

(* Every variable of the audiences' page keeps its type.                   *)
THEOREM AudienceTypeCorrect == AudienceSpec => []AudienceTypeOK
<1>1. AudienceInv => AudienceTypeOK
  BY DEF AudienceInv, RowsInv, AudienceCallsInv, CacheInv, DialogInv, RowsTyped, AudienceCallsTyped, CacheTyped,
         DialogTyped, AudienceTypeOK
<1> QED BY <1>1, AudienceInvariant, PTL

(* Every stored audience is whole and says what was filled in for it.      *)
THEOREM AudiencesStayWhole == AudienceSpec => []AudiencesWhole
<1>1. AudienceInv => AudiencesWhole
  BY DEF AudienceInv, RowsInv
<1> QED BY <1>1, AudienceInvariant, PTL

(* A list that counts as fresh is the table's, unless an answer is on its  *)
(* way, or one came when the list's first read was already answered.       *)
THEOREM FreshListsAreTrue == AudienceSpec => []FreshListIsTrue
<1>1. AudienceInv => FreshListIsTrue
  BY DEF AudienceInv, ListsTrue
<1> QED BY <1>1, AudienceInvariant, PTL
=============================================================================
