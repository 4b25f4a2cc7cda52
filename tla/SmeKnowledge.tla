---------------------------- MODULE SmeKnowledge ----------------------------
(***************************************************************************)
(* How a subject matter expert comes to know something: a manager gives a  *)
(* task, the assignee submits a text, the manager reviews it, has it       *)
(* rewritten by the AI or by hand, approves it or asks for changes, and an *)
(* approved text becomes a chunk of knowledge.  One expert, one task, the  *)
(* manager's page with its query caches, the assignee's page in another    *)
(* browser, and the server, whose approval is four writes.                 *)
(***************************************************************************)
EXTENDS Naturals, Sequences

CONSTANTS
  MaxSubmissions,  \* bound: submissions of the task
  MaxSmeEvents     \* bound: requests and writes that fail, and what managers
                   \* do to the expert and its knowledge, together

ASSUME SmeAssumption == MaxSubmissions \in Nat /\ MaxSmeEvents \in Nat

VARIABLES
  expert,       \* status of the expert on the server
  smeTask,      \* status of the task on the server
  submissions,  \* approved: is_approved; learnt: a chunk was made of it once
  chunks,       \* [of, text]: the submission recorded and whose text it holds
  desk,         \* the manager's page: the expert selected, as it was then, and
                \* the tasks and the number of submissions in the query cache
  review,       \* the review panel
  approval,     \* ApproveSubmission under way, with what it read at the start
  assignee,     \* status of the task as the assignee's page shows it
  outdated,     \* whether the panel changed submission under an enhancement
  smeEvents

smeVars == <<expert, smeTask, submissions, chunks, desk, review, approval,
             assignee, outdated, smeEvents>>
smeServer == <<expert, smeTask, submissions, chunks>>

SMEStatus     == {"none", "draft", "active", "archived"}
SMETaskStatus == {"none", "pending", "awaiting_review", "changes_requested",
                  "completed", "cancelled"}

(* A text is known by the submission it stems from; 0 is the empty text.   *)
Submission    == [approved : BOOLEAN, learnt : BOOLEAN]
Rewritten     == MaxSubmissions + 1
KnowledgeChunk == [of : 1..MaxSubmissions, text : 0..Rewritten]

ClosedReview == [open |-> FALSE, text |-> 0, enhancing |-> 0, feedback |-> FALSE,
                 sending |-> FALSE]
NoApproval   == [write |-> "none", of |-> 0, text |-> 0, expert |-> "none", lost |-> FALSE]

Desk == [selected : SMEStatus, task : SMETaskStatus, subs : 0..MaxSubmissions]

SmeInit ==
  /\ expert = "none" /\ smeTask = "none" /\ submissions = <<>> /\ chunks = {}
  /\ desk = [selected |-> "none", task |-> "none", subs |-> 0]
  /\ review = ClosedReview /\ approval = NoApproval
  /\ assignee = "none" /\ outdated = FALSE /\ smeEvents = 0

SmeEvent == smeEvents < MaxSmeEvents /\ smeEvents' = smeEvents + 1
NoSmeEvent == UNCHANGED smeEvents

AtDesk(d)   == desk' = d /\ UNCHANGED <<approval, assignee>>
InReview(r) == review' = r /\ UNCHANGED <<smeServer, desk, approval, assignee, outdated>>

-----------------------------------------------------------------------------
(* The list of experts and the detail panel.  The panel shows a copy of    *)
(* the expert that was made when it was selected.                          *)

Overlay == review.open

CreateSME ==
  /\ expert = "none" /\ expert' = "draft"
  /\ AtDesk(desk) /\ UNCHANGED <<smeTask, submissions, chunks, review, outdated>>
  /\ NoSmeEvent

SelectSME ==
  /\ expert # "none" /\ desk.selected = "none"
  /\ AtDesk([desk EXCEPT !.selected = expert])
  /\ UNCHANGED <<smeServer, review, outdated>>
  /\ NoSmeEvent

BackToList ==
  /\ desk.selected # "none" /\ ~ Overlay
  /\ AtDesk([desk EXCEPT !.selected = "none"])
  /\ UNCHANGED <<smeServer, review, outdated>>
  /\ NoSmeEvent

(* An edit that is saved closes the panel, whose copy it has made old.     *)
UpdateSME ==
  /\ expert \in {"draft", "active"} /\ desk.selected # "archived" /\ ~ Overlay
  /\ AtDesk([desk EXCEPT !.selected = "none"])
  /\ UNCHANGED <<smeServer, review, outdated>>
  /\ NoSmeEvent

(* From the card or from the panel, which stays as it was.                 *)
DeleteSME ==
  /\ expert \in {"draft", "active"} /\ ~ Overlay
  /\ expert' = "archived"
  /\ AtDesk(desk) /\ UNCHANGED <<smeTask, submissions, chunks, review, outdated>>
  /\ SmeEvent

RestoreSME ==
  /\ expert = "archived" /\ ~ Overlay
  /\ expert' = "draft"
  /\ AtDesk(desk) /\ UNCHANGED <<smeTask, submissions, chunks, review, outdated>>
  /\ NoSmeEvent

-----------------------------------------------------------------------------
(* Tasks.                                                                  *)

ShowsTasks == desk.selected \notin {"none", "archived"} /\ ~ Overlay

CreateTask ==
  /\ ShowsTasks /\ smeTask = "none"
  /\ smeTask' = "pending"
  /\ AtDesk([desk EXCEPT !.task = "pending"])
  /\ UNCHANGED <<expert, submissions, chunks, review, outdated>>
  /\ NoSmeEvent

(* A cached list is read again when it is shown after a minute or more.    *)
RefetchTasks ==
  /\ desk.selected # "none" /\ desk.task # smeTask
  /\ AtDesk([desk EXCEPT !.task = smeTask])
  /\ UNCHANGED <<smeServer, review, outdated>>
  /\ NoSmeEvent

(* Refused when the task is no longer pending; only success reads again.   *)
CancelTask ==
  /\ ShowsTasks /\ desk.task = "pending" /\ smeTask = "pending"
  /\ smeTask' = "cancelled"
  /\ AtDesk([desk EXCEPT !.task = "cancelled"])
  /\ UNCHANGED <<expert, submissions, chunks, review, outdated>>
  /\ NoSmeEvent

AssigneeLooks ==
  /\ assignee # smeTask /\ assignee' = smeTask
  /\ UNCHANGED <<smeServer, desk, review, approval, outdated, smeEvents>>

(* The server takes a text whatever has become of the task, and forgives   *)
(* itself the update of the task.                                          *)
SubmitContent ==
  /\ assignee \in {"pending", "changes_requested"}
  /\ Len(submissions) < MaxSubmissions
  /\ submissions' = Append(submissions, [approved |-> FALSE, learnt |-> FALSE])
  /\ \/ smeTask' = "awaiting_review" /\ NoSmeEvent
     \/ UNCHANGED smeTask /\ SmeEvent
  /\ assignee' = smeTask'
  /\ UNCHANGED <<expert, chunks, desk, review, approval, outdated>>

-----------------------------------------------------------------------------
(* The review panel.                                                       *)

(* Mutant: the text is taken over only while the editor is empty.          *)
InitializeIfEmpty(r, n) == IF r.text = 0 THEN [r EXCEPT !.text = n] ELSE r

(* The effect on the text of the latest submission.                        *)
InitializeContent(r, n) == IF n = 0 THEN r ELSE [r EXCEPT !.text = n]

OpenReview ==
  /\ ShowsTasks /\ desk.task = "awaiting_review"
  /\ InReview(InitializeContent([ClosedReview EXCEPT !.open = TRUE], desk.subs))
  /\ NoSmeEvent

(* The panel reads the submissions when it has none, or old ones.          *)
FetchSubmissions ==
  /\ review.open /\ desk.subs # Len(submissions)
  /\ review' = InitializeContent(review, Len(submissions))
  /\ outdated' = (outdated \/ review.enhancing # 0)
  /\ AtDesk([desk EXCEPT !.subs = Len(submissions)])
  /\ UNCHANGED smeServer
  /\ NoSmeEvent

CloseReview ==
  /\ review.open /\ InReview(ClosedReview) /\ NoSmeEvent

Busy == review.enhancing # 0 \/ review.sending

ToggleFeedback ==
  /\ review.open /\ desk.subs # 0 /\ ~ review.sending
  /\ InReview([review EXCEPT !.feedback = ~ @]) /\ NoSmeEvent

EnhanceSubmissionContent ==
  /\ review.open /\ desk.subs # 0 /\ ~ Busy
  /\ InReview([review EXCEPT !.enhancing = desk.subs]) /\ NoSmeEvent

(* An answer that is empty leaves the text alone.                          *)
Enhanced ==
  /\ review.enhancing # 0
  /\ \/ InReview([review EXCEPT !.text = review.enhancing, !.enhancing = 0]) /\ NoSmeEvent
     \/ InReview([review EXCEPT !.enhancing = 0]) /\ NoSmeEvent
     \/ InReview([review EXCEPT !.enhancing = 0]) /\ SmeEvent

(* Approving is not held up by an enhancement.                             *)
Approve ==
  /\ review.open /\ desk.subs # 0 /\ review.text # 0
  /\ ~ review.sending /\ ~ review.feedback /\ approval = NoApproval
  /\ approval' = [write |-> "submission", of |-> desk.subs, text |-> review.text,
                  expert |-> expert, lost |-> FALSE]
  /\ review' = [review EXCEPT !.sending = TRUE]
  /\ UNCHANGED <<smeServer, desk, assignee, outdated, smeEvents>>

RequestSubmissionChanges ==
  /\ review.open /\ desk.subs # 0 /\ review.feedback /\ ~ review.sending
  /\ \/ smeTask' = "changes_requested" /\ NoSmeEvent
     \/ UNCHANGED smeTask /\ SmeEvent
  /\ desk' = [desk EXCEPT !.task = smeTask', !.subs = Len(submissions)]
  /\ review' = ClosedReview
  /\ UNCHANGED <<expert, submissions, chunks, approval, assignee, outdated>>

-----------------------------------------------------------------------------
(* ApproveSubmission on the server: whatever the state of the task.        *)

Write(w, next) ==
  /\ approval.write = w
  /\ approval' = [approval EXCEPT !.write = next]
  /\ UNCHANGED <<desk, review, assignee, outdated>>

UpdateSubmission ==
  /\ UNCHANGED <<expert, smeTask, chunks>>
  /\ \/ /\ Write("submission", "chunk") /\ NoSmeEvent
        /\ submissions' = [submissions EXCEPT ![approval.of].approved = TRUE]
     \/ Write("submission", "failed") /\ SmeEvent /\ UNCHANGED submissions

(* Mutant: a chunk that cannot be created is logged like the rest.         *)
CreateChunkOrLog ==
  /\ UNCHANGED <<expert, smeTask>>
  /\ \/ /\ Write("chunk", "task") /\ NoSmeEvent
        /\ chunks' = chunks \cup {[of |-> approval.of, text |-> approval.text]}
        /\ submissions' = [submissions EXCEPT ![approval.of].learnt = TRUE]
     \/ Write("chunk", "task") /\ SmeEvent /\ UNCHANGED <<chunks, submissions>>

CreateChunk ==
  /\ UNCHANGED <<expert, smeTask>>
  /\ \/ /\ Write("chunk", "task") /\ NoSmeEvent
        /\ chunks' = chunks \cup {[of |-> approval.of, text |-> approval.text]}
        /\ submissions' = [submissions EXCEPT ![approval.of].learnt = TRUE]
     \/ Write("chunk", "failed") /\ SmeEvent /\ UNCHANGED <<chunks, submissions>>

CompleteTask ==
  /\ Write("task", "expert") /\ UNCHANGED <<expert, submissions, chunks>>
  /\ \/ smeTask' = "completed" /\ NoSmeEvent
     \/ UNCHANGED smeTask /\ SmeEvent

(* The whole row, with the status that was read before the first write.    *)
SummarizeExpert ==
  /\ Write("expert", "done") /\ UNCHANGED <<smeTask, submissions, chunks>>
  /\ \/ /\ chunks # {} \/ approval.expert = "draft"
        /\ expert' = IF approval.expert = "draft" THEN "active" ELSE approval.expert
        /\ NoSmeEvent
     \/ chunks = {} /\ approval.expert # "draft" /\ UNCHANGED expert /\ NoSmeEvent
     \/ UNCHANGED expert /\ SmeEvent

(* The answer closes whichever review is open by then.                     *)
ApproveAnswered ==
  /\ approval.write \in {"done", "failed"}
  /\ approval' = NoApproval
  /\ \/ approval.lost /\ UNCHANGED <<review, desk>>
     \/ /\ ~ approval.lost /\ approval.write = "failed"
        /\ review' = [review EXCEPT !.sending = FALSE] /\ UNCHANGED desk
     \/ /\ ~ approval.lost /\ approval.write = "done"
        /\ review' = ClosedReview
        /\ desk' = [desk EXCEPT !.task = smeTask,
                               !.subs = IF review.open THEN Len(submissions) ELSE @]
  /\ UNCHANGED <<smeServer, assignee, outdated, smeEvents>>

(* The answer is lost: the panel takes the text for not approved.          *)
ApproveLost ==
  /\ review.sending /\ review' = [review EXCEPT !.sending = FALSE]
  /\ approval' = [approval EXCEPT !.lost = TRUE] /\ SmeEvent
  /\ UNCHANGED <<smeServer, desk, assignee, outdated>>

-----------------------------------------------------------------------------
(* Knowledge, edited and deleted in the detail panel.                      *)

UpdateKnowledgeChunk ==
  /\ desk.selected # "none" /\ ~ Overlay
  /\ \E c \in chunks : chunks' = (chunks \ {c}) \cup {[c EXCEPT !.text = Rewritten]}
  /\ AtDesk(desk) /\ UNCHANGED <<expert, smeTask, submissions, review, outdated>>
  /\ SmeEvent

DeleteKnowledgeChunk ==
  /\ desk.selected # "none" /\ ~ Overlay
  /\ \E c \in chunks : chunks' = chunks \ {c}
  /\ AtDesk(desk) /\ UNCHANGED <<expert, smeTask, submissions, review, outdated>>
  /\ SmeEvent

SmeNext ==
  \/ CreateSME \/ SelectSME \/ BackToList \/ UpdateSME \/ DeleteSME \/ RestoreSME
  \/ CreateTask \/ RefetchTasks \/ CancelTask \/ AssigneeLooks \/ SubmitContent
  \/ OpenReview \/ FetchSubmissions \/ CloseReview \/ ToggleFeedback
  \/ EnhanceSubmissionContent \/ Enhanced \/ Approve \/ RequestSubmissionChanges
  \/ UpdateSubmission \/ CreateChunk \/ CompleteTask \/ SummarizeExpert
  \/ ApproveAnswered \/ ApproveLost
  \/ UpdateKnowledgeChunk \/ DeleteKnowledgeChunk

SmeSpec == SmeInit /\ [][SmeNext]_smeVars

-----------------------------------------------------------------------------
SmeTypeOK ==
  /\ expert \in SMEStatus /\ smeTask \in SMETaskStatus
  /\ submissions \in Seq(Submission) /\ Len(submissions) <= MaxSubmissions
  /\ chunks \subseteq KnowledgeChunk
  /\ desk \in Desk
  /\ review \in [open : BOOLEAN, text : 0..MaxSubmissions, enhancing : 0..MaxSubmissions,
                 feedback : BOOLEAN, sending : BOOLEAN]
  /\ approval.write \in {"none", "submission", "chunk", "task", "expert", "done", "failed"}
  /\ approval.of \in 0..MaxSubmissions /\ approval.text \in 0..MaxSubmissions
  /\ approval.expert \in SMEStatus /\ approval.lost \in BOOLEAN
  /\ assignee \in SMETaskStatus
  /\ outdated \in BOOLEAN /\ smeEvents \in 0..MaxSmeEvents

(* What is kept as the knowledge of one submission is its own text, or was *)
(* rewritten by hand, however the panel's submissions are read again while *)
(* it is open.  An enhancement that was asked for an earlier submission    *)
(* and answered after the panel had changed to the next is left out: the   *)
(* answer replaces the text of the wrong submission.                       *)
KnowledgeOfItsSubmission ==
  ~ outdated => \A c \in chunks : c.text \in {c.of, Rewritten}

(* A task is completed, and an expert active, only when an approved text   *)
(* was made part of the knowledge, whichever of the writes of an approval  *)
(* fail and whatever is done in between.                                   *)
CompletedIsLearnt ==
  smeTask = "completed" \/ expert = "active" =>
    \E i \in DOMAIN submissions : submissions[i].approved /\ submissions[i].learnt
=============================================================================
