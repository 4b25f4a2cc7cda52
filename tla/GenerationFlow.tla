--------------------------- MODULE GenerationFlow ---------------------------
(***************************************************************************)
(* Generating a course from the browser: AIGenerationFlowModal, the        *)
(* courseGenerationMachine it runs, the wizard and the panels it shows,    *)
(* the queries it reads through, and the generation service as the browser *)
(* sees it.                                                                *)
(*                                                                         *)
(* The modal stays mounted while it is closed, and so do its machine and   *)
(* its polling.  The machine knows the course by context.input, while the  *)
(* actors read through hooks keyed by createdCourseId and currentJobId,    *)
(* which closing and opening the modal change under it.  An event that the *)
(* current state does not list is dropped.                                 *)
(***************************************************************************)
EXTENDS Naturals, Sequences

CONSTANTS
  Existing,    \* courses with an outline, that can be opened for editing
  Fresh,       \* courses that the wizard may create
  None,
  MaxEvents,   \* bound: generation jobs, failed requests and moves of a
               \* settled job, together
  MaxVersions  \* bound: outlines of a course

Courses == Existing \cup Fresh

ASSUME CoursesAssumption == Existing \cap Fresh = {} /\ None \notin Courses
ASSUME LimitsAssumption ==
  MaxEvents \in Nat /\ MaxVersions \in Nat \ {0}

VARIABLES
  step,      \* where courseGenerationMachine is
  ctx,       \* its context
  modal,     \* state of the modal component
  awaiting,  \* request of the modal's own handlers under way
  cache,     \* query cache: the outline read last for each course
  jobs,      \* generation jobs, in the order of their creation
  outlines,  \* outlines of each course and which were approved
  saved,     \* the course of the outline stored as a course's content
  library,   \* courses that exist
  flowFaults

machine  == <<step, ctx>>
server   == <<jobs, outlines>>
flowVars == <<step, ctx, modal, awaiting, cache, jobs, outlines,
              saved, library, flowFaults>>

-----------------------------------------------------------------------------
(* Messages.                                                               *)

(* Queued and processing are one to the browser: it goes on polling.       *)
JobStatus == {"open", "completed", "failed", "cancelled"}
Job       == [kind : {"outline", "course"}, course : Courses,
              version : 0..MaxVersions, status : JobStatus]
Outline   == [course : Courses \cup {None}, version : 0..MaxVersions]
NoOutline == [course |-> None, version |-> 0]
NoInput   == [course |-> None, described |-> FALSE]

JobIds == 1..MaxEvents
NoJob  == 0

Outlining   == {"outline.submitting", "outline.polling", "outline.waiting",
                "outline.fetching"}
Reviewing   == {"review.viewing", "review.approving", "review.rejecting",
                "review.updating"}
Queueing    == {"queued.submitting", "queued.confirmation"}
Writing     == {"lessons.polling", "lessons.waiting", "lessons.fetching"}
Steps       == {"configure", "background", "complete"}
                 \cup Outlining \cup Reviewing \cup Queueing \cup Writing

InitialContext ==
  [input |-> NoInput, outlineJob |-> NoJob, outline |-> NoOutline,
   lessonJob |-> NoJob]
ClosedModal ==
  [open |-> FALSE, editing |-> None, created |-> None, current |-> NoJob,
   read |-> FALSE, closing |-> FALSE, initialized |-> FALSE, cancelling |-> NoJob]

FlowInit ==
  /\ step = "configure"
  /\ ctx = InitialContext
  /\ modal = ClosedModal
  /\ awaiting = "nothing"
  /\ cache = [c \in Courses |-> 0]
  /\ jobs = <<>>
  /\ outlines = [c \in Courses |->
                   [latest |-> IF c \in Existing THEN 1 ELSE 0, approved |-> {}]]
  /\ saved = [c \in Courses |-> None]
  /\ library = Existing
  /\ flowFaults = 0

Fault == Len(jobs) + flowFaults < MaxEvents /\ flowFaults' = flowFaults + 1

-----------------------------------------------------------------------------
(* Starting from the wizard; GenerationWizard models its pages.            *)

(* The dialog that confirms closing covers everything else.                *)
InFront     == modal.open /\ ~modal.closing
WizardShown == InFront /\ step = "configure"

(* handleStartGeneration: the course is created first.  With every course  *)
(* of the model in use the call fails.                                     *)
StartGeneration ==
  /\ WizardShown /\ awaiting = "nothing"
  /\ awaiting' = "createCourse"
  /\ UNCHANGED <<machine, modal, cache, server, saved, library, flowFaults>>

(* The machine takes SET_INPUT and START_GENERATION in configure only, and *)
(* closing the modal meanwhile does not stop the handler.                  *)
CourseCreated ==
  /\ awaiting = "createCourse"
  /\ \E c \in Fresh \ library :
       /\ library' = library \cup {c}
       /\ modal' = [modal EXCEPT !.created = c]
       /\ IF step = "configure"
            THEN /\ step' = "outline.submitting"
                 /\ ctx' = [ctx EXCEPT
                              !.input = [course |-> c, described |-> TRUE]]
            ELSE UNCHANGED machine
  /\ awaiting' = "nothing"
  /\ UNCHANGED <<cache, server, saved, flowFaults>>

CreateCourseFails ==
  /\ awaiting = "createCourse"
  /\ Fault \/ (Fresh \subseteq library /\ UNCHANGED flowFaults)
  /\ awaiting' = "nothing"
  /\ UNCHANGED <<machine, modal, cache, server, saved, library>>

-----------------------------------------------------------------------------
(* Helpers of the machine's actors.                                        *)

Goto(s, c) == /\ step' = s /\ ctx' = c
              /\ UNCHANGED <<awaiting, saved, library>>

NewJob(kind, c, v) ==
  /\ Len(jobs) + flowFaults' <= MaxEvents - 1
  /\ jobs' = Append(jobs, [kind |-> kind, course |-> c, version |-> v,
                           status |-> "open"])

(* The job whose status a poll returns: refetchJob asks for the job of     *)
(* currentJobId, whatever job the actor was given.                         *)
Polled == modal.current

-----------------------------------------------------------------------------
(* Outline generation.                                                     *)

(* generateOutlineActor: a request without knowledge sources, as made for  *)
(* a course that was opened for editing, is refused.                       *)
SubmitOutline ==
  /\ step = "outline.submitting" /\ ctx.input.described
  /\ UNCHANGED flowFaults
  /\ NewJob("outline", ctx.input.course, 0)
  /\ modal' = [modal EXCEPT !.current = Len(jobs'), !.read = FALSE]
  /\ Goto("outline.polling", [ctx EXCEPT !.outlineJob = Len(jobs')])
  /\ UNCHANGED <<cache, outlines>>

(* The request is refused or lost, or its answer is lost and the job runs. *)
SubmitOutlineFails ==
  /\ step = "outline.submitting"
  /\ \/ Fault /\ (UNCHANGED jobs \/ (ctx.input.described
                                     /\ NewJob("outline", ctx.input.course, 0)))
     \/ /\ ~ctx.input.described \/ Len(jobs) + flowFaults >= MaxEvents
        /\ UNCHANGED <<jobs, flowFaults>>
  /\ Goto("configure", ctx)
  /\ UNCHANGED <<modal, cache, outlines>>

(* Mutant: a failed outline job is taken for one that goes on.             *)
PollOutlineMissesFailure ==
  /\ step = "outline.polling" /\ Polled # NoJob
  /\ Goto(IF jobs[Polled].status = "completed" THEN "outline.fetching"
          ELSE "outline.waiting", [ctx EXCEPT !.outlineJob = Polled])
  /\ modal' = [modal EXCEPT !.read = TRUE]
  /\ UNCHANGED <<cache, server, flowFaults>>

PollOutline ==
  /\ step = "outline.polling" /\ Polled # NoJob
  /\ CASE jobs[Polled].status = "completed" ->
            Goto("outline.fetching", [ctx EXCEPT !.outlineJob = Polled])
       [] jobs[Polled].status = "failed" ->
            Goto("configure", [ctx EXCEPT !.outlineJob = Polled])
       [] OTHER ->
            Goto("outline.waiting", [ctx EXCEPT !.outlineJob = Polled])
  /\ modal' = [modal EXCEPT !.read = TRUE]
  /\ UNCHANGED <<cache, server, flowFaults>>

(* A refetch that fails resolves with the answer of an earlier one, which  *)
(* the query may also have read on its own: the job goes on.  Without one  *)
(* the actor throws.                                                       *)
PollFails(waiting, abandoned) ==
  /\ \/ Polled = NoJob /\ Goto(abandoned, ctx) /\ UNCHANGED <<modal, flowFaults>>
     \/ /\ Polled # NoJob /\ Fault
        /\ \/ Goto(waiting, ctx) /\ modal' = [modal EXCEPT !.read = TRUE]
           \/ ~modal.read /\ Goto(abandoned, ctx) /\ UNCHANGED modal
  /\ UNCHANGED <<cache, server>>

PollOutlineFails ==
  step = "outline.polling" /\ PollFails("outline.waiting", "configure")

OutlineTimer ==
  /\ step = "outline.waiting"
  /\ Goto("outline.polling", ctx)
  /\ UNCHANGED <<modal, cache, server, flowFaults>>

(* What a read of a course's outline returns.  A first one, while there is *)
(* nothing in the cache, is not asked again, although it may be answered.  *)
Readable(c) ==
  {v \in 0..outlines[c].latest : v = outlines[c].latest \/ cache[c] = 0}

(* refetch asks for the course of createdCourseId; when the request fails  *)
(* it still resolves, with what the cache holds.                           *)
Refetch(v) ==
  \/ /\ modal.created # None /\ v \in Readable(modal.created)
     /\ cache' = [cache EXCEPT ![modal.created] = v]
     /\ UNCHANGED flowFaults
  \/ /\ modal.created # None /\ v = cache[modal.created]
     /\ Fault /\ UNCHANGED cache
  \/ /\ modal.created = None /\ v = 0
     /\ UNCHANGED <<cache, flowFaults>>

FetchOutline ==
  /\ step = "outline.fetching"
  /\ \E v \in 0..MaxVersions :
       /\ Refetch(v)
       /\ IF v = 0 THEN Goto("configure", ctx)
          ELSE Goto("review.viewing",
                    [ctx EXCEPT !.outline = [course |-> modal.created, version |-> v]])
  /\ UNCHANGED <<modal, server>>

-----------------------------------------------------------------------------
(* Outline review.                                                         *)

ReviewShown == InFront /\ step = "review.viewing" /\ ctx.outline # NoOutline

Choose(s) == /\ ReviewShown /\ Goto(s, ctx)
             /\ UNCHANGED <<modal, cache, server, flowFaults>>

ApproveOutline    == Choose("review.approving")
RejectOutline     == Choose("review.rejecting")
UpdateOutline     == Choose("review.updating")
RegenerateOutline == Choose("outline.submitting")

(* The outline is approved by its id, the lessons are asked for by course. *)
Approved ==
  /\ step = "review.approving"
  /\ outlines' = [outlines EXCEPT
       ![ctx.outline.course].approved = @ \cup {ctx.outline.version}]
  /\ Goto("queued.submitting", ctx)
  /\ UNCHANGED <<modal, cache, jobs, flowFaults>>

Rejected ==
  /\ step = "review.rejecting"
  /\ outlines' = [outlines EXCEPT
       ![ctx.outline.course].approved = @ \ {ctx.outline.version}]
  /\ Goto("outline.submitting", [ctx EXCEPT !.outline = NoOutline])
  /\ UNCHANGED <<modal, cache, jobs, flowFaults>>

(* updateOutlineActor is a stub: it answers with the outline of the query. *)
Updated ==
  /\ step = "review.updating"
  /\ LET v == IF modal.created = None THEN 0 ELSE cache[modal.created]
     IN  Goto("review.viewing",
              [ctx EXCEPT !.outline = IF v = 0 THEN NoOutline
                             ELSE [course |-> modal.created, version |-> v]])
  /\ UNCHANGED <<modal, cache, server, flowFaults>>

(* A failed request leaves the outline as it was, or its answer is lost.   *)
ReviewRequestFails ==
  /\ step \in {"review.approving", "review.rejecting"}
  /\ Fault
  /\ \/ UNCHANGED outlines
     \/ outlines' = [outlines EXCEPT ![ctx.outline.course].approved =
                       IF step = "review.approving" THEN @ \cup {ctx.outline.version}
                       ELSE @ \ {ctx.outline.version}]
  /\ Goto("review.viewing", ctx)
  /\ UNCHANGED <<modal, cache, jobs>>

-----------------------------------------------------------------------------
(* Lesson generation.                                                      *)

(* Mutant: any outline will do.                                            *)
MayWriteUnapproved(c) == outlines[c].latest # 0

(* The server wants the latest outline of the course to be approved.       *)
MayWrite(c) == /\ outlines[c].latest # 0
               /\ outlines[c].latest \in outlines[c].approved

(* Mutant: the job of the lessons is not made the current one.             *)
SubmitLessonsKeepsJob ==
  /\ step = "queued.submitting" /\ MayWrite(ctx.input.course)
  /\ UNCHANGED flowFaults
  /\ NewJob("course", ctx.input.course, outlines[ctx.input.course].latest)
  /\ Goto("queued.confirmation", [ctx EXCEPT !.lessonJob = Len(jobs')])
  /\ UNCHANGED <<modal, cache, outlines>>

SubmitLessons ==
  /\ step = "queued.submitting" /\ MayWrite(ctx.input.course)
  /\ UNCHANGED flowFaults
  /\ NewJob("course", ctx.input.course, outlines[ctx.input.course].latest)
  /\ modal' = [modal EXCEPT !.current = Len(jobs'), !.read = FALSE]
  /\ Goto("queued.confirmation", [ctx EXCEPT !.lessonJob = Len(jobs')])
  /\ UNCHANGED <<cache, outlines>>

SubmitLessonsFails ==
  /\ step = "queued.submitting"
  /\ \/ /\ Fault
        /\ \/ UNCHANGED jobs
           \/ /\ MayWrite(ctx.input.course)
              /\ NewJob("course", ctx.input.course, outlines[ctx.input.course].latest)
     \/ /\ ~MayWrite(ctx.input.course) \/ Len(jobs) + flowFaults >= MaxEvents
        /\ UNCHANGED <<jobs, flowFaults>>
  /\ Goto("review.viewing", ctx)
  /\ UNCHANGED <<modal, cache, outlines>>

WaitForCompletion ==
  /\ InFront /\ step = "queued.confirmation"
  /\ Goto("lessons.polling", ctx)
  /\ UNCHANGED <<modal, cache, server, flowFaults>>

(* Mutant: every job that has stopped counts as completed.                 *)
PollLessonsTrusting ==
  /\ step = "lessons.polling" /\ Polled # NoJob
  /\ Goto(IF jobs[Polled].status = "open" THEN "lessons.waiting"
          ELSE "lessons.fetching", [ctx EXCEPT !.lessonJob = Polled])
  /\ modal' = [modal EXCEPT !.read = TRUE]
  /\ UNCHANGED <<cache, server, flowFaults>>

PollLessons ==
  /\ step = "lessons.polling" /\ Polled # NoJob
  /\ CASE jobs[Polled].status = "completed" ->
            Goto("lessons.fetching", [ctx EXCEPT !.lessonJob = Polled])
       [] jobs[Polled].status = "failed" ->
            Goto("review.viewing", [ctx EXCEPT !.lessonJob = Polled])
       [] OTHER ->
            Goto("lessons.waiting", [ctx EXCEPT !.lessonJob = Polled])
  /\ modal' = [modal EXCEPT !.read = TRUE]
  /\ UNCHANGED <<cache, server, flowFaults>>

PollLessonsFails ==
  step = "lessons.polling" /\ PollFails("lessons.waiting", "review.viewing")

LessonsTimer ==
  /\ step = "lessons.waiting"
  /\ Goto("lessons.polling", ctx)
  /\ UNCHANGED <<modal, cache, server, flowFaults>>

(* listLessonsActor takes a failed request for a course without lessons.   *)
(* Their texts are not modelled.                                           *)
FetchLessons ==
  /\ step = "lessons.fetching"
  /\ Goto("complete", ctx)
  /\ UNCHANGED <<modal, cache, server, flowFaults>>

-----------------------------------------------------------------------------
(* Completion: the lessons of createdCourseId are fitted into the outline  *)
(* of the machine and stored in createdCourseId; the effect runs whenever  *)
(* one of the three changes.  Then, saved or not, the page is left.        *)
TransformAndSave ==
  /\ step = "complete" /\ modal.created # None /\ ctx.outline # NoOutline
  /\ saved' = [saved EXCEPT ![modal.created] = ctx.outline.course]
  /\ UNCHANGED <<machine, modal, awaiting, cache, server, library, flowFaults>>

(* Leaving the page unmounts the modal; a course under creation is made.   *)
LeavePage ==
  /\ step' = "configure" /\ ctx' = InitialContext
  /\ modal' = ClosedModal /\ awaiting' = "nothing"
  /\ UNCHANGED <<cache, server, saved, library, flowFaults>>

-----------------------------------------------------------------------------
(* The modal and the page that owns it.                                    *)

OpenNew ==
  /\ ~modal.open
  /\ modal' = [modal EXCEPT !.open = TRUE, !.editing = None, !.created = None,
                            !.initialized = FALSE]
  /\ UNCHANGED <<machine, awaiting, cache, server, saved, library, flowFaults>>

OpenForEdit ==
  /\ ~modal.open
  /\ \E c \in Existing :
       modal' = [modal EXCEPT !.open = TRUE, !.editing = c, !.created = c]
  /\ UNCHANGED <<machine, awaiting, cache, server, saved, library, flowFaults>>

(* The query of a course's outline reads when the hook is given its id.    *)
QueryReads ==
  /\ modal.created # None
  /\ \E v \in Readable(modal.created) : cache' = [cache EXCEPT ![modal.created] = v]
  /\ UNCHANGED <<machine, modal, awaiting, server, saved, library, flowFaults>>

(* An edited course goes to review as it is: SET_INPUT, OUTLINE_GENERATED. *)
SkipToReview ==
  /\ modal.open /\ modal.editing # None /\ ~modal.initialized
  /\ step = "configure"
  /\ modal.created # None /\ cache[modal.created] # 0
  /\ modal' = [modal EXCEPT !.initialized = TRUE]
  /\ Goto("review.viewing",
          [ctx EXCEPT !.input = [course |-> modal.editing, described |-> FALSE],
                      !.outline = [course |-> modal.created,
                                   version |-> cache[modal.created]]])
  /\ UNCHANGED <<cache, server, flowFaults>>

Shut(m) == [m EXCEPT !.open = FALSE, !.editing = None, !.initialized = FALSE]

Generating == step \in Outlining \cup Writing \cup Queueing

(* RESET is taken by the machine in complete only.                         *)
Reset(m) ==
  /\ modal' = Shut([m EXCEPT !.created = None, !.current = NoJob, !.read = FALSE])
  /\ IF step = "complete" THEN step' = "configure" /\ ctx' = InitialContext
                          ELSE UNCHANGED machine

CloseRequest ==
  /\ InFront
  /\ IF Generating
       THEN modal' = [modal EXCEPT !.closing = TRUE] /\ UNCHANGED machine
       ELSE Reset(modal)
  /\ UNCHANGED <<awaiting, cache, server, saved, library, flowFaults>>

KeepGenerating ==
  /\ modal.open /\ modal.closing
  /\ modal' = [modal EXCEPT !.closing = FALSE]
  /\ UNCHANGED <<machine, awaiting, cache, server, saved, library, flowFaults>>

(* CancelJob refuses a job that is settled, or that there is not.          *)
CancelOnServer(j) ==
  IF j \in DOMAIN jobs /\ jobs[j].status = "open"
    THEN jobs' = [jobs EXCEPT ![j].status = "cancelled"]
    ELSE UNCHANGED jobs

ConfirmClose ==
  /\ modal.open /\ modal.closing
  /\ \/ CancelOnServer(modal.current) /\ UNCHANGED flowFaults
     \/ modal.current # NoJob /\ Fault /\ UNCHANGED jobs
  /\ Reset([modal EXCEPT !.closing = FALSE])
  /\ UNCHANGED <<awaiting, cache, outlines, saved, library>>

(* The machine takes CANCEL between two polls only.                        *)
TakesCancel ==
  step' = CASE step = "outline.waiting" -> "configure"
            [] step = "lessons.waiting" -> "review.viewing"
            [] OTHER                    -> step

(* handleCancel: the job of the click first, and CANCEL when that request  *)
(* has been answered; without a job CANCEL at once.                        *)
Cancel ==
  /\ InFront /\ step \in Outlining \cup Writing /\ awaiting = "nothing"
  /\ IF modal.current = NoJob
       THEN TakesCancel /\ UNCHANGED <<modal, awaiting>>
       ELSE /\ awaiting' = "cancelJob"
            /\ modal' = [modal EXCEPT !.cancelling = modal.current]
            /\ UNCHANGED step
  /\ UNCHANGED <<ctx, cache, server, saved, library, flowFaults>>

CancelAnswered ==
  /\ awaiting = "cancelJob"
  /\ \/ CancelOnServer(modal.cancelling) /\ UNCHANGED flowFaults
     \/ Fault /\ UNCHANGED jobs
  /\ awaiting' = "nothing" /\ modal' = [modal EXCEPT !.cancelling = NoJob]
  /\ TakesCancel
  /\ UNCHANGED <<ctx, cache, outlines, saved, library>>

(* "Continue in background": the modal closes whether or not the machine   *)
(* takes NAVIGATE_AWAY.                                                    *)
NavigateAway ==
  /\ InFront /\ Generating
  /\ step' = IF step \in {"queued.confirmation", "lessons.waiting"}
               THEN "background" ELSE step
  /\ modal' = Shut(modal)
  /\ UNCHANGED <<ctx, awaiting, cache, server, saved, library, flowFaults>>

-----------------------------------------------------------------------------
(* The generation service.                                                 *)

(* What a job's status may become next, as GenerationJobs has it: a worker *)
(* writes over a cancellation, and a course that is completed, failed or   *)
(* cancelled over again, when a row read before is written back (neither   *)
(* CancelSticks nor CourseOutcomeStable holds).  Only of an outline is the *)
(* outcome left alone, except by a cancellation, which may come from the   *)
(* page's header too (OutcomeStable).  To move a settled job is a fault.   *)
NextStatuses(job) ==
  IF job.kind = "outline" /\ job.status \in {"completed", "failed"}
    THEN {"cancelled"}
    ELSE JobStatus \ {job.status}

JobMoves(j) ==
  /\ j \in DOMAIN jobs
  /\ \E s \in NextStatuses(jobs[j]) :
       /\ jobs' = [jobs EXCEPT ![j].status = s]
       /\ IF jobs[j].kind = "outline" /\ s = "completed"
            THEN /\ outlines[jobs[j].course].latest < MaxVersions
                 /\ outlines' = [outlines EXCEPT ![jobs[j].course].latest = @ + 1]
            ELSE UNCHANGED outlines
  /\ IF jobs[j].status = "open" THEN UNCHANGED flowFaults ELSE Fault
  /\ UNCHANGED <<machine, modal, awaiting, cache, saved, library>>

-----------------------------------------------------------------------------
MachineNext ==
  \/ SubmitOutline \/ SubmitOutlineFails \/ PollOutline \/ PollOutlineFails
  \/ OutlineTimer \/ FetchOutline
  \/ Approved \/ Rejected \/ Updated \/ ReviewRequestFails
  \/ SubmitLessons \/ SubmitLessonsFails \/ PollLessons \/ PollLessonsFails
  \/ LessonsTimer \/ FetchLessons
HandlerNext == CourseCreated \/ CreateCourseFails \/ CancelAnswered
ModalNext ==
  \/ StartGeneration \/ OpenNew \/ OpenForEdit \/ QueryReads \/ SkipToReview
  \/ ApproveOutline \/ RejectOutline \/ UpdateOutline \/ RegenerateOutline
  \/ WaitForCompletion \/ Cancel \/ NavigateAway
  \/ CloseRequest \/ KeepGenerating \/ ConfirmClose
  \/ TransformAndSave \/ LeavePage

FlowNext == MachineNext \/ HandlerNext \/ ModalNext
              \/ \E j \in JobIds : JobMoves(j)

(* Timers fire and requests are answered.  Users need not do anything, and *)
(* of the service nothing is asked: a course may never settle              *)
(* (CourseSettles of GenerationJobs does not hold).                        *)
FlowFairness == WF_flowVars(MachineNext) /\ WF_flowVars(HandlerNext)

FlowSpec == FlowInit /\ [][FlowNext]_flowVars /\ FlowFairness
-----------------------------------------------------------------------------
FlowTypeOK ==
  /\ step \in Steps
  /\ ctx \in [input : [course : Courses \cup {None}, described : BOOLEAN],
              outlineJob : 0..MaxEvents, outline : Outline, lessonJob : 0..MaxEvents]
  /\ modal \in [open : BOOLEAN, editing : Existing \cup {None},
                created : Courses \cup {None}, current : 0..MaxEvents,
                read : BOOLEAN, closing : BOOLEAN, initialized : BOOLEAN,
                cancelling : 0..MaxEvents]
  /\ awaiting \in {"nothing", "createCourse", "cancelJob"}
  /\ cache \in [Courses -> 0..MaxVersions]
  /\ jobs \in Seq(Job) /\ Len(jobs) <= MaxEvents
  /\ outlines \in [Courses -> [latest : 0..MaxVersions,
                               approved : SUBSET (1..MaxVersions)]]
  /\ saved \in [Courses -> Courses \cup {None}]
  /\ library \subseteq Courses
  /\ flowFaults \in 0..MaxEvents

(* The refetch of a poll returns the job that the machine waits for, as    *)
(* long as the modal still knows a job.                                    *)
PollsOwnJob ==
  modal.current # NoJob =>
    /\ step \in {"outline.polling", "outline.waiting"}
         => modal.current = ctx.outlineJob
    /\ step \in {"lessons.polling", "lessons.waiting"}
         => modal.current = ctx.lessonJob

(* Lessons are shown as queued, under way or done only for a job of the    *)
(* course that the flow was started for, made from an approved outline.    *)
LessonsOfApproved ==
  step \in Writing \cup {"queued.confirmation", "background", "complete"} =>
    LET job == jobs[ctx.lessonJob]
    IN  /\ job.kind = "course" /\ job.course = ctx.input.course
        /\ job.version \in outlines[job.course].approved

(* The content stored for a course is made from its own outline.           *)
SavesItsOwnCourse == \A c \in Courses : saved[c] \in {c, None}

(* The server has completed or failed the job that the machine polls, and  *)
(* not opened it again since, and the machine goes on waiting for it.      *)
Waits(j) ==
  /\ step \in {"outline.polling", "outline.waiting", "lessons.polling", "lessons.waiting"}
  /\ modal.current = j
OutcomeUnseen == \E j \in JobIds : Waits(j) /\ jobs[j].status \in {"completed", "failed"}

(* The machine, the modal and the service together keep the promise of     *)
(* GenerationPromise: lessons are written for an approved outline only,    *)
(* and "Course Generated!" is shown only after the service had completed   *)
(* the job, whatever has become of it since.                               *)
Stage == CASE step = "configure"        -> "planning"
           [] step \in Outlining        -> "outlining"
           [] step \in Reviewing        -> "reviewing"
           [] step = "lessons.fetching" -> "concluding"
           [] step = "background"       -> "detached"
           [] step = "complete"         -> "finished"
           [] OTHER                     -> "writing"
Work  == IF step \in Writing \cup {"queued.confirmation", "background", "complete"}
           THEN jobs[ctx.lessonJob].status ELSE "none"

Promise      == INSTANCE GenerationPromise WITH stage <- Stage, work <- Work
KeepsPromise == Promise!PromiseSpec
=============================================================================
