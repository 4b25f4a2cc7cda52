------------------------ MODULE GenerationFlowProofs ------------------------
(***************************************************************************)
(* The generation flow keeps the promise of GenerationPromise, for any     *)
(* number of courses, jobs, outlines and failed requests.                  *)
(*                                                                         *)
(* What has to be known of the flow is which job it looks at.  The machine *)
(* keeps its job in its context, the polls read that of the modal, and     *)
(* closing the modal forgets it: PollsJob says that the two are one        *)
(* whenever the modal still has a job.  Then a poll that finds a completed *)
(* job has found the machine's own, and the job is one for the flow's      *)
(* course, of an approved outline (JobOfLessons).  Nothing is assumed of   *)
(* what the service makes of a job's status, before and after.             *)
(***************************************************************************)
EXTENDS GenerationFlow, SequenceTheorems, TLAPS

HasJob  == Writing \cup {"queued.confirmation", "background", "complete"}
AtWork == {"queued.confirmation", "lessons.polling", "lessons.waiting"}

CurrentIsJob == modal.current \in 0..Len(jobs)

InputKnown == step # "configure" => ctx.input.course \in Courses

OutlineKnown ==
  /\ ctx.outline = NoOutline \/ (/\ ctx.outline.course \in Courses
                                 /\ ctx.outline.version \in 1..MaxVersions)
  /\ step \in {"review.approving", "review.rejecting"} => ctx.outline # NoOutline

(* PollsOwnJob, and already so while the user is told that lessons are     *)
(* queued.                                                                 *)
PollsJob ==
  modal.current # NoJob =>
    /\ step \in {"outline.polling", "outline.waiting"}
         => modal.current = ctx.outlineJob
    /\ step \in {"queued.confirmation", "lessons.polling", "lessons.waiting"}
         => modal.current = ctx.lessonJob

JobOfLessons ==
  step \in HasJob =>
    /\ ctx.lessonJob \in 1..Len(jobs)
    /\ jobs[ctx.lessonJob].kind = "course"
    /\ jobs[ctx.lessonJob].course = ctx.input.course
    /\ jobs[ctx.lessonJob].version \in outlines[ctx.input.course].approved

FlowInv ==
  /\ FlowTypeOK /\ CurrentIsJob /\ InputKnown /\ OutlineKnown
  /\ PollsJob /\ JobOfLessons

-----------------------------------------------------------------------------
(* The jobs: none disappears, and what one is for stays.                   *)

JobsStep ==
  /\ jobs' \in Seq(Job) /\ Len(jobs) <= Len(jobs') /\ Len(jobs') <= MaxEvents
  /\ \A i \in 1..Len(jobs) :
       /\ jobs'[i].kind = jobs[i].kind /\ jobs'[i].course = jobs[i].course
       /\ jobs'[i].version = jobs[i].version

LEMMA SameJobs ==
  ASSUME FlowTypeOK, UNCHANGED jobs
  PROVE  JobsStep
BY DEF FlowTypeOK, JobsStep

LEMMA OneJobMore ==
  ASSUME FlowTypeOK, NEW kind \in {"outline", "course"}, NEW c \in Courses,
         NEW v \in 0..MaxVersions, flowFaults' \in Nat, NewJob(kind, c, v)
  PROVE  /\ JobsStep /\ Len(jobs') = Len(jobs) + 1
         /\ jobs'[Len(jobs')] = [kind |-> kind, course |-> c, version |-> v,
                                 status |-> "open"]
<1> DEFINE job == [kind |-> kind, course |-> c, version |-> v, status |-> "open"]
<1>1. job \in Job
  BY DEF Job, JobStatus
<1>2. jobs \in Seq(Job) /\ Len(jobs) \in Nat /\ jobs' = Append(jobs, job)
  BY DEF FlowTypeOK, NewJob
<1>3. Len(jobs) + flowFaults' <= MaxEvents - 1
  BY DEF NewJob
<1> HIDE DEF job
<1>4. /\ jobs' \in Seq(Job) /\ Len(jobs') = Len(jobs) + 1
      /\ \A i \in 1..Len(jobs) : jobs'[i] = jobs[i]
      /\ jobs'[Len(jobs) + 1] = job
  BY <1>1, <1>2, AppendProperties
<1>5. Len(jobs') <= MaxEvents
  BY <1>2, <1>3, <1>4, LimitsAssumption
<1>6. JobsStep
  BY <1>2, <1>4, <1>5 DEF JobsStep
<1> QED BY <1>4, <1>6 DEF job

LEMMA JobMoved ==
  ASSUME FlowTypeOK, NEW j \in 1..Len(jobs), NEW s \in JobStatus,
         jobs' = [jobs EXCEPT ![j].status = s]
  PROVE  JobsStep
<1>1. jobs \in Seq(Job) /\ jobs[j] \in Job /\ Len(jobs) <= MaxEvents
  BY DEF FlowTypeOK
<1>2. [jobs[j] EXCEPT !.status = s] \in Job
  BY <1>1 DEF Job
<1>3. jobs' = [jobs EXCEPT ![j] = [jobs[j] EXCEPT !.status = s]]
  OBVIOUS
<1>4. jobs' \in Seq(Job) /\ Len(jobs') = Len(jobs)
  BY <1>1, <1>2, <1>3, ExceptSeq
<1>5. /\ jobs'[j] = [jobs[j] EXCEPT !.status = s]
      /\ \A i \in 1..Len(jobs) : i # j => jobs'[i] = jobs[i]
  BY <1>1, <1>3
<1>6. /\ jobs'[j].kind = jobs[j].kind /\ jobs'[j].course = jobs[j].course
      /\ jobs'[j].version = jobs[j].version /\ jobs'[j].status = s
  BY <1>1, <1>5 DEF Job
<1> QED BY <1>1, <1>4, <1>5, <1>6 DEF JobsStep

LEMMA JobCancelled ==
  ASSUME FlowTypeOK, NEW j, CancelOnServer(j)
  PROVE  JobsStep
<1>1. CASE UNCHANGED jobs
  BY <1>1, SameJobs
<1>2. CASE j \in DOMAIN jobs /\ jobs' = [jobs EXCEPT ![j].status = "cancelled"]
  <2>1. j \in 1..Len(jobs) /\ "cancelled" \in JobStatus
    BY <1>2 DEF FlowTypeOK, JobStatus
  <2> QED BY <1>2, <2>1, JobMoved
<1> QED BY <1>1, <1>2 DEF CancelOnServer

-----------------------------------------------------------------------------
(* What the promise sees of the flow.                                      *)

LEMMA StepKinds ==
  /\ \A s \in Steps : s \in {"configure"} \cup Outlining \cup Reviewing \cup HasJob
                           \cup {"queued.submitting"}
  /\ \A s \in Outlining \cup Reviewing \cup {"configure", "queued.submitting"} :
       s \notin HasJob
BY DEF Steps, Outlining, Reviewing, Queueing, Writing, HasJob

LEMMA StageIs ==
  /\ step = "configure" => Stage = "planning"
  /\ step \in Outlining => Stage = "outlining"
  /\ step \in Reviewing => Stage = "reviewing"
  /\ step \in {"queued.submitting"} \cup AtWork => Stage = "writing"
  /\ step = "lessons.fetching" => Stage = "concluding"
  /\ step = "background" => Stage = "detached"
  /\ step = "complete" => Stage = "finished"
BY DEF Stage, Outlining, Reviewing, AtWork

LEMMA StageIsNext ==
  /\ step' = "configure" => Stage' = "planning"
  /\ step' \in Outlining => Stage' = "outlining"
  /\ step' \in Reviewing => Stage' = "reviewing"
  /\ step' \in {"queued.submitting"} \cup AtWork => Stage' = "writing"
  /\ step' = "lessons.fetching" => Stage' = "concluding"
  /\ step' = "background" => Stage' = "detached"
  /\ step' = "complete" => Stage' = "finished"
BY DEF Stage, Outlining, Reviewing, AtWork

LEMMA WorkIs ==
  /\ step \in HasJob => Work = jobs[ctx.lessonJob].status
  /\ step \notin HasJob => Work = "none"
BY DEF Work, HasJob

LEMMA WorkIsNext ==
  /\ step' \in HasJob => Work' = jobs'[ctx'.lessonJob].status
  /\ step' \notin HasJob => Work' = "none"
BY DEF Work, HasJob

-----------------------------------------------------------------------------
(* A step of the flow is one of the promise, or none that it can see.      *)
PromiseStep == [Promise!PromiseNext]_<<Stage, Work>>

LEMMA ToConfigure ==
  ASSUME step' = "configure"
  PROVE  PromiseStep
<1>1. Stage' = "planning" /\ Work' = "none"
  BY StageIsNext, WorkIsNext, StepKinds
<1> QED BY <1>1 DEF PromiseStep, Promise!PromiseNext, Promise!GiveUp

LEMMA ToOutlining ==
  ASSUME step' \in Outlining, step \in {"configure"} \cup Outlining \cup Reviewing
  PROVE  PromiseStep
<1>1. Stage' = "outlining" /\ Work' = "none"
  BY StageIsNext, WorkIsNext, StepKinds
<1>2. Stage \in {"planning", "outlining", "reviewing"} /\ Work = "none"
  BY StageIs, WorkIs, StepKinds
<1> QED BY <1>1, <1>2 DEF PromiseStep, Promise!PromiseNext, Promise!Plan

LEMMA ToReviewing ==
  ASSUME step' \in Reviewing, step \in Steps \ {"lessons.fetching", "background", "complete"}
  PROVE  PromiseStep
<1>1. Stage' = "reviewing" /\ Work' = "none"
  BY StageIsNext, WorkIsNext, StepKinds
<1>2. CASE step \in Reviewing
  BY <1>1, <1>2, StageIs, WorkIs, StepKinds DEF PromiseStep
<1>3. CASE step \in {"configure"} \cup Outlining
  BY <1>1, <1>3, StageIs DEF PromiseStep, Promise!PromiseNext, Promise!Present
<1>4. CASE step \in {"queued.submitting"} \cup AtWork
  BY <1>1, <1>4, StageIs DEF PromiseStep, Promise!PromiseNext, Promise!GiveUp
<1> QED BY <1>2, <1>3, <1>4, StepKinds DEF HasJob, AtWork, Writing

(* While the flow has its job, the job has some status.                    *)
LEMMA WorkGoesOn ==
  ASSUME FlowInv, JobsStep, step \in HasJob, ctx'.lessonJob = ctx.lessonJob
  PROVE  LET now == jobs[ctx.lessonJob].status
             next == jobs'[ctx'.lessonJob].status
         IN  Work = now /\ now \in JobStatus /\ next \in JobStatus
<1>1. ctx.lessonJob \in 1..Len(jobs) /\ jobs \in Seq(Job)
  BY DEF FlowInv, JobOfLessons, FlowTypeOK
<1>2. jobs[ctx.lessonJob] \in Job
  BY <1>1
<1>3. Len(jobs) \in Nat /\ Len(jobs') \in Nat
  BY <1>1 DEF JobsStep
<1>4. ctx.lessonJob \in 1..Len(jobs')
  BY <1>1, <1>3 DEF JobsStep
<1>5. jobs'[ctx.lessonJob] \in Job
  BY <1>4 DEF JobsStep
<1>6. jobs[ctx.lessonJob].status \in JobStatus /\ jobs'[ctx.lessonJob].status \in JobStatus
  BY <1>2, <1>5 DEF Job
<1> QED BY <1>6, WorkIs

LEMMA ShowsTheSame ==
  ASSUME FlowInv, JobsStep, step \in Steps,
         step' = step \/ (step \in AtWork /\ step' \in AtWork),
         step \in HasJob => ctx'.lessonJob = ctx.lessonJob
  PROVE  PromiseStep
<1>1. Stage' = Stage
  BY StageIs, StageIsNext, StepKinds DEF HasJob, AtWork, Writing
<1>2. CASE step \in HasJob
  <2>1. Work \in JobStatus /\ Work' \in JobStatus
    BY <1>2, WorkGoesOn, WorkIsNext DEF HasJob, AtWork, Writing
  <2> QED BY <1>1, <2>1 DEF PromiseStep, Promise!PromiseNext, Promise!Move, Promise!Works, JobStatus
<1>3. CASE step \notin HasJob
  <2>1. Work' = Work
    BY <1>3, WorkIs, WorkIsNext DEF HasJob, AtWork, Writing
  <2> QED BY <1>1, <2>1 DEF PromiseStep
<1> QED BY <1>2, <1>3

-----------------------------------------------------------------------------
(* What a step keeps, by where it leads.                                   *)
Kept == FlowInv' /\ PromiseStep

ApprovedStay ==
  \A c \in Courses : outlines[c].approved \subseteq outlines'[c].approved

CurrentStays == modal'.current = modal.current \/ modal'.current = NoJob

LEMMA CurrentKept ==
  ASSUME FlowInv, JobsStep, CurrentStays
  PROVE  CurrentIsJob'
<1>1. Len(jobs) \in Nat /\ Len(jobs') \in Nat
  BY DEF FlowInv, FlowTypeOK, JobsStep
<1> QED BY <1>1 DEF FlowInv, CurrentIsJob, CurrentStays, JobsStep, NoJob

LEMMA WithoutLessons ==
  ASSUME step' \notin HasJob
  PROVE  JobOfLessons'
BY DEF JobOfLessons

LEMMA LessonsBegun ==
  ASSUME FlowInv, JobsStep, ApprovedStay, step \in HasJob,
         ctx'.lessonJob = ctx.lessonJob, ctx'.input = ctx.input
  PROVE  JobOfLessons'
<1>1. /\ ctx.lessonJob \in 1..Len(jobs)
      /\ jobs[ctx.lessonJob].kind = "course"
      /\ jobs[ctx.lessonJob].course = ctx.input.course
      /\ jobs[ctx.lessonJob].version \in outlines[ctx.input.course].approved
  BY DEF FlowInv, JobOfLessons
<1>2. Len(jobs) \in Nat /\ Len(jobs') \in Nat /\ Len(jobs) <= Len(jobs')
  BY DEF FlowInv, FlowTypeOK, JobsStep
<1>3. ctx.lessonJob \in 1..Len(jobs')
  BY <1>1, <1>2
<1>4. /\ jobs'[ctx.lessonJob].kind = jobs[ctx.lessonJob].kind
      /\ jobs'[ctx.lessonJob].course = jobs[ctx.lessonJob].course
      /\ jobs'[ctx.lessonJob].version = jobs[ctx.lessonJob].version
  BY <1>1 DEF JobsStep
<1>5. ctx.input.course \in Courses
  BY DEF FlowInv, InputKnown, HasJob, Writing
<1>6. jobs[ctx.lessonJob].version \in outlines'[ctx.input.course].approved
  BY <1>1, <1>5 DEF ApprovedStay
<1> QED BY <1>1, <1>3, <1>4, <1>6 DEF JobOfLessons

LEMMA MachineRests ==
  ASSUME FlowInv, JobsStep, FlowTypeOK', UNCHANGED machine, CurrentStays, ApprovedStay
  PROVE  Kept
<1>1. step' = step /\ ctx' = ctx /\ step \in Steps
  BY DEF machine, FlowInv, FlowTypeOK
<1>2. CurrentIsJob' /\ InputKnown' /\ OutlineKnown' /\ PollsJob'
  BY <1>1, CurrentKept DEF FlowInv, InputKnown, OutlineKnown, PollsJob, CurrentStays
<1>3. JobOfLessons'
  <2>1. CASE step \in HasJob
    BY <1>1, <2>1, LessonsBegun
  <2>2. CASE step \notin HasJob
    BY <1>1, <2>2, WithoutLessons
  <2> QED BY <2>1, <2>2
<1>4. PromiseStep
  BY <1>1, ShowsTheSame
<1> QED BY <1>2, <1>3, <1>4 DEF Kept, FlowInv

LEMMA Configures ==
  ASSUME FlowInv, JobsStep, FlowTypeOK', step' = "configure", CurrentStays,
         ctx'.outline \in {ctx.outline, NoOutline}
  PROVE  Kept
<1>1. CurrentIsJob' /\ InputKnown' /\ OutlineKnown' /\ PollsJob'
  BY CurrentKept DEF FlowInv, InputKnown, OutlineKnown, PollsJob
<1>2. JobOfLessons'
  BY WithoutLessons, StepKinds
<1> QED BY <1>1, <1>2, ToConfigure DEF Kept, FlowInv

LEMMA Outlines ==
  ASSUME FlowInv, FlowTypeOK', CurrentIsJob', step' \in Outlining,
         step \in {"configure"} \cup Outlining \cup Reviewing,
         ctx'.input.course \in Courses, ctx'.outline \in {ctx.outline, NoOutline},
         step' \in {"outline.polling", "outline.waiting"} /\ modal'.current # NoJob
           => modal'.current = ctx'.outlineJob
  PROVE  Kept
<1>1. InputKnown' /\ OutlineKnown' /\ PollsJob'
  BY DEF FlowInv, InputKnown, OutlineKnown, PollsJob, Outlining
<1>2. JobOfLessons'
  BY WithoutLessons, StepKinds
<1> QED BY <1>1, <1>2, ToOutlining DEF Kept, FlowInv

LEMMA Reviews ==
  ASSUME FlowInv, FlowTypeOK', CurrentIsJob', OutlineKnown', step' \in Reviewing,
         step \in Steps \ {"lessons.fetching", "background", "complete"},
         ctx'.input.course \in Courses
  PROVE  Kept
<1>1. InputKnown' /\ PollsJob'
  BY DEF InputKnown, PollsJob, Reviewing
<1>2. JobOfLessons'
  BY WithoutLessons, StepKinds
<1> QED BY <1>1, <1>2, ToReviewing DEF Kept, FlowInv

(* Up to the fetching of the lessons, which a completed job begins.        *)
LEMMA Writes ==
  ASSUME FlowInv, JobsStep, FlowTypeOK', CurrentStays, UNCHANGED <<outlines, ctx>>,
         step \in AtWork,
         \/ step' \in AtWork \ {"queued.confirmation"}
         \/ /\ step' = "lessons.fetching" /\ UNCHANGED jobs
            /\ jobs[ctx.lessonJob].status = "completed"
  PROVE  Kept
<1>1. CurrentIsJob' /\ InputKnown' /\ OutlineKnown' /\ PollsJob'
  BY CurrentKept DEF FlowInv, InputKnown, OutlineKnown, PollsJob, CurrentStays, AtWork
<1>2. step \in HasJob /\ step' \in HasJob /\ ApprovedStay
  BY DEF HasJob, Writing, AtWork, ApprovedStay
<1>3. JobOfLessons'
  BY <1>2, LessonsBegun
<1>4. PromiseStep
  <2>1. step \in Steps /\ ctx'.lessonJob = ctx.lessonJob
    BY DEF FlowInv, FlowTypeOK
  <2>2. CASE step' \in AtWork
    BY <2>1, <2>2, ShowsTheSame
  <2>3. CASE /\ step' = "lessons.fetching" /\ UNCHANGED jobs
             /\ jobs[ctx.lessonJob].status = "completed"
    <3>1. /\ Stage = "writing" /\ Stage' = "concluding"
          /\ Work = "completed" /\ Work' = "completed"
      BY <1>2, <2>3, StageIs, StageIsNext, WorkIs, WorkIsNext
    <3> QED BY <3>1 DEF PromiseStep, Promise!PromiseNext, Promise!Conclude
  <2> QED BY <2>2, <2>3
<1> QED BY <1>1, <1>3, <1>4 DEF Kept, FlowInv

-----------------------------------------------------------------------------
(* The types of what a step changes.                                       *)
ContextType ==
  [input : [course : Courses \cup {None}, described : BOOLEAN],
   outlineJob : 0..MaxEvents, outline : Outline, lessonJob : 0..MaxEvents]
ModalType ==
  [open : BOOLEAN, editing : Existing \cup {None}, created : Courses \cup {None},
   current : 0..MaxEvents, read : BOOLEAN, closing : BOOLEAN, initialized : BOOLEAN,
   cancelling : 0..MaxEvents]

(* What nearly every step leaves alone.                                    *)
RestTyped ==
  /\ awaiting' \in {"nothing", "createCourse", "cancelJob"}
  /\ cache' \in [Courses -> 0..MaxVersions]
  /\ outlines' \in [Courses -> [latest : 0..MaxVersions,
                                approved : SUBSET (1..MaxVersions)]]
  /\ saved' \in [Courses -> Courses \cup {None}]
  /\ library' \subseteq Courses
  /\ flowFaults' \in 0..MaxEvents

LEMMA TypesFit ==
  ASSUME JobsStep, step' \in Steps, ctx' \in ContextType, modal' \in ModalType, RestTyped
  PROVE  FlowTypeOK'
BY DEF JobsStep, ContextType, ModalType, RestTyped, FlowTypeOK

LEMMA TypesNow ==
  ASSUME FlowTypeOK
  PROVE  /\ ctx \in ContextType /\ modal \in ModalType /\ step \in Steps
         /\ NoOutline \in Outline
<1>1. ctx \in ContextType /\ modal \in ModalType /\ step \in Steps
  BY DEF FlowTypeOK, ContextType, ModalType
<1>2. NoOutline \in Outline
  BY LimitsAssumption DEF NoOutline, Outline
<1> QED BY <1>1, <1>2

LEMMA FaultTyped ==
  ASSUME FlowTypeOK, Fault
  PROVE  flowFaults' \in 0..MaxEvents /\ flowFaults' \in Nat
BY LimitsAssumption DEF FlowTypeOK, Fault

LEMMA RestKept ==
  ASSUME FlowTypeOK, UNCHANGED <<awaiting, cache, outlines, saved, library>>,
         UNCHANGED flowFaults \/ Fault
  PROVE  RestTyped /\ ApprovedStay
BY FaultTyped DEF FlowTypeOK, RestTyped, ApprovedStay

LEMMA ReadableTyped ==
  ASSUME FlowTypeOK, NEW c \in Courses
  PROVE  Readable(c) \subseteq 0..MaxVersions
BY LimitsAssumption DEF FlowTypeOK, Readable

LEMMA FlowInitInv == FlowInit => FlowInv
<1> SUFFICES ASSUME FlowInit
             PROVE  FlowInv
  OBVIOUS
<1>1. /\ step = "configure" /\ ctx = InitialContext /\ modal = ClosedModal
      /\ jobs = <<>>
  BY DEF FlowInit
<1>2. ctx \in ContextType /\ modal \in ModalType
  BY <1>1, LimitsAssumption
     DEF InitialContext, ClosedModal, ContextType, ModalType, NoInput, NoOutline,
         NoJob, Outline
<1>3. /\ cache \in [Courses -> 0..MaxVersions] /\ saved \in [Courses -> Courses \cup {None}]
      /\ library \subseteq Courses /\ flowFaults \in 0..MaxEvents
      /\ awaiting \in {"nothing", "createCourse", "cancelJob"}
  BY LimitsAssumption DEF FlowInit, Courses
<1>4. outlines \in [Courses -> [latest : 0..MaxVersions, approved : SUBSET (1..MaxVersions)]]
  BY LimitsAssumption DEF FlowInit
<1>5. jobs \in Seq(Job) /\ Len(jobs) = 0
  BY <1>1
<1>6. FlowTypeOK
  BY <1>1, <1>2, <1>3, <1>4, <1>5, LimitsAssumption
     DEF FlowTypeOK, ContextType, ModalType, Steps
<1>7. CurrentIsJob /\ PollsJob
  BY <1>1, <1>5 DEF CurrentIsJob, PollsJob, ClosedModal, NoJob
<1>8. InputKnown /\ OutlineKnown
  BY <1>1 DEF InputKnown, OutlineKnown, InitialContext
<1>9. JobOfLessons
  BY <1>1 DEF JobOfLessons, HasJob, Writing
<1> QED BY <1>6, <1>7, <1>8, <1>9 DEF FlowInv

-----------------------------------------------------------------------------
(* The actions that leave machine and service alone.                       *)
LEMMA PageKeeps ==
  ASSUME FlowInv, StartGeneration \/ CreateCourseFails \/ TransformAndSave \/ QueryReads
  PROVE  Kept
<1> USE TypesNow DEF FlowInv
<1>1. UNCHANGED <<machine, modal, jobs, outlines>>
  BY DEF StartGeneration, CreateCourseFails, TransformAndSave, QueryReads, server
<1>2. RestTyped
  <2>1. CASE StartGeneration
    BY <2>1 DEF StartGeneration, RestTyped, FlowTypeOK, server
  <2>2. CASE CreateCourseFails
    BY <2>2, FaultTyped DEF CreateCourseFails, RestTyped, FlowTypeOK, server
  <2>3. CASE TransformAndSave
    <3>1. ctx.outline.course \in Courses
      BY <2>3 DEF TransformAndSave, OutlineKnown
    <3>2. saved' \in [Courses -> Courses \cup {None}]
      BY <2>3, <3>1 DEF TransformAndSave, FlowTypeOK
    <3> QED BY <2>3, <3>2 DEF TransformAndSave, RestTyped, FlowTypeOK, server
  <2>4. CASE QueryReads
    <3>1. modal.created \in Courses
      BY <2>4 DEF QueryReads, ModalType
    <3>2. cache' \in [Courses -> 0..MaxVersions]
      <4>1. PICK v \in Readable(modal.created) : cache' = [cache EXCEPT ![modal.created] = v]
        BY <2>4 DEF QueryReads
      <4>2. v \in 0..MaxVersions
        BY <3>1, <4>1, ReadableTyped
      <4> QED BY <4>1, <4>2 DEF FlowTypeOK
    <3> QED BY <2>4, <3>2 DEF QueryReads, RestTyped, FlowTypeOK, server
  <2> QED BY <2>1, <2>2, <2>3, <2>4
<1>3. JobsStep
  BY <1>1, SameJobs
<1>4. FlowTypeOK'
  BY <1>1, <1>2, <1>3, TypesFit DEF machine
<1> QED BY <1>1, <1>3, <1>4, MachineRests DEF CurrentStays, ApprovedStay

LEMMA OpeningKeeps ==
  ASSUME FlowInv, OpenNew \/ OpenForEdit \/ KeepGenerating
  PROVE  Kept
<1>1. UNCHANGED <<machine, awaiting, cache, jobs, outlines, saved, library, flowFaults>>
  BY DEF OpenNew, OpenForEdit, KeepGenerating, server
<1>2. modal \in ModalType
  BY TypesNow DEF FlowInv
<1>3. modal' \in ModalType /\ modal'.current = modal.current
  BY <1>2 DEF OpenNew, OpenForEdit, KeepGenerating, ModalType, Courses
<1>4. JobsStep /\ RestTyped /\ ApprovedStay
  BY <1>1, SameJobs, RestKept DEF FlowInv
<1>5. FlowTypeOK'
  BY <1>1, <1>3, <1>4, TypesNow, TypesFit DEF machine, FlowInv
<1> QED BY <1>1, <1>3, <1>4, <1>5, MachineRests DEF CurrentStays

-----------------------------------------------------------------------------
(* Outline generation.                                                     *)
LEMMA CourseCreatedKeeps ==
  ASSUME FlowInv, CourseCreated
  PROVE  Kept
<1> USE TypesNow DEF FlowInv
<1>1. PICK c \in Fresh \ library :
        /\ library' = library \cup {c} /\ modal' = [modal EXCEPT !.created = c]
        /\ IF step = "configure"
             THEN /\ step' = "outline.submitting"
                  /\ ctx' = [ctx EXCEPT !.input = [course |-> c, described |-> TRUE]]
             ELSE UNCHANGED machine
  BY DEF CourseCreated
<1>2. modal' \in ModalType /\ modal'.current = modal.current
  BY <1>1 DEF ModalType, Courses
<1>3. JobsStep /\ ApprovedStay
  BY SameJobs DEF CourseCreated, server, ApprovedStay
<1>4. RestTyped
  BY <1>1 DEF CourseCreated, server, RestTyped, FlowTypeOK, Courses
<1>5. CASE step = "configure"
  <2>1. /\ ctx' \in ContextType /\ ctx'.outline = ctx.outline
        /\ ctx'.input.course \in Courses
    <3> DEFINE input == [course |-> c, described |-> TRUE]
    <3>1. input \in [course : Courses \cup {None}, described : BOOLEAN]
          /\ input.course \in Courses
      BY DEF Courses
    <3>2. ctx' = [ctx EXCEPT !.input = input]
      BY <1>1, <1>5
    <3> HIDE DEF input
    <3> QED BY <3>1, <3>2 DEF ContextType
  <2>2. step' = "outline.submitting" /\ step' \in Outlining /\ step' \in Steps
    BY <1>1, <1>5 DEF Outlining, Steps
  <2>3. FlowTypeOK'
    BY <1>2, <1>3, <1>4, <2>1, <2>2, TypesFit
  <2>4. CurrentIsJob'
    BY <1>2, <1>3, CurrentKept DEF CurrentStays
  <2> QED BY <1>5, <2>1, <2>2, <2>3, <2>4, Outlines
<1>6. CASE step # "configure"
  <2>1. UNCHANGED machine
    BY <1>1, <1>6
  <2>2. FlowTypeOK'
    BY <1>2, <1>3, <1>4, <2>1, TypesFit DEF machine
  <2> QED BY <1>2, <1>3, <2>1, <2>2, MachineRests DEF CurrentStays
<1> QED BY <1>5, <1>6

LEMMA SubmitOutlineKeeps ==
  ASSUME FlowInv, SubmitOutline
  PROVE  Kept
<1> USE TypesNow DEF FlowInv
<1>1. /\ step = "outline.submitting" /\ step' = "outline.polling"
      /\ NewJob("outline", ctx.input.course, 0)
      /\ modal' = [modal EXCEPT !.current = Len(jobs'), !.read = FALSE]
      /\ ctx' = [ctx EXCEPT !.outlineJob = Len(jobs')]
      /\ UNCHANGED <<awaiting, cache, outlines, saved, library, flowFaults>>
  BY DEF SubmitOutline, Goto
<1>2. ctx.input.course \in Courses
  BY <1>1 DEF InputKnown
<1>3. 0 \in 0..MaxVersions /\ flowFaults' \in Nat
  BY <1>1, LimitsAssumption DEF FlowTypeOK
<1>4. JobsStep /\ Len(jobs') = Len(jobs) + 1
  BY <1>1, <1>2, <1>3, OneJobMore
<1>5. Len(jobs') \in 0..MaxEvents
  BY <1>4 DEF JobsStep, FlowTypeOK
<1>6. modal' \in ModalType /\ modal'.current = Len(jobs')
  BY <1>1, <1>5 DEF ModalType
<1>7. /\ ctx' \in ContextType /\ ctx'.outlineJob = Len(jobs')
      /\ ctx'.input = ctx.input /\ ctx'.outline = ctx.outline
  BY <1>1, <1>5 DEF ContextType
<1>8. FlowTypeOK'
  BY <1>1, <1>4, <1>6, <1>7, RestKept, TypesFit DEF Steps, Outlining
<1>9. CurrentIsJob'
  BY <1>5, <1>6 DEF CurrentIsJob
<1> QED BY <1>1, <1>2, <1>6, <1>7, <1>8, <1>9, Outlines DEF Outlining

LEMMA SubmitOutlineFailsKeeps ==
  ASSUME FlowInv, SubmitOutlineFails
  PROVE  Kept
<1> USE TypesNow DEF FlowInv
<1>1. /\ step = "outline.submitting" /\ step' = "configure" /\ ctx' = ctx
      /\ UNCHANGED <<awaiting, cache, outlines, saved, library, modal>>
      /\ UNCHANGED flowFaults \/ Fault
  BY DEF SubmitOutlineFails, Goto
<1>2. ctx.input.course \in Courses /\ 0 \in 0..MaxVersions
  BY <1>1, LimitsAssumption DEF InputKnown
<1>3. UNCHANGED jobs \/ (Fault /\ NewJob("outline", ctx.input.course, 0))
  BY DEF SubmitOutlineFails
<1>4. JobsStep
  BY <1>2, <1>3, SameJobs, OneJobMore, FaultTyped
<1>5. FlowTypeOK'
  BY <1>1, <1>4, RestKept, TypesFit DEF Steps
<1> QED BY <1>1, <1>4, <1>5, Configures DEF CurrentStays

LEMMA PollOutlineKeeps ==
  ASSUME FlowInv, PollOutline
  PROVE  Kept
<1> USE TypesNow DEF FlowInv
<1>1. /\ step = "outline.polling"
      /\ step' \in {"outline.fetching", "outline.waiting", "configure"}
      /\ ctx' = [ctx EXCEPT !.outlineJob = modal.current]
      /\ modal' = [modal EXCEPT !.read = TRUE]
      /\ UNCHANGED <<awaiting, cache, jobs, outlines, saved, library, flowFaults>>
  BY DEF PollOutline, Polled, Goto, server
<1>2. modal' \in ModalType /\ modal'.current = modal.current
  BY <1>1 DEF ModalType
<1>3. /\ ctx' \in ContextType /\ ctx'.outlineJob = modal.current
      /\ ctx'.input = ctx.input /\ ctx'.outline = ctx.outline
  BY <1>1 DEF ContextType, ModalType
<1>4. JobsStep /\ RestTyped
  BY <1>1, SameJobs, RestKept
<1>5. FlowTypeOK'
  BY <1>1, <1>2, <1>3, <1>4, TypesFit DEF Steps, Outlining
<1>6. CurrentIsJob'
  BY <1>2, <1>4, CurrentKept DEF CurrentStays
<1>7. CASE step' = "configure"
  BY <1>2, <1>3, <1>4, <1>5, <1>7, Configures DEF CurrentStays
<1>8. CASE step' # "configure"
  <2>1. step' \in Outlining /\ step \in Outlining /\ ctx'.input.course \in Courses
    BY <1>1, <1>3, <1>8 DEF InputKnown, Outlining
  <2> QED BY <1>2, <1>3, <1>5, <1>6, <2>1, Outlines
<1> QED BY <1>7, <1>8

(* A poll that fails: nothing but whether an answer was read changes.      *)
LEMMA PollFailsChanges ==
  ASSUME FlowInv, NEW waiting, NEW abandoned, PollFails(waiting, abandoned),
         waiting \in Steps, abandoned \in Steps
  PROVE  /\ step' \in {waiting, abandoned} /\ ctx' = ctx /\ FlowTypeOK'
         /\ UNCHANGED outlines /\ JobsStep
         /\ modal'.current = modal.current
<1> USE TypesNow DEF FlowInv
<1>1. /\ step' \in {waiting, abandoned} /\ ctx' = ctx
      /\ modal' = modal \/ modal' = [modal EXCEPT !.read = TRUE]
      /\ UNCHANGED <<awaiting, cache, jobs, outlines, saved, library>>
      /\ UNCHANGED flowFaults \/ Fault
  BY DEF PollFails, Goto, server
<1>2. modal' \in ModalType /\ modal'.current = modal.current
  BY <1>1 DEF ModalType
<1>3. JobsStep /\ RestTyped
  BY <1>1, SameJobs, RestKept
<1> QED BY <1>1, <1>2, <1>3, TypesFit

LEMMA PollOutlineFailsKeeps ==
  ASSUME FlowInv, PollOutlineFails
  PROVE  Kept
<1>1. step = "outline.polling" /\ PollFails("outline.waiting", "configure")
  BY DEF PollOutlineFails
<1>2. /\ step' \in {"outline.waiting", "configure"} /\ ctx' = ctx /\ FlowTypeOK'
      /\ JobsStep /\ modal'.current = modal.current
  BY <1>1, PollFailsChanges DEF Steps, Outlining
<1>3. CASE step' = "configure"
  BY <1>2, <1>3, Configures DEF CurrentStays
<1>4. CASE step' = "outline.waiting"
  <2>1. /\ ctx.input.course \in Courses
        /\ modal.current # NoJob => modal.current = ctx.outlineJob
    BY <1>1 DEF FlowInv, InputKnown, PollsJob
  <2>2. CurrentIsJob'
    BY <1>2, CurrentKept DEF CurrentStays
  <2> QED BY <1>1, <1>2, <1>4, <2>1, <2>2, Outlines DEF Outlining
<1> QED BY <1>2, <1>3, <1>4

LEMMA OutlineTimerKeeps ==
  ASSUME FlowInv, OutlineTimer
  PROVE  Kept
<1>1. /\ step = "outline.waiting" /\ step' = "outline.polling"
      /\ UNCHANGED <<ctx, modal, awaiting, cache, jobs, outlines, saved, library, flowFaults>>
  BY DEF OutlineTimer, Goto, server
<1>2. FlowTypeOK' /\ JobsStep
  BY <1>1, SameJobs, RestKept, TypesNow, TypesFit DEF FlowInv, Steps, Outlining
<1>3. CurrentIsJob'
  BY <1>1, <1>2, CurrentKept DEF CurrentStays
<1>4. /\ ctx.input.course \in Courses
      /\ modal.current # NoJob => modal.current = ctx.outlineJob
  BY <1>1 DEF FlowInv, InputKnown, PollsJob
<1> QED BY <1>1, <1>2, <1>3, <1>4, Outlines DEF Outlining

LEMMA FetchOutlineKeeps ==
  ASSUME FlowInv, FetchOutline
  PROVE  Kept
<1> USE TypesNow DEF FlowInv
<1>1. PICK v \in 0..MaxVersions :
        /\ step = "outline.fetching" /\ Refetch(v)
        /\ IF v = 0 THEN Goto("configure", ctx)
           ELSE Goto("review.viewing",
                     [ctx EXCEPT !.outline = [course |-> modal.created, version |-> v]])
        /\ UNCHANGED <<modal, jobs, outlines>>
  BY DEF FetchOutline, server
<1>2. JobsStep /\ UNCHANGED <<awaiting, saved, library>>
  BY <1>1, SameJobs DEF Goto
<1>3. RestTyped
  <2>1. CASE /\ modal.created # None
             /\ cache' = [cache EXCEPT ![modal.created] = v] /\ UNCHANGED flowFaults
    BY <1>1, <1>2, <2>1 DEF RestTyped, FlowTypeOK
  <2>2. CASE UNCHANGED cache /\ (Fault \/ UNCHANGED flowFaults)
    BY <1>1, <1>2, <2>2, RestKept
  <2> QED BY <1>1, <2>1, <2>2 DEF Refetch
<1>4. CASE v = 0
  <2>1. step' = "configure" /\ ctx' = ctx
    BY <1>1, <1>4 DEF Goto
  <2>2. FlowTypeOK'
    BY <1>1, <1>2, <1>3, <2>1, TypesFit DEF Steps
  <2> QED BY <1>1, <1>2, <2>1, <2>2, Configures DEF CurrentStays
<1>5. CASE v # 0
  <2> DEFINE outline == [course |-> modal.created, version |-> v]
  <2>1. step' = "review.viewing" /\ ctx' = [ctx EXCEPT !.outline = outline]
    BY <1>1, <1>5 DEF Goto
  <2>2. modal.created \in Courses
    BY <1>1, <1>5 DEF Refetch, ModalType
  <2>3. /\ outline \in Outline /\ outline.course \in Courses
        /\ outline.version \in 1..MaxVersions
    BY <1>5, <2>2, LimitsAssumption DEF Outline
  <2> HIDE DEF outline
  <2>4. /\ ctx' \in ContextType /\ ctx'.outline = outline /\ ctx'.input = ctx.input
    BY <2>1, <2>3 DEF ContextType
  <2>5. FlowTypeOK'
    BY <1>1, <1>2, <1>3, <2>1, <2>4, TypesFit DEF Steps, Reviewing
  <2>6. CurrentIsJob' /\ OutlineKnown'
    BY <1>1, <1>2, <2>1, <2>3, <2>4, CurrentKept DEF CurrentStays, OutlineKnown
  <2>7. step \in Steps \ {"lessons.fetching", "background", "complete"} /\ ctx'.input.course \in Courses
    BY <1>1, <2>4 DEF InputKnown
  <2> QED BY <2>1, <2>5, <2>6, <2>7, Reviews DEF Reviewing
<1> QED BY <1>4, <1>5

-----------------------------------------------------------------------------
(* Outline review.                                                         *)
LEMMA ChoiceKeeps ==
  ASSUME FlowInv, ApproveOutline \/ RejectOutline \/ UpdateOutline \/ RegenerateOutline
  PROVE  Kept
<1>1. /\ step = "review.viewing" /\ ctx.outline # NoOutline
      /\ step' \in {"review.approving", "review.rejecting", "review.updating",
                    "outline.submitting"}
      /\ UNCHANGED <<ctx, modal, awaiting, cache, jobs, outlines, saved, library, flowFaults>>
  BY DEF ApproveOutline, RejectOutline, UpdateOutline, RegenerateOutline, Choose,
         ReviewShown, Goto, server
<1>2. JobsStep /\ RestTyped /\ step \in Steps \ {"lessons.fetching", "background", "complete"}
  BY <1>1, SameJobs, RestKept, TypesNow DEF FlowInv
<1>3. FlowTypeOK'
  BY <1>1, <1>2, TypesNow, TypesFit DEF FlowInv, Steps, Reviewing, Outlining
<1>4. CurrentIsJob' /\ OutlineKnown' /\ ctx'.input.course \in Courses
  BY <1>1, <1>2, CurrentKept DEF FlowInv, CurrentStays, OutlineKnown, InputKnown
<1>5. CASE step' = "outline.submitting"
  BY <1>1, <1>3, <1>4, <1>5, Outlines DEF Outlining, Reviewing
<1>6. CASE step' # "outline.submitting"
  BY <1>1, <1>2, <1>3, <1>4, <1>6, Reviews DEF Reviewing
<1> QED BY <1>5, <1>6

(* The outline that is approved or rejected is one of a course.            *)
LEMMA OutlineOfReview ==
  ASSUME FlowInv, step \in {"review.approving", "review.rejecting"}
  PROVE  /\ ctx.outline.course \in Courses /\ ctx.outline.version \in 1..MaxVersions
         /\ ctx.input.course \in Courses
BY DEF FlowInv, OutlineKnown, InputKnown

OutlinesType == [Courses -> [latest : 0..MaxVersions, approved : SUBSET (1..MaxVersions)]]

LEMMA ApprovalTyped ==
  ASSUME outlines \in OutlinesType, NEW c \in Courses, NEW v \in 1..MaxVersions
  PROVE  /\ [outlines EXCEPT ![c].approved = @ \cup {v}] \in OutlinesType
         /\ [outlines EXCEPT ![c].approved = @ \ {v}] \in OutlinesType
BY DEF OutlinesType

LEMMA ApprovedKeeps ==
  ASSUME FlowInv, Approved
  PROVE  Kept
<1>1. /\ step = "review.approving" /\ step' = "queued.submitting" /\ ctx' = ctx
      /\ outlines' = [outlines EXCEPT
           ![ctx.outline.course].approved = @ \cup {ctx.outline.version}]
      /\ UNCHANGED <<modal, awaiting, cache, jobs, saved, library, flowFaults>>
  BY DEF Approved, Goto
<1>2. outlines' \in OutlinesType
  BY <1>1, OutlineOfReview, ApprovalTyped DEF FlowInv, FlowTypeOK, OutlinesType
<1>3. JobsStep /\ RestTyped
  BY <1>1, <1>2, SameJobs DEF FlowInv, FlowTypeOK, RestTyped, OutlinesType
<1>4. FlowTypeOK'
  BY <1>1, <1>3, TypesNow, TypesFit DEF FlowInv, Steps, Queueing
<1>5. CurrentIsJob'
  BY <1>1, <1>3, CurrentKept DEF CurrentStays
<1>6. InputKnown' /\ OutlineKnown' /\ PollsJob'
  BY <1>1, OutlineOfReview DEF FlowInv, InputKnown, OutlineKnown, PollsJob
<1>7. JobOfLessons'
  BY <1>1, WithoutLessons, StepKinds
<1>8. Stage = "reviewing" /\ Stage' = "writing" /\ Work' = "none"
  BY <1>1, StageIs, StageIsNext, WorkIsNext, StepKinds DEF Reviewing
<1>9. PromiseStep
  BY <1>8 DEF PromiseStep, Promise!PromiseNext, Promise!Approve
<1> QED BY <1>4, <1>5, <1>6, <1>7, <1>9 DEF Kept, FlowInv

LEMMA RejectedKeeps ==
  ASSUME FlowInv, Rejected
  PROVE  Kept
<1>1. /\ step = "review.rejecting" /\ step' = "outline.submitting"
      /\ ctx' = [ctx EXCEPT !.outline = NoOutline]
      /\ outlines' = [outlines EXCEPT
           ![ctx.outline.course].approved = @ \ {ctx.outline.version}]
      /\ UNCHANGED <<modal, awaiting, cache, jobs, saved, library, flowFaults>>
  BY DEF Rejected, Goto
<1>2. outlines' \in OutlinesType
  BY <1>1, OutlineOfReview, ApprovalTyped DEF FlowInv, FlowTypeOK, OutlinesType
<1>3. JobsStep /\ RestTyped
  BY <1>1, <1>2, SameJobs DEF FlowInv, FlowTypeOK, RestTyped, OutlinesType
<1>4. ctx' \in ContextType /\ ctx'.outline = NoOutline /\ ctx'.input = ctx.input
  BY <1>1, TypesNow DEF FlowInv, ContextType
<1>5. FlowTypeOK'
  BY <1>1, <1>3, <1>4, TypesNow, TypesFit DEF FlowInv, Steps, Outlining
<1>6. CurrentIsJob' /\ ctx'.input.course \in Courses
  BY <1>1, <1>3, <1>4, CurrentKept, OutlineOfReview DEF CurrentStays
<1> QED BY <1>1, <1>4, <1>5, <1>6, Outlines DEF Outlining, Reviewing

LEMMA UpdatedKeeps ==
  ASSUME FlowInv, Updated
  PROVE  Kept
<1> USE TypesNow DEF FlowInv
<1> DEFINE v == IF modal.created = None THEN 0 ELSE cache[modal.created]
           outline == IF v = 0 THEN NoOutline
                      ELSE [course |-> modal.created, version |-> v]
<1>1. /\ step = "review.updating" /\ step' = "review.viewing"
      /\ ctx' = [ctx EXCEPT !.outline = outline]
      /\ UNCHANGED <<modal, awaiting, cache, jobs, outlines, saved, library, flowFaults>>
  BY DEF Updated, Goto, server
<1>2. JobsStep /\ RestTyped
  BY <1>1, SameJobs, RestKept
<1>3. v # 0 => modal.created \in Courses /\ v \in 1..MaxVersions
  BY LimitsAssumption DEF ModalType, FlowTypeOK
<1>4. /\ outline \in Outline
      /\ outline = NoOutline \/ (/\ outline.course \in Courses
                                 /\ outline.version \in 1..MaxVersions)
  <2> HIDE DEF v
  <2> QED BY <1>3 DEF Outline
<1> HIDE DEF outline
<1>5. ctx' \in ContextType /\ ctx'.outline = outline /\ ctx'.input = ctx.input
  BY <1>1, <1>4 DEF ContextType
<1>6. FlowTypeOK'
  BY <1>1, <1>2, <1>5, TypesFit DEF Steps, Reviewing
<1>7. CurrentIsJob' /\ OutlineKnown' /\ ctx'.input.course \in Courses
  BY <1>1, <1>2, <1>4, <1>5, CurrentKept DEF CurrentStays, OutlineKnown, InputKnown
<1> QED BY <1>1, <1>6, <1>7, Reviews DEF Reviewing

LEMMA ReviewRequestFailsKeeps ==
  ASSUME FlowInv, ReviewRequestFails
  PROVE  Kept
<1>1. /\ step \in {"review.approving", "review.rejecting"}
      /\ step' = "review.viewing" /\ ctx' = ctx /\ Fault
      /\ UNCHANGED <<modal, awaiting, cache, jobs, saved, library>>
  BY DEF ReviewRequestFails, Goto
<1>2. \/ UNCHANGED outlines
      \/ outlines' = [outlines EXCEPT ![ctx.outline.course].approved =
                                      @ \cup {ctx.outline.version}]
      \/ outlines' = [outlines EXCEPT ![ctx.outline.course].approved =
                                      @ \ {ctx.outline.version}]
  BY DEF ReviewRequestFails
<1>3. outlines' \in OutlinesType
  <2>1. outlines \in OutlinesType
    BY DEF FlowInv, FlowTypeOK, OutlinesType
  <2>2. ctx.outline.course \in Courses /\ ctx.outline.version \in 1..MaxVersions
    BY <1>1, OutlineOfReview
  <2> QED BY ZenonT(40), <1>2, <2>1, <2>2, ApprovalTyped
<1>4. JobsStep /\ RestTyped
  BY <1>1, <1>3, SameJobs, FaultTyped DEF FlowInv, FlowTypeOK, RestTyped, OutlinesType
<1>5. FlowTypeOK'
  BY <1>1, <1>4, TypesNow, TypesFit DEF FlowInv, Steps, Reviewing
<1>6. CurrentIsJob' /\ OutlineKnown' /\ ctx'.input.course \in Courses
  BY <1>1, <1>4, CurrentKept, OutlineOfReview DEF FlowInv, CurrentStays, OutlineKnown
<1>7. step \in Steps \ {"lessons.fetching", "background", "complete"}
  BY <1>1, TypesNow DEF FlowInv
<1> QED BY <1>1, <1>5, <1>6, <1>7, Reviews DEF Reviewing

-----------------------------------------------------------------------------
(* Lesson generation.                                                      *)
LEMMA SubmitLessonsKeeps ==
  ASSUME FlowInv, SubmitLessons
  PROVE  Kept
<1> USE TypesNow DEF FlowInv
<1> DEFINE c == ctx.input.course
           v == outlines[c].latest
<1>1. /\ step = "queued.submitting" /\ step' = "queued.confirmation"
      /\ MayWrite(c) /\ NewJob("course", c, v)
      /\ modal' = [modal EXCEPT !.current = Len(jobs'), !.read = FALSE]
      /\ ctx' = [ctx EXCEPT !.lessonJob = Len(jobs')]
      /\ UNCHANGED <<awaiting, cache, outlines, saved, library, flowFaults>>
  BY DEF SubmitLessons, Goto
<1>2. c \in Courses /\ v \in 0..MaxVersions /\ flowFaults' \in Nat
  BY <1>1 DEF InputKnown, FlowTypeOK
<1>3. v \in outlines[c].approved
  BY <1>1 DEF MayWrite
<1> HIDE DEF c, v
<1>4. /\ JobsStep /\ Len(jobs') = Len(jobs) + 1
      /\ jobs'[Len(jobs')] = [kind |-> "course", course |-> c, version |-> v,
                              status |-> "open"]
  BY <1>1, <1>2, OneJobMore
<1>5. Len(jobs') \in 1..MaxEvents /\ Len(jobs') \in 0..MaxEvents
  BY <1>4 DEF JobsStep, FlowTypeOK
<1>6. modal' \in ModalType /\ modal'.current = Len(jobs')
  BY <1>1, <1>5 DEF ModalType
<1>7. /\ ctx' \in ContextType /\ ctx'.lessonJob = Len(jobs')
      /\ ctx'.input = ctx.input /\ ctx'.outline = ctx.outline
  BY <1>1, <1>5 DEF ContextType
<1>8. FlowTypeOK'
  BY <1>1, <1>4, <1>6, <1>7, RestKept, TypesFit DEF Steps, Queueing
<1>9. CurrentIsJob' /\ InputKnown' /\ OutlineKnown' /\ PollsJob'
  BY <1>1, <1>2, <1>5, <1>6, <1>7
     DEF CurrentIsJob, InputKnown, OutlineKnown, PollsJob, c
<1>10. JobOfLessons'
  <2>1. ctx'.input.course = c
    BY <1>7 DEF c
  <2>2. /\ jobs'[ctx'.lessonJob].kind = "course" /\ jobs'[ctx'.lessonJob].course = c
        /\ jobs'[ctx'.lessonJob].version = v
    BY <1>4, <1>7
  <2>3. ctx'.lessonJob \in 1..Len(jobs')
    BY <1>5, <1>7
  <2> QED BY <1>1, <1>3, <2>1, <2>2, <2>3 DEF JobOfLessons
<1>11. PromiseStep
  <2>1. Stage = "writing" /\ Work = "none" /\ Stage' = "writing"
    BY <1>1, StageIs, StageIsNext, WorkIs, StepKinds DEF AtWork
  <2>2. Work' = "open"
    BY <1>1, <1>4, <1>7, WorkIsNext DEF HasJob
  <2> QED BY <2>1, <2>2 DEF PromiseStep, Promise!PromiseNext, Promise!Submit
<1> QED BY <1>8, <1>9, <1>10, <1>11 DEF Kept, FlowInv

LEMMA SubmitLessonsFailsKeeps ==
  ASSUME FlowInv, SubmitLessonsFails
  PROVE  Kept
<1> USE TypesNow DEF FlowInv
<1> DEFINE c == ctx.input.course
           v == outlines[c].latest
<1>1. /\ step = "queued.submitting" /\ step' = "review.viewing" /\ ctx' = ctx
      /\ UNCHANGED <<awaiting, cache, outlines, saved, library, modal>>
      /\ UNCHANGED flowFaults \/ Fault
  BY DEF SubmitLessonsFails, Goto
<1>2. c \in Courses /\ v \in 0..MaxVersions
  BY <1>1 DEF InputKnown, FlowTypeOK
<1>3. UNCHANGED jobs \/ (Fault /\ NewJob("course", c, v))
  BY DEF SubmitLessonsFails
<1> HIDE DEF c, v
<1>4. JobsStep
  BY <1>2, <1>3, SameJobs, OneJobMore, FaultTyped
<1>5. FlowTypeOK'
  BY <1>1, <1>4, RestKept, TypesFit DEF Steps, Reviewing
<1>6. CurrentIsJob' /\ OutlineKnown' /\ ctx'.input.course \in Courses
  BY <1>1, <1>2, <1>4, CurrentKept DEF CurrentStays, OutlineKnown, c
<1> QED BY <1>1, <1>5, <1>6, Reviews DEF Reviewing

LEMMA WaitKeeps ==
  ASSUME FlowInv, WaitForCompletion \/ LessonsTimer
  PROVE  Kept
<1>1. /\ step \in {"queued.confirmation", "lessons.waiting"}
      /\ step' = "lessons.polling"
      /\ UNCHANGED <<ctx, modal, awaiting, cache, jobs, outlines, saved, library, flowFaults>>
  BY DEF WaitForCompletion, LessonsTimer, Goto, server
<1>2. JobsStep /\ FlowTypeOK'
  BY <1>1, SameJobs, RestKept, TypesNow, TypesFit DEF FlowInv, Steps, Writing
<1> QED BY <1>1, <1>2, Writes DEF CurrentStays, AtWork

(* The job that is polled is the machine's own.                            *)
LEMMA PollLessonsKeeps ==
  ASSUME FlowInv, PollLessons
  PROVE  Kept
<1> USE TypesNow DEF FlowInv
<1>1. /\ step = "lessons.polling" /\ modal.current # NoJob
      /\ step' \in {"lessons.fetching", "lessons.waiting", "review.viewing"}
      /\ step' = "lessons.fetching" => jobs[modal.current].status = "completed"
      /\ ctx' = [ctx EXCEPT !.lessonJob = modal.current]
      /\ modal' = [modal EXCEPT !.read = TRUE]
      /\ UNCHANGED <<awaiting, cache, jobs, outlines, saved, library, flowFaults>>
  BY DEF PollLessons, Polled, Goto, server
<1>2. modal.current = ctx.lessonJob
  BY <1>1 DEF PollsJob
<1>3. ctx' = ctx
  BY <1>1, <1>2 DEF ContextType
<1>4. modal' \in ModalType /\ modal'.current = modal.current
  BY <1>1 DEF ModalType
<1>5. JobsStep /\ RestTyped
  BY <1>1, SameJobs, RestKept
<1>6. FlowTypeOK'
  BY <1>1, <1>3, <1>4, <1>5, TypesFit DEF Steps, Writing, Reviewing
<1>7. CASE step' = "review.viewing"
  <2>1. CurrentIsJob' /\ OutlineKnown' /\ ctx'.input.course \in Courses
    BY <1>1, <1>3, <1>4, <1>5, <1>7, CurrentKept DEF CurrentStays, OutlineKnown, InputKnown
  <2> QED BY <1>1, <1>6, <1>7, <2>1, Reviews DEF Reviewing
<1>8. CASE step' # "review.viewing"
  BY <1>1, <1>2, <1>3, <1>4, <1>5, <1>6, <1>8, Writes DEF CurrentStays, AtWork
<1> QED BY <1>7, <1>8

LEMMA PollLessonsFailsKeeps ==
  ASSUME FlowInv, PollLessonsFails
  PROVE  Kept
<1>1. step = "lessons.polling" /\ PollFails("lessons.waiting", "review.viewing")
  BY DEF PollLessonsFails
<1>2. /\ step' \in {"lessons.waiting", "review.viewing"} /\ ctx' = ctx /\ FlowTypeOK'
      /\ UNCHANGED outlines /\ JobsStep /\ modal'.current = modal.current
  BY <1>1, PollFailsChanges DEF Steps, Writing, Reviewing
<1>3. CASE step' = "lessons.waiting"
  BY <1>1, <1>2, <1>3, Writes DEF CurrentStays, AtWork
<1>4. CASE step' = "review.viewing"
  <2>1. CurrentIsJob' /\ OutlineKnown' /\ ctx'.input.course \in Courses
    BY <1>1, <1>2, <1>4, CurrentKept DEF FlowInv, CurrentStays, OutlineKnown, InputKnown
  <2>2. step \in Steps
    BY TypesNow DEF FlowInv
  <2> QED BY <1>1, <1>2, <1>4, <2>1, <2>2, Reviews DEF Reviewing
<1> QED BY <1>2, <1>3, <1>4

(* The flow is finished when its job was found completed before.           *)
LEMMA FetchLessonsKeeps ==
  ASSUME FlowInv, FetchLessons
  PROVE  Kept
<1>1. /\ step = "lessons.fetching" /\ step' = "complete"
      /\ UNCHANGED <<ctx, modal, awaiting, cache, jobs, outlines, saved, library, flowFaults>>
  BY DEF FetchLessons, Goto, server
<1>2. JobsStep /\ FlowTypeOK' /\ ApprovedStay
  BY <1>1, SameJobs, RestKept, TypesNow, TypesFit DEF FlowInv, Steps
<1>3. CurrentIsJob' /\ InputKnown' /\ OutlineKnown' /\ PollsJob'
  BY <1>1, <1>2, CurrentKept DEF FlowInv, CurrentStays, InputKnown, OutlineKnown, PollsJob
<1>4. JobOfLessons'
  BY <1>1, <1>2, LessonsBegun DEF HasJob, Writing
<1>5. Stage = "concluding" /\ Stage' = "finished" /\ Work' = Work
  BY <1>1, StageIs, StageIsNext, WorkIs, WorkIsNext DEF HasJob, Writing
<1>6. PromiseStep
  BY <1>5 DEF PromiseStep, Promise!PromiseNext, Promise!Finish
<1> QED BY <1>2, <1>3, <1>4, <1>6 DEF Kept, FlowInv

-----------------------------------------------------------------------------
(* The modal.                                                              *)
LEMMA InitialTyped ==
  InitialContext \in ContextType /\ ClosedModal \in ModalType
BY LimitsAssumption
   DEF InitialContext, ClosedModal, ContextType, ModalType, NoInput, NoOutline, NoJob,
       Outline

LEMMA LeavePageKeeps ==
  ASSUME FlowInv, LeavePage
  PROVE  Kept
<1>1. /\ step' = "configure" /\ ctx' = InitialContext /\ modal' = ClosedModal
      /\ awaiting' = "nothing"
      /\ UNCHANGED <<cache, jobs, outlines, saved, library, flowFaults>>
  BY DEF LeavePage, server
<1>2. JobsStep /\ RestTyped
  BY <1>1, SameJobs DEF FlowInv, FlowTypeOK, RestTyped
<1>3. FlowTypeOK'
  BY <1>1, <1>2, InitialTyped, TypesFit DEF Steps
<1>4. CurrentStays /\ ctx'.outline = NoOutline
  BY <1>1 DEF CurrentStays, ClosedModal, InitialContext
<1> QED BY <1>1, <1>2, <1>3, <1>4, Configures

LEMMA SkipToReviewKeeps ==
  ASSUME FlowInv, SkipToReview
  PROVE  Kept
<1> USE TypesNow DEF FlowInv
<1> DEFINE input == [course |-> modal.editing, described |-> FALSE]
           outline == [course |-> modal.created, version |-> cache[modal.created]]
<1>1. /\ step = "configure" /\ step' = "review.viewing"
      /\ modal.editing # None /\ modal.created # None /\ cache[modal.created] # 0
      /\ ctx' = [ctx EXCEPT !.input = input, !.outline = outline]
      /\ modal' = [modal EXCEPT !.initialized = TRUE]
      /\ UNCHANGED <<awaiting, cache, jobs, outlines, saved, library, flowFaults>>
  BY DEF SkipToReview, Goto, server
<1>2. modal.editing \in Courses /\ modal.created \in Courses
  BY <1>1 DEF ModalType, Courses
<1>3. /\ input \in [course : Courses \cup {None}, described : BOOLEAN]
      /\ input.course \in Courses
  BY <1>2
<1>4. cache[modal.created] \in 1..MaxVersions
  BY <1>1, <1>2, LimitsAssumption DEF FlowTypeOK
<1>5. /\ outline \in Outline /\ outline.course \in Courses
      /\ outline.version \in 1..MaxVersions
  BY <1>2, <1>4, LimitsAssumption DEF Outline
<1> HIDE DEF input, outline
<1>6. ctx' \in ContextType /\ ctx'.input = input /\ ctx'.outline = outline
  BY <1>1, <1>3, <1>5 DEF ContextType
<1>7. modal' \in ModalType /\ modal'.current = modal.current
  BY <1>1 DEF ModalType
<1>8. JobsStep /\ RestTyped
  BY <1>1, SameJobs, RestKept
<1>9. FlowTypeOK'
  BY <1>1, <1>6, <1>7, <1>8, TypesFit DEF Steps, Reviewing
<1>10. CurrentIsJob' /\ OutlineKnown' /\ ctx'.input.course \in Courses
  BY <1>1, <1>3, <1>5, <1>6, <1>7, <1>8, CurrentKept DEF CurrentStays, OutlineKnown
<1> QED BY <1>1, <1>9, <1>10, Reviews DEF Reviewing

(* RESET, with the job cancelled before it or not.                         *)
LEMMA ResetKeeps ==
  ASSUME FlowInv, JobsStep, RestTyped, ApprovedStay, NEW m \in ModalType, Reset(m)
  PROVE  Kept
<1> USE TypesNow DEF FlowInv
<1>1. modal' = Shut([m EXCEPT !.created = None, !.current = NoJob, !.read = FALSE])
  BY DEF Reset
<1>2. modal' \in ModalType /\ modal'.current = NoJob
  <2> DEFINE n == [m EXCEPT !.created = None, !.current = NoJob, !.read = FALSE]
  <2>1. NoJob \in 0..MaxEvents
    BY LimitsAssumption DEF NoJob
  <2>2. n \in ModalType /\ n.current = NoJob
    BY <2>1 DEF ModalType
  <2> HIDE DEF n
  <2> QED BY <1>1, <2>2 DEF Shut, ModalType
<1>3. CASE step' = "configure" /\ ctx' = InitialContext
  <2>1. FlowTypeOK'
    BY <1>2, <1>3, InitialTyped, TypesFit DEF Steps
  <2>2. ctx'.outline = NoOutline
    BY <1>3 DEF InitialContext
  <2> QED BY <1>2, <1>3, <2>1, <2>2, Configures DEF CurrentStays
<1>4. CASE UNCHANGED machine
  <2>1. FlowTypeOK'
    BY <1>2, <1>4, TypesFit DEF machine
  <2> QED BY <1>2, <1>4, <2>1, MachineRests DEF CurrentStays
<1> QED BY <1>3, <1>4 DEF Reset

LEMMA CloseRequestKeeps ==
  ASSUME FlowInv, CloseRequest
  PROVE  Kept
<1> USE TypesNow DEF FlowInv
<1>1. UNCHANGED <<awaiting, cache, jobs, outlines, saved, library, flowFaults>>
  BY DEF CloseRequest, server
<1>2. JobsStep /\ RestTyped /\ ApprovedStay
  BY <1>1, SameJobs, RestKept
<1>3. CASE Reset(modal)
  BY <1>2, <1>3, ResetKeeps
<1>4. CASE modal' = [modal EXCEPT !.closing = TRUE] /\ UNCHANGED machine
  <2>1. modal' \in ModalType /\ modal'.current = modal.current
    BY <1>4 DEF ModalType
  <2>2. FlowTypeOK'
    BY <1>2, <1>4, <2>1, TypesFit DEF machine
  <2> QED BY <1>2, <1>4, <2>1, <2>2, MachineRests DEF CurrentStays
<1> QED BY <1>3, <1>4 DEF CloseRequest

(* Cancelling a job on the server, or failing to.                          *)
LEMMA CancelTried ==
  ASSUME FlowInv,
         \/ \E j : CancelOnServer(j) /\ UNCHANGED flowFaults
         \/ Fault /\ UNCHANGED jobs
  PROVE  JobsStep /\ (UNCHANGED flowFaults \/ Fault)
BY SameJobs, JobCancelled DEF FlowInv

LEMMA ConfirmCloseKeeps ==
  ASSUME FlowInv, ConfirmClose
  PROVE  Kept
<1>1. JobsStep /\ (UNCHANGED flowFaults \/ Fault)
  BY CancelTried DEF ConfirmClose
<1>2. RestTyped /\ ApprovedStay
  BY <1>1, RestKept DEF ConfirmClose, FlowInv
<1>3. [modal EXCEPT !.closing = FALSE] \in ModalType
  BY TypesNow DEF FlowInv, ModalType
<1>4. Reset([modal EXCEPT !.closing = FALSE])
  BY DEF ConfirmClose
<1> QED BY <1>1, <1>2, <1>3, <1>4, ResetKeeps

(* CANCEL, or its being dropped.                                           *)
LEMMA TakesCancelKeeps ==
  ASSUME FlowInv, TakesCancel, JobsStep, RestTyped, ApprovedStay, UNCHANGED ctx,
         modal' \in ModalType, modal'.current = modal.current
  PROVE  Kept
<1> USE TypesNow DEF FlowInv
<1>1. \/ step = "outline.waiting" /\ step' = "configure"
      \/ step = "lessons.waiting" /\ step' = "review.viewing"
      \/ step' = step
  BY DEF TakesCancel
<1>2. JobsStep /\ RestTyped /\ ApprovedStay
  OBVIOUS
<1>3. step \in Steps /\ step' \in Steps
  BY <1>1 DEF Steps, Reviewing
<1>4. FlowTypeOK'
  BY <1>3, TypesFit
<1>5. CASE step' = "configure" /\ step = "outline.waiting"
  BY <1>4, <1>5, Configures DEF CurrentStays
<1>6. CASE step = "lessons.waiting" /\ step' = "review.viewing"
  <2>1. CurrentIsJob' /\ OutlineKnown' /\ ctx'.input.course \in Courses
    BY <1>6, CurrentKept DEF CurrentStays, OutlineKnown, InputKnown
  <2> QED BY <1>3, <1>4, <1>6, <2>1, Reviews DEF Reviewing
<1>7. CASE step' = step
  BY <1>4, <1>7, MachineRests DEF CurrentStays, machine
<1> QED BY <1>1, <1>5, <1>6, <1>7

LEMMA CancelAnsweredKeeps ==
  ASSUME FlowInv, CancelAnswered
  PROVE  Kept
<1> USE TypesNow DEF FlowInv
<1>1. /\ awaiting' = "nothing" /\ UNCHANGED <<ctx, cache, outlines, saved, library>>
      /\ TakesCancel /\ modal' = [modal EXCEPT !.cancelling = NoJob]
  BY DEF CancelAnswered
<1>2. JobsStep /\ (UNCHANGED flowFaults \/ Fault)
  BY CancelTried DEF CancelAnswered
<1>3. RestTyped /\ ApprovedStay
  BY <1>1, <1>2, FaultTyped DEF FlowTypeOK, RestTyped, ApprovedStay
<1>4. modal' \in ModalType /\ modal'.current = modal.current
  BY <1>1, LimitsAssumption DEF ModalType, NoJob
<1> QED BY <1>1, <1>2, <1>3, <1>4, TakesCancelKeeps

LEMMA CancelKeeps ==
  ASSUME FlowInv, Cancel
  PROVE  Kept
<1> USE TypesNow DEF FlowInv
<1>1. UNCHANGED <<ctx, cache, jobs, outlines, saved, library, flowFaults>>
  BY DEF Cancel, server
<1>2. JobsStep /\ RestTyped /\ ApprovedStay
  BY <1>1, SameJobs DEF Cancel, FlowTypeOK, RestTyped, ApprovedStay
<1>3. CASE TakesCancel /\ UNCHANGED modal
  BY <1>1, <1>2, <1>3, TakesCancelKeeps
<1>4. CASE UNCHANGED step /\ modal' = [modal EXCEPT !.cancelling = modal.current]
  <2>1. modal' \in ModalType /\ modal'.current = modal.current
    BY <1>4 DEF ModalType
  <2>2. FlowTypeOK'
    BY <1>1, <1>2, <1>4, <2>1, TypesFit
  <2> QED BY <1>1, <1>2, <1>4, <2>1, <2>2, MachineRests DEF CurrentStays, machine
<1> QED BY <1>3, <1>4 DEF Cancel

(* The flow is left to the service with its job, whatever became of that.  *)
LEMMA NavigateAwayKeeps ==
  ASSUME FlowInv, NavigateAway
  PROVE  Kept
<1> USE TypesNow DEF FlowInv
<1>1. /\ modal' = Shut(modal)
      /\ UNCHANGED <<ctx, awaiting, cache, jobs, outlines, saved, library, flowFaults>>
      /\ step' = IF step \in {"queued.confirmation", "lessons.waiting"}
                   THEN "background" ELSE step
  BY DEF NavigateAway, server
<1>2. modal' \in ModalType /\ modal'.current = modal.current
  BY <1>1 DEF Shut, ModalType
<1>3. JobsStep /\ RestTyped /\ ApprovedStay
  BY <1>1, SameJobs, RestKept
<1>4. FlowTypeOK'
  BY <1>1, <1>2, <1>3, TypesFit DEF Steps
<1>5. CASE step \in {"queued.confirmation", "lessons.waiting"} /\ step' = "background"
  <2>1. CurrentIsJob' /\ InputKnown' /\ OutlineKnown' /\ PollsJob'
    BY <1>1, <1>2, <1>3, <1>5, CurrentKept
       DEF CurrentStays, InputKnown, OutlineKnown, PollsJob
  <2>2. step \in HasJob /\ step' \in HasJob
    BY <1>5 DEF HasJob, Writing
  <2>3. JobOfLessons'
    BY <1>1, <1>3, <2>2, LessonsBegun
  <2>4. Stage = "writing" /\ Stage' = "detached"
    BY <1>5, StageIs, StageIsNext DEF AtWork
  <2>5. Work' = Work /\ Work \in JobStatus
    BY <1>1, <1>3, <2>2, WorkGoesOn, WorkIs, WorkIsNext
  <2>6. PromiseStep
    BY <2>4, <2>5 DEF PromiseStep, Promise!PromiseNext, Promise!Detach, JobStatus
  <2> QED BY <1>4, <2>1, <2>3, <2>6 DEF Kept, FlowInv
<1>6. CASE step' = step
  BY <1>1, <1>2, <1>3, <1>4, <1>6, MachineRests DEF CurrentStays, machine
<1> QED BY <1>1, <1>5, <1>6

LEMMA JobMovesKeeps ==
  ASSUME FlowInv, NEW j \in JobIds, JobMoves(j)
  PROVE  Kept
<1> USE TypesNow DEF FlowInv
<1>1. /\ j \in 1..Len(jobs)
      /\ UNCHANGED <<machine, modal, awaiting, cache, saved, library>>
      /\ UNCHANGED flowFaults \/ Fault
  BY DEF JobMoves, FlowTypeOK
<1>2. JobsStep
  <2>1. PICK s \in NextStatuses(jobs[j]) : jobs' = [jobs EXCEPT ![j].status = s]
    BY DEF JobMoves
  <2>2. s \in JobStatus
    BY <2>1 DEF NextStatuses, JobStatus
  <2> QED BY <1>1, <2>1, <2>2, JobMoved
<1>3. outlines' \in OutlinesType /\ ApprovedStay
  <2>1. CASE UNCHANGED outlines
    BY <2>1 DEF FlowTypeOK, OutlinesType, ApprovedStay
  <2>2. CASE /\ outlines[jobs[j].course].latest < MaxVersions
             /\ outlines' = [outlines EXCEPT ![jobs[j].course].latest = @ + 1]
    <3>1. jobs[j].course \in Courses
      <4>1. jobs \in Seq(Job)
        BY DEF FlowTypeOK
      <4>2. jobs[j] \in Job
        BY <1>1, <4>1
      <4> QED BY <4>2 DEF Job
    <3>2. outlines \in OutlinesType
      BY DEF FlowTypeOK, OutlinesType
    <3> QED BY <2>2, <3>1, <3>2, LimitsAssumption DEF OutlinesType, ApprovedStay
  <2> QED BY <2>1, <2>2 DEF JobMoves
<1>4. RestTyped
  BY <1>1, <1>3, FaultTyped DEF FlowTypeOK, RestTyped, OutlinesType
<1>5. FlowTypeOK'
  BY <1>1, <1>2, <1>4, TypesFit DEF machine
<1> QED BY <1>1, <1>2, <1>3, <1>5, MachineRests DEF CurrentStays

-----------------------------------------------------------------------------
LEMMA FlowStep ==
  ASSUME FlowInv, [FlowNext]_flowVars
  PROVE  Kept
<1>1. CASE UNCHANGED flowVars
  <2>1. /\ UNCHANGED <<machine, modal, jobs, awaiting, cache, outlines, saved, library,
                       flowFaults>>
    BY <1>1 DEF flowVars, machine
  <2>2. JobsStep /\ RestTyped /\ ApprovedStay
    BY <2>1, SameJobs, RestKept DEF FlowInv
  <2>3. FlowTypeOK'
    BY <2>1, <2>2, TypesNow, TypesFit DEF FlowInv, machine
  <2> QED BY <2>1, <2>2, <2>3, MachineRests DEF CurrentStays
<1>2. CASE MachineNext
  BY <1>2, SubmitOutlineKeeps, SubmitOutlineFailsKeeps, PollOutlineKeeps,
     PollOutlineFailsKeeps, OutlineTimerKeeps, FetchOutlineKeeps, ApprovedKeeps,
     RejectedKeeps, UpdatedKeeps, ReviewRequestFailsKeeps, SubmitLessonsKeeps,
     SubmitLessonsFailsKeeps, PollLessonsKeeps, PollLessonsFailsKeeps, WaitKeeps,
     FetchLessonsKeeps
     DEF MachineNext
<1>3. CASE HandlerNext
  BY <1>3, CourseCreatedKeeps, PageKeeps, CancelAnsweredKeeps DEF HandlerNext
<1>4. CASE ModalNext
  BY <1>4, PageKeeps, CancelKeeps, OpeningKeeps, ChoiceKeeps, WaitKeeps, LeavePageKeeps,
     SkipToReviewKeeps, CloseRequestKeeps, ConfirmCloseKeeps, NavigateAwayKeeps
     DEF ModalNext
<1>5. CASE \E j \in JobIds : JobMoves(j)
  BY <1>5, JobMovesKeeps
<1> QED BY <1>1, <1>2, <1>3, <1>4, <1>5 DEF FlowNext

(* The invariant asks for no fairness.                                     *)
LEMMA FlowSafety == FlowInit /\ [][FlowNext]_flowVars => []FlowInv
<1>1. FlowInv /\ [FlowNext]_flowVars => FlowInv'
  BY FlowStep DEF Kept
<1> QED BY <1>1, FlowInitInv, PTL

LEMMA FlowInvariant == FlowSpec => []FlowInv
BY FlowSafety, PTL DEF FlowSpec

-----------------------------------------------------------------------------
(* Type correctness of the flow.                                           *)
THEOREM FlowTypeCorrect == FlowSpec => []FlowTypeOK
<1>1. FlowInv => FlowTypeOK
  BY DEF FlowInv
<1> QED BY <1>1, FlowInvariant, PTL

LEMMA FlowInvSafe == FlowInv => PollsOwnJob /\ LessonsOfApproved
<1>1. FlowInv => PollsOwnJob
  BY DEF FlowInv, PollsJob, PollsOwnJob
<1>2. FlowInv => LessonsOfApproved
  <2> SUFFICES ASSUME FlowInv, step \in HasJob
               PROVE  /\ jobs[ctx.lessonJob].kind = "course"
                      /\ jobs[ctx.lessonJob].course = ctx.input.course
                      /\ jobs[ctx.lessonJob].version
                           \in outlines[jobs[ctx.lessonJob].course].approved
    BY DEF LessonsOfApproved, HasJob
  <2> QED BY DEF FlowInv, JobOfLessons
<1> QED BY <1>1, <1>2

(* What a poll returns is about the job the machine waits for, however the *)
(* modal has been closed and opened, for new courses and old, meanwhile.   *)
THEOREM PollsItsOwnJob == FlowSpec => []PollsOwnJob
BY FlowInvSafe, FlowInvariant, PTL

(* Lessons are shown as queued, written or done only for a job of the      *)
(* flow's own course, made from an outline that was approved.              *)
THEOREM LessonsAreOfApproved == FlowSpec => []LessonsOfApproved
BY FlowInvSafe, FlowInvariant, PTL

LEMMA PromiseKept == FlowInit /\ [][FlowNext]_flowVars => KeepsPromise
<1>1. FlowInit => Promise!PromiseInit
  <2> SUFFICES ASSUME FlowInit
               PROVE  Promise!PromiseInit
    OBVIOUS
  <2>1. step = "configure"
    BY DEF FlowInit
  <2> QED BY <2>1, StageIs, WorkIs, StepKinds DEF Promise!PromiseInit
<1>2. FlowInv /\ [FlowNext]_flowVars => [Promise!PromiseNext]_<<Stage, Work>>
  BY FlowStep DEF Kept, PromiseStep
<1> QED BY <1>1, <1>2, FlowSafety, PTL DEF KeepsPromise, Promise!PromiseSpec

(* The machine, the modal and the service implement GenerationPromise.     *)
THEOREM FlowKeepsPromise == FlowSpec => KeepsPromise
BY PromiseKept, PTL DEF FlowSpec

=============================================================================
