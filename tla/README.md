# Mirai: a verification project

Mirai lets companies turn the knowledge of their experts into courses with the
help of a language model. It is a Go backend (`backend/`, Connect-RPC handlers,
services, PostgreSQL repositories, an Asynq task queue on Redis) and a Next.js
frontend (`frontend/`). Three backend replicas run the same program, each with
an HTTP server, ten Asynq handler goroutines and a scheduler
(`README.md` "Services", `worker/server.go:37`).

This directory holds TLA+ models of the parts of the backend where several
requests, workers and outside systems meet, the TLC runs that check them on
small instances, and proofs of their main properties for instances of any size.
Paths below are relative to `src/backend/internal/` unless they start with
another directory of the repository.

## 1. The system

| Component | State | Operations | Interacts with |
|---|---|---|---|
| Generation job queue (`application/service/ai_generation_service.go`, `postgres/generation_job_repository.go`) | table `generation_jobs`: status, `started_at`, `parent_job_id`, progress, retries | request an outline, a lesson, a whole course, a regeneration; claim by push or sweep; the outline and lesson handlers; fail; cancel; finalize a course | Asynq tasks, the AI provider, outlines, generated lessons, notifications |
| Course outlines (same service, `course_outline_repository.go`) | outline versions with sections and lessons, approval status | store a version, approve, reject, edit | generation jobs, the review panel |
| SME knowledge (`sme_service.go`, `sme_ingestion_service.go`, `sme_repository.go`) | experts, tasks, submissions, knowledge chunks | delegate a task, submit, review, ingest, archive | generation jobs (same table), storage, AI provider |
| Sign-up and provisioning (`auth_service.go`, `provisioning_service.go`, `cleanup_service.go`, `presentation/connect/webhook_handler.go`) | table `pending_registrations`; what it makes: Kratos identity, tenant, company, user | register, webhook, provision, reconcile, clean up | Stripe, Kratos, Asynq |
| Invitations, seats, users (`invitation_service.go`, `auth_service.go`, `user_service.go`) | tables `invitations`, `users`, `companies` | invite, resend, revoke, accept, join by invitation, onboard | Kratos, billing (seat count) |
| Billing (`billing_service.go`, `webhook_handler.go`) | five Stripe columns of `companies` | checkout, portal, subscription events | Stripe |
| Course library (`course_service.go`, `infrastructure/storage`, `infrastructure/cache`) | course rows, course content in object storage, folders, cache entries | create, update, delete, move, folder tree | S3, Redis |
| Teams (`team_service.go`, `team_repository.go`) | teams, `team_members`, a folder per team | create, delete, add and remove members | users, folders |
| Tenant settings (`tenant_settings_service.go`, `ai_settings_repository.go`) | one row per tenant: the API key and the tokens used | test, set and remove the key; add tokens | generation jobs |
| Target audiences (`target_audience_service.go`, `target_audience_repository.go`) | rows, each "active" or "archived" | create, read and write whole, archive, restore, list | course input |
| Notifications (`notification_service.go`, `pubsub`) | rows and a Redis channel | create, read, mark, delete, stream | every other service |
| Row-level security (`postgres/rls.go`, migrations 007, 011, 021) and the auth interceptor | session settings of a transaction; a cached user-to-tenant mapping | filter every query | all repositories |
| Task queue and scheduler (`infrastructure/worker`) | Asynq queues in Redis | push a task, run handlers, retry, schedule | all services |
| Frontend machines (`src/frontend/src/machines`) | XState machines: course generation, course builder, registration, invitation (two), login, logout | events of the user, answers of calls, timers | the pages' handlers and hooks, which call the API |
| Frontend pages, hooks and caches (`src/frontend/src/{app,components,hooks,store}`) | component state, React Query caches, a Zustand store | handlers, effects, refetches, invalidations | machines, API |

### What is hard here

* **Whole-row writes from old copies.** `Update` of every repository writes all
  columns by id, without a condition on what the row holds by then. Between the
  read and the write lie database calls, a language model that takes minutes, or
  Stripe and Kratos. Nearly every hazard in `PROJECT.json` is a form of this.
* **Two ways to every job.** A job is pushed through Asynq and also swept from
  the table; a job whose worker died is recognised by a timeout only. Pushes get
  lost, tasks are delivered again, workers outlive the timeout.
* **Several systems, no transaction.** Provisioning creates an identity, a
  tenant, a company and a user in turn; any step may fail or the process stop.
* **Outside events**, duplicated, late or in the wrong order: Stripe's webhooks,
  Asynq's redeliveries.
* **Completion of a whole from its parts:** a course is finished by whichever
  lesson worker finds all the others done, while the batch may still be being
  created, cancelled or failing.
* **Machines that drop events.** An XState machine ignores an event that its
  state does not list, and the pages' buttons and asynchronous handlers send
  theirs whenever they are ready.
* **Components that outlive what they show.** A closed dialog stays mounted, its
  calls and its machine go on, and the next opening finds their results; effects
  and closures read what was current when they were made.
* **Caches and streams.** A page acts on what it read last; other users change the
  same rows, and an answer may be older than the event that overtook it.

### What makes each component correct

* *Job queue:* one owner per job; a settled job stays settled; a completed job
  has its result; a course is completed, and announced, only when its lessons
  are; every job settles; a cancellation is respected; a lesson called complete has
  all its components.
* *Provisioning:* one account per address; a payment is never lost; every paid
  checkout ends in an account; what is half made can be found.
* *Generation from the browser:* lessons are written from an approved outline of
  the course in hand, "generated" is shown only when the service is done, a poll
  asks for the job that is waited for, what is stored goes to its own course, and
  nobody waits for ever.
* *Wizards:* however one goes back and forth, what is handed over is complete;
  the checkout is for what was shown.
* *Outline review:* no edit loses, doubles or confuses a section or a lesson.
* *SME knowledge:* the knowledge of a submission is its own text; a task is
  completed only when something was learnt.
* *Invitations:* only the person invited joins, and is told so only when it is
  true. *Seats:* members and open invitations never exceed the seats paid for.
* *Sessions:* who signs out stays out; a reset password ends its session.
* *Library:* no course sits in a deleted folder; the two stores of a course agree.
* *Teams:* nothing belongs to a deleted team.
* *Notifications:* what the bell shows becomes what the server has.
* *Target audiences:* an audience has what a course needs and keeps its own text; a
  list called fresh is the table's.
* *Settings:* the usage counter adds up, whatever else is written to its row.

## 2. Modules

| Module | Contents |
|---|---|
| `GenerationJobs` | the job queue, its workers, callers and course completion |
| `MCGenerationJobs`, `jobs_*.cfg` | its small instances |
| `GenerationJobsProofs` | type invariant, ownership, stable outcomes, results; what completion and announcement of a course mean; one result per claim, by counting |
| `Provisioning` | sign-up, payment, webhook, provisioning, reconciliation, cleanup |
| `MCProvisioning`, `prov_*.cfg` | its small instances |
| `ProvisioningProofs` | one account per address, nothing paid is dropped |
| `GenerationFlow` | generating a course from the browser: the modal, `courseGenerationMachine`, its queries, the service as the browser sees it |
| `GenerationPromise` | what the generation flow promises its user; `GenerationFlow` implements it (`KeepsPromise`) |
| `GenerationFlowProofs` | types, polling, approved outlines, and the refinement |
| `GenerationWizard` | the wizard that collects the input of the flow |
| `OutlineReview` | the review panel and the outline editor |
| `CourseBuilder` | the course builder page and its machine; it has one course and keeps it |
| `CoursePagesProofs` | about the three modules above |
| `SignUp` | the registration wizard in front of `Register` |
| `InviteAccept` | the invitation page, both of its machines, joining step by step |
| `Sessions` | the two session cookies, login, sign-out, password recovery, middleware |
| `AccountProofs` | about the three modules above |
| `SmeKnowledge` | task, submission, review, approval and knowledge of an expert |
| `TargetAudiences` | the audiences, their page with two cached lists, the service |
| `KnowledgeProofs` | about the two modules above |
| `ContentLibrary` | folders, the courses in them, the page, the dialog, the service |
| `Teams` | teams and their members; what the tables guarantee |
| `Notifications` | inbox, stream, list query and bell |
| `AiSettings` | the API key and the token counter |
| `TenantProofs` | about the four modules above |
| `MCFrontend`, `frontend.cfg` | small instances of the browser's thirteen modules, side by side |
| `FrontendProofs` | `MCFrontend` implements each of the thirteen, so that what is proved of one holds in the whole |
| `flow_saves.cfg` | a small instance of `GenerationFlow` by itself |

### GenerationJobs

The table is `row`: a status and the claim whose time `started_at` holds. Every
actor that writes a row later carries the copy it read (`worker[w].claim` and
the status it will write, `caller[c].copy`, `caller[c].kids`), and each read or
write of the database is a step of its own, so every interleaving of them is
explored. `results` counts what a job has stored, `whole` holds the lessons whose
components were stored with them: their inserts may fail, which the handler logs and
ignores. Progress, messages and tokens are left out: no property is about them.

| Code | Model |
|---|---|
| `GenerateCourseOutline`, `GenerateLessonContent`, `RegenerateComponent` | `RequestJob` (insert, push or lose the push) |
| `GenerateAllLessons`, `CreateBatch` | `StartAllLessons`, `CreateBatch`, `CreateBatchFails` |
| `CancelJob` | `ReadJobToCancel`, `ListChildren` (when the list fails the parent alone is cancelled), `CancelChild`, `WriteCancelled` |
| `HandleAIGeneration`, `ProcessJobByID`, `ClaimJobByID` | `DeliverTask`, `DeliverTaskLate` |
| `HandleAIGenerationPoll`, `processNextJob`, `GetNextQueued` | `Sweep`, over `QueuedJobs` and `StaleJobs` |
| `started_at < NOW() - timeout` | `Expire` moves a job's claims into the past |
| `ProcessOutlineGenerationJob`, `ProcessLessonGenerationJob` | `CheckAtStart` .. `Notify`, one action per database or AI call |
| the result of a lesson: its row, then its components (`:877`, `:883`) | `StoreResult`; `whole` tells whether every component was stored |
| `checkJobCancelled`, `markJobCancelled` | `SeesCancelled`, `CheckAtStart`, `CheckBeforeAI`, `MarkCancelled` |
| `failJob` | `Fail` |
| `checkAndCompleteParentJob`, `FinalizeParentJob` | `Finalize` (the locked transaction), `ReadParent`, `WriteParent`, `NotifyParent` |
| deadline of the task context, crash of the process | `Abandon`, `DropRequest` |

Time is the claim number: the n-th claim of a job sets `started_at` to n, and
`expired` says up to which claim the stale timeout has passed. `LiveOverrun`
says whether that may happen while the handler still runs. With the defaults it
may not: `STALE_JOB_TIMEOUT_MINUTES` is 30 (`infrastructure/config/config.go:108`)
and Asynq gives a task without a timeout of its own 30 minutes.

### Provisioning

One registration per checkout session. `reg` is the status of its row ("none"
before the insert, "gone" after the delete). Sign-ups, webhook requests and
workers carry the registration they read, and act on it some steps later.

| Code | Model |
|---|---|
| `AuthService.Register` | `CheckIdentity`, `CheckPending`, `Insert` |
| Stripe: payment, events, their repetition | `Pay`, `DeliverEvent`, `HookCrash` (external) |
| `handlePendingRegistrationPayment` | `DeliverEvent`, `MarkPaid`, `Enqueue` |
| `HandleStripeReconcile`, `FindStuckPaid` | `Reconcile`, `Stuck` |
| `ProvisionByCheckoutSession`, `provisionAccount` | `StartTask`, `MarkProvisioning`, `CreateIdentity`, `CreateTenant`, `CreateCompany`, `CreateUser`, `DeleteRow`, `MarkFailed` |
| `CleanupExpired`, `DeleteExpired` | `Expire`, `Cleanup` |
| process stops, Asynq redelivers | `WorkerCrash`, `Requeue` |

A failing call (`Fault`) may fail before or after its effect where the callee is
another system (`CreateIdentity`), and before it where it is a single statement.

### The browser's modules

Paths in this section are relative to `src/frontend/src/`. In all of them a click
or an answer is one action, a request to the server is handled in a step between
the two, and what a component, a query cache or a closure keeps is state of its
own, so answers cross clicks and other users' changes in every order. A machine's
state is a value of a variable (`step`, `signup.at`, `accept.at`, `reached`, ..),
an event is a guarded update of it, and an event that the state does not list
changes nothing.

| Module | Code | State and actions |
|---|---|---|
| `GenerationFlow` | `machines/courseGenerationMachine.ts`, `components/ai-generation/AIGenerationFlowModal.tsx`, `hooks/useAIGeneration.ts` | `step`, `ctx`: the machine and its context; `modal`: what the component keeps over closing and opening (`createdCourseId`, `currentJobId`); `cache`: the outline read last per course; `jobs`, `outlines`, `saved`: the service, which moves a job in `JobMoves` as `NextStatuses` allows. `MachineNext` are the invoked actors and timers, `HandlerNext` the modal's own requests, `ModalNext` the user and the effects |
| `GenerationWizard` | `components/ai-generation/AIGenerationWizard.tsx`, `components/course/TagsSelectionModal.tsx` | the page shown and the selections; `handed` is what `handleStartGeneration` gives to the machine |
| `OutlineReview` | `OutlineReviewPanel.tsx`, `OutlineEditor.tsx` | `shown` and the edited copy; ids are made from a clock, which is assumed to advance from one addition to the next |
| `CourseBuilder` | `app/(main)/course-builder/page.tsx`, `machines/courseBuilderMachine.ts` | `reached`; `calls`: how many handlers of each kind are under way; the ref `isCreatingCourse`; the effects that watch the jobs |
| `SignUp` | `machines/registrationMachine.ts`, `components/auth/signup` | `signup`; `reply`: an answer under way; `late`: a request given up that the server still handles |
| `InviteAccept` | `machines/invitationAcceptMachine.ts`, `machines/invitedUserMachine.ts`, `app/(public)/auth/accept-invite/page.tsx`; on the server `AcceptInvitation` and `RegisterWithInvitation` | `invitation`, `person`: the server; `joining`: how far a registration has come; `admitting`, `revoking`: `AcceptInvitation` and `RevokeInvitation` between their read and their whole-row write; the session may change in another tab |
| `Sessions` | `middleware.ts`, `machines/loginMachine.ts`, `machines/logoutMachine.ts`, the pages under `app/(public)/auth`, `contexts/AuthContext.tsx` | two cookies, each absent, live or dead; a full load forgets what JavaScript kept |
| `SmeKnowledge` | `app/(main)/smes/page.tsx`, `components/sme`, `hooks/useSME.ts`; `sme_service.go` | the server's rows; `desk`, `review`: the manager's caches and panel; `approval`: the writes of `ApproveSubmission` |
| `ContentLibrary` | `app/(main)/content-library/page.tsx`, `components/course/FolderSelectionModal.tsx`; `course_service.go`, migration 008 | `folders`, `filed`: the tables with their cascades; `tree`: the folders as the tab last read them |
| `Teams` | `app/(main)/teams`, `components/teams`; `team_service.go`, `team_repository.go`, migrations 005 and 019 | `teamCalls`: calls with how far the service is; the tables' constraints are in `MayInsert` and `DropTeam` |
| `Notifications` | `hooks/useNotificationStream.ts`, `hooks/useNotifications.ts`, `components/notifications` | `inbox`, `stream`, `events`, the list query with its fetch and the data of that fetch; `overtaken`: an event came during the first fetch, which is kept |
| `AiSettings` | `components/settings/AISettingsPanel.tsx`; `tenant_settings_service.go`, `ai_settings_repository.go` | the row; `keyCalls`: calls with the row they have read; `atModel`: AI calls that will add tokens |
| `TargetAudiences` | `app/(main)/target-audiences/page.tsx`, `components/target-audience`, `hooks/useTargetAudience.ts`; `target_audience_service.go` | `templates`: the table; `templateCalls`: calls with the row they have read; `templateLists`, `templateRead`: both cached lists and the read of the one shown (`old`: answered by the server before the change that should have restarted it); the dialogs with the audience their fields were filled from |

The query library matters in two of them. `invalidateQueries` of React Query 5 drops a
fetch under way and starts another one if the query has data; the very first fetch is
kept, and its answer, though read before the change, clears the mark. `Invalidate` and
`TemplateAnswered` do the same.

`GenerationFlow` assumes of the jobs no more than `GenerationJobs` gives. A job may
move from any status to any other, so a cancelled job is written over and a completed
or failed course is opened again, as findings 2 and 3 have it; only of an outline the
outcome stands, except for a cancellation (`OutcomeStable`). What moves a job that had
settled counts as a fault, of which `MaxEvents` bounds the number. No job is assumed
ever to settle. That these are the moves of `GenerationJobs` is read off its
properties and not proved as a refinement.

`MCFrontend` puts the thirteen modules side by side. A tab shows one page, `page`,
which never changes, and the modules share no variable: each behaviour of
`MCFrontend` is a behaviour of one of them, which `PagesAreTheirParts` proves. This is
a way of checking thirteen instances in one run and claims nothing about their
interaction.

## 3. Runs

All runs allow the system to stop (`CHECK_DEADLOCK FALSE`): when every request
has been served and every job has settled there is nothing to do, and a page
whose user does nothing waits.

| Run | Instance | Shows |
|---|---|---|
| `jobs_course` | a course of 3 lessons, 3 workers, 3 claims per job, 2 faults | `SingleOwner`, `CourseMeansLessons`, `AnnouncedWhenSettled`, `OutcomeStable` |
| `jobs_cancel` | an outline job, 2 workers, 3 claims, 2 cancellations, 1 fault, handlers that outlive the timeout | `CompletedHasResult`, `ResultPerClaim`, `NeverRequeued`, `EarlyCancelSticks` |
| `jobs_settle` | an outline and a course of one lesson, 1 worker, 2 claims, a cancellation, a fault; fair | `JobsSettle`: every leaf job settles |
| `jobs_last_lesson_fails` | a course of one lesson that fails; fair | **violated** `CourseSettles` |
| `jobs_stale_progress` | a course of 2 lessons, 2 workers | **violated** `CourseOutcomeStable` |
| `jobs_lost_cancel` | one outline, one worker, one cancellation | **violated** `CancelSticks` |
| `prov_safety` | 2 sign-ups of one address, 2 webhook requests, 2 workers, events sent twice, 1 fault of any kind | `AccountOnce`, `HalfMadeTraceable`, `PaidNeverDropped` |
| `prov_heals` | one registration, 2 webhook requests, 2 workers, 2 lost pushes; fair | `PaidGetsAccount` |
| `prov_crash` | the same with one crash | **violated** `PaidGetsAccount` |
| `prov_duplicate` | the same, no fault | **violated** `OneProvisioner` |
| `frontend` | the thirteen modules of the browser with the bounds below; fair | the properties below |
| `flow_saves` | one course to edit, one to be made, 2 jobs or failures | **violated** `SavesItsOwnCourse` |

What `frontend` shows (797 thousand states, about three and a half minutes):

| Property | Module | Says |
|---|---|---|
| `PollsOwnJob` | `GenerationFlow` | a poll asks for the job the machine waits for, however the modal was closed and opened meanwhile |
| `LessonsOfApproved` | `GenerationFlow` | lessons are of the flow's own course and made from an approved outline |
| `KeepsPromise` | `GenerationFlow` | it implements `GenerationPromise`: nothing is written before an approval, "finished" is said only after the service had the work completed |
| `NobodyWaitsForever` | `GenerationFlow`, `Sessions` | an outcome of a job that lasts is noticed; login and sign-out come to an end |
| `HandedIsComplete` | `GenerationWizard` | what the wizard hands over passes the machine's guard |
| `EditsKeepIdentity`, `DragRearranges` | `OutlineReview` | ids stay unique, a lesson is in one place, dragging only rearranges |
| `AfterStartHasCourse`, `CourseStays` | `CourseBuilder` | the steps after the start have a course, always the same |
| `ReceivedComplete`, `CheckoutAsShown` | `SignUp` | the server gets complete registrations of addresses found free; the checkout is for the plan and seats shown |
| `OnlyInviteeJoins`, `WelcomeIsTrue` | `InviteAccept` | nobody else joins; "joined" is said of members only |
| `SignedOutStaysOut`, `ResetSignsOut` | `Sessions` | where a sign-out or a reset ends there is no session left, except for what failed |
| `KnowledgeOfItsSubmission`, `CompletedIsLearnt` | `SmeKnowledge` | knowledge is its submission's own text; completion means something was learnt |
| `CoursesKeepFolders` | `ContentLibrary` | no course is in a removed folder, nor in one below it |
| `ShowsTheInbox` | `Notifications` | once nothing is on its way and nothing was lost the bell shows the inbox |
| `TeamKeepsItsOwn` | `Teams` | no membership and no folder is of a team that is gone |
| `UsageAddsUp` | `AiSettings` | the counter is the sum of what the jobs added |
| `AudiencesWhole`, `FreshListIsTrue` | `TargetAudiences` | an audience has its name, role and goal and says what was filled in for it; a list that counts as fresh is the table's |

Some of them except a state in which they really fail; each exception is a
variable or a state named in the property's comment: an AI enhancement answered
after the panel changed submission (`outdated`), what was published while the
stream reconnected (`missed`), a first list or a first read that a change has
overtaken (`overtaken`, in `Notifications` and of a list of audiences), and
a dead token next to a live session of Kratos,
between which middleware and login page redirect for ever. A cancelled job is not
noticed by the flow either: `OutcomeUnseen` is about completed and failed jobs. Nor
does it speak of an outcome that never comes (finding 1) or is undone before the poll
has seen it (finding 2): the user then waits, and no property excludes it.

*Bounds.* Three claims let a job be claimed, recovered, and recovered again
while both earlier handlers may still write; three lessons and three workers let
one worker finalize a course, a second be late with its progress and a third
still run. Two faults are a crash of the owner followed by a lost update of its
successor. Two registrations suffice for the account properties because they are
about pairs; two workers and two webhook requests because every guard in the code
compares one process with the row only. `MaxCancels` and `MaxDeliveries` of 2 let
the second request meet the effects of the first. Where the safety properties
are also proved, the bounds do not matter any more.

For the browser: `MaxEvents` of 2 lets a failure or a cancelled job be followed by a
second try, and two courses let the modal move from one to the other; three sections and
two additions reach an empty and a full section; three mishaps are more than the two
calls of a sign-out; there are three folders at first, a chain, and `MaxFolders` of 4
lets one more be made in the course of the run, at the top or below any of them, by the
page or by another user, before, between and after the steps of a removal; two handlers
at once and two courses let each handler of the builder cross another one; one
registration on the server and one late let a request that was given up arrive before
and after its successor, and a second address tests what is checked under which address;
one user and one team suffice where only equality of them matters; two calls cross on
one audience, and its text differs from that of a new form. One call at a time changes
the AI settings (`MaxKeyCalls`), between which and its answer a job adds tokens. The
safety of all thirteen modules is proved for all bounds besides.
Larger values of single bounds were run one by one, module by module, and keep the
invariants too: two settings calls, so that two admins both find no row, with two AI
calls; two audiences, whose texts can be mistaken for each other; two notifications with
two calls on the way; five folders; two teams or two colleagues; two events of
`SmeKnowledge`; two registrations; three additions in the editor.

*Fairness.* `JobsSettle` assumes that requests in progress and claimed jobs are
carried on, that the sweep runs again and again (`@every 5m`,
`worker/server.go:117`), and that time passes. `PaidGetsAccount` assumes that
Stripe delivers an event it promised, in time, that Asynq hands out its tasks,
that handlers run, and the reconciliation (`@every 15m`). Nobody is assumed to
send a request, and faults are never fair.
`NobodyWaitsForever` assumes for the flow that the machine's timers fire and its
invoked calls are answered or fail (`MachineNext`), and that the modal's own requests
do too (`HandlerNext`). It does not assume that the service settles its jobs: a course
may never settle (finding 1). For sessions,
that the login page's and the sign-out's own calls and redirects come to an end, which effects start by themselves and which `lib/kratos/client.ts` aborts
after five seconds. An answer that is a failure is an answer; the user need not do
anything. In `MCFrontend` each fairness condition is asked for on its own page
only, since on the other pages its actions are never enabled.

*Symmetry* is used in safety runs only.

### Findings

1. **A course whose last lesson fails never settles** (`jobs_last_lesson_fails`).
   `failJob` does not reach `checkAndCompleteParentJob`, and the course job is
   excluded from recovery; it stays "processing" and nobody is told.
2. **A finalized course is reopened** (`jobs_stale_progress`) by another worker's
   progress update, a whole row read before the finalization. With three workers
   a later one then finalizes and announces the course a second time, against
   "ONE notification" (`ai_generation_service.go:916`). This is why what is
   claimed, and proved, is `AnnouncedWhenSettled` and not that the announcement
   comes once.
3. **A cancellation is lost** (`jobs_lost_cancel`) when the worker writes its
   progress after it checked for the cancellation.
4. **A paid registration is stuck for ever** (`prov_crash`) once a worker stops
   after marking it "provisioning": reconciliation looks for "paid" only.
5. **Two workers provision one registration** (`prov_duplicate`). Kratos refuses
   the second identity, so there is still one account (`AccountOnce`), but the
   loser marks the winner's registration as failed.
6. **A course gets another course's content** (`flow_saves`). Closing the modal
   resets what it keeps and not its machine; the effect on completion stores the
   outline of the machine's course in the course that the modal was opened for
   next.

Three more were met while modelling, and the properties are stated around them:

* *A lesson is completed without its components.* A failed insert of a component is
  logged (`ai_generation_service.go:897`), and the job reports "Lesson generation
  complete". `CompletedHasResult` is therefore about the lesson's own row;
  `CompletedIsWhole` says what one would want, and TLC refutes it with one lesson, one
  worker and one fault.
* *An event is lost while the first list loads.* React Query keeps the first fetch of a
  query when it is invalidated; an answer read before the change settles, and the bell
  goes without what the event told of. The same is true of the first read of a list of
  audiences. `ShowsTheInbox` and `FreshListIsTrue` name the exception; TLC refutes both
  without it.
* *A folder is removed with a subfolder in it*, although only empty ones are to be: the
  subfolder was made between the listing and the removal, and the key's cascade takes
  it along. Were a course filed in it, the courses' key would refuse the removal
  (`CoursesKeepFolders`).

Outside what the runs claim: a second click on Next
moves the course builder on before its course is there, `COURSE_CREATED` is then
dropped, and Generate creates another course; the answer to `RegisterWithInvitation` or `Register` lost, a second
try is refused; a failed read of lessons counts as "no lessons"; the notification
stream's back-off never grows; the monthly token limit is stored and never applied.

## 4. Proofs

`tlapm` checks them for any sets of jobs, workers, callers and registrations
and any bounds; only `Workers` of the job queue is assumed finite, for counting.
In the browser's modules the courses, colleagues, keys and bounds are as the
`ASSUME`s of those modules say, of any number. Two of these say more than that a
bound is a number. `LibraryAssumption`: the bound on folders admits the three that are
there at first. `OutlineAssumption`: the outline as generated has a section, its ids
can be told apart, and none is one that the editor's clock gives, for the server's are
new UUIDs (`ai_generation_service.go:379`, `:392`).

Every invariant of the passing runs is proved, and so are their action properties
(`NeverRequeued`, `EarlyCancelSticks`, `OutcomeStable`, `PaidNeverDropped`,
`CourseStays`, `DragRearranges`) and the refinement `KeepsPromise`: all but liveness.
By module of proofs, the inductive invariants and what they are needed for:

* **GenerationJobsProofs.** `Inv` (types; a busy worker holds a claimed leaf job;
  unclaimed jobs were never processed; a child's parent exists; at most one batch
  per course) is inductive for every value of the constants. From it `NoRequeue`,
  `EarlyCancel` and, with one more conjunct, `CompletedIsStored`. `OwnInv` adds
  that the worker that holds a job holds the latest claim of it and that this
  claim has not expired: `OneOwner` and, with it, `StableOutcome` need the
  assumption `~LiveOverrun`, and TLC finds both violated without it.
* `OneResultPerClaim` (same module): results already stored plus
  workers that may still store never exceed the claims of a job, a count over a
  finite set of workers.
* `CompletedCourse` and `AnnouncedQuiet` (same module), under
  `~LiveOverrun` and `MaxCancels = 0`. `FinalizeParentJob` counts whatever
  children exist; that it never counts too early holds because the batch is
  inserted in one transaction (`FreshBatch`), because a completed or failed
  lesson is never claimed again (`StableOutcome`), and because the workers that
  have seen all lessons done carry that fact with them (`SeenMeans`,
  `TellingQuiet`). Without `MaxCancels = 0` the first is false: the code counts a
  cancelled lesson as done and reports the course as completed.
* **ProvisioningProofs.** `OneAccount`, `PaidKept`, `HalfMadeKept`. The status
  of the row excludes nobody, as finding 5 shows; what does is the identity.
  `Owners` says that from `CreateIdentity` on a worker is the only owner of its
  address, `Progress` what an owner has made so far, `Companies` that a company
  implies a taken address, and `WorkKept` that the row a worker works on stays.
  No assumption beyond the types of the constants.

* **GenerationFlowProofs.** `FlowInv` adds to the types what the machine and the
  modal know of each other: the modal's job is one the service has
  (`CurrentIsJob`), past the first step the input names a course (`InputKnown`), an
  outline that is being approved or rejected is in the context (`OutlineKnown`), the
  polled job is the modal's, and is so already while the lessons are said to be
  queued (`PollsJob`, which is `PollsOwnJob` made inductive), and a lesson job is of the
  input's course and of an approved version (`JobOfLessons`). That no job disappears or
  changes what it is for (`JobsStep`) is all the proof needs of the service.
  Three results follow: `PollsItsOwnJob`, `LessonsAreOfApproved`, and `FlowKeepsPromise`, the
  refinement of `GenerationPromise` under `Stage` and `Work`: the initial states map
  to its initial state, and each action, given the invariant, to one of its steps
  or a stutter. The promise lets the work move from any status to any other at any
  time, for the service does that to a course; what it excludes is that "finished" is
  reached otherwise than by a poll that found the work completed (`Conclude`, then
  `Finish`), or that anything is written before an approval. CANCEL is sent by the
  answer to a call; it is taken in the two waiting states and dropped elsewhere
  (`TakesCancelKeeps`).
* **CoursePagesProofs.** *The course builder.* The ref `isCreatingCourse` is what lets
  one creation be under way: `OneCreation` says that it is set exactly while a handler
  that creates is pending and that there is at most one, `CreatesTheFirst` that a
  pending creation means there is no course yet. So an answered creation never replaces
  a course (`CourseNeverReplaced`), and what starts a generation has one
  (`StartedHasCourse`), although `COURSE_CREATED` may be dropped. The handlers under way
  are the sum of a function with eight arguments (`UnderWay`), written out, so that its
  changes are arithmetic.
  *The wizard.* `HandsOverComplete` needs `PagesFilled`: a page is shown only when what
  the pages before it ask for is there, and that is changed on its own page only.
  *The outline.* `EditsKeepTheirIds` and `DragsRearrange` hold for outlines of any
  length. `ReviewInv` says, besides, that every id was given by the server or by the
  clock before now (`IdsGiven`) and that no lesson stands twice (`IdsApart`). They rest
  on three facts about sequences: `filter` gives a part of the sequence in its order
  (`KeptEmbeds`), `arrayMove` a rearrangement of it (`arrayMovePlaces`,
  `MovedFromUndone`), and a part has no double that the whole has not (`EmbedsApart`).
* **AccountProofs.** *Sign-up.* A step of the wizard that is shown keeps what the steps
  before it have established (`StepsFilled`: an address found free, a company, a person,
  in this order), an answer under way is one to the call that was made
  (`AnswersCall`, `FreeIsSeen`), and what is being sent is what was shown
  (`SentAsShown`, `CheckoutHeld`); `RequestsWhole` says the same of a request that was
  given up and that the server still gets. From them `RegistrationsWhole`,
  `CheckoutIsAsShown`.
  *Invitations.* `InvitationForInvitee` and `WelcomesMembers` need only that a
  registration under way has made a member once it has made a user, and that an
  acceptance was checked before it makes one (`JoinedIsMember`): both machines go by what the
  server answers. That the invitation was read earlier than it is written plays no part.
  *Sessions.* `SignOutHolds` and `RecoverySignsOut` need `SignOutProgress`: Kratos's
  session is over by the time a sign-out without a failure clears the cookie, and the
  cookie is gone when it leaves.
* **KnowledgeProofs.** *Experts.* `ApprovalProgress` says which of the four writes of
  `ApproveSubmission` have been made, which the next ones rely on and nothing undoes;
  so `CompletedWasLearnt`, whichever of them fail. `PanelOnItsSubmission` says that the
  text in the panel is that of the submission it shows, unless an enhancement came too
  late; so `KnowledgeIsOfItsSubmission`.
  *Audiences.* Whatever is a copy of an audience is whole: the rows of both cached
  lists and of a read under way (`CopiesWhole`), the fields of the form
  (`FormOfItsAudience`), what a call says and the row it has read (`CallsWhole`); so a
  write of any of them leaves the table whole (`AudiencesStayWhole`). A read that has
  been answered has the table, unless a write is still to be answered or the read, a list's
  first, was kept over one (`ReadIsTrue`): with it `FreshListsAreTrue`.
* **TenantProofs.** *Teams.* `TeamsOwnTheirs`: every check of the service is outdated by
  the time it writes, so what counts is what each write does to the tables
  (`TableStep`): it makes a team or its folder (`Grows`), adds or drops a row, or drops a team
  with its rows and folders (`DropTeam`). The tables' keys and cascade are what
  keeps a row from outliving its team.
  *AI settings.* `UsageAlwaysAddsUp`: the token counter is the one column
  that `UpdateSettings` leaves out and that is incremented in place, so no row read
  earlier can undo it; a row that does not exist yet has counted nothing.
  *Library.* `CoursesHaveTheirFolders` is inductive with the types: what DeleteFolder
  has counted is outdated when it deletes, and the key of the courses' rows refuses the
  removal then, of a folder or of one above it. What `InFolder` is need not be known.
  *Notifications.* `PageShowsTheInbox` needs `AnswerIsInbox`: an answer that is on its
  way has the inbox, or an event is on its way as well, or a change was lost, or an event
  has overtaken the list's first answer. Once there is a list, an event makes it be read
  again, and React Query drops the answer it overtakes.
* **FrontendProofs.** Each step of `MCFrontend` is a step of the page shown and a
  stutter of the others, so it implements all thirteen (`PagesAreTheirParts`; for the
  flow and the sessions without their fairness, which only a page that is shown has).
  Hence `FrontendTypeCorrect`, and `PagesKeepTheirPromises`: the invariants, both action
  properties and the refinement, together.

Model-checked only: the liveness properties (`JobsSettle`, `PaidGetsAccount`,
`NobodyWaitsForever`), which the proof system cannot treat, and the violated ones.
Induction over data as the library offers it is out of reach, since its theorems take
an operator as a parameter. Where one is needed, for the places that `filter` keeps
(`Ranked`), the proof takes the least counterexample instead (`LeastNatural`, from the
well-foundedness of the numbers). What a recursive function computes is not proved
anywhere: `Level` and `InFolder` of the library appear in the proofs by name only.

## 5. What is not modelled

Abstracted everywhere: tenants (one tenant, and row-level security in force: the
handlers modelled run as superadmin or with their tenant, and the ingestion poll,
which runs with neither, sees no row of the job table), the content of outlines,
lessons and mails, progress percentages, token counts, layout and wording,
permissions that only reject a request.

Simplified, where more would only add states: one expert, one task and one
approval at a time in `SmeKnowledge`, where requesting changes, cancelling and
editing are one step each on the server; one invitation in `InviteAccept`; one user
and one tab in `Notifications`; the detail panel, the calls of other users and lost
answers in `TargetAudiences`, where an edit that read its row before an archive brings
the audience back, as in the code, and no property excludes it; `UpdateTeam`, the provider and the monthly limit of
the AI settings left out; a page as one tab, never two of the same user.

Not modelled:

* *Billing* and the *seat limit*: whole-row writes of a company from what Stripe or
  an earlier read said. What could be claimed of them fails (see the hazards), and
  what holds is a single assignment.
* *The content of a course*: `CourseEditor`, previews, blocks, object storage, and
  the default folders.
* *The server's cache and locks*: the one entry ever read maps a user to a tenant;
  the lock has no caller.
* *Connect handlers, clients of AI, mail, Stripe and Kratos, logging*: no state;
  they are present as what they answer.
* *Code that nothing runs*: `smeMachine`, `componentEditingMachine`,
  `lib/storage/*`, `lib/cache/redisCache.ts`, `ProcessPaidRegistrations`,
  `CompleteCheckout`'s and `Onboard`'s success (both places that insert users give
  them a company, and those two want one without), and ingestion, which
  no caller of `CreateIngestionJob` starts.

What could come next: `GenerationJobs` where the database role bypasses row-level
security, so that `HandleSMEIngestionPoll` claims generation jobs; a refinement of
`GenerationJobs` to the jobs that `GenerationFlow` lets move (`NextStatuses`); and the two
stores of a course's content.
