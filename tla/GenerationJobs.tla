--------------------------- MODULE GenerationJobs ---------------------------
(***************************************************************************)
(* The AI generation job queue: the generation_jobs table, the API calls   *)
(* that create and cancel jobs, the Asynq tasks and the sweep that hand    *)
(* jobs to workers, the worker's processing of one job, and the            *)
(* finalization of a full_course parent when its lesson jobs are done.     *)
(*                                                                         *)
(* The point of the module is that almost every write to the table is      *)
(* generationJobRepository.Update: a whole row, taken from the writer's    *)
(* own earlier copy, with no condition on what the row holds by then.      *)
(* Only the claims and FinalizeParentJob are conditional.  Every actor     *)
(* therefore carries the copy it read, and each read and each write of the *)
(* table is a step of its own.                                             *)
(***************************************************************************)
EXTENDS Naturals, FiniteSets

CONSTANTS
  Outlines,           \* ids of course_outline jobs
  Lessons,            \* ids of lesson_content jobs
  Regens,             \* ids of component_regen jobs
  Parents,            \* ids of full_course jobs
  ParentOf,           \* [Lessons -> Parents \cup {NoJob}]: parent_job_id
  Workers,            \* Asynq handler goroutines
  Callers,            \* API request handlers
  NoJob,              \* "no job": a NULL parent_job_id, an idle process
  MaxClaims,          \* bound: times one job is claimed
  MaxCancels,         \* bound: CancelJob requests
  MaxFaults,          \* bound: crashes, deadlines and failed database writes
  GenerationMayFail,  \* may inputs be missing, the AI call or the store fail
  LiveOverrun         \* is STALE_JOB_TIMEOUT_MINUTES below the task deadline

Leaves == Outlines \cup Lessons \cup Regens  \* the jobs a worker can claim
Jobs   == Leaves \cup Parents

ASSUME JobIdsAssumption ==
  /\ Outlines \cap Lessons = {} /\ Outlines \cap Regens = {}
  /\ Lessons \cap Regens = {}   /\ Leaves \cap Parents = {}
  /\ NoJob \notin Jobs
  /\ ParentOf \in [Lessons -> Parents \cup {NoJob}]
ASSUME WorkersAssumption == IsFiniteSet(Workers)
ASSUME BoundsAssumption ==
  /\ MaxClaims \in Nat \ {0} /\ MaxCancels \in Nat /\ MaxFaults \in Nat
  /\ GenerationMayFail \in BOOLEAN /\ LiveOverrun \in BOOLEAN

VARIABLES
  row,      \* the generation_jobs table
  claims,   \* times each job was claimed: claim n set started_at to time n
  expired,  \* claims up to this one are older than the stale timeout
  pushed,   \* ai:generation tasks held by Asynq, one per enqueued job
  worker,   \* program counter and copies of each worker
  caller,   \* program counter and copies of each API request
  results,  \* outlines or generated lessons stored for each job
  whole,    \* lesson jobs of which a lesson is stored with its components
  notices,  \* terminal notifications sent for each job
  cancels, faults  \* use of the budgets

vars == <<row, claims, expired, pushed, worker, caller, results, whole, notices,
          cancels, faults>>

(* started is the claim whose time started_at holds, 0 for NULL.  "absent"  *)
(* stands for a row that was not inserted yet.                              *)
Open    == {"queued", "processing"}
Settled == {"completed", "failed", "cancelled"}
Status  == Open \cup Settled
Row     == [status : Status \cup {"absent"}, started : 0..MaxClaims]
NoRow   == [status |-> "absent", started |-> 0]
RowIn(s, n) == [status |-> s, started |-> n]

Children(p) == {l \in Lessons : ParentOf[l] = p}
IsChild(j)  == j \in Lessons /\ ParentOf[j] # NoJob

(* A worker that holds its job may still write the job's row; one that is   *)
(* closing only reads and writes the parent's row or sends notifications.   *)
HoldPcs  == {"start", "announce", "gather", "check", "cancel", "generate",
             "save", "store", "components", "complete", "fail"}
ClosePcs == {"notify", "finalize", "readParent", "writeParent", "notifyParent"}
Worker   == [pc : {"idle"} \cup HoldPcs \cup ClosePcs, job : Leaves \cup {NoJob},
             claim : 0..MaxClaims, seen : Row]
Idle     == [pc |-> "idle", job |-> NoJob, claim |-> 0, seen |-> NoRow]
Holds(w) == worker[w].pc \in HoldPcs

Caller   == [pc : {"idle", "batch", "list", "cascade", "cancel"},
             job : Jobs \cup {NoJob}, copy : Row, kids : [Lessons -> Row]]
NoKids   == [l \in Lessons |-> NoRow]
NoCall   == [pc |-> "idle", job |-> NoJob, copy |-> NoRow, kids |-> NoKids]

TypeOK ==
  /\ row \in [Jobs -> Row]
  /\ claims \in [Leaves -> 0..MaxClaims]
  /\ expired \in [Leaves -> 0..MaxClaims]
  /\ pushed \subseteq Leaves
  /\ worker \in [Workers -> Worker]
  /\ caller \in [Callers -> Caller]
  /\ results \in [Leaves -> Nat]
  /\ whole \subseteq Leaves
  /\ notices \in [Jobs -> Nat]
  /\ cancels \in 0..MaxCancels
  /\ faults \in 0..MaxFaults

Init ==
  /\ row = [j \in Jobs |-> NoRow]
  /\ claims = [j \in Leaves |-> 0]
  /\ expired = [j \in Leaves |-> 0]
  /\ pushed = {}
  /\ worker = [w \in Workers |-> Idle]
  /\ caller = [c \in Callers |-> NoCall]
  /\ results = [j \in Leaves |-> 0]
  /\ whole = {}
  /\ notices = [j \in Jobs |-> 0]
  /\ cancels = 0
  /\ faults = 0

(***************************************************************************)
(* Database writes                                                         *)
(***************************************************************************)
Fault == faults < MaxFaults /\ faults' = faults + 1

(* generationJobRepository.Update of job j's row by the values r.           *)
Update(j, r) == row' = [row EXCEPT ![j] = r] /\ UNCHANGED faults

(* The same call where its error is logged and processing goes on.          *)
TryUpdate(j, r) == \/ Update(j, r)
                   \/ Fault /\ UNCHANGED row

(***************************************************************************)
(* API requests                                                            *)
(***************************************************************************)
(* GenerateCourseOutline, GenerateLessonContent, RegenerateComponent:       *)
(* insert a queued row, then push an Asynq task.  A failed push is logged   *)
(* and left to the sweep.                                                   *)
RequestJob(j) ==
  /\ row[j].status = "absent"
  /\ ~IsChild(j)
  /\ row' = [row EXCEPT ![j] = RowIn("queued", 0)]
  /\ pushed' \in {pushed, pushed \cup {j}}
  /\ UNCHANGED <<claims, expired, worker, caller, results, whole, notices,
                 cancels, faults>>

(* GenerateAllLessons, first half: insert the full_course parent, already   *)
(* processing.  Create does not insert started_at.                          *)
StartAllLessons(c, p) ==
  /\ caller[c].pc = "idle"
  /\ row[p].status = "absent"
  /\ Children(p) # {}
  /\ row' = [row EXCEPT ![p] = RowIn("processing", 0)]
  /\ caller' = [caller EXCEPT ![c] = [NoCall EXCEPT !.pc = "batch", !.job = p]]
  /\ UNCHANGED <<claims, expired, pushed, worker, results, whole, notices,
                 cancels, faults>>

(* GenerateAllLessons, second half: CreateBatch inserts every lesson job in *)
(* one transaction.  The lesson jobs are not pushed to Asynq.               *)
CreateBatch(c) ==
  /\ caller[c].pc = "batch"
  /\ row' = [j \in Jobs |-> IF j \in Children(caller[c].job)
                            THEN RowIn("queued", 0) ELSE row[j]]
  /\ caller' = [caller EXCEPT ![c] = NoCall]
  /\ UNCHANGED <<claims, expired, pushed, worker, results, whole, notices,
                 cancels, faults>>

(* GenerateAllLessons when CreateBatch fails: failJob on the parent.        *)
CreateBatchFails(c) ==
  /\ caller[c].pc = "batch"
  /\ Fault
  /\ LET p == caller[c].job IN
       /\ row' = [row EXCEPT ![p] = RowIn("failed", 0)]
       /\ notices' = [notices EXCEPT ![p] = @ + 1]
  /\ caller' = [caller EXCEPT ![c] = NoCall]
  /\ UNCHANGED <<claims, expired, pushed, worker, results, whole, cancels>>

(* CancelJob reads the job and refuses one that is not queued or processing.*)
Cancellable(r) == r.status \in Open

ReadJobToCancel(c, j) ==
  /\ caller[c].pc = "idle"
  /\ cancels < MaxCancels
  /\ Cancellable(row[j])
  /\ caller' = [caller EXCEPT ![c] =
                  [NoCall EXCEPT !.pc = IF j \in Parents THEN "list" ELSE "cancel",
                                 !.job = j, !.copy = row[j]]]
  /\ cancels' = cancels + 1
  /\ UNCHANGED <<row, claims, expired, pushed, worker, results, whole, notices,
                 faults>>

(* CancelJob on a full_course job lists the children and keeps the rows it  *)
(* will cancel; where the list fails it goes on as if there were none.      *)
ListChildren(c) ==
  /\ caller[c].pc = "list"
  /\ \/ /\ caller' = [caller EXCEPT
                         ![c].pc = "cascade",
                         ![c].kids = [l \in Lessons |->
                            IF l \in Children(caller[c].job) /\ Cancellable(row[l])
                            THEN row[l] ELSE NoRow]]
        /\ UNCHANGED faults
     \/ Fault /\ caller' = [caller EXCEPT ![c].pc = "cascade"]
  /\ UNCHANGED <<row, claims, expired, pushed, worker, results, whole, notices,
                 cancels>>

(* ... updates each of them from the copy; a failed update is logged ...    *)
CancelChild(c, l) ==
  /\ caller[c].pc = "cascade"
  /\ caller[c].kids[l] # NoRow
  /\ TryUpdate(l, RowIn("cancelled", caller[c].kids[l].started))
  /\ caller' = [caller EXCEPT ![c].kids[l] = NoRow]
  /\ UNCHANGED <<claims, expired, pushed, worker, results, whole, notices,
                 cancels>>

(* ... and finally the job itself, again from the copy read at the start.   *)
WriteCancelled(c) ==
  /\ \/ caller[c].pc = "cancel"
     \/ caller[c].pc = "cascade" /\ caller[c].kids = NoKids
  /\ TryUpdate(caller[c].job, RowIn("cancelled", caller[c].copy.started))
  /\ caller' = [caller EXCEPT ![c] = NoCall]
  /\ UNCHANGED <<claims, expired, pushed, worker, results, whole, notices,
                 cancels>>

(* The API process stops, or an insert it depends on fails.                 *)
DropRequest(c) ==
  /\ caller[c].pc # "idle"
  /\ Fault
  /\ caller' = [caller EXCEPT ![c] = NoCall]
  /\ UNCHANGED <<row, claims, expired, pushed, worker, results, whole, notices,
                 cancels>>

(***************************************************************************)
(* Claiming a job                                                          *)
(***************************************************************************)
(* One UPDATE ... RETURNING sets the row to processing with a new           *)
(* started_at; the worker's copy is that row.  A component_regen job has no *)
(* processor: the default case of the type switch fails it.                 *)
Claim(w, j) ==
  /\ claims[j] < MaxClaims
  /\ claims' = [claims EXCEPT ![j] = @ + 1]
  /\ row' = [row EXCEPT ![j] = RowIn("processing", claims[j] + 1)]
  /\ worker' = [worker EXCEPT ![w] =
                  [Idle EXCEPT !.pc = IF j \in Regens THEN "fail" ELSE "start",
                               !.job = j, !.claim = claims[j] + 1]]
  /\ UNCHANGED <<expired, pushed, caller, results, whole, notices, cancels,
                 faults>>

(* ClaimJobByID takes a job only while it is queued.                        *)
ClaimableByID(j) == row[j].status = "queued"

(* HandleAIGeneration -> ProcessJobByID.  Asynq delivers at least once: the *)
(* task stays held until a delivery returns without error.                  *)
DeliverTask(w, j) ==
  /\ worker[w].pc = "idle"
  /\ j \in pushed
  /\ ClaimableByID(j)
  /\ Claim(w, j)

(* A delivery, a redelivery or a retry that finds the job not claimable     *)
(* returns nil, which acknowledges the task.                                *)
DeliverTaskLate(w, j) ==
  /\ worker[w].pc = "idle"
  /\ j \in pushed
  /\ ~ClaimableByID(j)
  /\ pushed' = pushed \ {j}
  /\ UNCHANGED <<row, claims, expired, worker, caller, results, whole, notices,
                 cancels, faults>>

(* Faulty variants: cancelled jobs swept as if queued; failed jobs retried  *)
(* in place; recovery without the age condition; no recovery.               *)
QueuedJobsOrCancelled == {j \in Leaves : row[j].status \in {"queued", "cancelled"}}
QueuedJobsOrFailed    == {j \in Leaves : row[j].status \in {"queued", "failed"}}
StaleJobsAnyAge       == {j \in Leaves : row[j].status = "processing"}
StaleJobsNever        == {}

(* GetNextQueued: a queued job if there is one, else a processing job whose *)
(* started_at is older than the stale timeout; never a full_course job.     *)
QueuedJobs == {j \in Leaves : row[j].status = "queued"}
StaleJobs  == {j \in Leaves : /\ row[j].status = "processing"
                              /\ row[j].started \in 1..expired[j]}

(* HandleAIGenerationPoll -> ProcessNextQueuedJob, scheduled every 5 minutes.*)
Sweep(w) ==
  /\ worker[w].pc = "idle"
  /\ \E j \in IF QueuedJobs # {} THEN QueuedJobs ELSE StaleJobs : Claim(w, j)

(* Time passes: the oldest unexpired claim of a processing job becomes      *)
(* stale.  With the default settings a worker that still holds the claim    *)
(* has met its own Asynq deadline by then and can no longer write.          *)
Expire(j) ==
  /\ row[j].status = "processing"
  /\ expired[j] < claims[j]
  /\ LiveOverrun \/ \A w \in Workers :
       Holds(w) /\ worker[w].job = j => worker[w].claim > expired[j] + 1
  /\ expired' = [expired EXCEPT ![j] = @ + 1]
  /\ UNCHANGED <<row, claims, pushed, worker, caller, results, whole, notices,
                 cancels, faults>>

(***************************************************************************)
(* Processing a job: ProcessOutlineGenerationJob, ProcessLessonGenerationJob*)
(***************************************************************************)
Goto(w, pc) == worker' = [worker EXCEPT ![w].pc = pc]
Finish(w)   == worker' = [worker EXCEPT ![w] = Idle]

(* The worker's copy of its row: what the claim returned, with the status   *)
(* the processing sets.                                                     *)
MyRow(w, s) == RowIn(s, worker[w].claim)

(* checkJobCancelled: a fresh read; a failed read counts as not cancelled.  *)
SeesCancelled(w) == row[worker[w].job].status = "cancelled" /\ UNCHANGED faults
SeesNoCancel(w)  == \/ row[worker[w].job].status # "cancelled" /\ UNCHANGED faults
                    \/ row[worker[w].job].status = "cancelled" /\ Fault

CheckAtStart(w) ==
  /\ worker[w].pc = "start"
  /\ \/ SeesCancelled(w) /\ Finish(w)
     \/ SeesNoCancel(w) /\ Goto(w, "announce")
  /\ UNCHANGED <<row, claims, expired, pushed, caller, results, whole, notices,
                 cancels>>

(* The first progress message, written with the whole row.                  *)
Announce(w) ==
  /\ worker[w].pc = "announce"
  /\ TryUpdate(worker[w].job, MyRow(w, "processing"))
  /\ Goto(w, "gather")
  /\ UNCHANGED <<claims, expired, pushed, caller, results, whole, notices,
                 cancels>>

(* Load the inputs; fail the job when they are missing, else write the      *)
(* progress again.                                                          *)
Gather(w) ==
  /\ worker[w].pc = "gather"
  /\ \/ /\ TryUpdate(worker[w].job, MyRow(w, "processing"))
        /\ Goto(w, "check")
     \/ /\ GenerationMayFail
        /\ Goto(w, "fail")
        /\ UNCHANGED <<row, faults>>
  /\ UNCHANGED <<claims, expired, pushed, caller, results, whole, notices,
                 cancels>>

CheckBeforeAI(w) ==
  /\ worker[w].pc = "check"
  /\ \/ SeesCancelled(w) /\ Goto(w, "cancel")
     \/ SeesNoCancel(w) /\ Goto(w, "generate")
  /\ UNCHANGED <<row, claims, expired, pushed, caller, results, whole, notices,
                 cancels>>

(* markJobCancelled                                                         *)
MarkCancelled(w) ==
  /\ worker[w].pc = "cancel"
  /\ TryUpdate(worker[w].job, MyRow(w, "cancelled"))
  /\ Finish(w)
  /\ UNCHANGED <<claims, expired, pushed, caller, results, whole, notices,
                 cancels>>

(* GetProvider and the AI call.                                             *)
Generate(w) ==
  /\ worker[w].pc = "generate"
  /\ \/ Goto(w, "save")
     \/ GenerationMayFail /\ Goto(w, "fail")
  /\ UNCHANGED <<row, claims, expired, pushed, caller, results, whole, notices,
                 cancels, faults>>

(* Progress and tokens, written with the whole row.                         *)
SaveTokens(w) ==
  /\ worker[w].pc = "save"
  /\ TryUpdate(worker[w].job, MyRow(w, "processing"))
  /\ Goto(w, "store")
  /\ UNCHANGED <<claims, expired, pushed, caller, results, whole, notices,
                 cancels>>

(* Faulty variants: a failed store that still reports completion, and a     *)
(* store retried although its first attempt went through.                   *)
StoreResultIgnoringError(w) ==
  /\ worker[w].pc = "store"
  /\ Goto(w, "complete")
  /\ results' \in {results, [results EXCEPT ![worker[w].job] = @ + 1]}
  /\ UNCHANGED <<row, claims, expired, pushed, caller, whole, notices, cancels,
                 faults>>

StoreResultRetried(w) ==
  /\ worker[w].pc = "store"
  /\ results[worker[w].job] <= MaxClaims  \* keeps the variant finite
  /\ results' = [results EXCEPT ![worker[w].job] = @ + 1]
  /\ Goto(w, "store") \/ Goto(w, "complete")
  /\ UNCHANGED <<row, claims, expired, pushed, caller, whole, notices, cancels,
                 faults>>

(* CreateCompleteOutline, which is one transaction, or the generated lesson:*)
(* a new row every time the job is processed.                               *)
StoreResult(w) ==
  /\ worker[w].pc = "store"
  /\ \/ /\ results' = [results EXCEPT ![worker[w].job] = @ + 1]
        /\ Goto(w, IF worker[w].job \in Lessons THEN "components" ELSE "complete")
     \/ /\ GenerationMayFail
        /\ Goto(w, "fail")
        /\ UNCHANGED results
  /\ UNCHANGED <<row, claims, expired, pushed, caller, whole, notices, cancels,
                 faults>>

(* The components of the lesson, one insert each; one that fails is logged, *)
(* and the lesson stays without it.                                         *)
StoreComponents(w) ==
  /\ worker[w].pc = "components"
  /\ \/ whole' = whole \cup {worker[w].job} /\ UNCHANGED faults
     \/ Fault /\ UNCHANGED whole
  /\ Goto(w, "complete")
  /\ UNCHANGED <<row, claims, expired, pushed, caller, results, notices, cancels>>

(* Mark the job completed.  Only a lesson with a parent goes on to the      *)
(* parent; every other job notifies its user.                               *)
Complete(w) ==
  /\ worker[w].pc = "complete"
  /\ TryUpdate(worker[w].job, MyRow(w, "completed"))
  /\ Goto(w, IF IsChild(worker[w].job) THEN "finalize" ELSE "notify")
  /\ UNCHANGED <<claims, expired, pushed, caller, results, whole, notices,
                 cancels>>

(* Faulty variant: a failed job is queued for another try.                  *)
FailAndRequeue(w) ==
  /\ worker[w].pc = "fail"
  /\ TryUpdate(worker[w].job, MyRow(w, "queued"))
  /\ Goto(w, "notify")
  /\ UNCHANGED <<claims, expired, pushed, caller, results, whole, notices,
                 cancels>>

(* failJob: mark the job failed and notify.  The parent is not looked at.   *)
Fail(w) ==
  /\ worker[w].pc = "fail"
  /\ TryUpdate(worker[w].job, MyRow(w, "failed"))
  /\ Goto(w, "notify")
  /\ UNCHANGED <<claims, expired, pushed, caller, results, whole, notices,
                 cancels>>

Notify(w) ==
  /\ worker[w].pc = "notify"
  /\ notices' = [notices EXCEPT ![worker[w].job] = @ + 1]
  /\ Finish(w)
  /\ UNCHANGED <<row, claims, expired, pushed, caller, results, whole, cancels,
                 faults>>

(* The worker's process stops, its task deadline passes, or a call whose    *)
(* error ends the handler fails: nothing more is written.                   *)
Abandon(w) ==
  /\ worker[w].pc # "idle"
  /\ Fault
  /\ Finish(w)
  /\ UNCHANGED <<row, claims, expired, pushed, caller, results, whole, notices,
                 cancels>>

(***************************************************************************)
(* checkAndCompleteParentJob                                               *)
(***************************************************************************)
MyParent(w) == ParentOf[worker[w].job]

(* Faulty variant: a lesson being processed does not count as pending.      *)
PendingQueuedOnly(p) == {l \in Children(p) : row[l].status = "queued"}

(* FinalizeParentJob's count of children that are not settled.              *)
Pending(p) == {l \in Children(p) : row[l].status \notin Settled}

FailedKids(p) == {l \in Children(p) : row[l].status = "failed"}

(* Faulty variant: a status the table does not have.                        *)
FinalStatusPartial(p) ==
  IF FailedKids(p) # {} THEN "partially_failed" ELSE "completed"

(* Cancelled children count neither as failed nor as pending.               *)
FinalStatus(p) == IF FailedKids(p) # {} THEN "failed" ELSE "completed"

(* FinalizeParentJob: one transaction that locks the parent, returns if it  *)
(* is settled already or a child is pending, and else settles it.           *)
Finalize(w) ==
  /\ worker[w].pc = "finalize"
  /\ LET p == MyParent(w) IN
       \/ /\ row[p].status \in Settled
          /\ Finish(w)
          /\ UNCHANGED row
       \/ /\ row[p].status \notin Settled
          /\ Pending(p) # {}
          /\ Goto(w, "readParent")
          /\ UNCHANGED row
       \/ /\ row[p].status \notin Settled
          /\ Pending(p) = {}
          /\ row' = [row EXCEPT ![p].status = FinalStatus(p)]
          /\ Goto(w, "notifyParent")
  /\ UNCHANGED <<claims, expired, pushed, caller, results, whole, notices,
                 cancels, faults>>

(* Progress of an unfinished course: GetByID, then Update of that copy.     *)
ReadParent(w) ==
  /\ worker[w].pc = "readParent"
  /\ worker' = [worker EXCEPT ![w].pc = "writeParent",
                              ![w].seen = row[MyParent(w)]]
  /\ UNCHANGED <<row, claims, expired, pushed, caller, results, whole, notices,
                 cancels, faults>>

WriteParent(w) ==
  /\ worker[w].pc = "writeParent"
  /\ TryUpdate(MyParent(w), worker[w].seen)
  /\ Finish(w)
  /\ UNCHANGED <<claims, expired, pushed, caller, results, whole, notices,
                 cancels>>

(* NotifyCourseComplete or NotifyCourseFailed.                              *)
NotifyParent(w) ==
  /\ worker[w].pc = "notifyParent"
  /\ notices' = [notices EXCEPT ![MyParent(w)] = @ + 1]
  /\ Finish(w)
  /\ UNCHANGED <<row, claims, expired, pushed, caller, results, whole, cancels,
                 faults>>

-----------------------------------------------------------------------------
CallerStep(c) ==
  \/ CreateBatch(c) \/ CreateBatchFails(c) \/ ListChildren(c)
  \/ \E l \in Lessons : CancelChild(c, l)
  \/ WriteCancelled(c)

ProcessStep(w) ==
  \/ CheckAtStart(w) \/ Announce(w) \/ Gather(w) \/ CheckBeforeAI(w)
  \/ MarkCancelled(w) \/ Generate(w) \/ SaveTokens(w) \/ StoreResult(w)
  \/ StoreComponents(w) \/ Complete(w) \/ Fail(w) \/ Notify(w)
  \/ Finalize(w) \/ ReadParent(w) \/ WriteParent(w) \/ NotifyParent(w)

Next ==
  \/ \E j \in Leaves : RequestJob(j) \/ Expire(j)
  \/ \E c \in Callers, p \in Parents : StartAllLessons(c, p)
  \/ \E c \in Callers, j \in Jobs : ReadJobToCancel(c, j)
  \/ \E c \in Callers : CallerStep(c) \/ DropRequest(c)
  \/ \E w \in Workers, j \in Leaves : DeliverTask(w, j) \/ DeliverTaskLate(w, j)
  \/ \E w \in Workers : Sweep(w) \/ ProcessStep(w) \/ Abandon(w)

Spec == Init /\ [][Next]_vars

(* Requests in progress and claimed jobs are executed, the scheduler keeps  *)
(* sweeping, and time passes.  Nobody has to send a request.                *)
Fairness ==
  /\ \A c \in Callers : WF_vars(CallerStep(c))
  /\ \A w \in Workers : WF_vars(Sweep(w)) /\ WF_vars(ProcessStep(w))
  /\ \A j \in Leaves : WF_vars(Expire(j))

FairSpec == Spec /\ Fairness

(***************************************************************************)
(* Properties                                                              *)
(***************************************************************************)
(* A job is processed by one worker at a time: no delivery, redelivery or   *)
(* stale recovery hands out a job whose worker may still write its row.     *)
(* ClaimJobByID and GetNextQueued promise this; it needs the stale timeout  *)
(* to be no shorter than the task deadline.                                 *)
SingleOwner ==
  \A v, w \in Workers :
    Holds(v) /\ Holds(w) /\ worker[v].job = worker[w].job => v = w

(* A job reported completed has stored its outline or lesson, whatever      *)
(* crashes, lost updates and cancellations came before.                     *)
CompletedHasResult ==
  \A j \in Leaves : row[j].status = "completed" => results[j] > 0

(* A lesson whose generation is reported complete has been stored with all  *)
(* its components.  It does not hold, and no run claims it: a component     *)
(* that cannot be stored is logged, and the handler goes on to complete.    *)
CompletedIsWhole ==
  \A l \in Lessons : row[l].status = "completed" => l \in whole

(* Regeneration of content is bounded by recovery: a job stores at most one *)
(* result per claim, so a duplicate exists only after a stale recovery.     *)
ResultPerClaim == \A j \in Leaves : results[j] <= claims[j]

(* No whole-row write from an old copy ever puts a job back in the queue.   *)
NeverRequeued ==
  [][\A j \in Leaves : row[j].status \notin {"absent", "queued"}
                         => row'[j].status \notin {"absent", "queued"}]_vars

(* A cancellation that lands before any worker claimed the job is final:    *)
(* the job is never processed and never leaves cancelled.                   *)
EarlyCancelSticks ==
  [][\A j \in Leaves : row[j].status = "cancelled" /\ claims[j] = 0
                         => row'[j].status = "cancelled" /\ claims'[j] = 0]_vars

(* A completed or failed job is never reopened, completed or failed again;  *)
(* only a CancelJob that read it earlier can still change it.               *)
OutcomeStable ==
  [][\A j \in Leaves : row[j].status \in {"completed", "failed"}
                         => row'[j].status \in {row[j].status, "cancelled"}]_vars

(* While nothing is cancelled: a course that FinalizeParentJob reports      *)
(* completed has every lesson completed and stored.                         *)
CourseMeansLessons ==
  \A p \in Parents :
    row[p].status = "completed" =>
      \A l \in Children(p) : row[l].status = "completed" /\ results[l] > 0

(* Every job that is asked for is eventually settled: the sweep finds jobs  *)
(* whose push was lost, and the stale timeout finds jobs whose worker died. *)
JobsSettle ==
  \A j \in Leaves : row[j].status \in Open ~> row[j].status \in Settled

(* A full_course job, which tracks overall completion, is eventually        *)
(* settled once it is created.                                              *)
CourseSettles ==
  \A p \in Parents : row[p].status = "processing" ~> row[p].status \in Settled

(* While nothing is cancelled: the user hears of a course's outcome only    *)
(* when no lesson job of it is left to run, and none runs again afterwards, *)
(* even if the stale progress update reopens the course.                    *)
AnnouncedWhenSettled ==
  \A p \in Parents : notices[p] > 0 =>
    \A l \in Children(p) : row[l].status \notin Open

(* The status FinalizeParentJob sets under its lock is not changed again by *)
(* the non-atomic progress update.                                          *)
CourseOutcomeStable ==
  [][\A p \in Parents : row[p].status \in {"completed", "failed"}
                          => row'[p].status = row[p].status]_vars

(* A job that CancelJob reported cancelled stays cancelled.                 *)
CancelSticks ==
  [][\A j \in Jobs : row[j].status = "cancelled"
                       => row'[j].status = "cancelled"]_vars
=============================================================================
