------------------------ MODULE GenerationJobsProofs ------------------------
(***************************************************************************)
(* Proofs about the AI generation job queue, for any number of jobs,       *)
(* courses, workers and requests. Inv places every worker and request; it  *)
(* is inductive on its own and gives type correctness, NeverRequeued and   *)
(* EarlyCancelSticks. OwnInv adds that whoever holds a job has its latest, *)
(* unexpired claim; it needs the stale timeout to be no shorter than the   *)
(* task deadline and gives SingleOwner and OutcomeStable. Stored adds that *)
(* a worker about to report completion has stored its result. ProcessKinds *)
(* and LeafSteps say once what each step can do to the table; the          *)
(* invariants are proved from those summaries.                             *)
(***************************************************************************)
EXTENDS GenerationJobs, FiniteSetTheorems, TLAPS

-----------------------------------------------------------------------------
(* Where a worker can be: off its job only when idle, and in the steps of   *)
(* checkAndCompleteParentJob only for a lesson that has a parent.           *)
ParentPcs == {"finalize", "readParent", "writeParent", "notifyParent"}
Placed ==
  \A w \in Workers :
    /\ worker[w].pc # "idle" => worker[w].job \in Leaves
    /\ worker[w].pc \in ParentPcs => IsChild(worker[w].job)

(* The parts of TypeOK that single steps are checked against, and every     *)
(* program counter a worker can have.                                       *)
RowsTyped    == row \in [Jobs -> Row]
WorkersTyped == worker \in [Workers -> Worker]
CallersTyped == caller \in [Callers -> Caller]
FaultsTyped  == faults \in 0..MaxFaults
Pcs          == {"idle"} \cup HoldPcs \cup ClosePcs

(* Counting up keeps a function into the naturals one.                      *)
LEMMA CountUp ==
  ASSUME NEW S, NEW f \in [S -> Nat], NEW x
  PROVE  [f EXCEPT ![x] = @ + 1] \in [S -> Nat]
<1>1. \A y \in S : [f EXCEPT ![x] = @ + 1][y] \in Nat
  <2>1. TAKE y \in S
  <2>2. f[y] \in Nat
    OBVIOUS
  <2>3. CASE x = y
    BY <2>2, <2>3
  <2>4. CASE x # y
    BY <2>2, <2>4
  <2> QED BY <2>3, <2>4
<1> QED BY <1>1

(* A lesson job with a parent has a full_course job as parent.              *)
LEMMA ParentIsJob == \A l : IsChild(l) => l \in Lessons /\ ParentOf[l] \in Parents
BY JobIdsAssumption DEF IsChild

(* RowIn builds rows.                                                       *)
LEMMA RowInTyped == \A s \in Status \cup {"absent"}, n \in 0..MaxClaims : RowIn(s, n) \in Row
BY DEF RowIn, Row

(* A row is given by its status and its started_at.                         *)
LEMMA RowParts == \A r \in Row : /\ r.status \in Status \cup {"absent"}
                                 /\ r.started \in 0..MaxClaims
                                 /\ r = RowIn(r.status, r.started)
BY DEF RowIn, Row

(* The absent row is typed.                                                 *)
LEMMA NoRowTyped == NoRow \in Row
BY BoundsAssumption DEF NoRow, Row

(* The idle worker is typed.                                                *)
LEMMA IdleTyped == Idle \in Worker
BY NoRowTyped, BoundsAssumption DEF Idle, Worker

(* The parts of a worker's record.                                          *)
LEMMA WorkerParts ==
  ASSUME WorkersTyped, NEW w \in Workers
  PROVE  /\ worker[w].pc \in Pcs
         /\ worker[w].job \in Leaves \cup {NoJob}
         /\ worker[w].claim \in 0..MaxClaims
         /\ worker[w].seen \in Row
BY DEF WorkersTyped, Worker, Pcs

(* The idle request is typed.                                               *)
LEMMA NoCallTyped == NoCall \in Caller
BY NoRowTyped DEF NoCall, Caller, NoKids

(* The parts of a request's record.                                         *)
LEMMA CallerParts ==
  ASSUME CallersTyped, NEW c \in Callers
  PROVE  /\ caller[c].job \in Jobs \cup {NoJob}
         /\ caller[c].copy \in Row
         /\ caller[c].kids \in [Lessons -> Row]
BY DEF CallersTyped, Caller

(* Moving a worker on keeps the types.                                      *)
LEMMA GotoTyped ==
  ASSUME WorkersTyped, NEW w \in Workers, NEW pc \in Pcs, Goto(w, pc)
  PROVE  WorkersTyped'
BY DEF WorkersTyped, Worker, Pcs, Goto

(* Letting a worker go keeps the types.                                     *)
LEMMA FinishTyped ==
  ASSUME WorkersTyped, NEW w \in Workers, Finish(w)
  PROVE  WorkersTyped'
BY IdleTyped DEF WorkersTyped, Finish

(* Ending a request keeps the types.                                        *)
LEMMA NoCallStep ==
  ASSUME CallersTyped, NEW c \in Callers, caller' = [caller EXCEPT ![c] = NoCall]
  PROVE  CallersTyped'
BY NoCallTyped DEF CallersTyped

(* generationJobRepository.Update, whether it succeeds or fails, and a fault*)
(* keep the types.                                                          *)
LEMMA UpdateTyped ==
  ASSUME RowsTyped, FaultsTyped, NEW j, NEW r \in Row, TryUpdate(j, r)
  PROVE  RowsTyped' /\ FaultsTyped'
BY BoundsAssumption DEF RowsTyped, FaultsTyped, TryUpdate, Update, Fault

(* A fault stays within its budget.                                         *)
LEMMA FaultTyped ==
  ASSUME FaultsTyped, Fault
  PROVE  FaultsTyped'
BY BoundsAssumption DEF FaultsTyped, Fault

(* Claiming a job keeps TypeOK.                                             *)
LEMMA ClaimTyped ==
  ASSUME TypeOK, NEW w \in Workers, NEW j \in Leaves, Claim(w, j)
  PROVE  TypeOK'
<1>0. claims[j] \in 0..MaxClaims /\ claims[j] + 1 \in 0..MaxClaims
  BY BoundsAssumption DEF Claim, TypeOK
<1>1. RowsTyped'
  <2>1. RowIn("processing", claims[j] + 1) \in Row
    BY <1>0, RowInTyped DEF Status, Open
  <2> QED BY <2>1 DEF Claim, TypeOK, RowsTyped
<1>2. claims' \in [Leaves -> 0..MaxClaims]
  BY BoundsAssumption DEF Claim, TypeOK
<1>3. WorkersTyped'
  <2>1. [Idle EXCEPT !.pc = IF j \in Regens THEN "fail" ELSE "start",
                     !.job = j, !.claim = claims[j] + 1] \in Worker
    BY <1>0, NoRowTyped, BoundsAssumption DEF Idle, Worker, HoldPcs
  <2> QED BY <2>1 DEF Claim, TypeOK, WorkersTyped
<1> QED BY <1>1, <1>2, <1>3 DEF Claim, TypeOK, RowsTyped, WorkersTyped

(* Every step keeps TypeOK.  Placed is needed for the parent's steps, which *)
(* index the table by the parent of the worker's job.                       *)
LEMMA TypeStep ==
  ASSUME TypeOK, Placed, [Next]_vars
  PROVE  TypeOK'
<1>a. RowsTyped /\ WorkersTyped /\ CallersTyped /\ FaultsTyped
  BY DEF TypeOK, RowsTyped, WorkersTyped, CallersTyped, FaultsTyped
<1> USE <1>a
<1>q. /\ RowIn("queued", 0) \in Row /\ RowIn("processing", 0) \in Row
      /\ RowIn("failed", 0) \in Row
  BY RowInTyped, BoundsAssumption DEF Status, Open, Settled
<1>1. CASE UNCHANGED vars
  BY <1>1 DEF vars, TypeOK
<1>2. ASSUME NEW j \in Leaves, RequestJob(j) PROVE TypeOK'
  BY <1>2, <1>q DEF RequestJob, TypeOK
<1>3. ASSUME NEW j \in Leaves, Expire(j) PROVE TypeOK'
  BY <1>3, BoundsAssumption DEF Expire, TypeOK
<1>4. ASSUME NEW c \in Callers, NEW p \in Parents, StartAllLessons(c, p) PROVE TypeOK'
  <2>1. [NoCall EXCEPT !.pc = "batch", !.job = p] \in Caller
    BY NoRowTyped DEF NoCall, Caller, NoKids, Jobs
  <2> QED
    BY <1>4, <2>1, <1>q DEF StartAllLessons, TypeOK
<1>5. ASSUME NEW c \in Callers, NEW j \in Jobs, ReadJobToCancel(c, j) PROVE TypeOK'
  <2>1. [NoCall EXCEPT !.pc = IF j \in Parents THEN "list" ELSE "cancel",
                       !.job = j, !.copy = row[j]] \in Caller
    BY NoRowTyped DEF NoCall, Caller, NoKids, RowsTyped
  <2> QED
    BY <1>5, <2>1, BoundsAssumption DEF ReadJobToCancel, TypeOK
<1>6. ASSUME NEW c \in Callers, CreateBatch(c) PROVE TypeOK'
  BY <1>6, <1>q, NoCallTyped DEF CreateBatch, TypeOK
<1>7. ASSUME NEW c \in Callers, CreateBatchFails(c) PROVE TypeOK'
  <2>1. notices' \in [Jobs -> Nat] /\ row' \in [Jobs -> Row]
    BY <1>7, <1>q, CountUp DEF CreateBatchFails, TypeOK
  <2> QED
    BY <1>7, <2>1, NoCallTyped, FaultTyped DEF CreateBatchFails, TypeOK, FaultsTyped
<1>8. ASSUME NEW c \in Callers, ListChildren(c) PROVE TypeOK'
  <2>1. [l \in Lessons |-> IF l \in Children(caller[c].job) /\ Cancellable(row[l])
                           THEN row[l] ELSE NoRow] \in [Lessons -> Row]
    BY NoRowTyped DEF RowsTyped, Jobs, Leaves
  <2>2. CallersTyped'
    <3>1. CASE caller' = [caller EXCEPT
                 ![c].pc = "cascade",
                 ![c].kids = [l \in Lessons |->
                    IF l \in Children(caller[c].job) /\ Cancellable(row[l])
                    THEN row[l] ELSE NoRow]]
      BY ZenonT(40), <2>1, <3>1 DEF CallersTyped, Caller
    <3>2. CASE caller' = [caller EXCEPT ![c].pc = "cascade"]
      BY <3>2 DEF CallersTyped, Caller
    <3> QED BY <1>8, <3>1, <3>2 DEF ListChildren
  <2>3. FaultsTyped'
    BY <1>8, FaultTyped DEF ListChildren, FaultsTyped
  <2> QED BY <1>8, <2>2, <2>3 DEF ListChildren, TypeOK, CallersTyped, FaultsTyped
<1>9. ASSUME NEW c \in Callers, NEW l \in Lessons, CancelChild(c, l) PROVE TypeOK'
  <2>1. RowIn("cancelled", caller[c].kids[l].started) \in Row
    BY CallerParts, RowParts, RowInTyped DEF Status, Settled
  <2>2. RowsTyped' /\ FaultsTyped'
    BY <1>9, <2>1, UpdateTyped DEF CancelChild
  <2>3. CallersTyped'
    BY <1>9, NoRowTyped DEF CancelChild, CallersTyped, Caller
  <2> QED BY <1>9, <2>2, <2>3 DEF CancelChild, TypeOK, RowsTyped, FaultsTyped, CallersTyped
<1>10. ASSUME NEW c \in Callers, WriteCancelled(c) PROVE TypeOK'
  <2>1. RowIn("cancelled", caller[c].copy.started) \in Row
    BY CallerParts, RowParts, RowInTyped DEF Status, Settled
  <2>2. RowsTyped' /\ FaultsTyped'
    BY <1>10, <2>1, UpdateTyped DEF WriteCancelled
  <2>3. CallersTyped'
    BY <1>10, NoCallStep DEF WriteCancelled
  <2> QED BY <1>10, <2>2, <2>3 DEF WriteCancelled, TypeOK, RowsTyped, FaultsTyped, CallersTyped
<1>11. ASSUME NEW c \in Callers, DropRequest(c) PROVE TypeOK'
  BY <1>11, FaultTyped, NoCallStep DEF DropRequest, TypeOK, FaultsTyped, CallersTyped
<1>12. ASSUME NEW w \in Workers, NEW j \in Leaves, DeliverTask(w, j) PROVE TypeOK'
  BY <1>12, ClaimTyped DEF DeliverTask
<1>13. ASSUME NEW w \in Workers, NEW j \in Leaves, DeliverTaskLate(w, j) PROVE TypeOK'
  BY <1>13 DEF DeliverTaskLate, TypeOK
<1>14. ASSUME NEW w \in Workers, Sweep(w) PROVE TypeOK'
  BY <1>14, ClaimTyped DEF Sweep, QueuedJobs, StaleJobs
<1>15. ASSUME NEW w \in Workers, Abandon(w) PROVE TypeOK'
  BY <1>15, FaultTyped, FinishTyped DEF Abandon, TypeOK, FaultsTyped, WorkersTyped
<1>16. ASSUME NEW w \in Workers, ProcessStep(w) PROVE TypeOK'
  <2>a. \A s \in Status : MyRow(w, s) \in Row
    BY WorkerParts, RowInTyped DEF MyRow
  <2>b. \A pc \in Pcs : Goto(w, pc) => WorkersTyped'
    BY GotoTyped
  <2>c. Finish(w) => WorkersTyped'
    BY FinishTyped
  <2>d. \A j, s : s \in Status /\ TryUpdate(j, MyRow(w, s)) => RowsTyped' /\ FaultsTyped'
    BY <2>a, UpdateTyped
  <2>1. CASE CheckAtStart(w)
    BY <2>1, <2>b, <2>c, FaultTyped
    DEF CheckAtStart, SeesCancelled, SeesNoCancel, TypeOK, FaultsTyped, WorkersTyped, Pcs, HoldPcs
  <2>2. CASE Announce(w)
    BY <2>2, <2>b, <2>d DEF Announce, TypeOK, FaultsTyped, WorkersTyped, RowsTyped, Pcs, HoldPcs, Status, Open
  <2>3. CASE Gather(w)
    BY <2>3, <2>b, <2>d DEF Gather, TypeOK, FaultsTyped, WorkersTyped, RowsTyped, Pcs, HoldPcs, Status, Open
  <2>4. CASE CheckBeforeAI(w)
    BY <2>4, <2>b, FaultTyped
    DEF CheckBeforeAI, SeesCancelled, SeesNoCancel, TypeOK, FaultsTyped, WorkersTyped, Pcs, HoldPcs
  <2>5. CASE MarkCancelled(w)
    BY <2>5, <2>c, <2>d DEF MarkCancelled, TypeOK, FaultsTyped, WorkersTyped, RowsTyped, Status, Settled
  <2>6. CASE Generate(w)
    BY <2>6, <2>b DEF Generate, TypeOK, WorkersTyped, Pcs, HoldPcs
  <2>7. CASE SaveTokens(w)
    BY <2>7, <2>b, <2>d DEF SaveTokens, TypeOK, FaultsTyped, WorkersTyped, RowsTyped, Pcs, HoldPcs, Status, Open
  <2>8. CASE StoreResult(w)
    BY <2>8, <2>b DEF StoreResult, TypeOK, WorkersTyped, Pcs, HoldPcs
  <2>16. CASE StoreComponents(w)
    <3>1. worker[w].job \in Leaves
      BY <2>16 DEF StoreComponents, Placed
    <3>2. whole' \subseteq Leaves
      BY <2>16, <3>1 DEF StoreComponents, TypeOK
    <3> QED
      BY <2>16, <3>2, <2>b, FaultTyped
         DEF StoreComponents, TypeOK, FaultsTyped, WorkersTyped, Pcs, HoldPcs
  <2>9. CASE Complete(w)
    BY <2>9, <2>b, <2>d DEF Complete, TypeOK, FaultsTyped, WorkersTyped, RowsTyped, Pcs, ClosePcs, Status, Settled
  <2>10. CASE Fail(w)
    BY <2>10, <2>b, <2>d DEF Fail, TypeOK, FaultsTyped, WorkersTyped, RowsTyped, Pcs, ClosePcs, Status, Settled
  <2>11. CASE Notify(w)
    <3>1. notices' \in [Jobs -> Nat]
      BY <2>11, CountUp DEF Notify, TypeOK
    <3> QED BY <2>11, <3>1, <2>c DEF Notify, TypeOK, WorkersTyped
  <2>12. CASE Finalize(w)
    <3>1. MyParent(w) \in Jobs
      BY <2>12, ParentIsJob DEF Finalize, Placed, ParentPcs, MyParent, Jobs
    <3>2. WorkersTyped'
      BY <2>12, <2>b, <2>c DEF Finalize, Pcs, ClosePcs
    <3>3. RowsTyped'
      BY <2>12, <3>1, RowParts DEF Finalize, FinalStatus, RowsTyped, Row, Status, Settled
    <3> QED BY <2>12, <3>2, <3>3 DEF Finalize, TypeOK, WorkersTyped, RowsTyped
  <2>13. CASE ReadParent(w)
    <3>1. row[MyParent(w)] \in Row
      BY <2>13, ParentIsJob DEF ReadParent, Placed, ParentPcs, MyParent, Jobs, RowsTyped
    <3>2. WorkersTyped'
      BY ZenonT(40), <2>13, <3>1 DEF ReadParent, WorkersTyped, Worker, ClosePcs
    <3> QED BY <2>13, <3>2 DEF ReadParent, TypeOK, WorkersTyped
  <2>14. CASE WriteParent(w)
    BY <2>14, <2>c, WorkerParts, UpdateTyped
    DEF WriteParent, TypeOK, FaultsTyped, WorkersTyped, RowsTyped
  <2>15. CASE NotifyParent(w)
    <3>1. notices' \in [Jobs -> Nat]
      BY <2>15, CountUp DEF NotifyParent, TypeOK
    <3> QED BY <2>15, <3>1, <2>c DEF NotifyParent, TypeOK, WorkersTyped
  <2> QED
    BY <1>16, <2>1, <2>2, <2>3, <2>4, <2>5, <2>6, <2>7, <2>8, <2>9, <2>10, <2>11,
       <2>12, <2>13, <2>14, <2>15, <2>16 DEF ProcessStep
<1> QED
  BY <1>1, <1>2, <1>3, <1>4, <1>5, <1>6, <1>7, <1>8, <1>9, <1>10, <1>11, <1>12,
     <1>13, <1>14, <1>15, <1>16 DEF Next, CallerStep

(* A worker's claim is one its job really had.                              *)
Claimed ==
  \A w \in Workers : worker[w].pc # "idle" => worker[w].claim \in 1..claims[worker[w].job]

(* A job that is absent or queued was never claimed: nothing requeues.      *)
Unclaimed ==
  \A j \in Leaves : row[j].status \in {"absent", "queued"} => claims[j] = 0

(* Lesson jobs of a course exist only after the course's parent job.        *)
Family ==
  \A l \in Lessons : IsChild(l) /\ row[ParentOf[l]].status = "absent" => row[l].status = "absent"

(* The parent copy a worker will write back was read from a real row.       *)
SeenParent ==
  \A w \in Workers : worker[w].pc = "writeParent" => worker[w].seen.status # "absent"

(* A request works on an existing job, cascades only on a full_course job,  *)
(* creates a batch of lesson jobs that do not exist yet, and cancels only   *)
(* children that exist.                                                     *)
CallersPlaced ==
  \A c \in Callers :
    /\ caller[c].pc # "idle" => caller[c].job \in Jobs /\ row[caller[c].job].status # "absent"
    /\ caller[c].pc \in {"batch", "list", "cascade"} => caller[c].job \in Parents
    /\ caller[c].pc = "batch" => \A l \in Children(caller[c].job) : row[l].status = "absent"
    /\ \A l \in Lessons : caller[c].kids[l] # NoRow => row[l].status # "absent"

(* A course is created by one request.                                      *)
OneBatch ==
  \A c, d \in Callers : /\ caller[c].pc = "batch" /\ caller[d].pc = "batch"
                        /\ caller[c].job = caller[d].job
                        => c = d

(* The inductive invariant of the job queue under every setting.            *)
Inv == /\ TypeOK /\ Placed /\ Claimed /\ Unclaimed /\ Family /\ SeenParent
       /\ CallersPlaced /\ OneBatch

(* How a processing step moves its worker.                                  *)
Moves(w) ==
  \/ Finish(w)
  \/ \E pc \in Pcs \ {"writeParent"} :
       /\ Goto(w, pc)
       /\ pc \in HoldPcs => Holds(w)
       /\ pc \in ParentPcs => IsChild(worker[w].job)
  \/ /\ IsChild(worker[w].job)
     /\ worker[w].pc \notin HoldPcs
     /\ worker' = [worker EXCEPT ![w].pc = "writeParent", ![w].seen = row[MyParent(w)]]

(* What a worker that holds its job does to the table: it writes its own    *)
(* row, never as queued, and lets go of the job with every other status than*)
(* processing.                                                              *)
OwnWrite(w) ==
  /\ Holds(w)
  /\ \E s \in Status \ {"queued"} :
       /\ s # "processing" => ~Holds(w)'
       /\ s = "completed" => worker[w].pc = "complete"
       /\ s = "cancelled" => worker[w].pc = "cancel"
       /\ row' = [row EXCEPT ![worker[w].job] = MyRow(w, s)]

(* What a worker that has let go of its lesson does: it writes the parent.  *)
ParentWrite(w) ==
  /\ ~Holds(w)
  /\ IsChild(worker[w].job)
  /\ \E r \in Row : r.status # "absent" /\ row' = [row EXCEPT ![MyParent(w)] = r]

(* Whether a worker holds its job follows from where it goes.               *)
LEMMA GotoHolds ==
  ASSUME WorkersTyped, NEW w \in Workers, NEW pc, Goto(w, pc)
  PROVE  Holds(w)' <=> pc \in HoldPcs
BY DEF Goto, Holds, WorkersTyped, Worker

(* A worker that is let go holds nothing.                                   *)
LEMMA FinishHolds ==
  ASSUME WorkersTyped, NEW w \in Workers, Finish(w)
  PROVE  ~Holds(w)'
BY DEF Finish, Idle, Holds, HoldPcs, WorkersTyped

(* Every processing step moves the worker forward and writes nothing, its   *)
(* own row or its parent's row.  The proofs below need no more than this.   *)
LEMMA ProcessKinds ==
  ASSUME TypeOK, Placed, SeenParent, NEW w \in Workers, ProcessStep(w)
  PROVE  /\ worker[w].pc # "idle"
         /\ Moves(w)
         /\ row' = row \/ OwnWrite(w) \/ ParentWrite(w)
         /\ UNCHANGED <<claims, expired, caller, cancels>>
<1>a. WorkersTyped /\ RowsTyped
  BY DEF TypeOK, WorkersTyped, RowsTyped
<1>b. \A pc \in Pcs : Goto(w, pc) => (Holds(w)' <=> pc \in HoldPcs)
  BY <1>a, GotoHolds
<1>c. Finish(w) => ~Holds(w)'
  BY <1>a, FinishHolds
<1>1. CASE CheckAtStart(w)
  BY <1>1 DEF CheckAtStart, Moves, Holds, HoldPcs, ClosePcs, Pcs, ParentPcs
<1>2. CASE Announce(w)
  BY <1>2, <1>b DEF Announce, Moves, OwnWrite, TryUpdate, Update, Holds, HoldPcs, ClosePcs, Pcs, ParentPcs, Status, Open
<1>3. CASE Gather(w)
  BY <1>3, <1>b DEF Gather, Moves, OwnWrite, TryUpdate, Update, Holds, HoldPcs, ClosePcs, Pcs, ParentPcs, Status, Open
<1>4. CASE CheckBeforeAI(w)
  BY <1>4 DEF CheckBeforeAI, Moves, Holds, HoldPcs, ClosePcs, Pcs, ParentPcs
<1>5. CASE MarkCancelled(w)
  BY <1>5, <1>c DEF MarkCancelled, Moves, OwnWrite, TryUpdate, Update, Holds, HoldPcs, Status, Settled
<1>6. CASE Generate(w)
  BY <1>6 DEF Generate, Moves, Holds, HoldPcs, ClosePcs, Pcs, ParentPcs
<1>7. CASE SaveTokens(w)
  BY <1>7, <1>b DEF SaveTokens, Moves, OwnWrite, TryUpdate, Update, Holds, HoldPcs, ClosePcs, Pcs, ParentPcs, Status, Open
<1>8. CASE StoreResult(w)
  BY <1>8 DEF StoreResult, Moves, Holds, HoldPcs, ClosePcs, Pcs, ParentPcs
<1>16. CASE StoreComponents(w)
  BY <1>16 DEF StoreComponents, Moves, Holds, HoldPcs, ClosePcs, Pcs, ParentPcs
<1>9. CASE Complete(w)
  BY <1>9, <1>b DEF Complete, Moves, OwnWrite, TryUpdate, Update, Holds, HoldPcs, ClosePcs, Pcs, ParentPcs, Status, Settled
<1>10. CASE Fail(w)
  BY <1>10, <1>b DEF Fail, Moves, OwnWrite, TryUpdate, Update, Holds, HoldPcs, ClosePcs, Pcs, ParentPcs, Status, Settled
<1>11. CASE Notify(w)
  BY <1>11 DEF Notify, Moves
<1>12. CASE Finalize(w)
  <2>1. /\ worker[w].pc = "finalize" /\ IsChild(worker[w].job) /\ ~Holds(w)
        /\ MyParent(w) \in Jobs
    BY <1>12, ParentIsJob DEF Finalize, Placed, ParentPcs, Holds, HoldPcs, MyParent, Jobs
  <2>2. row' = row \/ ParentWrite(w)
    <3>1. CASE row' = [row EXCEPT ![MyParent(w)].status = FinalStatus(MyParent(w))]
      <4> DEFINE r == RowIn(FinalStatus(MyParent(w)), row[MyParent(w)].started)
      <4>1. FinalStatus(MyParent(w)) \in Status \ {"absent"}
        BY DEF FinalStatus, Status, Settled, Open
      <4>2. row[MyParent(w)] \in Row
        BY <1>a, <2>1 DEF RowsTyped
      <4>3. row' = [row EXCEPT ![MyParent(w)] = r]
        <5>1. [row[MyParent(w)] EXCEPT !.status = FinalStatus(MyParent(w))] = r
          BY <4>2 DEF Row, RowIn
        <5> QED BY <3>1, <5>1
      <4>4. r \in Row /\ r.status # "absent"
        BY <4>1, <4>2, RowInTyped, RowParts DEF RowIn
      <4> HIDE DEF r
      <4> QED BY <2>1, <4>3, <4>4 DEF ParentWrite
    <3> QED BY <1>12, <3>1 DEF Finalize
  <2>3. Moves(w)
    BY <1>12, <2>1 DEF Finalize, Moves, ClosePcs, HoldPcs, Pcs
  <2> QED BY <1>12, <2>1, <2>2, <2>3 DEF Finalize
<1>13. CASE ReadParent(w)
  BY <1>13 DEF ReadParent, Moves, Placed, ParentPcs, HoldPcs
<1>14. CASE WriteParent(w)
  <2>1. worker[w].seen \in Row /\ worker[w].seen.status # "absent"
    BY <1>14, <1>a, WorkerParts DEF WriteParent, SeenParent
  <2> QED
    BY <1>14, <2>1 DEF WriteParent, Moves, ParentWrite, TryUpdate, Update, Placed, ParentPcs, Holds, HoldPcs
<1>15. CASE NotifyParent(w)
  BY <1>15 DEF NotifyParent, Moves
<1> QED
  BY <1>1, <1>2, <1>3, <1>4, <1>5, <1>6, <1>7, <1>8, <1>9, <1>10, <1>11, <1>12, <1>13,
     <1>14, <1>15, <1>16 DEF ProcessStep

(* Inv without TypeOK.                                                      *)
Rest == Placed /\ Claimed /\ Unclaimed /\ Family /\ SeenParent /\ CallersPlaced /\ OneBatch

(* Processing steps keep Rest.                                              *)
LEMMA WorkerRest ==
  ASSUME Inv, NEW w \in Workers, Moves(w), worker[w].pc # "idle",
         row' = row \/ OwnWrite(w) \/ ParentWrite(w),
         UNCHANGED <<claims, expired, caller>>
  PROVE  Rest'
<1>a. WorkersTyped /\ RowsTyped
  BY DEF Inv, TypeOK, WorkersTyped, RowsTyped
<1>b. \A v \in Workers : v # w => worker'[v] = worker[v]
  BY <1>a DEF WorkersTyped, Moves, Goto, Finish
<1>c. /\ worker'[w].pc \in Pcs
      /\ worker'[w].pc # "idle" => /\ worker'[w].job = worker[w].job
                                  /\ worker'[w].claim = worker[w].claim
      /\ worker'[w].pc \in ParentPcs => IsChild(worker[w].job)
      /\ worker'[w].pc = "writeParent" =>
           IsChild(worker[w].job) /\ worker'[w].seen = row[MyParent(w)]
  BY <1>a DEF Moves, Goto, Finish, Idle, WorkersTyped, Worker, Pcs, ClosePcs, ParentPcs
<1>d. /\ worker[w].job \in Leaves
      /\ claims[worker[w].job] # 0
      /\ row[worker[w].job].status \notin {"absent", "queued"}
  BY <1>a, WorkerParts DEF Inv, TypeOK, Placed, Claimed, Unclaimed
<1>e. IsChild(worker[w].job) => MyParent(w) \in Parents /\ row[MyParent(w)].status # "absent"
  BY <1>d, ParentIsJob DEF MyParent, Inv, Family
<1>f. \A j \in Jobs : row'[j] # row[j] =>
        /\ row[j].status # "absent"
        /\ row'[j].status # "absent"
        /\ j \in Leaves => row'[j].status # "queued"
  <2>1. CASE OwnWrite(w)
    BY <1>a, <1>d, <2>1 DEF OwnWrite, MyRow, RowIn, RowsTyped, Status, Settled, Open
  <2>2. CASE ParentWrite(w)
    BY <1>a, <1>e, <2>2, JobIdsAssumption DEF ParentWrite, RowsTyped
  <2> QED BY <2>1, <2>2
<1>1. Placed'
  BY <1>b, <1>c, <1>d DEF Inv, Placed, ParentPcs, IsChild
<1>2. Claimed'
  BY <1>b, <1>c DEF Inv, Claimed
<1>3. Unclaimed'
  BY <1>f DEF Inv, Unclaimed, Jobs
<1>4. Family'
  BY <1>f, ParentIsJob DEF Inv, Family, Jobs, Leaves, IsChild
<1>5. SeenParent'
  BY <1>b, <1>c, <1>e DEF Inv, SeenParent
<1>6. CallersPlaced'
  BY <1>f DEF Inv, CallersPlaced, Children, Jobs, Leaves
<1>7. OneBatch'
  BY DEF Inv, OneBatch
<1> QED BY <1>1, <1>2, <1>3, <1>4, <1>5, <1>6, <1>7 DEF Rest

(* Claims keep Rest.                                                        *)
LEMMA ClaimRest ==
  ASSUME Inv, NEW w \in Workers, NEW j \in Leaves, worker[w].pc = "idle", Claim(w, j),
         row[j].status # "absent"
  PROVE  Rest'
<1>a. WorkersTyped /\ RowsTyped
  BY DEF Inv, TypeOK, WorkersTyped, RowsTyped
<1>b. /\ \A v \in Workers : v # w => worker'[v] = worker[v]
      /\ worker'[w].pc \in HoldPcs
      /\ worker'[w].job = j
      /\ worker'[w].claim = claims[j] + 1
  BY <1>a DEF Claim, Idle, HoldPcs, WorkersTyped
<1>c. /\ claims'[j] = claims[j] + 1
      /\ \A i \in Leaves : i # j => claims'[i] = claims[i]
      /\ \A i \in Leaves : claims[i] \in Nat
      /\ UNCHANGED caller
  BY BoundsAssumption DEF Claim, Inv, TypeOK
<1>d. /\ row'[j].status = "processing"
      /\ \A i \in Jobs : i # j => row'[i] = row[i]
  BY <1>a DEF Claim, RowIn, RowsTyped, Jobs
<1>1. Placed'
  BY <1>b DEF Inv, Placed, HoldPcs, ParentPcs, IsChild
<1>2. Claimed'
  <2>1. SUFFICES ASSUME NEW v \in Workers
                 PROVE  (worker[v].pc # "idle" => worker[v].claim \in 1..claims[worker[v].job])'
    BY DEF Claimed
  <2>2. CASE v = w
    BY <1>b, <1>c, <2>2
  <2>3. CASE v # w
    BY <1>b, <1>c, <2>3 DEF Inv, Claimed, Placed
  <2> QED BY <2>2, <2>3
<1>3. Unclaimed'
  BY <1>c, <1>d DEF Inv, Unclaimed, Jobs
<1>4. Family'
  BY <1>d, ParentIsJob DEF Inv, Family, Jobs, Leaves, IsChild
<1>5. SeenParent'
  BY <1>b DEF Inv, SeenParent, HoldPcs
<1>6. CallersPlaced'
  BY <1>c, <1>d DEF Inv, CallersPlaced, Children, Jobs, Leaves
<1>7. OneBatch'
  BY <1>c DEF Inv, OneBatch
<1> QED BY <1>1, <1>2, <1>3, <1>4, <1>5, <1>6, <1>7 DEF Rest

(* Requests in progress keep Rest.                                          *)
LEMMA CallerRest ==
  ASSUME Inv, NEW c \in Callers, CallerStep(c) \/ DropRequest(c)
  PROVE  Rest'
<1>a. WorkersTyped /\ RowsTyped /\ CallersTyped
  BY DEF Inv, TypeOK, WorkersTyped, RowsTyped, CallersTyped
<1>b. UNCHANGED <<claims, worker>>
  BY DEF CallerStep, DropRequest, CreateBatch, CreateBatchFails, ListChildren, CancelChild, WriteCancelled
<1>c. \A d \in Callers : d # c => caller'[d] = caller[d]
  BY <1>a DEF CallersTyped, CallerStep, DropRequest, CreateBatch, CreateBatchFails, ListChildren, CancelChild, WriteCancelled
<1>d. /\ caller'[c].pc # "idle" => caller'[c].job = caller[c].job
      /\ caller'[c].pc \in {"idle", "cascade"}
      /\ caller'[c].pc = "cascade" => caller[c].pc \in {"list", "cascade"}
      /\ \A l \in Lessons : caller'[c].kids[l] # NoRow =>
           row[l].status # "absent"
  <2>1. CASE caller' = [caller EXCEPT ![c] = NoCall]
    BY <1>a, <2>1 DEF NoCall, NoKids, CallersTyped
  <2>2. CASE ListChildren(c)
    <3>1. CASE caller' = [caller EXCEPT ![c].pc = "cascade"]
      BY <1>a, <2>2, <3>1 DEF ListChildren, CallersTyped, Caller, Inv, CallersPlaced
    <3>2. CASE caller' # [caller EXCEPT ![c].pc = "cascade"]
      BY <1>a, <2>2, <3>2 DEF ListChildren, CallersTyped, Caller, Cancellable, Open
    <3> QED BY <3>1, <3>2
  <2>3. ASSUME NEW l \in Lessons, CancelChild(c, l)
        PROVE  <1>d!:
    BY <1>a, <2>3 DEF CancelChild, CallersTyped, Caller, Inv, CallersPlaced
  <2> QED
    BY <2>1, <2>2, <2>3 DEF CallerStep, DropRequest, CreateBatch, CreateBatchFails, WriteCancelled
<1>e. \A j \in Jobs : row'[j] # row[j] =>
        \/ /\ j \in Lessons /\ IsChild(j) /\ row[j].status = "absent"
           /\ row[ParentOf[j]].status # "absent"
           /\ caller[c].pc = "batch" /\ caller[c].job = ParentOf[j]
           /\ caller'[c].pc = "idle"
        \/ row[j].status # "absent" /\ row'[j].status \notin {"absent", "queued"}
  <2>1. CASE CreateBatch(c)
    BY <1>a, <2>1, JobIdsAssumption DEF CreateBatch, Children, IsChild, RowsTyped, Inv, CallersPlaced, CallersTyped, NoCall
  <2>2. CASE CreateBatchFails(c)
    BY <1>a, <2>2 DEF CreateBatchFails, RowsTyped, RowIn, Inv, CallersPlaced
  <2>3. CASE ListChildren(c) \/ DropRequest(c)
    BY <2>3 DEF ListChildren, DropRequest
  <2>4. ASSUME NEW l \in Lessons, CancelChild(c, l) PROVE <1>e!:
    BY <1>a, <2>4 DEF CancelChild, TryUpdate, Update, RowsTyped, RowIn, Inv, CallersPlaced
  <2>5. CASE WriteCancelled(c)
    BY <1>a, <2>5 DEF WriteCancelled, TryUpdate, Update, RowsTyped, RowIn, Inv, CallersPlaced
  <2> QED BY <2>1, <2>2, <2>3, <2>4, <2>5 DEF CallerStep
<1>1. Placed'
  BY <1>b DEF Inv, Placed, IsChild
<1>2. Claimed'
  BY <1>b DEF Inv, Claimed
<1>3. Unclaimed'
  BY <1>b, <1>e DEF Inv, Unclaimed, Jobs
<1>4. Family'
  BY <1>e, ParentIsJob DEF Inv, Family, Jobs, Leaves, IsChild
<1>5. SeenParent'
  BY <1>b DEF Inv, SeenParent
<1>6. CallersPlaced'
  BY <1>c, <1>d, <1>e DEF Inv, CallersPlaced, Children, Jobs, Leaves, OneBatch
<1>7. OneBatch'
  BY <1>c, <1>d DEF Inv, OneBatch
<1> QED BY <1>1, <1>2, <1>3, <1>4, <1>5, <1>6, <1>7 DEF Rest

(* New requests keep Rest.                                                  *)
LEMMA RequestRest ==
  ASSUME Inv, NEW j \in Leaves, RequestJob(j)
  PROVE  Rest'
<1>a. \A i \in Jobs : i # j => row'[i] = row[i]
  BY DEF RequestJob, Inv, TypeOK
<1>b. /\ row[j].status = "absent" /\ row'[j].status = "queued"
      /\ ~IsChild(j) /\ j \in Jobs
      /\ UNCHANGED <<claims, worker, caller>>
  BY DEF RequestJob, Inv, TypeOK, RowIn, Jobs
<1>c. j \notin Parents
  BY JobIdsAssumption
<1>1. Placed' /\ Claimed' /\ SeenParent' /\ OneBatch'
  BY <1>b DEF Inv, Placed, IsChild, Claimed, SeenParent, OneBatch
<1>2. Unclaimed'
  BY <1>a, <1>b DEF Inv, Unclaimed, Jobs
<1>3. Family'
  BY <1>a, <1>b, <1>c, ParentIsJob DEF Inv, Family, Jobs, Leaves, IsChild
<1>4. CallersPlaced'
  <2>1. \A c \in Callers : caller[c].pc = "batch" => j \notin Children(caller[c].job)
    BY <1>b, <1>c, JobIdsAssumption DEF Inv, CallersPlaced, Children, IsChild, Jobs
  <2> QED BY <1>a, <1>b, <2>1 DEF Inv, CallersPlaced, Children, Jobs, Leaves
<1> QED BY <1>1, <1>2, <1>3, <1>4 DEF Rest

(* GenerateAllLessons keeps Rest.                                           *)
LEMMA StartRest ==
  ASSUME Inv, NEW c \in Callers, NEW p \in Parents, StartAllLessons(c, p)
  PROVE  Rest'
<1>a. /\ row[p].status = "absent" /\ row'[p].status = "processing"
      /\ p \in Jobs /\ p \notin Leaves
      /\ \A i \in Jobs : i # p => row'[i] = row[i]
      /\ UNCHANGED <<claims, worker>>
  BY JobIdsAssumption DEF StartAllLessons, Inv, TypeOK, RowIn, Jobs
<1>b. /\ \A d \in Callers : d # c => caller'[d] = caller[d]
      /\ caller'[c].pc = "batch" /\ caller'[c].job = p /\ caller'[c].kids = NoKids
  BY DEF StartAllLessons, Inv, TypeOK, NoCall
<1>c. \A l \in Children(p) : row[l].status = "absent"
  BY <1>a, JobIdsAssumption DEF Children, IsChild, Inv, Family, Jobs
<1>1. Placed' /\ Claimed' /\ SeenParent'
  BY <1>a DEF Inv, Placed, IsChild, Claimed, SeenParent
<1>2. Unclaimed'
  BY <1>a DEF Inv, Unclaimed, Jobs
<1>3. Family'
  BY <1>a, ParentIsJob DEF Inv, Family, Jobs, Leaves, IsChild
<1>4. CallersPlaced'
  BY <1>a, <1>b, <1>c DEF Inv, CallersPlaced, Children, NoKids, Jobs, Leaves
<1>5. OneBatch'
  BY <1>a, <1>b DEF Inv, OneBatch, CallersPlaced
<1> QED BY <1>1, <1>2, <1>3, <1>4, <1>5 DEF Rest

(* A CancelJob that was let in keeps Rest.                                  *)
LEMMA ReadRest ==
  ASSUME Inv, NEW c \in Callers, NEW j \in Jobs, ReadJobToCancel(c, j)
  PROVE  Rest'
<1>a. /\ \A d \in Callers : d # c => caller'[d] = caller[d]
      /\ caller'[c].pc = (IF j \in Parents THEN "list" ELSE "cancel")
      /\ caller'[c].job = j /\ caller'[c].kids = NoKids
      /\ row[j].status # "absent"
      /\ UNCHANGED <<row, claims, worker>>
  BY DEF ReadJobToCancel, Inv, TypeOK, NoCall, Cancellable, Open
<1>1. Placed' /\ Claimed' /\ SeenParent' /\ Unclaimed' /\ Family'
  BY <1>a DEF Inv, Placed, IsChild, Claimed, SeenParent, Unclaimed, Family
<1>2. CallersPlaced'
  BY <1>a DEF Inv, CallersPlaced, Children, NoKids
<1>3. OneBatch'
  BY <1>a DEF Inv, OneBatch
<1> QED BY <1>1, <1>2, <1>3 DEF Rest

(* So does a step that touches none of it.                                  *)
LEMMA QuietRest ==
  ASSUME Inv, UNCHANGED <<row, claims, worker, caller>>
  PROVE  Rest'
BY DEF Inv, Rest, Placed, IsChild, Claimed, SeenParent, Unclaimed, Family, CallersPlaced,
       Children, OneBatch

(* Inv is inductive.                                                        *)
LEMMA InvStep ==
  ASSUME Inv, [Next]_vars
  PROVE  Inv'
<1>1. TypeOK'
  BY TypeStep DEF Inv
<1>2. Rest'
  <2>1. CASE UNCHANGED vars
    BY <2>1, QuietRest DEF vars
  <2>2. ASSUME NEW j \in Leaves, RequestJob(j) PROVE Rest'
    BY <2>2, RequestRest
  <2>3. ASSUME NEW j \in Leaves, Expire(j) PROVE Rest'
    BY <2>3, QuietRest DEF Expire
  <2>4. ASSUME NEW c \in Callers, NEW p \in Parents, StartAllLessons(c, p) PROVE Rest'
    BY <2>4, StartRest
  <2>5. ASSUME NEW c \in Callers, NEW j \in Jobs, ReadJobToCancel(c, j) PROVE Rest'
    BY <2>5, ReadRest
  <2>6. ASSUME NEW c \in Callers, CallerStep(c) \/ DropRequest(c) PROVE Rest'
    BY <2>6, CallerRest
  <2>7. ASSUME NEW w \in Workers, NEW j \in Leaves, DeliverTask(w, j) PROVE Rest'
    BY <2>7, ClaimRest DEF DeliverTask, ClaimableByID
  <2>8. ASSUME NEW w \in Workers, NEW j \in Leaves, DeliverTaskLate(w, j) PROVE Rest'
    BY <2>8, QuietRest DEF DeliverTaskLate
  <2>9. ASSUME NEW w \in Workers, Sweep(w) PROVE Rest'
    BY <2>9, ClaimRest DEF Sweep, QueuedJobs, StaleJobs
  <2>10. ASSUME NEW w \in Workers, Abandon(w) PROVE Rest'
    BY <2>10, WorkerRest DEF Abandon, Moves
  <2>11. ASSUME NEW w \in Workers, ProcessStep(w) PROVE Rest'
    BY <2>11, ProcessKinds, WorkerRest DEF Inv
  <2> QED
    BY <2>1, <2>2, <2>3, <2>4, <2>5, <2>6, <2>7, <2>8, <2>9, <2>10, <2>11 DEF Next
<1> QED BY <1>1, <1>2 DEF Inv, Rest

(* The conjunction of TypeOK and the placement of workers and requests holds*)
(* in every reachable state, whatever the timeouts and the number of faults.*)
THEOREM Invariance == Spec => []Inv
<1>1. Init => Inv
  <2>1. Init => TypeOK
    BY NoRowTyped, IdleTyped, NoCallTyped, BoundsAssumption DEF Init, TypeOK
  <2>2. Init => Rest
    <3> SUFFICES ASSUME Init PROVE Rest
      OBVIOUS
    <3>1. \A w \in Workers : worker[w].pc = "idle"
      BY DEF Init, Idle
    <3>2. \A c \in Callers : caller[c].pc = "idle" /\ \A l \in Lessons : caller[c].kids[l] = NoRow
      BY DEF Init, NoCall, NoKids
    <3>3. \A j \in Jobs : row[j].status = "absent"
      BY DEF Init, NoRow
    <3>4. Placed /\ Claimed /\ SeenParent
      BY <3>1 DEF Placed, Claimed, SeenParent, ParentPcs
    <3>5. Unclaimed /\ Family
      BY <3>3 DEF Init, Unclaimed, Family, Jobs, Leaves
    <3>6. CallersPlaced /\ OneBatch
      BY <3>2 DEF CallersPlaced, OneBatch
    <3> QED BY <3>4, <3>5, <3>6 DEF Rest
  <2> QED BY <2>1, <2>2 DEF Inv, Rest
<1>2. Inv /\ [Next]_vars => Inv'
  BY InvStep
<1> QED BY <1>1, <1>2, PTL DEF Spec

(* Every variable of the job queue keeps its type: no write stores a status *)
(* or a claim the table does not know.                                      *)
THEOREM TypeCorrect == Spec => []TypeOK
<1>1. Inv => TypeOK
  BY DEF Inv
<1> QED BY <1>1, Invariance, PTL

(* Worker w takes job j from the queue or from a stale claim.               *)
Taken(w, j) == /\ worker[w].pc = "idle"
               /\ Claim(w, j)
               /\ row[j].status = "queued" \/ j \in StaleJobs

(* All that can happen to a claimable job's row in one step.                *)
LeafStep(j) ==
  \/ row'[j] = row[j] /\ claims'[j] = claims[j]
  \/ /\ row[j].status = "absent" /\ row'[j].status = "queued"
     /\ UNCHANGED <<claims, worker>>
  \/ \E w \in Workers : Taken(w, j)
  \/ /\ \E w \in Workers : ProcessStep(w) /\ OwnWrite(w) /\ worker[w].job = j
     /\ UNCHANGED claims
  \/ /\ row[j].status # "absent" /\ row'[j].status = "cancelled"
     /\ UNCHANGED <<claims, worker>>

(* LeafStep covers every step of the system.                                *)
LEMMA LeafSteps ==
  ASSUME Inv, [Next]_vars, NEW j \in Leaves
  PROVE  LeafStep(j)
<1> USE DEF LeafStep
<1>a. RowsTyped /\ claims \in [Leaves -> 0..MaxClaims] /\ j \in Jobs /\ j \notin Parents
  BY JobIdsAssumption DEF Inv, TypeOK, RowsTyped, Jobs
<1>b. ASSUME NEW w \in Workers, NEW i \in Leaves, Taken(w, i) PROVE LeafStep(j)
  BY <1>a, <1>b DEF Taken, Claim, RowsTyped
<1>1. CASE UNCHANGED vars
  BY <1>1 DEF vars
<1>2. ASSUME NEW i \in Leaves, RequestJob(i) PROVE LeafStep(j)
  BY <1>2, <1>a DEF RequestJob, RowsTyped, RowIn
<1>3. ASSUME NEW i \in Leaves, Expire(i) PROVE LeafStep(j)
  BY <1>3 DEF Expire
<1>4. ASSUME NEW c \in Callers, NEW p \in Parents, StartAllLessons(c, p) PROVE LeafStep(j)
  BY <1>4, <1>a DEF StartAllLessons, RowsTyped
<1>5. ASSUME NEW c \in Callers, NEW i \in Jobs, ReadJobToCancel(c, i) PROVE LeafStep(j)
  BY <1>5 DEF ReadJobToCancel
<1>6. ASSUME NEW c \in Callers, CreateBatch(c) PROVE LeafStep(j)
  BY <1>6, <1>a DEF CreateBatch, RowsTyped, RowIn, Inv, CallersPlaced
<1>7. ASSUME NEW c \in Callers, CreateBatchFails(c) PROVE LeafStep(j)
  BY <1>7, <1>a DEF CreateBatchFails, RowsTyped, Inv, CallersPlaced
<1>8. ASSUME NEW c \in Callers, ListChildren(c) \/ DropRequest(c) PROVE LeafStep(j)
  BY <1>8 DEF ListChildren, DropRequest
<1>9. ASSUME NEW c \in Callers, NEW l \in Lessons, CancelChild(c, l) PROVE LeafStep(j)
  BY <1>9, <1>a DEF CancelChild, TryUpdate, Update, RowsTyped, RowIn, Inv, CallersPlaced
<1>10. ASSUME NEW c \in Callers, WriteCancelled(c) PROVE LeafStep(j)
  BY <1>10, <1>a DEF WriteCancelled, TryUpdate, Update, RowsTyped, RowIn, Inv, CallersPlaced
<1>11. ASSUME NEW w \in Workers, NEW i \in Leaves, DeliverTask(w, i) PROVE LeafStep(j)
  BY <1>11, <1>b DEF DeliverTask, ClaimableByID, Taken
<1>12. ASSUME NEW w \in Workers, NEW i \in Leaves, DeliverTaskLate(w, i) PROVE LeafStep(j)
  BY <1>12 DEF DeliverTaskLate
<1>13. ASSUME NEW w \in Workers, Sweep(w) PROVE LeafStep(j)
  <2>1. PICK i \in Leaves : Taken(w, i)
    BY <1>13 DEF Sweep, QueuedJobs, StaleJobs, Taken
  <2> QED BY <2>1, <1>b
<1>14. ASSUME NEW w \in Workers, Abandon(w) PROVE LeafStep(j)
  BY <1>14 DEF Abandon
<1>15. ASSUME NEW w \in Workers, ProcessStep(w) PROVE LeafStep(j)
  <2>1. row' = row \/ OwnWrite(w) \/ ParentWrite(w)
    BY <1>15, ProcessKinds DEF Inv
  <2>2. UNCHANGED claims
    BY <1>15, ProcessKinds DEF Inv
  <2>3. CASE OwnWrite(w)
    BY <1>15, <1>a, <2>2, <2>3 DEF OwnWrite, RowsTyped
  <2>4. CASE ParentWrite(w)
    BY <1>a, <2>2, <2>4, ParentIsJob DEF ParentWrite, MyParent, RowsTyped
  <2> QED BY <2>1, <2>2, <2>3, <2>4
<1> QED
  BY <1>1, <1>2, <1>3, <1>4, <1>5, <1>6, <1>7, <1>8, <1>9, <1>10, <1>11, <1>12, <1>13,
     <1>14, <1>15 DEF Next, CallerStep

(* No whole-row write from an old copy puts a job back to queued: processing*)
(* never runs again except through the stale timeout.                       *)
THEOREM NoRequeue == Spec => NeverRequeued
<1>1. Inv /\ [Next]_vars =>
        [\A j \in Leaves : row[j].status \notin {"absent", "queued"}
                           => row'[j].status \notin {"absent", "queued"}]_vars
  <2> SUFFICES ASSUME Inv, [Next]_vars, NEW j \in Leaves,
                      row[j].status \notin {"absent", "queued"}
               PROVE  row'[j].status \notin {"absent", "queued"}
    OBVIOUS
  <2>a. RowsTyped /\ j \in Jobs
    BY DEF Inv, TypeOK, RowsTyped, Jobs
  <2>1. ASSUME NEW w \in Workers, Taken(w, j) PROVE row'[j].status = "processing"
    BY <2>a, <2>1 DEF Taken, Claim, RowsTyped, RowIn
  <2>2. ASSUME NEW w \in Workers, OwnWrite(w), worker[w].job = j
        PROVE  row'[j].status \notin {"absent", "queued"}
    BY <2>a, <2>2 DEF OwnWrite, MyRow, RowsTyped, RowIn, Status, Open, Settled
  <2>3. LeafStep(j)
    BY LeafSteps
  <2> QED BY <2>1, <2>2, <2>3 DEF LeafStep
<1> QED BY <1>1, Invariance, PTL DEF Spec, NeverRequeued

(* A cancellation that lands before the first claim is final: ClaimJobByID and*)
(* GetNextQueued never hand the job out, and nobody else holds a copy of it.*)
THEOREM EarlyCancel == Spec => EarlyCancelSticks
<1>1. Inv /\ [Next]_vars =>
        [\A j \in Leaves : row[j].status = "cancelled" /\ claims[j] = 0
                           => row'[j].status = "cancelled" /\ claims'[j] = 0]_vars
  <2> SUFFICES ASSUME Inv, [Next]_vars, NEW j \in Leaves,
                      row[j].status = "cancelled", claims[j] = 0
               PROVE  row'[j].status = "cancelled" /\ claims'[j] = 0
    OBVIOUS
  <2>1. ASSUME NEW w \in Workers, Taken(w, j) PROVE FALSE
    BY <2>1 DEF Taken, StaleJobs
  <2>2. ASSUME NEW w \in Workers, OwnWrite(w), worker[w].job = j PROVE FALSE
    BY <2>2 DEF OwnWrite, Holds, HoldPcs, Inv, Claimed
  <2>3. LeafStep(j)
    BY LeafSteps
  <2> QED BY <2>1, <2>2, <2>3 DEF LeafStep
<1> QED BY <1>1, Invariance, PTL DEF Spec, EarlyCancelSticks

(* Who holds a job has its latest claim, that claim has not gone stale, and *)
(* the row says processing unless CancelJob has changed it.                 *)
HeldLatest ==
  \A w \in Workers : Holds(w) =>
    LET j == worker[w].job IN
      /\ worker[w].claim = claims[j]
      /\ expired[j] < claims[j]
      /\ row[j].status \in {"processing", "cancelled"}

(* A processing row carries the time of its job's latest claim.             *)
StartedLatest ==
  \A j \in Leaves : row[j].status = "processing" => row[j].started = claims[j]

(* Only claims that were made can go stale.                                 *)
ExpiredPast == \A j \in Leaves : expired[j] <= claims[j]

(* The inductive invariant of exclusive ownership.                          *)
OwnInv == HeldLatest /\ StartedLatest /\ ExpiredPast /\ SingleOwner

(* Taking a job keeps OwnInv: nobody can still hold a job that is queued,   *)
(* because it was never claimed, nor one that is stale, because its latest  *)
(* claim has expired.                                                       *)
LEMMA TakenOwn ==
  ASSUME Inv, OwnInv, NEW w \in Workers, NEW j \in Leaves, Taken(w, j)
  PROVE  OwnInv'
<1>a. /\ row \in [Jobs -> Row] /\ claims \in [Leaves -> 0..MaxClaims]
      /\ expired \in [Leaves -> 0..MaxClaims] /\ worker \in [Workers -> Worker]
      /\ j \in Jobs
  BY DEF Inv, TypeOK, Jobs
<1>b. \A v \in Workers : Holds(v) => worker[v].job # j
  <2> SUFFICES ASSUME NEW v \in Workers, Holds(v), worker[v].job = j PROVE FALSE
    OBVIOUS
  <2>1. claims[j] # 0
    BY <1>a DEF Holds, HoldPcs, Inv, Claimed
  <2>2. row[j].status = "processing" /\ row[j].started \in 1..expired[j]
    BY <2>1 DEF Taken, Inv, Unclaimed, StaleJobs
  <2>3. claims[j] <= expired[j]
    BY <1>a, <2>2 DEF OwnInv, StartedLatest
  <2>4. expired[j] < claims[j]
    BY DEF OwnInv, HeldLatest
  <2> QED BY <1>a, <2>3, <2>4
<1>c. /\ \A v \in Workers : v # w => worker'[v] = worker[v]
      /\ worker'[w].job = j /\ worker'[w].claim = claims[j] + 1
      /\ claims'[j] = claims[j] + 1
      /\ \A i \in Leaves : i # j => claims'[i] = claims[i]
      /\ row'[j] = RowIn("processing", claims[j] + 1)
      /\ \A i \in Jobs : i # j => row'[i] = row[i]
      /\ UNCHANGED expired
  BY <1>a DEF Taken, Claim, Idle
<1>1. HeldLatest'
  <2> SUFFICES ASSUME NEW v \in Workers, Holds(v)'
               PROVE  /\ worker'[v].claim = claims'[worker'[v].job]
                      /\ expired'[worker'[v].job] < claims'[worker'[v].job]
                      /\ row'[worker'[v].job].status \in {"processing", "cancelled"}
    BY DEF HeldLatest
  <2>1. CASE v = w
    <3>1. expired[j] < claims[j] + 1
      BY <1>a DEF OwnInv, ExpiredPast
    <3> QED BY <1>c, <2>1, <3>1 DEF RowIn
  <2>2. CASE v # w
    <3>1. Holds(v) /\ worker[v].job # j /\ worker[v].job \in Leaves /\ worker[v].job \in Jobs
      BY <1>b, <1>c, <2>2 DEF Holds, HoldPcs, Inv, Placed, Jobs
    <3> QED BY <1>c, <2>2, <3>1 DEF OwnInv, HeldLatest
  <2> QED BY <2>1, <2>2
<1>2. StartedLatest'
  BY <1>a, <1>c DEF OwnInv, StartedLatest, RowIn, Jobs
<1>3. ExpiredPast'
  BY <1>a, <1>c DEF OwnInv, ExpiredPast
<1>4. SingleOwner'
  BY <1>b, <1>c DEF OwnInv, SingleOwner, Holds
<1> QED BY <1>1, <1>2, <1>3, <1>4 DEF OwnInv

(* A worker's own steps keep OwnInv.                                        *)
LEMMA WorkerOwn ==
  ASSUME Inv, OwnInv, NEW w \in Workers, worker[w].pc # "idle", Moves(w),
         row' = row \/ OwnWrite(w) \/ ParentWrite(w),
         UNCHANGED <<claims, expired>>
  PROVE  OwnInv'
<1>a. /\ row \in [Jobs -> Row] /\ worker \in [Workers -> Worker]
      /\ worker[w].job \in Leaves /\ worker[w].job \in Jobs
  BY DEF Inv, TypeOK, Placed, Jobs
<1>b. /\ \A v \in Workers : v # w => worker'[v] = worker[v]
      /\ Holds(w)' => /\ Holds(w)
                      /\ worker'[w].job = worker[w].job
                      /\ worker'[w].claim = worker[w].claim
  BY <1>a DEF Moves, Goto, Finish, Idle, Holds, HoldPcs, Worker
<1>c. \A v \in Workers : Holds(v)' => /\ Holds(v)
                                      /\ worker'[v].job = worker[v].job
                                      /\ worker'[v].claim = worker[v].claim
  BY <1>b DEF Holds
<1>d. \A i \in Leaves : row'[i] # row[i] =>
        /\ OwnWrite(w) /\ i = worker[w].job
        /\ row'[i].started = claims[i]
        /\ Holds(w)' => row'[i].status = "processing"
  <2>1. CASE OwnWrite(w)
    <3>1. worker[w].claim = claims[worker[w].job]
      BY <2>1 DEF OwnWrite, OwnInv, HeldLatest
    <3>2. PICK s \in Status \ {"queued"} :
            /\ s # "processing" => ~Holds(w)'
            /\ row' = [row EXCEPT ![worker[w].job] = RowIn(s, claims[worker[w].job])]
      BY <2>1, <3>1 DEF OwnWrite, MyRow
    <3>3. row'[worker[w].job] = RowIn(s, claims[worker[w].job])
      BY <1>a, <3>2
    <3>4. \A i \in Leaves : i # worker[w].job => row'[i] = row[i]
      BY <1>a, <3>2 DEF Jobs
    <3> QED BY <2>1, <3>2, <3>3, <3>4 DEF RowIn
  <2>2. CASE ParentWrite(w)
    BY <1>a, <2>2, ParentIsJob, JobIdsAssumption DEF ParentWrite, MyParent, Jobs
  <2> QED BY <2>1, <2>2
<1>1. HeldLatest'
  <2> SUFFICES ASSUME NEW v \in Workers, Holds(v)'
               PROVE  /\ worker'[v].claim = claims'[worker'[v].job]
                      /\ expired'[worker'[v].job] < claims'[worker'[v].job]
                      /\ row'[worker'[v].job].status \in {"processing", "cancelled"}
    BY DEF HeldLatest
  <2>1. Holds(v) /\ worker[v].job \in Leaves
    BY <1>c DEF Holds, HoldPcs, Inv, Placed
  <2>2. OwnWrite(w) /\ worker[v].job = worker[w].job => v = w
    BY <2>1 DEF OwnWrite, OwnInv, SingleOwner
  <2> QED BY <1>c, <1>d, <2>1, <2>2 DEF OwnInv, HeldLatest
<1>2. StartedLatest'
  BY <1>d DEF OwnInv, StartedLatest
<1>3. ExpiredPast'
  BY DEF OwnInv, ExpiredPast
<1>4. SingleOwner'
  BY <1>c DEF OwnInv, SingleOwner
<1> QED BY <1>1, <1>2, <1>3, <1>4 DEF OwnInv

(* Time keeps OwnInv as long as the stale timeout is no shorter than the    *)
(* task deadline.                                                           *)
LEMMA ExpireOwn ==
  ASSUME Inv, OwnInv, ~LiveOverrun, NEW j \in Leaves, Expire(j)
  PROVE  OwnInv'
<1>a. /\ claims \in [Leaves -> 0..MaxClaims] /\ expired \in [Leaves -> 0..MaxClaims]
      /\ UNCHANGED <<row, claims, worker>>
      /\ expired'[j] = expired[j] + 1 /\ expired[j] < claims[j]
      /\ \A i \in Leaves : i # j => expired'[i] = expired[i]
      /\ \A w \in Workers : Holds(w) /\ worker[w].job = j => worker[w].claim > expired[j] + 1
  BY DEF Expire, Inv, TypeOK
<1>1. HeldLatest'
  <2> SUFFICES ASSUME NEW v \in Workers, Holds(v)
               PROVE  /\ worker[v].claim = claims[worker[v].job]
                      /\ expired'[worker[v].job] < claims[worker[v].job]
                      /\ row[worker[v].job].status \in {"processing", "cancelled"}
    BY <1>a DEF HeldLatest, Holds
  <2>1. worker[v].job \in Leaves
    BY DEF Holds, HoldPcs, Inv, Placed
  <2>2. CASE worker[v].job = j
    BY <1>a, <2>2 DEF OwnInv, HeldLatest
  <2>3. CASE worker[v].job # j
    BY <1>a, <2>1, <2>3 DEF OwnInv, HeldLatest
  <2> QED BY <2>2, <2>3
<1>2. StartedLatest' /\ SingleOwner'
  BY <1>a DEF OwnInv, StartedLatest, SingleOwner, Holds
<1>3. ExpiredPast'
  BY <1>a DEF OwnInv, ExpiredPast
<1> QED BY <1>1, <1>2, <1>3 DEF OwnInv

(* Steps of the API and of the queue: leaf rows change only from absent to  *)
(* queued or to cancelled.                                                  *)
LEMMA OutsideOwn ==
  ASSUME Inv, OwnInv, UNCHANGED <<claims, expired, worker>>,
         \A j \in Leaves : \/ row'[j] = row[j]
                           \/ row[j].status = "absent" /\ row'[j].status = "queued"
                           \/ row[j].status # "absent" /\ row'[j].status = "cancelled"
  PROVE  OwnInv'
<1>1. HeldLatest'
  <2> SUFFICES ASSUME NEW v \in Workers, Holds(v)
               PROVE  /\ worker[v].claim = claims[worker[v].job]
                      /\ expired[worker[v].job] < claims[worker[v].job]
                      /\ row'[worker[v].job].status \in {"processing", "cancelled"}
    BY DEF HeldLatest, Holds
  <2>1. worker[v].job \in Leaves
    BY DEF Holds, HoldPcs, Inv, Placed
  <2> QED BY <2>1 DEF OwnInv, HeldLatest
<1>2. StartedLatest'
  BY DEF OwnInv, StartedLatest
<1>3. ExpiredPast' /\ SingleOwner'
  BY DEF OwnInv, ExpiredPast, SingleOwner, Holds
<1> QED BY <1>1, <1>2, <1>3 DEF OwnInv

(* No processing step stands still.                                         *)
LEMMA ProcessMoves ==
  ASSUME WorkersTyped, NEW w \in Workers, ProcessStep(w)
  PROVE  worker' # worker
<1>1. \A pc : Goto(w, pc) => worker'[w].pc = pc
  BY DEF Goto, WorkersTyped, Worker
<1>2. Finish(w) => worker'[w].pc = "idle"
  BY DEF Finish, Idle, WorkersTyped
<1>3. worker'[w].pc # worker[w].pc
  BY <1>1, <1>2
  DEF ProcessStep, CheckAtStart, Announce, Gather, CheckBeforeAI, MarkCancelled, Generate,
      SaveTokens, StoreResult, StoreComponents, Complete, Fail, Notify, Finalize, ReadParent, WriteParent,
      NotifyParent, WorkersTyped, Worker
<1> QED BY <1>3

(* Every step keeps OwnInv.                                                 *)
LEMMA OwnStep ==
  ASSUME Inv, OwnInv, ~LiveOverrun, [Next]_vars
  PROVE  OwnInv'
<1>a. \A j \in Leaves : LeafStep(j)
  BY LeafSteps
<1>b. WorkersTyped
  BY DEF Inv, TypeOK, WorkersTyped
<1>c. ASSUME UNCHANGED <<claims, expired, worker>> PROVE OwnInv'
  <2>1. ASSUME NEW j \in Leaves, NEW w \in Workers, Taken(w, j) PROVE FALSE
    BY <1>c, <2>1 DEF Taken, Claim, Inv, TypeOK
  <2>2. ASSUME NEW w \in Workers, ProcessStep(w) PROVE FALSE
    BY <1>b, <1>c, <2>2, ProcessMoves
  <2>3. \A j \in Leaves : \/ row'[j] = row[j]
                          \/ row[j].status = "absent" /\ row'[j].status = "queued"
                          \/ row[j].status # "absent" /\ row'[j].status = "cancelled"
    BY <1>a, <2>1, <2>2 DEF LeafStep
  <2> QED BY <1>c, <2>3, OutsideOwn
<1>1. CASE UNCHANGED vars
  BY <1>1, <1>c DEF vars
<1>2. ASSUME NEW j \in Leaves, Expire(j) PROVE OwnInv'
  BY <1>2, ExpireOwn
<1>3. ASSUME NEW j \in Leaves, RequestJob(j) PROVE OwnInv'
  BY <1>3, <1>c DEF RequestJob
<1>4. ASSUME NEW c \in Callers, NEW p \in Parents, StartAllLessons(c, p) PROVE OwnInv'
  BY <1>4, <1>c DEF StartAllLessons
<1>5. ASSUME NEW c \in Callers, NEW j \in Jobs, ReadJobToCancel(c, j) PROVE OwnInv'
  BY <1>5, <1>c DEF ReadJobToCancel
<1>6. ASSUME NEW c \in Callers, CallerStep(c) \/ DropRequest(c) PROVE OwnInv'
  BY <1>6, <1>c DEF CallerStep, DropRequest, CreateBatch, CreateBatchFails, ListChildren,
                    CancelChild, WriteCancelled
<1>7. ASSUME NEW w \in Workers, NEW j \in Leaves, DeliverTask(w, j) PROVE OwnInv'
  BY <1>7, TakenOwn DEF DeliverTask, ClaimableByID, Taken
<1>8. ASSUME NEW w \in Workers, NEW j \in Leaves, DeliverTaskLate(w, j) PROVE OwnInv'
  BY <1>8, <1>c DEF DeliverTaskLate
<1>9. ASSUME NEW w \in Workers, Sweep(w) PROVE OwnInv'
  <2>1. PICK j \in Leaves : Taken(w, j)
    BY <1>9 DEF Sweep, QueuedJobs, StaleJobs, Taken
  <2> QED BY <2>1, TakenOwn
<1>10. ASSUME NEW w \in Workers, Abandon(w) PROVE OwnInv'
  BY <1>10, WorkerOwn DEF Abandon, Moves
<1>11. ASSUME NEW w \in Workers, ProcessStep(w) PROVE OwnInv'
  BY <1>11, ProcessKinds, WorkerOwn DEF Inv
<1> QED
  BY <1>1, <1>2, <1>3, <1>4, <1>5, <1>6, <1>7, <1>8, <1>9, <1>10, <1>11 DEF Next

(* OwnInv holds in every reachable state when the stale timeout is no shorter*)
(* than the task deadline.                                                  *)
LEMMA OwnInvariance ==
  ASSUME ~LiveOverrun
  PROVE  Spec => [](Inv /\ OwnInv)
<1>1. Init => OwnInv
  <2> SUFFICES ASSUME Init PROVE OwnInv
    OBVIOUS
  <2>1. \A w \in Workers : ~Holds(w)
    BY DEF Init, Idle, Holds, HoldPcs
  <2>2. \A j \in Leaves : row[j].status = "absent" /\ expired[j] = 0 /\ claims[j] = 0
    BY DEF Init, NoRow, Jobs
  <2> QED BY <2>1, <2>2 DEF OwnInv, HeldLatest, StartedLatest, ExpiredPast, SingleOwner
<1>2. Inv /\ OwnInv /\ [Next]_vars => OwnInv'
  BY OwnStep
<1> QED BY <1>1, <1>2, Invariance, PTL DEF Spec

(* ClaimJobByID and GetNextQueued never give a job to two workers that can  *)
(* both still write its row, as long as the stale timeout is no shorter than*)
(* the task deadline (both are 30 minutes by default).                      *)
THEOREM OneOwner ==
  ASSUME ~LiveOverrun
  PROVE  Spec => []SingleOwner
<1>1. OwnInv => SingleOwner
  BY DEF OwnInv
<1> QED BY <1>1, OwnInvariance, PTL

(* With one owner per job, no write reaches a completed or failed row but   *)
(* CancelJob's.                                                             *)
LEMMA OutcomeStep ==
  ASSUME Inv, OwnInv, [Next]_vars, NEW j \in Leaves,
         row[j].status \in {"completed", "failed"}
  PROVE  row'[j].status \in {row[j].status, "cancelled"}
<1>1. ASSUME NEW w \in Workers, Taken(w, j) PROVE FALSE
  BY <1>1 DEF Taken, StaleJobs
<1>2. ASSUME NEW w \in Workers, OwnWrite(w), worker[w].job = j PROVE FALSE
  BY <1>2 DEF OwnWrite, OwnInv, HeldLatest
<1>3. LeafStep(j)
  BY LeafSteps
<1> QED BY <1>1, <1>2, <1>3 DEF LeafStep

(* Under the same assumption a completed or failed job is final but for a   *)
(* CancelJob that read it while it was open.                                *)
THEOREM StableOutcome ==
  ASSUME ~LiveOverrun
  PROVE  Spec => OutcomeStable
<1>1. Inv /\ OwnInv /\ [Next]_vars =>
        [\A j \in Leaves : row[j].status \in {"completed", "failed"}
                           => row'[j].status \in {row[j].status, "cancelled"}]_vars
  BY OutcomeStep
<1> QED BY <1>1, OwnInvariance, PTL DEF Spec, OutcomeStable

(* A worker that goes on to report its job completed has stored its result. *)
StoredPcs == {"components", "complete"}
Stored == /\ CompletedHasResult
          /\ \A w \in Workers : worker[w].pc \in StoredPcs => results[worker[w].job] > 0

(* Results are never removed, and only a stored result leads to completion. *)
LEMMA StoreSteps ==
  ASSUME Inv, [Next]_vars
  PROVE  /\ \A j \in Leaves : results'[j] >= results[j]
         /\ \A w \in Workers : worker'[w].pc \in StoredPcs =>
              \/ worker[w].pc \in StoredPcs /\ worker'[w].job = worker[w].job
              \/ results'[worker'[w].job] > 0
<1> DEFINE Grow == \A j \in Leaves : results'[j] >= results[j]
           Reach == \A w \in Workers : worker'[w].pc \in StoredPcs =>
                      \/ worker[w].pc \in StoredPcs /\ worker'[w].job = worker[w].job
                      \/ results'[worker'[w].job] > 0
<1>a. worker \in [Workers -> Worker] /\ results \in [Leaves -> Nat]
  BY DEF Inv, TypeOK
<1>b. ASSUME UNCHANGED results PROVE Grow
  BY <1>a, <1>b
<1>c. ASSUME UNCHANGED worker PROVE Reach
  BY <1>c
<1>d. ASSUME NEW w \in Workers, \E pc : pc \notin StoredPcs /\ Goto(w, pc) PROVE Reach
  BY <1>a, <1>d DEF Goto, Worker
<1>e. ASSUME NEW w \in Workers, Finish(w) PROVE Reach
  BY <1>a, <1>e DEF Finish, Idle, StoredPcs
<1>f. ASSUME NEW w \in Workers, NEW j \in Leaves, Claim(w, j) PROVE Reach
  BY <1>a, <1>f DEF Claim, Idle, StoredPcs
<1>1. CASE ~\E w \in Workers : ProcessStep(w)
  <2>1. UNCHANGED results
    BY <1>1 DEF Next, vars, RequestJob, Expire, StartAllLessons, ReadJobToCancel, CallerStep,
       CreateBatch, CreateBatchFails, ListChildren, CancelChild, WriteCancelled, DropRequest,
       DeliverTask, DeliverTaskLate, Sweep, Claim, Abandon
  <2>2. \/ UNCHANGED worker
        \/ \E w \in Workers : Finish(w) \/ \E j \in Leaves : Claim(w, j)
    BY <1>1 DEF Next, vars, RequestJob, Expire, StartAllLessons, ReadJobToCancel, CallerStep,
       CreateBatch, CreateBatchFails, ListChildren, CancelChild, WriteCancelled, DropRequest,
       DeliverTask, DeliverTaskLate, Sweep, QueuedJobs, StaleJobs, Abandon
  <2> QED BY <2>1, <2>2, <1>b, <1>c, <1>e, <1>f
<1>2. ASSUME NEW w \in Workers, ProcessStep(w) PROVE Grow /\ Reach
  <2>1. CASE StoreResult(w)
    <3>1. CASE /\ \E pc : Goto(w, pc)
               /\ results' = [results EXCEPT ![worker[w].job] = @ + 1]
      <4>1. worker[w].job \in Leaves
        BY <2>1 DEF StoreResult, Inv, Placed
      <4>2. /\ results'[worker[w].job] = results[worker[w].job] + 1
            /\ \A j \in Leaves : j # worker[w].job => results'[j] = results[j]
        BY <1>a, <3>1, <4>1
      <4>3. Grow
        BY <1>a, <4>1, <4>2
      <4>4. results'[worker[w].job] > 0
        BY <1>a, <4>1, <4>2
      <4>5. Reach
        BY <1>a, <3>1, <4>4 DEF Goto, Worker
      <4> QED BY <4>3, <4>5
    <3>2. CASE Goto(w, "fail") /\ UNCHANGED results
      BY <3>2, <1>b, <1>d DEF StoredPcs
    <3> QED BY <2>1, <3>1, <3>2 DEF StoreResult
  <2>3. CASE StoreComponents(w)
    <3>1. Reach
      BY <1>a, <2>3 DEF StoreComponents, Goto, Worker, StoredPcs
    <3> QED BY <2>3, <3>1, <1>b DEF StoreComponents
  <2>2. CASE ~StoreResult(w) /\ ~StoreComponents(w)
    <3>1. UNCHANGED results
      BY <1>2, <2>2 DEF ProcessStep, CheckAtStart, Announce, Gather, CheckBeforeAI,
         MarkCancelled, Generate, SaveTokens, Complete, Fail, Notify, Finalize, ReadParent,
         WriteParent, NotifyParent
    <3>3. CASE ~ReadParent(w)
      <4>1. Finish(w) \/ \E pc : pc \notin StoredPcs /\ Goto(w, pc)
        BY <1>2, <2>2, <3>3 DEF ProcessStep, CheckAtStart, Announce, Gather, CheckBeforeAI,
           MarkCancelled, Generate, SaveTokens, Complete, Fail, Notify, Finalize,
           WriteParent, NotifyParent, StoredPcs
      <4> QED BY <3>1, <4>1, <1>b, <1>d, <1>e
    <3>4. CASE ReadParent(w)
      <4>1. Reach
        BY <1>a, <3>4 DEF ReadParent, Worker, StoredPcs
      <4> QED BY <3>1, <4>1, <1>b
    <3> QED BY <3>3, <3>4
  <2> QED BY <2>1, <2>2, <2>3
<1> QED BY <1>1, <1>2

(* Stored holds in every reachable state.                                   *)
LEMMA StoredInvariance == Spec => [](Inv /\ Stored)
<1>1. Init => Stored
  BY DEF Init, Stored, StoredPcs, CompletedHasResult, NoRow, Idle, Jobs
<1>2. Inv /\ Stored /\ [Next]_vars => Stored'
  <2> SUFFICES ASSUME Inv, Stored, [Next]_vars PROVE Stored'
    OBVIOUS
  <2>a. row \in [Jobs -> Row] /\ results \in [Leaves -> Nat] /\ results' \in [Leaves -> Nat]
    BY TypeStep DEF Inv, TypeOK
  <2>1. ASSUME NEW w \in Workers, worker'[w].pc \in StoredPcs PROVE results'[worker'[w].job] > 0
    <3>1. CASE worker[w].pc \in StoredPcs /\ worker'[w].job = worker[w].job
      <4>1. worker[w].job \in Leaves /\ results[worker[w].job] > 0
        BY <3>1 DEF Inv, Placed, Stored, StoredPcs
      <4> QED BY <2>a, <3>1, <4>1, StoreSteps
    <3> QED BY <2>1, <3>1, StoreSteps
  <2>2. ASSUME NEW j \in Leaves, row'[j].status = "completed" PROVE results'[j] > 0
    <3>1. results[j] > 0 => results'[j] > 0
      BY <2>a, StoreSteps
    <3>2. ASSUME NEW w \in Workers, Taken(w, j) PROVE row'[j].status = "processing"
      BY <2>a, <3>2 DEF Taken, Claim, RowIn, Jobs
    <3>3. ASSUME NEW w \in Workers, OwnWrite(w), worker[w].job = j PROVE results[j] > 0
      <4>1. PICK s \in Status \ {"queued"} :
              /\ s = "completed" => worker[w].pc = "complete"
              /\ row' = [row EXCEPT ![j] = RowIn(s, worker[w].claim)]
        BY <3>3 DEF OwnWrite, MyRow
      <4>2. s = "completed"
        BY <2>a, <2>2, <4>1 DEF RowIn, Jobs
      <4> QED BY <3>3, <4>1, <4>2 DEF Stored, StoredPcs
    <3>4. LeafStep(j)
      BY LeafSteps
    <3> QED BY <2>2, <3>1, <3>2, <3>3, <3>4 DEF LeafStep, Stored, CompletedHasResult
  <2> QED BY <2>1, <2>2 DEF Stored, CompletedHasResult
<1> QED BY <1>1, <1>2, Invariance, PTL DEF Spec

(* A job is completed only after its outline or lesson was stored, under any*)
(* timeouts, faults and cancellations.                                      *)
THEOREM CompletedIsStored == Spec => []CompletedHasResult
<1>1. Stored => CompletedHasResult
  BY DEF Stored
<1> QED BY <1>1, StoredInvariance, PTL
-----------------------------------------------------------------------------
(***************************************************************************)
(* What a course's outcome means, for any number of courses, lessons and   *)
(* workers: proofs of CourseMeansLessons and AnnouncedWhenSettled. Both    *)
(* speak of runs without cancellations (MaxCancels = 0) under the default  *)
(* timeouts (~LiveOverrun). FinalizeParentJob looks at the children once,  *)
(* and the progress update may later write any earlier state of the parent *)
(* back. The invariant therefore also speaks of what has not been written  *)
(* yet: the parent copy a worker holds (SeenMeans) and the notification it *)
(* is about to send (TellingQuiet).                                        *)
(***************************************************************************)
(* Every lesson of the course is completed; no lesson of it can still run.  *)
AllDone(p) == \A l \in Children(p) : row[l].status = "completed"
Quiet(p)   == \A l \in Children(p) : row[l].status \notin Open

(* Without CancelJob nothing is cancelled: no row, no copy, no worker.      *)
NoCancel ==
  /\ \A j \in Jobs : row[j].status # "cancelled"
  /\ \A w \in Workers : /\ worker[w].pc # "cancel"
                        /\ worker[w].pc = "writeParent" => worker[w].seen.status # "cancelled"
  /\ \A c \in Callers : caller[c].pc \in {"idle", "batch"}

(* A parent row, or a copy of one, that says completed tells the truth.     *)
DoneMeans == \A p \in Parents : row[p].status = "completed" => AllDone(p)
SeenMeans ==
  \A w \in Workers : worker[w].pc = "writeParent" /\ worker[w].seen.status = "completed"
                       => AllDone(MyParent(w))

(* A notification, sent or about to be sent, finds the lessons quiet.       *)
ToldQuiet    == \A p \in Parents : notices[p] > 0 => Quiet(p)
TellingQuiet ==
  \A w \in Workers : worker[w].pc = "notifyParent" => Quiet(MyParent(w))

(* GenerateAllLessons creates the lessons of a course that nobody has       *)
(* finalized or announced.                                                  *)
FreshBatch ==
  /\ \A p \in Parents : row[p].status = "absent" => notices[p] = 0
  /\ \A c \in Callers : caller[c].pc = "batch" =>
       row[caller[c].job].status = "processing" /\ notices[caller[c].job] = 0

CourseInv == /\ NoCancel /\ DoneMeans /\ SeenMeans /\ ToldQuiet /\ TellingQuiet
             /\ FreshBatch

(* A step that leaves finished lessons finished and settled lessons settled,*)
(* writes only true outcomes and announces only quiet courses keeps the     *)
(* invariant.                                                               *)
LEMMA CourseFrame ==
  ASSUME Inv, Inv', CourseInv,
         \A j \in Jobs : row'[j].status # "cancelled",
         \A l \in Lessons : IsChild(l) =>
           /\ row[l].status = "completed" => row'[l].status = "completed"
           /\ row[l].status \notin Open => row'[l].status \notin Open,
         \A p \in Parents :
           \/ row'[p] = row[p]
           \/ /\ row'[p].status = "completed" => AllDone(p)
              /\ row'[p].status # "absent"
              /\ \A c \in Callers : caller'[c].pc = "batch" => caller'[c].job # p,
         \A p \in Parents :
           \/ notices'[p] = notices[p]
           \/ /\ Quiet(p)
              /\ row'[p].status # "absent"
              /\ \A c \in Callers : caller'[c].pc = "batch" => caller'[c].job # p,
         \A w \in Workers :
           \/ worker'[w] = worker[w]
           \/ /\ worker'[w].pc # "cancel"
              /\ worker'[w].pc = "writeParent" =>
                   /\ worker'[w].seen.status # "cancelled"
                   /\ worker'[w].seen.status = "completed" => AllDone(ParentOf[worker'[w].job])
              /\ worker'[w].pc = "notifyParent" => Quiet(ParentOf[worker'[w].job]),
         \A c \in Callers : caller'[c] = caller[c] \/ caller'[c].pc = "idle"
  PROVE  CourseInv'
<1>a. \A p \in Parents : \A l \in Children(p) : IsChild(l)
  BY JobIdsAssumption DEF Children, IsChild, Jobs
<1>b. \A p \in Parents : (AllDone(p) => AllDone(p)') /\ (Quiet(p) => Quiet(p)')
  BY <1>a DEF AllDone, Quiet, Children
<1>c. \A w \in Workers : worker[w].pc \in ParentPcs => ParentOf[worker[w].job] \in Parents
  BY ParentIsJob DEF Inv, Placed
<1>d. \A w \in Workers : worker'[w].pc \in ParentPcs => ParentOf[worker'[w].job] \in Parents
  BY ParentIsJob DEF Inv, Placed
<1>1. NoCancel'
  BY DEF CourseInv, NoCancel
<1>2. DoneMeans'
  BY <1>b DEF CourseInv, DoneMeans
<1>3. SeenMeans'
  BY <1>b, <1>d DEF CourseInv, SeenMeans, MyParent, ParentPcs
<1>4. ToldQuiet'
  BY <1>b DEF CourseInv, ToldQuiet
<1>5. TellingQuiet'
  BY <1>b, <1>d DEF CourseInv, TellingQuiet, MyParent, ParentPcs
<1>6. FreshBatch'
  BY DEF CourseInv, FreshBatch, Inv, CallersPlaced
<1> QED BY <1>1, <1>2, <1>3, <1>4, <1>5, <1>6 DEF CourseInv

(* GenerateAllLessons: the parent appears, with no outcome and not          *)
(* announced.                                                               *)
LEMMA CourseStart ==
  ASSUME Inv, CourseInv, NEW c \in Callers, NEW p \in Parents, StartAllLessons(c, p)
  PROVE  CourseInv'
<1>a. /\ row[p].status = "absent" /\ row'[p].status = "processing" /\ notices'[p] = 0
      /\ \A i \in Jobs : i # p => row'[i] = row[i]
      /\ p \notin Lessons
      /\ UNCHANGED <<worker, notices>>
  BY JobIdsAssumption DEF StartAllLessons, Inv, TypeOK, RowIn, Jobs, Leaves, CourseInv, FreshBatch
<1>b. /\ \A d \in Callers : d # c => caller'[d] = caller[d]
      /\ caller'[c].pc = "batch" /\ caller'[c].job = p
  BY DEF StartAllLessons, Inv, TypeOK, NoCall
<1>c. \A q : (AllDone(q) <=> AllDone(q)') /\ (Quiet(q) <=> Quiet(q)')
  BY <1>a DEF AllDone, Quiet, Children, Jobs, Leaves
<1>1. NoCancel'
  BY <1>a, <1>b DEF CourseInv, NoCancel
<1>2. DoneMeans'
  BY <1>a, <1>c DEF CourseInv, DoneMeans, Jobs
<1>3. SeenMeans' /\ ToldQuiet' /\ TellingQuiet'
  BY <1>a, <1>c DEF CourseInv, SeenMeans, ToldQuiet, TellingQuiet, MyParent
<1>4. FreshBatch'
  BY <1>a, <1>b DEF CourseInv, FreshBatch, Inv, CallersPlaced, Jobs
<1> QED BY <1>1, <1>2, <1>3, <1>4 DEF CourseInv

(* The lesson jobs of a course appear before any worker could know it.      *)
LEMMA CourseBatch ==
  ASSUME Inv, CourseInv, NEW c \in Callers, CreateBatch(c)
  PROVE  CourseInv'
<1> DEFINE p == caller[c].job
<1>a. /\ p \in Parents /\ row[p].status = "processing" /\ notices[p] = 0
      /\ \A l \in Children(p) : row[l].status = "absent"
  BY DEF CreateBatch, CourseInv, FreshBatch, Inv, CallersPlaced
<1>b. /\ \A i \in Jobs : i \notin Children(p) => row'[i] = row[i]
      /\ \A l \in Children(p) : row'[l].status = "queued"
      /\ UNCHANGED <<worker, notices>>
      /\ \A d \in Callers : caller'[d] = caller[d] \/ caller'[d].pc = "idle"
  BY DEF CreateBatch, RowIn, Inv, TypeOK, Children, Jobs, Leaves, NoCall
<1>c. \A q \in Parents : q # p => (AllDone(q) <=> AllDone(q)') /\ (Quiet(q) <=> Quiet(q)')
  BY <1>b DEF AllDone, Quiet, Children, Jobs, Leaves
<1>d. \A q \in Parents : row'[q] = row[q]
  BY <1>b, JobIdsAssumption DEF Children, Jobs, Leaves
<1>e. \A w \in Workers : worker[w].pc \in ParentPcs => MyParent(w) \in Parents /\ MyParent(w) # p
  <2> SUFFICES ASSUME NEW w \in Workers, worker[w].pc \in ParentPcs, MyParent(w) = p
               PROVE  FALSE
    BY ParentIsJob DEF Inv, Placed, MyParent
  <2>1. worker[w].job \in Children(p)
    BY ParentIsJob DEF Inv, Placed, MyParent, Children
  <2>2. claims[worker[w].job] = 0
    BY <1>a, <2>1 DEF Inv, Unclaimed, Children, Leaves
  <2> QED BY <2>2 DEF Inv, Claimed, ParentPcs
<1> HIDE DEF p
<1>1. NoCancel'
  BY <1>b DEF CourseInv, NoCancel
<1>2. DoneMeans'
  BY <1>a, <1>c, <1>d DEF CourseInv, DoneMeans
<1>3. SeenMeans' /\ TellingQuiet'
  BY <1>b, <1>c, <1>e DEF CourseInv, SeenMeans, TellingQuiet, MyParent, ParentPcs
<1>4. ToldQuiet'
  BY <1>a, <1>b, <1>c DEF CourseInv, ToldQuiet
<1>5. FreshBatch'
  BY <1>b, <1>d DEF CourseInv, FreshBatch, Inv, CallersPlaced
<1> QED BY <1>1, <1>2, <1>3, <1>4, <1>5 DEF CourseInv

(* A failed CreateBatch announces a course whose lessons never appear.      *)
LEMMA CourseBatchFails ==
  ASSUME Inv, Inv', CourseInv, NEW c \in Callers, CreateBatchFails(c)
  PROVE  CourseInv'
<1> DEFINE p == caller[c].job
<1>a. /\ p \in Parents /\ p \in Jobs /\ p \notin Lessons
      /\ \A l \in Children(p) : row[l].status = "absent"
  BY JobIdsAssumption DEF CreateBatchFails, Inv, CallersPlaced, Jobs, Leaves
<1>b. /\ row'[p].status = "failed"
      /\ \A i \in Jobs : i # p => row'[i] = row[i]
      /\ \A q \in Parents : q # p => notices'[q] = notices[q]
      /\ UNCHANGED worker
      /\ \A d \in Callers : caller'[d] = caller[d] \/ caller'[d].pc = "idle"
      /\ caller'[c].pc = "idle"
  BY <1>a DEF CreateBatchFails, RowIn, Inv, TypeOK, NoCall, Jobs
<1>c. Quiet(p)
  BY <1>a DEF Quiet, Open
<1>d. \A d \in Callers : caller'[d].pc = "batch" => caller'[d].job # p
  BY <1>b DEF CreateBatchFails, Inv, OneBatch
<1>e. \A l \in Lessons : row'[l] = row[l]
  BY <1>a, <1>b DEF Jobs, Leaves
<1>f. \A j \in Jobs : row'[j].status # "cancelled"
  BY <1>b DEF CourseInv, NoCancel
<1> HIDE DEF p
<1>g. \A q \in Parents : row'[q] = row[q] \/ q = p
  BY <1>b DEF Jobs
<1> QED BY <1>b, <1>c, <1>d, <1>e, <1>f, <1>g, CourseFrame

(* What a worker does to lesson rows that are settled, and to parent rows   *)
(* while it holds its own job: nothing.                                     *)
LEMMA WorkerLessons ==
  ASSUME Inv, OwnInv, CourseInv, NEW w \in Workers,
         row' = row \/ OwnWrite(w) \/ ParentWrite(w)
  PROVE  /\ \A l \in Lessons : row[l].status \notin Open => row'[l] = row[l]
         /\ ~ParentWrite(w) => \A p \in Parents : row'[p] = row[p]
<1>a. row \in [Jobs -> Row]
  BY DEF Inv, TypeOK
<1>1. CASE OwnWrite(w)
  <2>1. worker[w].job \in Leaves /\ row[worker[w].job].status \in Open
    BY <1>1 DEF OwnWrite, OwnInv, HeldLatest, Holds, HoldPcs, Inv, Placed, CourseInv, NoCancel,
                Jobs, Open
  <2>2. \A i \in Jobs : i # worker[w].job => row'[i] = row[i]
    BY <1>1, <1>a DEF OwnWrite
  <2> QED BY <2>1, <2>2, <1>1, JobIdsAssumption DEF Jobs, Leaves, OwnWrite, ParentWrite
<1>2. CASE ParentWrite(w)
  <2>1. MyParent(w) \in Parents
    BY <1>2, ParentIsJob DEF ParentWrite, MyParent
  <2>2. \A i \in Jobs : i # MyParent(w) => row'[i] = row[i]
    BY <1>2, <1>a DEF ParentWrite
  <2> QED BY <1>2, <2>1, <2>2, JobIdsAssumption DEF Jobs, Leaves
<1>3. CASE row' = row
  BY <1>3
<1> QED BY <1>1, <1>2, <1>3

(* The steps of a worker on its own job.                                    *)
LEMMA CourseHeld ==
  ASSUME Inv, Inv', OwnInv, CourseInv, NEW w \in Workers, ProcessStep(w),
         worker[w].pc \notin ParentPcs
  PROVE  CourseInv'
<1>a. /\ worker \in [Workers -> Worker] /\ row \in [Jobs -> Row]
      /\ worker[w].job \in Leaves /\ worker[w].job \in Jobs /\ worker[w].job \notin Parents
      /\ row[worker[w].job].status # "cancelled" /\ worker[w].pc # "cancel"
  BY ProcessKinds, JobIdsAssumption DEF Inv, TypeOK, Placed, Jobs, CourseInv, NoCancel
<1>b. /\ row' = row \/ OwnWrite(w) \/ ParentWrite(w)
      /\ UNCHANGED caller
  BY ProcessKinds DEF Inv
<1>c. \A p \in Parents : notices'[p] = notices[p]
  BY <1>a DEF ProcessStep, CheckAtStart, Announce, Gather, CheckBeforeAI, MarkCancelled,
     Generate, SaveTokens, StoreResult, StoreComponents, Complete, Fail, Notify, Finalize,
     ReadParent, WriteParent, NotifyParent, ParentPcs, Inv, TypeOK, Jobs
<1>d. Finish(w) \/ \E pc : pc \notin {"cancel", "writeParent", "notifyParent"} /\ Goto(w, pc)
  BY <1>a DEF ProcessStep, CheckAtStart, Announce, Gather, CheckBeforeAI, MarkCancelled,
     Generate, SaveTokens, StoreResult, StoreComponents, Complete, Fail, Notify, Finalize,
     ReadParent, WriteParent, NotifyParent, ParentPcs, SeesCancelled
<1>e. \A v \in Workers : \/ worker'[v] = worker[v]
                         \/ worker'[v].pc \notin {"cancel", "writeParent", "notifyParent"}
  BY <1>a, <1>d DEF Goto, Finish, Idle, Worker
<1>f. ~ParentWrite(w) \/ row' = row
  BY DEF ProcessStep, CheckAtStart, Announce, Gather, CheckBeforeAI, MarkCancelled,
     Generate, SaveTokens, StoreResult, StoreComponents, Complete, Fail, Notify, Finalize,
     ReadParent, WriteParent, NotifyParent, ParentPcs, ParentWrite, Holds, HoldPcs
<1>g. \A j \in Jobs : row'[j].status # "cancelled"
  <2>1. CASE row' = row
    BY <2>1 DEF CourseInv, NoCancel
  <2>2. CASE OwnWrite(w)
    <3>1. PICK s \in Status \ {"cancelled"} :
            row' = [row EXCEPT ![worker[w].job] = RowIn(s, worker[w].claim)]
      BY <1>a, <2>2 DEF OwnWrite, MyRow
    <3>2. row'[worker[w].job].status = s
      BY <1>a, <3>1 DEF RowIn
    <3>3. \A i \in Jobs : i # worker[w].job => row'[i] = row[i]
      BY <1>a, <3>1
    <3> QED BY <3>2, <3>3 DEF CourseInv, NoCancel
  <2> QED BY <1>b, <1>f, <2>1, <2>2
<1>h. \A p \in Parents : row'[p] = row[p]
  BY <1>b, <1>f, WorkerLessons
<1>i. \A l \in Lessons : row[l].status \notin Open => row'[l] = row[l]
  BY <1>b, WorkerLessons
<1>j. "completed" \notin Open
  BY DEF Open
<1> QED BY <1>b, <1>c, <1>e, <1>g, <1>h, <1>i, <1>j, CourseFrame

(* FinalizeParentJob reports completed, and announces, only what it has     *)
(* seen under its lock.                                                     *)
LEMMA CourseFinalize ==
  ASSUME Inv, Inv', OwnInv, CourseInv, NEW w \in Workers, Finalize(w)
  PROVE  CourseInv'
<1> DEFINE p == MyParent(w)
<1>a. /\ worker \in [Workers -> Worker] /\ row \in [Jobs -> Row]
      /\ p \in Parents /\ p \in Jobs /\ p \notin Lessons
      /\ p = ParentOf[worker[w].job]
  BY ParentIsJob, JobIdsAssumption DEF Finalize, Inv, TypeOK, Placed, ParentPcs, MyParent, Jobs, Leaves
<1>b. \A j \in Jobs : row[j].status # "cancelled"
  BY DEF CourseInv, NoCancel
<1>c. UNCHANGED <<caller, notices>>
  BY DEF Finalize
<1>1. CASE row' = row /\ (Finish(w) \/ Goto(w, "readParent"))
  <2>1. \A v \in Workers : \/ worker'[v] = worker[v]
                           \/ worker'[v].pc \notin {"cancel", "writeParent", "notifyParent"}
    BY <1>1, <1>a DEF Goto, Finish, Idle, Worker
  <2> QED BY <1>b, <1>c, <1>1, <2>1, CourseFrame
<1>2. CASE /\ row[p].status \notin Settled /\ Pending(p) = {} /\ Goto(w, "notifyParent")
           /\ row' = [row EXCEPT ![p].status = FinalStatus(p)]
  <2>1. Quiet(p)
    BY <1>2 DEF Quiet, Pending, Open, Settled
  <2>2. FinalStatus(p) = "completed" => AllDone(p)
    <3> SUFFICES ASSUME FailedKids(p) = {}, NEW l \in Children(p)
                 PROVE  row[l].status = "completed"
      BY DEF FinalStatus, AllDone
    <3>1. row[l].status \in Settled /\ l \in Jobs
      BY <1>2 DEF Pending, Children, Jobs, Leaves
    <3> QED BY <1>b, <3>1 DEF Settled, FailedKids
  <2>3. /\ row'[p].status = FinalStatus(p)
        /\ \A i \in Jobs : i # p => row'[i] = row[i]
    BY <1>a, <1>2 DEF Row
  <2>4. FinalStatus(p) \in {"completed", "failed"}
    BY DEF FinalStatus
  <2>5. \A c \in Callers : caller'[c].pc = "batch" => caller'[c].job # p
    <3> SUFFICES ASSUME NEW c \in Callers, caller[c].pc = "batch", caller[c].job = p
                 PROVE  FALSE
      BY <1>c
    <3>1. worker[w].job \in Children(p)
      BY ParentIsJob DEF Finalize, Inv, Placed, ParentPcs, MyParent, Children
    <3>2. claims[worker[w].job] = 0
      BY <3>1 DEF Inv, CallersPlaced, Unclaimed, Children, Leaves
    <3> QED BY <3>2 DEF Finalize, Inv, Claimed
  <2>6. \A v \in Workers :
          \/ worker'[v] = worker[v]
          \/ /\ worker'[v].pc = "notifyParent"
             /\ ParentOf[worker'[v].job] = p
    BY <1>a, <1>2 DEF Goto, Worker
  <2>7. \A l \in Lessons : row'[l] = row[l]
    BY <1>a, <2>3 DEF Jobs, Leaves
  <2>8. \A j \in Jobs : row'[j].status # "cancelled"
    BY <1>b, <2>3, <2>4
  <2>9. \A q \in Parents : row'[q] = row[q] \/ q = p
    BY <2>3 DEF Jobs
  <2> HIDE DEF p
  <2> QED BY <1>c, <2>1, <2>2, <2>3, <2>4, <2>5, <2>6, <2>7, <2>8, <2>9, CourseFrame
<1> QED BY <1>1, <1>2 DEF Finalize

(* The progress update reads the parent, writes that copy back later, and   *)
(* so repeats an earlier state of it: one whose claim still holds.          *)
LEMMA CourseReport ==
  ASSUME Inv, Inv', OwnInv, CourseInv, NEW w \in Workers,
         ReadParent(w) \/ WriteParent(w) \/ NotifyParent(w)
  PROVE  CourseInv'
<1> DEFINE p == MyParent(w)
<1>a. /\ worker \in [Workers -> Worker] /\ row \in [Jobs -> Row]
      /\ p \in Parents /\ p \in Jobs /\ p \notin Lessons
      /\ p = ParentOf[worker[w].job]
  BY ParentIsJob, JobIdsAssumption
  DEF ReadParent, WriteParent, NotifyParent, Inv, TypeOK, Placed, ParentPcs, MyParent, Jobs, Leaves
<1>b. \A j \in Jobs : row[j].status # "cancelled"
  BY DEF CourseInv, NoCancel
<1>c. UNCHANGED caller
  BY DEF ReadParent, WriteParent, NotifyParent
<1>d. \A c \in Callers : caller'[c].pc = "batch" => caller'[c].job # p
  <2> SUFFICES ASSUME NEW c \in Callers, caller[c].pc = "batch", caller[c].job = p
               PROVE  FALSE
    BY <1>c
  <2>1. worker[w].job \in Children(p)
    BY ParentIsJob DEF ReadParent, WriteParent, NotifyParent, Inv, Placed, ParentPcs, MyParent, Children
  <2>2. claims[worker[w].job] = 0
    BY <2>1 DEF Inv, CallersPlaced, Unclaimed, Children, Leaves
  <2> QED BY <2>2 DEF ReadParent, WriteParent, NotifyParent, Inv, Claimed
<1>1. CASE ReadParent(w)
  <2>1. row[p].status = "completed" => AllDone(p)
    BY <1>a DEF CourseInv, DoneMeans
  <2>2. \A v \in Workers :
          \/ worker'[v] = worker[v]
          \/ /\ worker'[v].pc = "writeParent"
             /\ worker'[v].seen = row[p]
             /\ ParentOf[worker'[v].job] = p
    BY <1>a, <1>1 DEF ReadParent, Worker
  <2>3. UNCHANGED <<row, notices>>
    BY <1>1 DEF ReadParent
  <2>4. row[p].status # "cancelled"
    BY <1>a, <1>b
  <2> HIDE DEF p
  <2> QED BY <1>b, <1>c, <2>1, <2>2, <2>3, <2>4, CourseFrame
<1>2. CASE WriteParent(w)
  <2> DEFINE r == worker[w].seen
  <2>1. /\ r.status = "completed" => AllDone(p)
        /\ r.status \notin {"absent", "cancelled"}
    BY <1>2 DEF WriteParent, CourseInv, SeenMeans, NoCancel, Inv, SeenParent
  <2>2. row' = row \/ row' = [row EXCEPT ![p] = r]
    BY <1>2 DEF WriteParent, TryUpdate, Update
  <2> HIDE DEF r
  <2>3. ASSUME NEW q \in Jobs PROVE row'[q] = row[q] \/ (q = p /\ row'[q] = r)
    <3>1. CASE row' = row
      BY <3>1
    <3>2. CASE row' = [row EXCEPT ![p] = r] /\ q = p
      BY <1>a, <3>2
    <3>3. CASE row' = [row EXCEPT ![p] = r] /\ q # p
      BY <1>a, <3>3
    <3> QED BY <2>2, <3>1, <3>2, <3>3
  <2>4. \A v \in Workers : worker'[v] = worker[v] \/ worker'[v].pc = "idle"
    BY <1>a, <1>2 DEF WriteParent, Finish, Idle
  <2>5. UNCHANGED notices
    BY <1>2 DEF WriteParent
  <2>6. \A l \in Lessons : row'[l] = row[l]
    BY <1>a, <2>3 DEF Jobs, Leaves
  <2>7. \A j \in Jobs : row'[j].status # "cancelled"
    BY <1>b, <2>1, <2>3
  <2>8. \A q \in Parents : row'[q] = row[q] \/ (q = p /\ row'[q] = r)
    BY <2>3 DEF Jobs
  <2> HIDE DEF p
  <2> QED BY <1>c, <1>d, <2>1, <2>4, <2>5, <2>6, <2>7, <2>8, CourseFrame
<1>3. CASE NotifyParent(w)
  <2>1. Quiet(p)
    BY <1>3 DEF NotifyParent, CourseInv, TellingQuiet
  <2>2. \A q \in Parents : q # p => notices'[q] = notices[q]
    BY <1>3 DEF NotifyParent, Inv, TypeOK, Jobs
  <2>3. \A v \in Workers : worker'[v] = worker[v] \/ worker'[v].pc = "idle"
    BY <1>a, <1>3 DEF NotifyParent, Finish, Idle
  <2>4. UNCHANGED row
    BY <1>3 DEF NotifyParent
  <2>5. row[p].status # "absent"
    <3>1. row[worker[w].job].status # "absent"
      BY <1>3 DEF NotifyParent, Inv, Placed, Claimed, Unclaimed
    <3> QED BY <3>1, <1>3, ParentIsJob DEF NotifyParent, Inv, Placed, ParentPcs, Family, MyParent
  <2> HIDE DEF p
  <2> QED BY <1>b, <1>c, <1>d, <2>1, <2>2, <2>3, <2>4, <2>5, CourseFrame
<1> QED BY <1>1, <1>2, <1>3

(* Every step keeps the course invariant.                                   *)
LEMMA CourseStep ==
  ASSUME Inv, OwnInv, CourseInv, MaxCancels = 0, [Next]_vars
  PROVE  CourseInv'
<1>a. Inv'
  BY InvStep
<1>b. \A j \in Jobs : row[j].status # "cancelled"
  BY DEF CourseInv, NoCancel
<1>c. \A c \in Callers : caller[c].pc \in {"idle", "batch"}
  BY DEF CourseInv, NoCancel
<1>1. CASE UNCHANGED <<row, notices, worker>> /\ \A c \in Callers : caller'[c] = caller[c] \/ caller'[c].pc = "idle"
  BY <1>1, <1>a, <1>b, CourseFrame
<1>2. ASSUME NEW j \in Leaves, RequestJob(j) PROVE CourseInv'
  <2>1. /\ \A i \in Jobs : i # j => row'[i] = row[i]
        /\ row'[j].status = "queued"
        /\ UNCHANGED <<notices, worker, caller>>
    BY <1>2 DEF RequestJob, RowIn, Inv, TypeOK, Jobs
  <2>2. \A l \in Lessons : IsChild(l) => row'[l] = row[l]
    BY <1>2, <2>1 DEF RequestJob, Jobs, Leaves
  <2>3. \A p \in Parents : row'[p] = row[p]
    BY <2>1, JobIdsAssumption DEF Jobs, Leaves
  <2>4. \A i \in Jobs : row'[i].status # "cancelled"
    BY <1>b, <2>1
  <2> QED BY <1>a, <2>1, <2>2, <2>3, <2>4, CourseFrame
<1>3. ASSUME NEW j \in Leaves, Expire(j) PROVE CourseInv'
  BY <1>1, <1>3 DEF Expire
<1>4. ASSUME NEW c \in Callers, NEW p \in Parents, StartAllLessons(c, p) PROVE CourseInv'
  BY <1>4, CourseStart
<1>5. ASSUME NEW c \in Callers, NEW j \in Jobs, ReadJobToCancel(c, j) PROVE CourseInv'
  BY <1>5 DEF ReadJobToCancel, Inv, TypeOK
<1>6. ASSUME NEW c \in Callers, CallerStep(c) PROVE CourseInv'
  <2>1. CreateBatch(c) \/ CreateBatchFails(c)
    BY <1>c, <1>6 DEF CallerStep, ListChildren, CancelChild, WriteCancelled
  <2> QED BY <1>a, <2>1, CourseBatch, CourseBatchFails
<1>7. ASSUME NEW c \in Callers, DropRequest(c) PROVE CourseInv'
  <2>1. \A d \in Callers : caller'[d] = caller[d] \/ caller'[d].pc = "idle"
    BY <1>7 DEF DropRequest, NoCall, Inv, TypeOK
  <2> QED BY <1>1, <1>7, <2>1 DEF DropRequest
<1>8. ASSUME NEW w \in Workers, NEW j \in Leaves, Taken(w, j) PROVE CourseInv'
  <2>1. /\ row[j].status \in Open /\ row'[j].status = "processing"
        /\ \A i \in Jobs : i # j => row'[i] = row[i]
        /\ UNCHANGED <<notices, caller>>
        /\ \A v \in Workers : worker'[v] = worker[v] \/ worker'[v].pc \in {"start", "fail"}
    BY <1>8 DEF Taken, Claim, StaleJobs, RowIn, Open, Idle, Inv, TypeOK, Jobs
  <2>2. \A l \in Lessons : row[l].status \notin Open => row'[l] = row[l]
    BY <2>1 DEF Jobs, Leaves
  <2>3. \A p \in Parents : row'[p] = row[p]
    BY <2>1, JobIdsAssumption DEF Jobs, Leaves
  <2>4. \A i \in Jobs : row'[i].status # "cancelled"
    BY <1>b, <2>1
  <2>5. "completed" \notin Open
    BY DEF Open
  <2> QED BY <1>a, <2>1, <2>2, <2>3, <2>4, <2>5, CourseFrame
<1>9. ASSUME NEW w \in Workers, NEW j \in Leaves, DeliverTask(w, j) PROVE CourseInv'
  BY <1>8, <1>9 DEF DeliverTask, ClaimableByID, Taken
<1>10. ASSUME NEW w \in Workers, NEW j \in Leaves, DeliverTaskLate(w, j) PROVE CourseInv'
  BY <1>1, <1>10 DEF DeliverTaskLate
<1>11. ASSUME NEW w \in Workers, Sweep(w) PROVE CourseInv'
  BY <1>8, <1>11 DEF Sweep, QueuedJobs, StaleJobs, Taken
<1>12. ASSUME NEW w \in Workers, Abandon(w) PROVE CourseInv'
  <2>1. \A v \in Workers : worker'[v] = worker[v] \/ worker'[v].pc = "idle"
    BY <1>12 DEF Abandon, Finish, Idle, Inv, TypeOK
  <2>2. UNCHANGED <<row, notices, caller>>
    BY <1>12 DEF Abandon
  <2> QED BY <1>a, <1>b, <2>1, <2>2, CourseFrame
<1>13. ASSUME NEW w \in Workers, ProcessStep(w) PROVE CourseInv'
  <2>1. CASE worker[w].pc \notin ParentPcs
    BY <1>13, <1>a, <2>1, CourseHeld
  <2>2. CASE worker[w].pc \in ParentPcs
    <3>1. Finalize(w) \/ ReadParent(w) \/ WriteParent(w) \/ NotifyParent(w)
      BY <1>13, <2>2 DEF ProcessStep, CheckAtStart, Announce, Gather, CheckBeforeAI,
         MarkCancelled, Generate, SaveTokens, StoreResult, StoreComponents, Complete, Fail, Notify, ParentPcs
    <3> QED BY <1>a, <3>1, CourseFinalize, CourseReport
  <2> QED BY <2>1, <2>2
<1> QED
  BY <1>1, <1>2, <1>3, <1>4, <1>5, <1>6, <1>7, <1>9, <1>10, <1>11, <1>12, <1>13 DEF Next, vars

(* The course invariant holds in every reachable state.                     *)
LEMMA CourseInvariance ==
  ASSUME ~LiveOverrun, MaxCancels = 0
  PROVE  Spec => []CourseInv
<1>1. Init => CourseInv
  <2> SUFFICES ASSUME Init PROVE CourseInv
    OBVIOUS
  <2>1. \A j \in Jobs : row[j].status = "absent" /\ notices[j] = 0
    BY DEF Init, NoRow
  <2>2. \A w \in Workers : worker[w].pc = "idle"
    BY DEF Init, Idle
  <2>3. \A c \in Callers : caller[c].pc = "idle"
    BY DEF Init, NoCall
  <2> QED BY <2>1, <2>2, <2>3
      DEF CourseInv, NoCancel, DoneMeans, SeenMeans, ToldQuiet, TellingQuiet, FreshBatch, Jobs
<1>2. Inv /\ OwnInv /\ CourseInv /\ [Next]_vars => CourseInv'
  BY CourseStep
<1> QED BY <1>1, <1>2, OwnInvariance, PTL DEF Spec

(* A course that is reported completed has every lesson completed and its   *)
(* content stored, however many workers finish lessons at once, crash,      *)
(* lose updates or write old progress over the parent.                      *)
THEOREM CompletedCourse ==
  ASSUME ~LiveOverrun, MaxCancels = 0
  PROVE  Spec => []CourseMeansLessons
<1>1. CourseInv /\ Stored => CourseMeansLessons
  BY DEF CourseInv, DoneMeans, AllDone, Stored, CompletedHasResult, CourseMeansLessons,
         Children, Leaves
<1> QED BY <1>1, CourseInvariance, StoredInvariance, PTL

(* The user is told of a course's outcome only when no lesson of it is left *)
(* to run, and none runs again: true even of the second notification that   *)
(* the stale progress update can cause.                                     *)
THEOREM AnnouncedQuiet ==
  ASSUME ~LiveOverrun, MaxCancels = 0
  PROVE  Spec => []AnnouncedWhenSettled
<1>1. CourseInv => AnnouncedWhenSettled
  BY DEF CourseInv, ToldQuiet, Quiet, AnnouncedWhenSettled
<1> QED BY <1>1, CourseInvariance, PTL
-----------------------------------------------------------------------------
(***************************************************************************)
(* A job stores at most one result per claim, for any number of jobs and   *)
(* workers: the proof of ResultPerClaim. Storing takes many steps after    *)
(* the claim, and stale recovery lets several workers run one job, so the  *)
(* invariant counts the workers that may still store: each of them owes    *)
(* its result to a claim of its own.                                       *)
(***************************************************************************)
(* The steps from which a worker can still reach StoreResult, and the       *)
(* workers that are there with job j.                                       *)
MakePcs   == {"start", "announce", "gather", "check", "generate", "save", "store"}
Making(j) == {w \in Workers : worker[w].pc \in MakePcs /\ worker[w].job = j}

Counted == \A j \in Leaves : results[j] + Cardinality(Making(j)) <= claims[j]

(* Making(j) is finite, so that its cardinality is a number.                *)
LEMMA MakingFinite ==
  /\ \A j : IsFiniteSet(Making(j)) /\ Cardinality(Making(j)) \in Nat
  /\ \A j : IsFiniteSet(Making(j)') /\ Cardinality(Making(j)') \in Nat
<1>1. \A j : Making(j) \subseteq Workers /\ Making(j)' \subseteq Workers
  BY DEF Making
<1> QED BY <1>1, WorkersAssumption, FS_Subset, FS_CardinalityType

(* A step in which nobody claims and nobody stores: workers only leave.     *)
LEMMA CountKeep ==
  ASSUME Inv, Counted, UNCHANGED <<claims, results>>,
         \A w \in Workers : \/ worker'[w] = worker[w]
                            \/ worker'[w].pc \notin MakePcs
                            \/ worker[w].pc \in MakePcs /\ worker'[w].job = worker[w].job
  PROVE  Counted'
<1> SUFFICES ASSUME NEW j \in Leaves
             PROVE  results[j] + Cardinality(Making(j)') <= claims[j]
  BY DEF Counted
<1>1. Making(j)' \subseteq Making(j)
  BY DEF Making
<1>2. Cardinality(Making(j)') <= Cardinality(Making(j))
  BY <1>1, MakingFinite, FS_Subset
<1>3. results[j] \in Nat /\ claims[j] \in Nat
  BY BoundsAssumption DEF Inv, TypeOK
<1> QED BY <1>2, <1>3, MakingFinite DEF Counted

(* A claim pays for the worker it adds.                                     *)
LEMMA CountClaim ==
  ASSUME Inv, Counted, NEW w \in Workers, NEW i \in Leaves, worker[w].pc = "idle", Claim(w, i)
  PROVE  Counted'
<1> SUFFICES ASSUME NEW j \in Leaves
             PROVE  results'[j] + Cardinality(Making(j)') <= claims'[j]
  BY DEF Counted
<1>a. /\ \A v \in Workers : v # w => worker'[v] = worker[v]
      /\ worker'[w].job = i
      /\ worker[w].pc \notin MakePcs
      /\ claims'[i] = claims[i] + 1
      /\ \A k \in Leaves : k # i => claims'[k] = claims[k]
      /\ UNCHANGED results
      /\ results[j] \in Nat /\ claims[j] \in Nat
  BY BoundsAssumption DEF Claim, Idle, MakePcs, Inv, TypeOK
<1>b. results[j] + Cardinality(Making(j)) <= claims[j]
  BY DEF Counted
<1>1. CASE j = i
  <2>1. w \notin Making(j) /\ Making(j)' \subseteq Making(j) \cup {w}
    BY <1>a, <1>1 DEF Making
  <2>2. Cardinality(Making(j) \cup {w}) = Cardinality(Making(j)) + 1
    BY <2>1, MakingFinite, FS_AddElement
  <2>3. IsFiniteSet(Making(j) \cup {w})
    BY MakingFinite, FS_AddElement
  <2>4. Cardinality(Making(j)') <= Cardinality(Making(j)) + 1
    BY <2>1, <2>2, <2>3, FS_Subset
  <2> QED BY <1>1, <1>a, <1>b, <2>4, MakingFinite
<1>2. CASE j # i
  <2>1. Making(j)' \subseteq Making(j)
    BY <1>a, <1>2 DEF Making
  <2>2. Cardinality(Making(j)') <= Cardinality(Making(j))
    BY <2>1, MakingFinite, FS_Subset
  <2> QED BY <1>2, <1>a, <1>b, <2>2, MakingFinite
<1> QED BY <1>1, <1>2

(* A stored result uses up the worker that stored it.                       *)
LEMMA CountStore ==
  ASSUME Inv, Counted, NEW w \in Workers, worker[w].pc = "store",
         NEW pc \in StoredPcs, Goto(w, pc),
         results' = [results EXCEPT ![worker[w].job] = @ + 1], UNCHANGED claims
  PROVE  Counted'
<1> SUFFICES ASSUME NEW j \in Leaves
             PROVE  results'[j] + Cardinality(Making(j)') <= claims[j]
  BY DEF Counted
<1>a. /\ \A v \in Workers : v # w => worker'[v] = worker[v]
      /\ worker'[w].pc \notin MakePcs
      /\ results[j] \in Nat /\ claims[j] \in Nat
      /\ results'[j] = IF j = worker[w].job THEN results[j] + 1 ELSE results[j]
  BY BoundsAssumption DEF Goto, Worker, Inv, TypeOK, StoredPcs, MakePcs
<1>b. results[j] + Cardinality(Making(j)) <= claims[j]
  BY DEF Counted
<1>1. Making(j)' \subseteq Making(j) \ {w}
  BY <1>a DEF Making, MakePcs
<1>2. Cardinality(Making(j)') <= Cardinality(Making(j) \ {w}) /\ IsFiniteSet(Making(j) \ {w})
  BY <1>1, MakingFinite, FS_Subset, FS_RemoveElement
<1>3. Cardinality(Making(j) \ {w}) \in Nat
  BY <1>2, FS_CardinalityType
<1>4. CASE j = worker[w].job
  <2>1. w \in Making(j)
    BY <1>4 DEF Making, MakePcs
  <2>2. Cardinality(Making(j) \ {w}) = Cardinality(Making(j)) - 1
    BY <2>1, MakingFinite, FS_RemoveElement
  <2> QED BY <1>4, <1>a, <1>b, <1>2, <2>2, MakingFinite
<1>5. CASE j # worker[w].job
  <2>1. Cardinality(Making(j) \ {w}) <= Cardinality(Making(j))
    BY MakingFinite, FS_Subset
  <2> QED BY <1>5, <1>a, <1>b, <1>2, <1>3, <2>1, MakingFinite
<1> QED BY <1>4, <1>5

(* A worker's steps move it forward: towards StoreResult or away from it.   *)
LEMMA CountProcess ==
  ASSUME Inv, Counted, NEW w \in Workers, ProcessStep(w)
  PROVE  Counted'
<1>a. worker \in [Workers -> Worker]
  BY DEF Inv, TypeOK
<1>b. UNCHANGED claims
  BY ProcessKinds DEF Inv
<1>1. CASE /\ \E pc \in StoredPcs : Goto(w, pc)
           /\ worker[w].pc = "store"
           /\ results' = [results EXCEPT ![worker[w].job] = @ + 1]
  BY <1>1, <1>b, CountStore
<1>2. CASE UNCHANGED results
  <2>1. \/ Finish(w)
        \/ \E pc : (worker[w].pc \in MakePcs \/ pc \notin MakePcs) /\ Goto(w, pc)
        \/ ReadParent(w)
    BY <1>2 DEF ProcessStep, CheckAtStart, Announce, Gather, CheckBeforeAI, MarkCancelled,
       Generate, SaveTokens, StoreResult, StoreComponents, Complete, Fail, Notify, Finalize,
       WriteParent, NotifyParent, MakePcs
  <2>2. \A v \in Workers : \/ worker'[v] = worker[v]
                           \/ worker'[v].pc \notin MakePcs
                           \/ worker[v].pc \in MakePcs /\ worker'[v].job = worker[v].job
    BY <1>a, <2>1 DEF Finish, Idle, Goto, ReadParent, Worker, MakePcs
  <2> QED BY <1>2, <1>b, <2>2, CountKeep
<1> QED
  BY <1>1, <1>2 DEF ProcessStep, CheckAtStart, Announce, Gather, CheckBeforeAI, MarkCancelled,
     Generate, SaveTokens, StoreResult, StoreComponents, Complete, Fail, Notify, Finalize,
     ReadParent, WriteParent, NotifyParent, StoredPcs

(* Every step keeps the count.                                              *)
LEMMA CountStep ==
  ASSUME Inv, Counted, [Next]_vars
  PROVE  Counted'
<1>1. CASE UNCHANGED <<claims, results, worker>>
  BY <1>1, CountKeep
<1>2. ASSUME NEW w \in Workers, NEW j \in Leaves, DeliverTask(w, j) PROVE Counted'
  BY <1>2, CountClaim DEF DeliverTask
<1>3. ASSUME NEW w \in Workers, Sweep(w) PROVE Counted'
  BY <1>3, CountClaim DEF Sweep, QueuedJobs, StaleJobs
<1>4. ASSUME NEW w \in Workers, Abandon(w) PROVE Counted'
  <2>1. \A v \in Workers : worker'[v] = worker[v] \/ worker'[v].pc \notin MakePcs
    BY <1>4 DEF Abandon, Finish, Idle, MakePcs, Inv, TypeOK
  <2> QED BY <1>4, <2>1, CountKeep DEF Abandon
<1>5. ASSUME NEW w \in Workers, ProcessStep(w) PROVE Counted'
  BY <1>5, CountProcess
<1>6. CASE ~\E w \in Workers : \/ Sweep(w) \/ Abandon(w) \/ ProcessStep(w)
                               \/ \E j \in Leaves : DeliverTask(w, j)
  <2>1. UNCHANGED <<claims, results, worker>>
    BY <1>6 DEF Next, vars, RequestJob, Expire, StartAllLessons, ReadJobToCancel, CallerStep,
       CreateBatch, CreateBatchFails, ListChildren, CancelChild, WriteCancelled, DropRequest,
       DeliverTaskLate
  <2> QED BY <1>1, <2>1
<1> QED BY <1>2, <1>3, <1>4, <1>5, <1>6

(* No outline or lesson is stored more often than its job was claimed, so a *)
(* duplicate exists only where the stale timeout handed the job out again:  *)
(* redelivered tasks, cancellations and lost updates create none.           *)
THEOREM OneResultPerClaim == Spec => []ResultPerClaim
<1>1. Init => Counted
  <2> SUFFICES ASSUME Init, NEW j \in Leaves
               PROVE  results[j] + Cardinality(Making(j)) <= claims[j]
    BY DEF Counted
  <2>1. Making(j) = {}
    BY DEF Init, Idle, Making, MakePcs
  <2>2. Cardinality(Making(j)) = 0
    BY <2>1, FS_EmptySet
  <2> QED BY <2>2 DEF Init
<1>2. Inv /\ Counted /\ [Next]_vars => Counted'
  BY CountStep
<1>3. Inv /\ Counted => ResultPerClaim
  <2> SUFFICES ASSUME Inv, Counted, NEW j \in Leaves PROVE results[j] <= claims[j]
    BY DEF ResultPerClaim
  <2>1. results[j] \in Nat /\ claims[j] \in Nat
    BY BoundsAssumption DEF Inv, TypeOK
  <2>2. results[j] + Cardinality(Making(j)) <= claims[j]
    BY DEF Counted
  <2> QED BY <2>1, <2>2, MakingFinite
<1> QED BY <1>1, <1>2, <1>3, Invariance, PTL DEF Spec
=============================================================================
