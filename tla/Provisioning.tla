---------------------------- MODULE Provisioning ----------------------------
(***************************************************************************)
(* From sign-up to account: pending registrations, the Stripe checkout and *)
(* its webhook, the stripe:provision tasks and their processing, the       *)
(* scheduled reconciliation and the cleanup of expired registrations.      *)
(*                                                                         *)
(* Status tests here are all "read, decide, write later": the webhook and  *)
(* the provisioning worker read a registration, act on its status, and     *)
(* update it by id without looking again.  The only guard against making   *)
(* an account twice is that Kratos holds one identity per e-mail address.  *)
(***************************************************************************)
EXTENDS Naturals, FiniteSets

CONSTANTS
  Regs,           \* registrations, one per Stripe checkout session
  Emails,
  EmailOf,        \* [Regs -> Emails]
  Signups,        \* concurrent AuthService.Register calls
  Hooks,          \* concurrent webhook requests
  Workers,        \* Asynq handler goroutines
  NoReg,
  MaxDeliveries,  \* bound: times Stripe sends one event, not counting retries
  MaxTasks,       \* bound: waiting stripe:provision tasks of one registration
  MaxFaults,      \* bound: failures of the kinds in Faults
  Faults,         \* failures considered, among FaultKinds
  Punctual        \* does Stripe deliver its event before the row expires

FaultKinds == {"error",    \* a database, Kratos or insert call fails
               "enqueue",  \* a task cannot be pushed to Redis
               "crash"}    \* the process stops in the middle of a request

ASSUME RegsAssumption == EmailOf \in [Regs -> Emails] /\ NoReg \notin Regs
ASSUME LimitsAssumption ==
  /\ MaxDeliveries \in Nat \ {0} /\ MaxTasks \in Nat \ {0} /\ MaxFaults \in Nat
  /\ Faults \subseteq FaultKinds /\ Punctual \in BOOLEAN

VARIABLES
  reg,         \* status of each pending_registrations row
  expired,     \* registrations past their expires_at
  charged,     \* registrations whose checkout was paid
  events,      \* checkout.session.completed events Stripe will still send
  tasks,       \* stripe:provision tasks waiting in Asynq
  signup, hook, worker,  \* what each Register, webhook and task handler does
  identities,  \* e-mail addresses with a Kratos identity
  companies,   \* companies created for each registration
  users,       \* users, that is complete accounts, created for each
  faults

vars == <<reg, expired, charged, events, tasks, signup, hook, worker,
          identities, companies, users, faults>>

(* "none" is a row that was not inserted yet, "gone" one that was deleted.  *)
Row       == {"pending", "paid", "provisioning", "failed"}
Process   == [pc : {"idle", "checkPending", "insert", "markPaid", "enqueue",
                    "begin", "identity", "tenant", "company", "user", "delete",
                    "markFailed"},
              reg : Regs \cup {NoReg}]
Idle      == [pc |-> "idle", reg |-> NoReg]
At(pc, r) == [pc |-> pc, reg |-> r]

(* provisionAccount is running: past its read of the status.                *)
Provisioning == {"identity", "tenant", "company", "user", "delete"}

TypeOK ==
  /\ reg \in [Regs -> Row \cup {"none", "gone"}]
  /\ expired \subseteq Regs /\ charged \subseteq Regs
  /\ events \in [Regs -> Nat]
  /\ tasks \in [Regs -> Nat]
  /\ signup \in [Signups -> Process]
  /\ hook \in [Hooks -> Process]
  /\ worker \in [Workers -> Process]
  /\ identities \subseteq Emails
  /\ companies \in [Regs -> Nat] /\ users \in [Regs -> Nat]
  /\ faults \in 0..MaxFaults

Init ==
  /\ reg = [r \in Regs |-> "none"]
  /\ expired = {} /\ charged = {}
  /\ events = [r \in Regs |-> 0]
  /\ tasks = [r \in Regs |-> 0]
  /\ signup = [s \in Signups |-> Idle]
  /\ hook = [h \in Hooks |-> Idle]
  /\ worker = [w \in Workers |-> Idle]
  /\ identities = {}
  /\ companies = [r \in Regs |-> 0] /\ users = [r \in Regs |-> 0]
  /\ faults = 0

Fault(kind) ==
  /\ kind \in Faults /\ faults < MaxFaults
  /\ faults' = faults + 1

(* pendingRegistrationRepository.Update: by id, whatever the status is now. *)
(* It fails when the row is gone.                                           *)
Update(r, status) == /\ reg[r] \in Row
                     /\ reg' = [reg EXCEPT ![r] = status]
                     /\ UNCHANGED faults
UpdateFails(r)    == /\ \/ reg[r] \notin Row /\ UNCHANGED faults
                        \/ Fault("error")
                     /\ UNCHANGED reg

(***************************************************************************)
(* AuthService.Register                                                    *)
(***************************************************************************)
(* The address has no Kratos identity ...                                   *)
CheckIdentity(s, r) ==
  /\ signup[s] = Idle
  /\ reg[r] = "none" /\ \A t \in Signups : signup[t].reg # r
  /\ EmailOf[r] \notin identities
  /\ signup' = [signup EXCEPT ![s] = At("checkPending", r)]
  /\ UNCHANGED <<reg, expired, charged, events, tasks, hook, worker, identities,
                 companies, users, faults>>

(* ... and no live registration that is pending or paid ...                 *)
ExistsByEmail(e) == \E r \in Regs \ expired : /\ EmailOf[r] = e
                                              /\ reg[r] \in {"pending", "paid"}

CheckPending(s) ==
  /\ signup[s].pc = "checkPending"
  /\ signup' = [signup EXCEPT ![s] =
                  IF ExistsByEmail(EmailOf[signup[s].reg]) THEN Idle
                  ELSE At("insert", signup[s].reg)]
  /\ UNCHANGED <<reg, expired, charged, events, tasks, hook, worker, identities,
                 companies, users, faults>>

(* ... then the checkout session and the row are created, unless one of the *)
(* two calls fails.  The address is not a key of the table.                 *)
Insert(s) ==
  /\ signup[s].pc = "insert"
  /\ \/ reg' = [reg EXCEPT ![signup[s].reg] = "pending"] /\ UNCHANGED faults
     \/ Fault("error") /\ UNCHANGED reg
  /\ signup' = [signup EXCEPT ![s] = Idle]
  /\ UNCHANGED <<expired, charged, events, tasks, hook, worker, identities,
                 companies, users>>

(***************************************************************************)
(* Stripe and the clock                                                    *)
(***************************************************************************)
(* The user pays the checkout session, which lives no longer than the row;  *)
(* Stripe sends the event one or more times.                                *)
Pay(r) ==
  /\ reg[r] = "pending" /\ r \notin expired \cup charged
  /\ charged' = charged \cup {r}
  /\ \E n \in 1..MaxDeliveries : events' = [events EXCEPT ![r] = n]
  /\ UNCHANGED <<reg, expired, tasks, signup, hook, worker, identities, companies,
                 users, faults>>

Delivered(r) == events[r] = 0 /\ \A h \in Hooks : hook[h].reg # r

(* Twenty-four hours have passed.                                           *)
Expire(r) ==
  /\ reg[r] \in Row /\ r \notin expired
  /\ Punctual => Delivered(r)
  /\ expired' = expired \cup {r}
  /\ UNCHANGED <<reg, charged, events, tasks, signup, hook, worker, identities,
                 companies, users, faults>>

(* Faulty variant: the cleanup looks at the date only.                      *)
CleanupAnyStatus ==
  /\ \E r \in expired : reg[r] \in Row
  /\ reg' = [r \in Regs |-> IF r \in expired /\ reg[r] \in Row
                            THEN "gone" ELSE reg[r]]
  /\ UNCHANGED <<expired, charged, events, tasks, signup, hook, worker,
                 identities, companies, users, faults>>

(* HandleCleanupExpired -> CleanupExpired -> DeleteExpired, every hour.     *)
Cleanup ==
  /\ \E r \in expired : reg[r] = "pending"
  /\ reg' = [r \in Regs |-> IF r \in expired /\ reg[r] = "pending"
                            THEN "gone" ELSE reg[r]]
  /\ UNCHANGED <<expired, charged, events, tasks, signup, hook, worker,
                 identities, companies, users, faults>>

(***************************************************************************)
(* The webhook: handlePendingRegistrationPayment.  Whatever happens in it, *)
(* the response is 200 and Stripe does not send that event again; only a   *)
(* crash makes it retry.                                                   *)
(***************************************************************************)
(* The registration is read; one that is missing, or not pending, or cannot *)
(* be read is left alone.                                                   *)
DeliverEvent(h, r) ==
  /\ hook[h] = Idle /\ events[r] > 0
  /\ events' = [events EXCEPT ![r] = @ - 1]
  /\ \/ /\ reg[r] = "pending"
        /\ hook' = [hook EXCEPT ![h] = At("markPaid", r)]
        /\ UNCHANGED faults
     \/ reg[r] # "pending" /\ UNCHANGED <<hook, faults>>
     \/ Fault("error") /\ UNCHANGED hook
  /\ UNCHANGED <<reg, expired, charged, tasks, signup, worker, identities,
                 companies, users>>

MarkPaid(h) ==
  /\ hook[h].pc = "markPaid"
  /\ \/ Update(hook[h].reg, "paid") /\ hook' = [hook EXCEPT ![h].pc = "enqueue"]
     \/ UpdateFails(hook[h].reg) /\ hook' = [hook EXCEPT ![h] = Idle]
  /\ UNCHANGED <<expired, charged, events, tasks, signup, worker, identities,
                 companies, users>>

(* EnqueueStripeProvision; its error is logged.                             *)
Enqueue(h) ==
  /\ hook[h].pc = "enqueue"
  /\ \/ tasks' = [tasks EXCEPT ![hook[h].reg] = @ + 1] /\ UNCHANGED faults
     \/ Fault("enqueue") /\ UNCHANGED tasks
  /\ hook' = [hook EXCEPT ![h] = Idle]
  /\ UNCHANGED <<reg, expired, charged, events, signup, worker, identities,
                 companies, users>>

HookCrash(h) ==
  /\ hook[h] # Idle
  /\ Fault("crash")
  /\ events' = [events EXCEPT ![hook[h].reg] = @ + 1]
  /\ hook' = [hook EXCEPT ![h] = Idle]
  /\ UNCHANGED <<reg, expired, charged, tasks, signup, worker, identities,
                 companies, users>>

(***************************************************************************)
(* The worker: HandleStripeProvision -> ProvisionByCheckoutSession ->      *)
(* provisionAccount                                                        *)
(***************************************************************************)
StuckNever == {}  \* faulty variant: nothing is found

(* FindStuckPaid                                                            *)
Stuck == {r \in Regs : reg[r] = "paid"}

(* HandleStripeReconcile, every 15 minutes: registrations paid for more     *)
(* than five minutes are enqueued again, even if a task still waits.        *)
Reconcile(r) ==
  /\ r \in Stuck
  /\ tasks[r] < MaxTasks
  /\ tasks' = [tasks EXCEPT ![r] = @ + 1]
  /\ UNCHANGED <<reg, expired, charged, events, signup, hook, worker, identities,
                 companies, users, faults>>

Goto(w, pc)     == worker' = [worker EXCEPT ![w].pc = pc]
MyReg(w)        == worker[w].reg
Requeue(w)      == /\ tasks' = [tasks EXCEPT ![MyReg(w)] = @ + 1]
                   /\ worker' = [worker EXCEPT ![w] = Idle]

(* A registration that is missing or not paid ends the task; a read error   *)
(* leaves it to be retried.                                                 *)
StartTask(w, r) ==
  /\ worker[w] = Idle /\ tasks[r] > 0
  /\ tasks' = [tasks EXCEPT ![r] = @ - 1]
  /\ worker' = IF reg[r] = "paid" THEN [worker EXCEPT ![w] = At("begin", r)]
               ELSE worker
  /\ UNCHANGED <<reg, expired, charged, events, signup, hook, identities,
                 companies, users, faults>>

(* "Mark as provisioning to prevent duplicate processing".                  *)
MarkProvisioning(w) ==
  /\ worker[w].pc = "begin"
  /\ \/ Update(MyReg(w), "provisioning") /\ Goto(w, "identity")
     \/ UpdateFails(MyReg(w)) /\ Goto(w, "markFailed")
  /\ UNCHANGED <<expired, charged, events, tasks, signup, hook, identities,
                 companies, users>>

(* Faulty variant: an existing identity is taken for one's own.             *)
CreateIdentityIfMissing(w) ==
  /\ worker[w].pc = "identity"
  /\ \/ /\ identities' = identities \cup {EmailOf[MyReg(w)]}
        /\ Goto(w, "tenant")
        /\ UNCHANGED faults
     \/ /\ Fault("error")
        /\ Goto(w, "markFailed")
        /\ UNCHANGED identities
  /\ UNCHANGED <<reg, expired, charged, events, tasks, signup, hook, companies,
                 users>>

(* CreateIdentityWithHash: Kratos refuses an address it knows.  On an error *)
(* the identity may exist nevertheless.                                     *)
CreateIdentity(w) ==
  /\ worker[w].pc = "identity"
  /\ LET e == EmailOf[MyReg(w)] IN
       \/ /\ e \notin identities
          /\ identities' = identities \cup {e}
          /\ Goto(w, "tenant")
          /\ UNCHANGED faults
       \/ /\ e \in identities
          /\ Goto(w, "markFailed")
          /\ UNCHANGED <<identities, faults>>
       \/ /\ Fault("error")
          /\ identities' \in {identities, identities \cup {e}}
          /\ Goto(w, "markFailed")
  /\ UNCHANGED <<reg, expired, charged, events, tasks, signup, hook, companies,
                 users>>

(* Tenant slugs carry a random suffix, so only an error stops this step.    *)
CreateTenant(w) ==
  /\ worker[w].pc = "tenant"
  /\ \/ Goto(w, "company") /\ UNCHANGED faults
     \/ Goto(w, "markFailed") /\ Fault("error")
  /\ UNCHANGED <<reg, expired, charged, events, tasks, signup, hook, identities,
                 companies, users>>

CreateCompany(w) ==
  /\ worker[w].pc = "company"
  /\ \/ /\ companies' = [companies EXCEPT ![MyReg(w)] = @ + 1]
        /\ Goto(w, "user")
        /\ UNCHANGED faults
     \/ Goto(w, "markFailed") /\ Fault("error") /\ UNCHANGED companies
  /\ UNCHANGED <<reg, expired, charged, events, tasks, signup, hook, identities,
                 users>>

CreateUser(w) ==
  /\ worker[w].pc = "user"
  /\ \/ /\ users' = [users EXCEPT ![MyReg(w)] = @ + 1]
        /\ Goto(w, "delete")
        /\ UNCHANGED faults
     \/ Goto(w, "markFailed") /\ Fault("error") /\ UNCHANGED users
  /\ UNCHANGED <<reg, expired, charged, events, tasks, signup, hook, identities,
                 companies>>

(* Faulty variant: a soft delete with a status the table does not allow.    *)
SoftDelete(w) ==
  /\ worker[w].pc = "delete"
  /\ reg' = [reg EXCEPT ![MyReg(w)] = "completed"]
  /\ worker' = [worker EXCEPT ![w] = Idle]
  /\ UNCHANGED <<expired, charged, events, tasks, signup, hook, identities,
                 companies, users, faults>>

(* Delete of the registration; its error is logged and the task succeeds.   *)
DeleteRow(w) ==
  /\ worker[w].pc = "delete"
  /\ \/ reg' = [reg EXCEPT ![MyReg(w)] = "gone"] /\ UNCHANGED faults
     \/ Fault("error") /\ UNCHANGED reg
  /\ worker' = [worker EXCEPT ![w] = Idle]
  /\ UNCHANGED <<expired, charged, events, tasks, signup, hook, identities,
                 companies, users>>

(* Faulty variant: a failed registration is opened for payment again.       *)
ReopenFailed(w) ==
  /\ worker[w].pc = "markFailed"
  /\ Update(MyReg(w), "pending") \/ UpdateFails(MyReg(w))
  /\ Requeue(w)
  /\ UNCHANGED <<expired, charged, events, signup, hook, identities, companies,
                 users>>

(* MarkAsFailed; the error goes back to Asynq, which retries the task.      *)
MarkFailed(w) ==
  /\ worker[w].pc = "markFailed"
  /\ Update(MyReg(w), "failed") \/ UpdateFails(MyReg(w))
  /\ Requeue(w)
  /\ UNCHANGED <<expired, charged, events, signup, hook, identities, companies,
                 users>>

(* The process stops; Asynq hands the task out again.                       *)
WorkerCrash(w) ==
  /\ worker[w] # Idle
  /\ Fault("crash")
  /\ Requeue(w)
  /\ UNCHANGED <<reg, expired, charged, events, signup, hook, identities,
                 companies, users>>

-----------------------------------------------------------------------------
SignupStep(s) == CheckPending(s) \/ Insert(s)
HookStep(h)   == MarkPaid(h) \/ Enqueue(h)
WorkerStep(w) ==
  \/ MarkProvisioning(w) \/ CreateIdentity(w) \/ CreateTenant(w)
  \/ CreateCompany(w) \/ CreateUser(w) \/ DeleteRow(w) \/ MarkFailed(w)

Next ==
  \/ \E s \in Signups : SignupStep(s) \/ \E r \in Regs : CheckIdentity(s, r)
  \/ \E r \in Regs : Pay(r) \/ Expire(r) \/ Reconcile(r)
  \/ Cleanup
  \/ \E h \in Hooks : HookStep(h) \/ HookCrash(h) \/ \E r \in Regs : DeliverEvent(h, r)
  \/ \E w \in Workers : WorkerStep(w) \/ WorkerCrash(w) \/ \E r \in Regs : StartTask(w, r)

Spec == Init /\ [][Next]_vars

(* Stripe keeps sending an event it was promised to send, Asynq hands out   *)
(* its tasks, handlers run, the scheduler reconciles and the clock moves.   *)
(* Nobody has to sign up or pay.                                            *)
Fairness ==
  /\ \A r \in Regs : /\ WF_vars(\E h \in Hooks : DeliverEvent(h, r))
                     /\ WF_vars(\E w \in Workers : StartTask(w, r))
                     /\ WF_vars(Reconcile(r))
  /\ \A h \in Hooks : WF_vars(HookStep(h))
  /\ \A w \in Workers : WF_vars(WorkerStep(w))

FairSpec == Spec /\ Fairness

(***************************************************************************)
(* Properties                                                              *)
(***************************************************************************)
(* However often a payment is announced, enqueued, reconciled, retried or   *)
(* processed at the same time, an address gets at most one company and one  *)
(* user: provisionAccount is not idempotent and relies on Kratos for this.  *)
AccountOnce ==
  \A r, s \in Regs :
    /\ companies[r] <= 1 /\ users[r] <= companies[r]
    /\ EmailOf[r] = EmailOf[s] /\ companies[r] > 0 /\ companies[s] > 0 => r = s

(* A registration known to be paid disappears only into a complete account: *)
(* neither the cleanup nor a failing worker may drop it.                    *)
PaidNeverDropped ==
  [][\A r \in Regs : reg[r] \in {"paid", "provisioning", "failed"} /\ reg'[r] = "gone"
                       => users[r] > 0]_vars

(* Whatever provisioning leaves half made, an identity without a user or a  *)
(* company without a user, a row from which a person can repair it remains. *)
HalfMadeTraceable ==
  \A e \in identities : \E r \in Regs :
    /\ EmailOf[r] = e
    /\ reg[r] \in {"paid", "provisioning", "failed"} \/ users[r] > 0

(* Every checkout that was paid gets its account.                           *)
PaidGetsAccount == \A r \in Regs : r \in charged ~> users[r] > 0

(* "Mark as provisioning to prevent duplicate processing": a registration   *)
(* is provisioned by one worker at a time.                                  *)
OneProvisioner ==
  \A v, w \in Workers :
    /\ worker[v].pc \in Provisioning /\ worker[w].pc \in Provisioning
    /\ MyReg(v) = MyReg(w)
    => v = w
=============================================================================
