------------------------- MODULE ProvisioningProofs -------------------------
(***************************************************************************)
(* Provisioning for any number of registrations, addresses, sign-ups,      *)
(* webhook requests and workers, with failures and crashes anywhere: an    *)
(* address gets at most one account, a paid registration disappears only   *)
(* into an account, and nothing half made is left without its row.         *)
(*                                                                         *)
(* The account is made in five steps by a worker that looked at the row    *)
(* only before the first of them.  What makes them exclusive is the        *)
(* identity: from CreateIdentity to the end of its run a worker owns an    *)
(* address, nobody else can, and when the run breaks off the address stays *)
(* taken for ever.                                                         *)
(***************************************************************************)
EXTENDS Provisioning, TLAPS

Owner(w)  == worker[w].pc \in Provisioning \ {"identity"}
Address(w) == EmailOf[MyReg(w)]

(* The row is there for somebody to look at, or the account is complete.    *)
Kept(r) == reg[r] \in {"paid", "provisioning", "failed"} \/ users[r] > 0

(* A process that does something does it for a registration.                *)
Well(p) == p = Idle \/ (p.reg \in Regs /\ p.pc # "idle")
Placed ==
  /\ \A s \in Signups : Well(signup[s])
  /\ \A h \in Hooks : Well(hook[h])
  /\ \A w \in Workers : Well(worker[w])

(* A sign-up in progress has no row yet, and is the only one for it.        *)
SignupFresh ==
  /\ \A s \in Signups : signup[s] # Idle => reg[signup[s].reg] = "none"
  /\ \A s, t \in Signups : signup[s] # Idle /\ signup[s].reg = signup[t].reg => s = t

(* Whatever a worker works on is kept.                                      *)
WorkKept == \A w \in Workers : worker[w] # Idle => reg[MyReg(w)] # "none" /\ Kept(MyReg(w))

(* An owner holds the identity of its address, alone.                       *)
Owners ==
  /\ \A w \in Workers : Owner(w) => Address(w) \in identities
  /\ \A v, w \in Workers : Owner(v) /\ Owner(w) /\ Address(v) = Address(w) => v = w

(* What an owner has already made, and what it has not.                     *)
Progress ==
  \A w \in Workers :
    /\ worker[w].pc \in {"tenant", "company"} =>
         \A r \in Regs : EmailOf[r] = Address(w) => companies[r] = 0
    /\ worker[w].pc = "user" => companies[MyReg(w)] = 1 /\ users[MyReg(w)] = 0
    /\ worker[w].pc = "delete" => users[MyReg(w)] > 0

Companies == \A r \in Regs : companies[r] > 0 => EmailOf[r] \in identities

Inv ==
  /\ TypeOK
  /\ Placed
  /\ SignupFresh
  /\ WorkKept
  /\ Owners
  /\ Progress
  /\ Companies
  /\ AccountOnce
  /\ HalfMadeTraceable

-----------------------------------------------------------------------------
LEMMA InitInv == Init => Inv
BY RegsAssumption, LimitsAssumption
   DEF Init, Inv, TypeOK, Row, Process, Idle, Placed, SignupFresh, WorkKept, Owners, Owner,
       Provisioning, Well, Progress, Companies, AccountOnce, HalfMadeTraceable, MyReg

Rows  == [Regs -> Row \cup {"none", "gone"}]
Steps == {"begin", "identity", "tenant", "company", "user", "delete", "markFailed"}

(* What the steps of several actions do to the state, on typed values.      *)
LEMMA FaultType ==
  ASSUME faults \in 0..MaxFaults, NEW k, Fault(k)
  PROVE  faults' \in 0..MaxFaults
BY LimitsAssumption DEF Fault

LEMMA UpdateType ==
  ASSUME TypeOK, NEW r \in Regs, NEW s \in Row, Update(r, s) \/ UpdateFails(r)
  PROVE  /\ reg' \in Rows /\ faults' \in 0..MaxFaults
         /\ \A q \in Regs : \/ reg'[q] = reg[q]
                            \/ q = r /\ reg[q] \in Row /\ reg'[q] = s
<1>1. CASE Update(r, s)
  BY <1>1 DEF Update, TypeOK, Rows
<1>2. CASE UpdateFails(r)
  BY <1>2, FaultType DEF UpdateFails, TypeOK, Rows
<1> QED BY <1>1, <1>2

LEMMA AtType ==
  ASSUME NEW r \in Regs, NEW pc \in Steps \cup {"checkPending", "insert", "markPaid", "enqueue"}
  PROVE  At(pc, r) \in Process /\ Well(At(pc, r)) /\ Idle \in Process /\ Well(Idle)
BY DEF At, Process, Well, Steps, Idle

LEMMA Assign ==
  ASSUME NEW S, NEW f, f \in [S -> Process], \A y \in S : Well(f[y]),
         NEW x \in S, NEW p \in Process, Well(p)
  PROVE  /\ [f EXCEPT ![x] = p] \in [S -> Process]
         /\ \A y \in S : Well([f EXCEPT ![x] = p][y])
OBVIOUS

LEMMA GotoType ==
  ASSUME TypeOK, Placed, NEW w \in Workers, worker[w].pc # "idle",
         NEW pc \in Steps, Goto(w, pc)
  PROVE  /\ MyReg(w) \in Regs
         /\ worker' = [worker EXCEPT ![w] = At(pc, MyReg(w))]
         /\ worker' \in [Workers -> Process]
         /\ \A v \in Workers : Well(worker'[v])
<1>1. worker[w] \in Process /\ MyReg(w) \in Regs
  BY DEF TypeOK, Placed, Well, Idle, MyReg
<1>2. [worker[w] EXCEPT !.pc = pc] = At(pc, MyReg(w))
  BY <1>1 DEF Process, At, MyReg
<1>4. worker' = [worker EXCEPT ![w] = At(pc, MyReg(w))]
  BY <1>2 DEF Goto
<1> QED BY <1>1, <1>4, Assign, AtType DEF TypeOK, Placed

(* Types and places, action by action.                                      *)
LEMMA TypeStep == TypeOK /\ Placed /\ [Next]_vars => TypeOK' /\ Placed'
<1> SUFFICES ASSUME TypeOK, Placed, [Next]_vars
             PROVE  TypeOK' /\ Placed'
  OBVIOUS
<1>1. ASSUME NEW s \in Signups, NEW r \in Regs, CheckIdentity(s, r)
      PROVE  TypeOK' /\ Placed'
  <2>1. signup' \in [Signups -> Process] /\ \A x \in Signups : Well(signup'[x])
    BY <1>1, AtType, Assign DEF CheckIdentity, TypeOK, Placed
  <2> QED BY <1>1, <2>1 DEF CheckIdentity, TypeOK, Placed
<1>2. ASSUME NEW s \in Signups, CheckPending(s)
      PROVE  TypeOK' /\ Placed'
  <2>1. signup[s].reg \in Regs
    BY <1>2 DEF CheckPending, TypeOK, Placed, Well, Idle
  <2>2. signup' \in [Signups -> Process] /\ \A x \in Signups : Well(signup'[x])
    <3>1. /\ At("insert", signup[s].reg) \in Process /\ Well(At("insert", signup[s].reg))
          /\ Idle \in Process /\ Well(Idle)
      BY <2>1, AtType
    <3>2. \/ signup' = [signup EXCEPT ![s] = Idle]
          \/ signup' = [signup EXCEPT ![s] = At("insert", signup[s].reg)]
      BY <1>2 DEF CheckPending
    <3>3. CASE signup' = [signup EXCEPT ![s] = Idle]
      BY <3>1, <3>3, Assign DEF TypeOK, Placed
    <3>4. CASE signup' = [signup EXCEPT ![s] = At("insert", signup[s].reg)]
      BY <3>1, <3>4, Assign DEF TypeOK, Placed
    <3> QED BY <3>2, <3>3, <3>4
  <2> QED BY <1>2, <2>2 DEF CheckPending, TypeOK, Placed
<1>3. ASSUME NEW s \in Signups, Insert(s)
      PROVE  TypeOK' /\ Placed'
  <2>1. signup[s].reg \in Regs
    BY <1>3 DEF Insert, TypeOK, Placed, Well, Idle
  <2>2. signup' \in [Signups -> Process] /\ \A x \in Signups : Well(signup'[x])
    BY <1>3, <2>1, AtType, Assign DEF Insert, TypeOK, Placed
  <2>3. reg' \in Rows /\ faults' \in 0..MaxFaults
    BY <1>3, <2>1, FaultType DEF Insert, TypeOK, Rows, Row
  <2> QED BY <1>3, <2>2, <2>3 DEF Insert, TypeOK, Placed, Rows
<1>4. ASSUME NEW r \in Regs, Pay(r)
      PROVE  TypeOK' /\ Placed'
  BY <1>4, LimitsAssumption DEF Pay, TypeOK, Placed
<1>5. ASSUME NEW r \in Regs, Expire(r)
      PROVE  TypeOK' /\ Placed'
  BY <1>5, LimitsAssumption DEF Expire, TypeOK, Placed
<1>6. ASSUME NEW r \in Regs, Reconcile(r)
      PROVE  TypeOK' /\ Placed'
  BY <1>6, LimitsAssumption DEF Reconcile, TypeOK, Placed
<1>7. ASSUME Cleanup
      PROVE  TypeOK' /\ Placed'
  BY <1>7 DEF Cleanup, TypeOK, Placed
<1>8. ASSUME NEW h \in Hooks, NEW r \in Regs, DeliverEvent(h, r)
      PROVE  TypeOK' /\ Placed'
  <2>1. events' \in [Regs -> Nat] /\ faults' \in 0..MaxFaults
    BY <1>8, FaultType DEF DeliverEvent, TypeOK
  <2>2. hook' \in [Hooks -> Process] /\ \A x \in Hooks : Well(hook'[x])
    <3>1. At("markPaid", r) \in Process /\ Well(At("markPaid", r))
      BY AtType
    <3>2. hook' = hook \/ hook' = [hook EXCEPT ![h] = At("markPaid", r)]
      BY <1>8 DEF DeliverEvent
    <3>3. CASE hook' = [hook EXCEPT ![h] = At("markPaid", r)]
      BY <3>1, <3>3, Assign DEF TypeOK, Placed
    <3> QED BY <3>2, <3>3 DEF TypeOK, Placed
  <2> QED BY <1>8, <2>1, <2>2 DEF DeliverEvent, TypeOK, Placed
<1>9. ASSUME NEW h \in Hooks, MarkPaid(h)
      PROVE  TypeOK' /\ Placed'
  <2>1. hook[h] \in Process /\ hook[h].reg \in Regs
    BY <1>9 DEF MarkPaid, TypeOK, Placed, Well, Idle
  <2>2. reg' \in Rows /\ faults' \in 0..MaxFaults
    BY <1>9, <2>1, UpdateType DEF MarkPaid, Row
  <2>3. [hook[h] EXCEPT !.pc = "enqueue"] = At("enqueue", hook[h].reg)
    BY <2>1 DEF Process, At
  <2>4. \/ hook' = [hook EXCEPT ![h] = Idle]
        \/ hook' = [hook EXCEPT ![h] = At("enqueue", hook[h].reg)]
    BY <1>9, <2>3 DEF MarkPaid
  <2>5. hook' \in [Hooks -> Process] /\ \A x \in Hooks : Well(hook'[x])
    <3>1. /\ At("enqueue", hook[h].reg) \in Process /\ Well(At("enqueue", hook[h].reg))
          /\ Idle \in Process /\ Well(Idle)
      BY <2>1, AtType
    <3>2. CASE hook' = [hook EXCEPT ![h] = Idle]
      BY <3>1, <3>2, Assign DEF TypeOK, Placed
    <3>3. CASE hook' = [hook EXCEPT ![h] = At("enqueue", hook[h].reg)]
      BY <3>1, <3>3, Assign DEF TypeOK, Placed
    <3> QED BY <2>4, <3>2, <3>3
  <2> QED BY <1>9, <2>2, <2>5 DEF MarkPaid, TypeOK, Placed, Rows
<1>10. ASSUME NEW h \in Hooks, Enqueue(h)
      PROVE  TypeOK' /\ Placed'
  <2>1. hook' \in [Hooks -> Process] /\ \A x \in Hooks : Well(hook'[x])
    BY <1>10, RegsAssumption, Assign DEF Enqueue, TypeOK, Placed, Well, Idle, Process
  <2>2. tasks' \in [Regs -> Nat]
    BY <1>10 DEF Enqueue, TypeOK
  <2>3. faults' \in 0..MaxFaults
    BY <1>10, FaultType DEF Enqueue, TypeOK
  <2> QED BY <1>10, <2>1, <2>2, <2>3 DEF Enqueue, TypeOK, Placed
<1>11. ASSUME NEW h \in Hooks, HookCrash(h)
      PROVE  TypeOK' /\ Placed'
  <2>1. hook' \in [Hooks -> Process] /\ \A x \in Hooks : Well(hook'[x])
    BY <1>11, RegsAssumption, Assign DEF HookCrash, TypeOK, Placed, Well, Idle, Process
  <2>2. events' \in [Regs -> Nat]
    <3>1. hook[h].reg \in Regs
      BY <1>11 DEF HookCrash, Placed, Well
    <3> QED BY <1>11, <3>1 DEF HookCrash, TypeOK
  <2>3. faults' \in 0..MaxFaults
    BY <1>11, FaultType DEF HookCrash, TypeOK
  <2> QED BY <1>11, <2>1, <2>2, <2>3 DEF HookCrash, TypeOK, Placed
<1>12. ASSUME NEW w \in Workers, NEW r \in Regs, StartTask(w, r)
      PROVE  TypeOK' /\ Placed'
  <2>1. worker' \in [Workers -> Process] /\ \A x \in Workers : Well(worker'[x])
    BY <1>12, AtType, Assign DEF StartTask, TypeOK, Placed, Steps
  <2>2. tasks' \in [Regs -> Nat]
    BY <1>12 DEF StartTask, TypeOK
  <2> QED BY <1>12, <2>1, <2>2 DEF StartTask, TypeOK, Placed
<1>13. ASSUME NEW w \in Workers, MarkProvisioning(w)
      PROVE  TypeOK' /\ Placed'
  <2>1. MyReg(w) \in Regs /\ worker[w].pc # "idle"
    BY <1>13 DEF MarkProvisioning, TypeOK, Placed, Well, Idle, MyReg
  <2>2. \E pc \in Steps : Goto(w, pc)
    BY <1>13 DEF MarkProvisioning, Steps
  <2>3. worker' \in [Workers -> Process] /\ \A x \in Workers : Well(worker'[x])
    BY <2>1, <2>2, GotoType
  <2>4. reg' \in Rows /\ faults' \in 0..MaxFaults
    BY <1>13, <2>1, UpdateType DEF MarkProvisioning, Row
  <2> QED BY <1>13, <2>3, <2>4 DEF MarkProvisioning, TypeOK, Placed, Rows
<1>14. ASSUME NEW w \in Workers, CreateIdentity(w)
      PROVE  TypeOK' /\ Placed'
  <2>1. MyReg(w) \in Regs /\ worker[w].pc # "idle"
    BY <1>14 DEF CreateIdentity, TypeOK, Placed, Well, Idle, MyReg
  <2>2. \E pc \in Steps : Goto(w, pc)
    BY <1>14 DEF CreateIdentity, Steps
  <2>3. worker' \in [Workers -> Process] /\ \A x \in Workers : Well(worker'[x])
    BY <2>1, <2>2, GotoType
  <2>4. faults' \in 0..MaxFaults
    BY <1>14, FaultType DEF CreateIdentity, TypeOK
  <2>5. identities' \subseteq Emails
    BY <1>14, <2>1, RegsAssumption DEF CreateIdentity, TypeOK
  <2> QED BY <1>14, <2>3, <2>4, <2>5 DEF CreateIdentity, TypeOK, Placed
<1>15. ASSUME NEW w \in Workers, CreateTenant(w)
      PROVE  TypeOK' /\ Placed'
  <2>1. MyReg(w) \in Regs /\ worker[w].pc # "idle"
    BY <1>15 DEF CreateTenant, TypeOK, Placed, Well, Idle, MyReg
  <2>2. \E pc \in Steps : Goto(w, pc)
    BY <1>15 DEF CreateTenant, Steps
  <2>3. worker' \in [Workers -> Process] /\ \A x \in Workers : Well(worker'[x])
    BY <2>1, <2>2, GotoType
  <2>4. faults' \in 0..MaxFaults
    BY <1>15, FaultType DEF CreateTenant, TypeOK
  <2> QED BY <1>15, <2>3, <2>4 DEF CreateTenant, TypeOK, Placed
<1>16. ASSUME NEW w \in Workers, CreateCompany(w)
      PROVE  TypeOK' /\ Placed'
  <2>1. MyReg(w) \in Regs /\ worker[w].pc # "idle"
    BY <1>16 DEF CreateCompany, TypeOK, Placed, Well, Idle, MyReg
  <2>2. \E pc \in Steps : Goto(w, pc)
    BY <1>16 DEF CreateCompany, Steps
  <2>3. worker' \in [Workers -> Process] /\ \A x \in Workers : Well(worker'[x])
    BY <2>1, <2>2, GotoType
  <2>4. faults' \in 0..MaxFaults
    BY <1>16, FaultType DEF CreateCompany, TypeOK
  <2>5. companies' \in [Regs -> Nat]
    BY <1>16, <2>1, RegsAssumption DEF CreateCompany, TypeOK
  <2> QED BY <1>16, <2>3, <2>4, <2>5 DEF CreateCompany, TypeOK, Placed
<1>17. ASSUME NEW w \in Workers, CreateUser(w)
      PROVE  TypeOK' /\ Placed'
  <2>1. MyReg(w) \in Regs /\ worker[w].pc # "idle"
    BY <1>17 DEF CreateUser, TypeOK, Placed, Well, Idle, MyReg
  <2>2. \E pc \in Steps : Goto(w, pc)
    BY <1>17 DEF CreateUser, Steps
  <2>3. worker' \in [Workers -> Process] /\ \A x \in Workers : Well(worker'[x])
    BY <2>1, <2>2, GotoType
  <2>4. faults' \in 0..MaxFaults
    BY <1>17, FaultType DEF CreateUser, TypeOK
  <2>5. users' \in [Regs -> Nat]
    BY <1>17, <2>1, RegsAssumption DEF CreateUser, TypeOK
  <2> QED BY <1>17, <2>3, <2>4, <2>5 DEF CreateUser, TypeOK, Placed
<1>18. ASSUME NEW w \in Workers, DeleteRow(w)
      PROVE  TypeOK' /\ Placed'
  <2>1. reg' \in Rows /\ faults' \in 0..MaxFaults
    BY <1>18, FaultType DEF DeleteRow, TypeOK, Rows
  <2>2. worker' \in [Workers -> Process] /\ \A x \in Workers : Well(worker'[x])
    BY <1>18, Assign, RegsAssumption DEF DeleteRow, TypeOK, Placed, Well, Idle, Process
  <2> QED BY <1>18, <2>1, <2>2 DEF DeleteRow, TypeOK, Placed, Rows
<1>19. ASSUME NEW w \in Workers, MarkFailed(w)
      PROVE  TypeOK' /\ Placed'
  <2>1. MyReg(w) \in Regs
    BY <1>19 DEF MarkFailed, TypeOK, Placed, Well, Idle, MyReg
  <2>2. reg' \in Rows /\ faults' \in 0..MaxFaults
    BY <1>19, <2>1, UpdateType DEF MarkFailed, Row
  <2>3. worker' \in [Workers -> Process] /\ \A x \in Workers : Well(worker'[x])
    BY <1>19, Assign, RegsAssumption DEF MarkFailed, Requeue, TypeOK, Placed, Well, Idle, Process
  <2>4. tasks' \in [Regs -> Nat]
    BY <1>19, <2>1 DEF MarkFailed, Requeue, TypeOK
  <2> QED BY <1>19, <2>2, <2>3, <2>4 DEF MarkFailed, TypeOK, Placed, Rows
<1>20. ASSUME NEW w \in Workers, WorkerCrash(w)
      PROVE  TypeOK' /\ Placed'
  <2>1. worker' \in [Workers -> Process] /\ \A x \in Workers : Well(worker'[x])
    BY <1>20, Assign, RegsAssumption DEF WorkerCrash, Requeue, TypeOK, Placed, Well, Idle, Process
  <2>2. MyReg(w) \in Regs
    BY <1>20 DEF WorkerCrash, Placed, Well, MyReg
  <2>3. tasks' \in [Regs -> Nat]
    BY <1>20, <2>2 DEF WorkerCrash, Requeue, TypeOK
  <2>4. faults' \in 0..MaxFaults
    BY <1>20, FaultType DEF WorkerCrash, TypeOK
  <2> QED BY <1>20, <2>1, <2>3, <2>4 DEF WorkerCrash, TypeOK, Placed
<1>21. ASSUME UNCHANGED vars
      PROVE  TypeOK' /\ Placed'
  BY <1>21 DEF vars, TypeOK, Placed
<1> QED
  BY <1>1, <1>2, <1>3, <1>4, <1>5, <1>6, <1>7, <1>8, <1>9, <1>10, <1>11, <1>12, <1>13, <1>14,
     <1>15, <1>16, <1>17, <1>18, <1>19, <1>20, <1>21
     DEF Next, SignupStep, HookStep, WorkerStep

-----------------------------------------------------------------------------
(* Steps that keep every row somebody works on, or ever paid for.           *)
RowsKept == \A r \in Regs : /\ reg[r] # "none" => reg'[r] # "none"
                            /\ Kept(r) => Kept(r)'

LEMMA RowsSame == UNCHANGED <<reg, users>> => RowsKept
BY DEF RowsKept, Kept

(* Update and UpdateFails with a status other than "pending" keep them.     *)
LEMMA UpdateKeeps ==
  ASSUME TypeOK, NEW r \in Regs, NEW s \in {"paid", "provisioning", "failed"},
         Update(r, s) \/ UpdateFails(r), UNCHANGED users
  PROVE  RowsKept /\ \A q \in Regs : reg[q] = "none" => reg'[q] = "none"
BY UpdateType DEF RowsKept, Kept, Row

LEMMA SignupFrame ==
  ASSUME Placed, SignupFresh, UNCHANGED signup,
         \A r \in Regs : reg[r] = "none" => reg'[r] = "none"
  PROVE  SignupFresh'
BY DEF Placed, Well, SignupFresh

(* The steps of sign-ups, webhooks and the clock leave the accounts alone.  *)
LEMMA AccountFrame ==
  ASSUME Inv, RowsKept, UNCHANGED <<worker, identities, companies, users>>
  PROVE  WorkKept' /\ Owners' /\ Progress' /\ Companies' /\ AccountOnce' /\ HalfMadeTraceable'
<1>1. WorkKept'
  BY DEF Inv, Placed, Well, WorkKept, RowsKept, MyReg
<1>2. Owners' /\ Progress' /\ Companies' /\ AccountOnce'
  BY DEF Inv, Owners, Owner, Address, Progress, Companies, AccountOnce, MyReg
<1>3. HalfMadeTraceable'
  BY DEF Inv, HalfMadeTraceable, RowsKept, Kept
<1> QED BY <1>1, <1>2, <1>3

(* A worker that moves on with its registration, starts one that is kept,   *)
(* or stops.                                                                *)
LEMMA WorkFrame ==
  ASSUME Inv, RowsKept, NEW w \in Workers,
         \A v \in Workers : v # w => worker'[v] = worker[v],
         \/ worker'[w] = Idle
         \/ worker[w] # Idle /\ worker'[w].reg = worker[w].reg
         \/ worker'[w].reg \in Regs /\ reg[worker'[w].reg] = "paid"
  PROVE  WorkKept'
BY DEF Inv, Placed, Well, WorkKept, RowsKept, Kept, MyReg

(* A worker that owns nothing after the step, whatever it owned before.     *)
LEMMA LeaveFrame ==
  ASSUME Inv, NEW w \in Workers, UNCHANGED <<companies, users>>,
         identities \subseteq identities',
         \A v \in Workers : v # w => worker'[v] = worker[v],
         ~Owner(w)'
  PROVE  Owners' /\ Progress' /\ Companies' /\ AccountOnce'
<1>1. Owners'
  BY DEF Inv, Owners, Owner, Address, MyReg
<1>2. Progress'
  BY DEF Inv, Progress, Owner, Provisioning, Address, MyReg
<1>3. Companies' /\ AccountOnce'
  BY DEF Inv, Companies, AccountOnce
<1> QED BY <1>1, <1>2, <1>3

LEMMA TraceFrame ==
  ASSUME Inv, RowsKept, UNCHANGED identities
  PROVE  HalfMadeTraceable'
BY DEF Inv, HalfMadeTraceable, RowsKept, Kept
-----------------------------------------------------------------------------
(* The rest of the invariant: what TypeStep does not give.                  *)
Rest == SignupFresh /\ WorkKept /\ Owners /\ Progress /\ Companies /\ AccountOnce /\ HalfMadeTraceable

LEMMA SignupSteps ==
  ASSUME Inv, NEW s \in Signups,
         (\E r \in Regs : CheckIdentity(s, r)) \/ CheckPending(s) \/ Insert(s)
  PROVE  Rest'
<1>1. ASSUME NEW r \in Regs, CheckIdentity(s, r)
      PROVE  Rest'
  <2>1. SignupFresh'
    BY <1>1, RegsAssumption DEF CheckIdentity, Inv, TypeOK, Placed, Well, SignupFresh, At, Idle
  <2>2. RowsKept
    BY <1>1, RowsSame DEF CheckIdentity
  <2> QED BY <1>1, <2>1, <2>2, AccountFrame DEF CheckIdentity, Rest
<1>2. CASE CheckPending(s)
  <2>1. signup' = [signup EXCEPT ![s] = Idle] \/ signup' = [signup EXCEPT ![s] = At("insert", signup[s].reg)]
    BY <1>2 DEF CheckPending
  <2>2. SignupFresh'
    BY <1>2, <2>1, RegsAssumption DEF CheckPending, Inv, TypeOK, Placed, Well, SignupFresh, At, Idle
  <2>3. RowsKept
    BY <1>2, RowsSame DEF CheckPending
  <2> QED BY <1>2, <2>2, <2>3, AccountFrame DEF CheckPending, Rest
<1>3. CASE Insert(s)
  <2>1. reg[signup[s].reg] = "none" /\ signup[s].reg \in Regs
    BY <1>3 DEF Insert, Inv, Placed, Well, SignupFresh, Idle
  <2>2. SignupFresh'
    BY <1>3, <2>1, RegsAssumption DEF Insert, Inv, TypeOK, Placed, Well, SignupFresh, Idle
  <2>3. RowsKept
    BY <1>3, <2>1 DEF Insert, Inv, TypeOK, RowsKept, Kept
  <2> QED BY <1>3, <2>2, <2>3, AccountFrame DEF Insert, Rest
<1> QED BY <1>1, <1>2, <1>3

LEMMA OutsideSteps ==
  ASSUME Inv, \/ \E r \in Regs : Pay(r) \/ Expire(r) \/ Reconcile(r)
              \/ Cleanup
              \/ \E h \in Hooks : HookStep(h) \/ HookCrash(h) \/ \E r \in Regs : DeliverEvent(h, r)
              \/ UNCHANGED vars
  PROVE  Rest'
<1>1. CASE \/ \E r \in Regs : Pay(r) \/ Expire(r) \/ Reconcile(r)
           \/ \E h \in Hooks : Enqueue(h) \/ HookCrash(h) \/ \E r \in Regs : DeliverEvent(h, r)
           \/ UNCHANGED vars
  <2>1. UNCHANGED <<reg, signup, worker, identities, companies, users>>
    BY <1>1 DEF Pay, Expire, Reconcile, Enqueue, HookCrash, DeliverEvent, vars
  <2> QED BY <2>1, RowsSame, SignupFrame, AccountFrame DEF Rest, Inv
<1>2. CASE Cleanup
  <2>1. RowsKept /\ \A r \in Regs : reg[r] = "none" => reg'[r] = "none"
    BY <1>2 DEF Cleanup, Inv, TypeOK, RowsKept, Kept
  <2> QED BY <1>2, <2>1, SignupFrame, AccountFrame DEF Cleanup, Rest, Inv
<1>3. ASSUME NEW h \in Hooks, MarkPaid(h)
      PROVE  Rest'
  <2>1. hook[h].reg \in Regs
    BY <1>3 DEF MarkPaid, Inv, Placed, Well, Idle
  <2>2. Update(hook[h].reg, "paid") \/ UpdateFails(hook[h].reg)
    BY <1>3 DEF MarkPaid
  <2>3. RowsKept /\ \A r \in Regs : reg[r] = "none" => reg'[r] = "none"
    BY <1>3, <2>1, <2>2, UpdateKeeps DEF MarkPaid, Inv
  <2> QED BY <1>3, <2>3, SignupFrame, AccountFrame DEF MarkPaid, Rest, Inv
<1> QED BY <1>1, <1>2, <1>3 DEF HookStep
(* Where a worker is in a step of its own.                                  *)
LEMMA WorkerAt ==
  ASSUME Inv, NEW w \in Workers, worker[w].pc # "idle"
  PROVE  /\ worker[w] # Idle /\ MyReg(w) \in Regs /\ Kept(MyReg(w)) /\ reg[MyReg(w)] # "none"
         /\ \A pc \in Steps : Goto(w, pc) =>
              /\ worker'[w] = At(pc, MyReg(w))
              /\ worker'[w].pc = pc /\ worker'[w].reg = MyReg(w)
              /\ \A v \in Workers : v # w => worker'[v] = worker[v]
<1>1. worker[w] # Idle /\ MyReg(w) \in Regs
  BY DEF Inv, Placed, Well, Idle, MyReg
<1>2. ASSUME NEW pc \in Steps, Goto(w, pc)
      PROVE  /\ worker'[w] = At(pc, MyReg(w))
             /\ worker'[w].pc = pc /\ worker'[w].reg = MyReg(w)
             /\ \A v \in Workers : v # w => worker'[v] = worker[v]
  <2>1. worker' = [worker EXCEPT ![w] = At(pc, MyReg(w))]
    BY <1>2, GotoType DEF Inv
  <2> QED BY <2>1 DEF Inv, TypeOK, At
<1> QED BY <1>1, <1>2 DEF Inv, WorkKept

(* Steps after which the worker owns nothing.                               *)
LEMMA IdleSteps ==
  ASSUME Inv, NEW w \in Workers,
         (\E r \in Regs : StartTask(w, r)) \/ DeleteRow(w) \/ MarkFailed(w) \/ WorkerCrash(w)
  PROVE  Rest'
<1>1. ASSUME NEW r \in Regs, StartTask(w, r)
      PROVE  Rest'
  <2>1. RowsKept /\ UNCHANGED <<reg, signup, identities, companies, users>>
    BY <1>1, RowsSame DEF StartTask
  <2>2. CASE reg[r] = "paid"
    <3>1. worker' = [worker EXCEPT ![w] = At("begin", r)]
      BY <1>1, <2>2 DEF StartTask
    <3>2. /\ worker'[w].pc = "begin" /\ worker'[w].reg = r
          /\ \A v \in Workers : v # w => worker'[v] = worker[v]
      BY <3>1 DEF Inv, TypeOK, At
    <3>3. WorkKept'
      BY <2>1, <2>2, <3>2, WorkFrame
    <3>4. ~Owner(w)'
      BY <3>2 DEF Owner, Provisioning
    <3> QED BY <2>1, <3>2, <3>3, <3>4, SignupFrame, LeaveFrame, TraceFrame DEF Rest, Inv
  <2>3. CASE reg[r] # "paid"
    BY <1>1, <2>1, <2>3, SignupFrame, AccountFrame DEF StartTask, Rest, Inv
  <2> QED BY <2>2, <2>3
<1>2. CASE DeleteRow(w) \/ MarkFailed(w) \/ WorkerCrash(w)
  <2>1. MyReg(w) \in Regs
    BY <1>2, WorkerAt DEF DeleteRow, MarkFailed, WorkerCrash, Inv, Placed, Well, MyReg
  <2>2. RowsKept /\ \A r \in Regs : reg[r] = "none" => reg'[r] = "none"
    <3>1. CASE DeleteRow(w)
      <4>1. users[MyReg(w)] > 0 /\ reg[MyReg(w)] # "none"
        BY <3>1, WorkerAt DEF DeleteRow, Inv, Progress
      <4>2. reg' = reg \/ reg' = [reg EXCEPT ![MyReg(w)] = "gone"]
        BY <3>1 DEF DeleteRow
      <4> QED BY <3>1, <4>1, <4>2, <2>1 DEF DeleteRow, RowsKept, Kept, Inv, TypeOK
    <3>2. CASE MarkFailed(w)
      <4>1. Update(MyReg(w), "failed") \/ UpdateFails(MyReg(w))
        BY <3>2 DEF MarkFailed
      <4> QED BY <3>2, <4>1, <2>1, UpdateKeeps DEF MarkFailed, Inv
    <3>3. CASE WorkerCrash(w)
      BY <3>3, RowsSame DEF WorkerCrash
    <3> QED BY <1>2, <3>1, <3>2, <3>3
  <2>3. worker' = [worker EXCEPT ![w] = Idle] /\ UNCHANGED <<signup, identities, companies, users>>
    BY <1>2 DEF DeleteRow, MarkFailed, WorkerCrash, Requeue
  <2>4. worker'[w] = Idle /\ \A v \in Workers : v # w => worker'[v] = worker[v]
    BY <2>3 DEF Inv, TypeOK
  <2>5. ~Owner(w)'
    BY <2>4 DEF Owner, Provisioning, Idle
  <2>6. WorkKept'
    BY <2>2, <2>4, WorkFrame
  <2> QED BY <2>2, <2>3, <2>4, <2>5, <2>6, SignupFrame, LeaveFrame, TraceFrame DEF Rest, Inv
<1> QED BY <1>1, <1>2

(* A step of provisionAccount that fails, and the first one.                *)
LEMMA UnownedStep ==
  ASSUME Inv, NEW w \in Workers, worker[w].pc # "idle",
         NEW pc \in {"identity", "markFailed"}, Goto(w, pc),
         RowsKept, \A r \in Regs : reg[r] = "none" => reg'[r] = "none",
         UNCHANGED <<signup, companies, users>>,
         \/ UNCHANGED identities
         \/ identities' = identities \cup {Address(w)}
  PROVE  Rest'
<1>1. /\ worker'[w].pc = pc /\ worker'[w].reg = worker[w].reg /\ worker[w] # Idle
      /\ \A v \in Workers : v # w => worker'[v] = worker[v]
  BY WorkerAt DEF Steps, MyReg
<1>2. ~Owner(w)'
  BY <1>1 DEF Owner, Provisioning
<1>3. WorkKept'
  BY <1>1, WorkFrame
<1>4. HalfMadeTraceable'
  BY WorkerAt DEF Inv, HalfMadeTraceable, RowsKept, Kept, Address
<1>5. SignupFresh'
  BY SignupFrame DEF Inv
<1>6. Owners' /\ Progress' /\ Companies' /\ AccountOnce'
  BY <1>1, <1>2, LeaveFrame
<1> QED BY <1>3, <1>4, <1>5, <1>6 DEF Rest
(* The four steps that make an account: each either fails, or goes on.      *)
LEMMA MakeSteps ==
  ASSUME Inv, NEW w \in Workers,
         MarkProvisioning(w) \/ CreateIdentity(w) \/ CreateTenant(w) \/ CreateCompany(w) \/ CreateUser(w)
  PROVE  Rest'
<1> DEFINE NoneStays == \A r \in Regs : reg[r] = "none" => reg'[r] = "none"
           Next1(pc) == /\ worker'[w].pc = pc /\ worker'[w].reg = MyReg(w)
                        /\ \A v \in Workers : v # w => worker'[v] = worker[v]
<1>0. worker[w].pc # "idle" /\ worker[w] # Idle /\ MyReg(w) \in Regs
  BY WorkerAt DEF MarkProvisioning, CreateIdentity, CreateTenant, CreateCompany, CreateUser
<1>1. CASE MarkProvisioning(w)
  <2>1. \E pc \in {"identity", "markFailed"} : Goto(w, pc)
    BY <1>1 DEF MarkProvisioning
  <2>2. Update(MyReg(w), "provisioning") \/ UpdateFails(MyReg(w))
    BY <1>1 DEF MarkProvisioning
  <2>3. RowsKept /\ NoneStays
    BY <1>0, <1>1, <2>2, UpdateKeeps DEF MarkProvisioning, Inv
  <2> QED BY <1>0, <1>1, <2>1, <2>3, UnownedStep DEF MarkProvisioning
<1>2. CASE CreateIdentity(w)
  <2>1. RowsKept /\ NoneStays /\ UNCHANGED <<signup, companies, users>>
    BY <1>2, RowsSame DEF CreateIdentity
  <2>2. CASE Goto(w, "markFailed")
    <3>1. identities' = identities \/ identities' = identities \cup {Address(w)}
      BY <1>2 DEF CreateIdentity, Address
    <3> QED BY <1>0, <2>1, <2>2, <3>1, UnownedStep
  <2>3. CASE /\ Goto(w, "tenant") /\ Address(w) \notin identities
             /\ identities' = identities \cup {Address(w)}
    <3>1. Next1("tenant")
      BY <1>0, <2>3, WorkerAt DEF Steps
    <3>2. WorkKept'
      BY <1>0, <2>1, <3>1, WorkFrame DEF MyReg
    <3>3. \A v \in Workers : Owner(v) => Address(v) # Address(w)
      BY <2>3 DEF Inv, Owners
    <3>4. Owners'
      BY <2>3, <3>1, <3>3 DEF Inv, Owners, Owner, Address, MyReg
    <3>5. \A r \in Regs : EmailOf[r] = Address(w) => companies[r] = 0
      BY <2>3 DEF Inv, TypeOK, Companies
    <3>6. Progress'
      BY <2>1, <3>1, <3>5 DEF Inv, Progress, Address, MyReg
    <3>7. Companies' /\ AccountOnce'
      BY <2>1, <2>3 DEF Inv, Companies, AccountOnce
    <3>8. HalfMadeTraceable'
      BY <1>0, <2>1, <2>3, WorkerAt DEF Inv, HalfMadeTraceable, RowsKept, Kept, Address
    <3> QED BY <2>1, <3>2, <3>4, <3>6, <3>7, <3>8, SignupFrame DEF Rest, Inv
  <2> QED BY <1>2, <2>2, <2>3 DEF CreateIdentity, Address
<1>3. CASE CreateTenant(w) \/ (CreateCompany(w) /\ Goto(w, "markFailed")) \/ (CreateUser(w) /\ Goto(w, "markFailed"))
  <2>1. worker[w].pc \in {"tenant", "company", "user"}
    BY <1>3 DEF CreateTenant, CreateCompany, CreateUser
  <2>2. UNCHANGED <<reg, signup, identities, users, companies>>
    <3>1. worker'[w].pc = "markFailed" \/ CreateTenant(w)
      BY <1>0, <1>3, WorkerAt DEF Steps
    <3>2. \A pc \in {"user", "delete"} : Goto(w, pc) => worker'[w].pc = pc
      BY <1>0, WorkerAt DEF Steps
    <3>3. CASE CreateTenant(w)
      BY <3>3 DEF CreateTenant
    <3>4. CASE CreateCompany(w) /\ Goto(w, "markFailed")
      BY <1>0, <3>2, <3>4, WorkerAt DEF CreateCompany, Steps
    <3>5. CASE CreateUser(w) /\ Goto(w, "markFailed")
      BY <1>0, <3>2, <3>5, WorkerAt DEF CreateUser, Steps
    <3> QED BY <1>3, <3>3, <3>4, <3>5
  <2>3. RowsKept /\ NoneStays
    BY <2>2, RowsSame
  <2>4. CASE Goto(w, "markFailed")
    BY <1>0, <2>2, <2>3, <2>4, UnownedStep
  <2>5. CASE CreateTenant(w) /\ Goto(w, "company")
    <3>1. Next1("company") /\ worker[w].pc = "tenant"
      BY <1>0, <2>5, WorkerAt DEF Steps, CreateTenant
    <3>2. WorkKept'
      BY <1>0, <2>3, <3>1, WorkFrame DEF MyReg
    <3>3. Owners' /\ Progress'
      BY <2>2, <3>1 DEF Inv, Owners, Owner, Provisioning, Progress, Address, MyReg
    <3>4. Companies' /\ AccountOnce'
      BY <2>2 DEF Inv, Companies, AccountOnce
    <3> QED BY <2>2, <2>3, <3>2, <3>3, <3>4, SignupFrame, TraceFrame DEF Rest, Inv
  <2> QED BY <1>3, <2>4, <2>5 DEF CreateTenant
<1>4. CASE CreateCompany(w) /\ Goto(w, "user") /\ companies' = [companies EXCEPT ![MyReg(w)] = @ + 1]
  <2>1. Next1("user") /\ worker[w].pc = "company" /\ UNCHANGED <<reg, signup, identities, users>>
    BY <1>0, <1>4, WorkerAt DEF Steps, CreateCompany
  <2>2. RowsKept /\ NoneStays
    BY <2>1, RowsSame
  <2>3. \A r \in Regs : EmailOf[r] = Address(w) => companies[r] = 0
    BY <2>1 DEF Inv, Progress
  <2>4. /\ companies'[MyReg(w)] = 1
        /\ \A r \in Regs : r # MyReg(w) => companies'[r] = companies[r]
    BY <1>0, <1>4, <2>3 DEF Inv, TypeOK, Address
  <2>5. users[MyReg(w)] = 0
    BY <1>0, <2>3 DEF Inv, AccountOnce, TypeOK, Address
  <2>6. WorkKept'
    BY <1>0, <2>1, <2>2, WorkFrame DEF MyReg
  <2>7. Owners'
    BY <2>1 DEF Inv, Owners, Owner, Provisioning, Address, MyReg
  <2>8. Address(w) \in identities /\ Owner(w)
    BY <2>1 DEF Inv, Owners, Owner, Provisioning
  <2>9. \A v \in Workers : v # w /\ Owner(v) => Address(v) # Address(w) /\ MyReg(v) # MyReg(w)
    BY <2>8 DEF Inv, Owners, Address
  <2>10. Progress'
    <3>1. \A v \in Workers : v # w => UNCHANGED <<worker[v], MyReg(v), Address(v)>>
      BY <2>1 DEF MyReg, Address
    <3>2. \A v \in Workers : v # w /\ Owner(v) =>
             /\ companies'[MyReg(v)] = companies[MyReg(v)]
             /\ \A r \in Regs : EmailOf[r] = Address(v) => companies'[r] = companies[r]
      BY <2>4, <2>9 DEF Inv, Placed, Well, Idle, Owner, Provisioning, MyReg, Address
    <3>3. worker'[w].pc = "user" /\ MyReg(w)' = MyReg(w)
      BY <2>1 DEF MyReg
    <3> QED BY <2>1, <2>4, <2>5, <3>1, <3>2, <3>3 DEF Inv, Progress, Owner, Provisioning
  <2>11. Companies'
    BY <2>1, <2>4, <2>8 DEF Inv, Companies, Address
  <2>12. AccountOnce'
    BY <1>0, <2>1, <2>3, <2>4, <2>5 DEF Inv, AccountOnce, TypeOK, Address
  <2> QED BY <2>1, <2>2, <2>6, <2>7, <2>10, <2>11, <2>12, SignupFrame, TraceFrame DEF Rest, Inv
<1>5. CASE CreateUser(w) /\ Goto(w, "delete") /\ users' = [users EXCEPT ![MyReg(w)] = @ + 1]
  <2>1. Next1("delete") /\ worker[w].pc = "user" /\ UNCHANGED <<reg, signup, identities, companies>>
    BY <1>0, <1>5, WorkerAt DEF Steps, CreateUser
  <2>2. companies[MyReg(w)] = 1 /\ users[MyReg(w)] = 0
    BY <2>1 DEF Inv, Progress
  <2>3. /\ users'[MyReg(w)] = 1
        /\ \A r \in Regs : r # MyReg(w) => users'[r] = users[r]
    BY <1>0, <1>5, <2>2 DEF Inv, TypeOK
  <2>4. RowsKept /\ NoneStays
    BY <2>1, <2>3 DEF RowsKept, Kept
  <2>5. WorkKept'
    BY <1>0, <2>1, <2>4, WorkFrame DEF MyReg
  <2>6. Owners'
    BY <2>1 DEF Inv, Owners, Owner, Provisioning, Address, MyReg
  <2>7. \A v \in Workers : v # w /\ Owner(v) => MyReg(v) # MyReg(w)
    BY <2>1 DEF Inv, Owners, Owner, Provisioning, Address
  <2>8. Progress'
    <3>1. \A v \in Workers : v # w => UNCHANGED <<worker[v], MyReg(v), Address(v)>>
      BY <2>1 DEF MyReg, Address
    <3>2. \A v \in Workers : v # w /\ Owner(v) => users'[MyReg(v)] = users[MyReg(v)]
      BY <2>3, <2>7 DEF Inv, Placed, Well, Idle, Owner, Provisioning, MyReg
    <3>3. worker'[w].pc = "delete" /\ MyReg(w)' = MyReg(w)
      BY <2>1 DEF MyReg
    <3> QED BY <2>1, <2>3, <3>1, <3>2, <3>3 DEF Inv, Progress, Owner, Provisioning
  <2>9. Companies' /\ AccountOnce'
    BY <1>0, <2>1, <2>2, <2>3 DEF Inv, Companies, AccountOnce, TypeOK
  <2> QED BY <2>1, <2>4, <2>5, <2>6, <2>8, <2>9, SignupFrame, TraceFrame DEF Rest, Inv
<1> QED BY <1>1, <1>2, <1>3, <1>4, <1>5 DEF CreateCompany, CreateUser

-----------------------------------------------------------------------------
LEMMA InvStep == Inv /\ [Next]_vars => Inv'
<1> SUFFICES ASSUME Inv, [Next]_vars
             PROVE  Inv'
  OBVIOUS
<1>1. TypeOK' /\ Placed'
  BY TypeStep DEF Inv
<1>2. Rest'
  BY SignupSteps, OutsideSteps, IdleSteps, MakeSteps DEF Next, SignupStep, WorkerStep
<1> QED BY <1>1, <1>2 DEF Inv, Rest

THEOREM Invariance == Spec => []Inv
<1>1. Inv /\ [Next]_vars => Inv'
  BY InvStep
<1> QED BY <1>1, InitInv, PTL DEF Spec

(* The rows, events, tasks and counters have their types.                   *)
THEOREM TypeCorrect == Spec => []TypeOK
<1>1. Inv => TypeOK
  BY DEF Inv
<1> QED BY <1>1, Invariance, PTL

(* However often a payment is announced, enqueued, reconciled, retried or   *)
(* processed at the same time, an address gets at most one account.         *)
THEOREM OneAccount == Spec => []AccountOnce
<1>1. Inv => AccountOnce
  BY DEF Inv
<1> QED BY <1>1, Invariance, PTL

(* An identity without a user leaves a row behind from which to repair it.  *)
THEOREM HalfMadeKept == Spec => []HalfMadeTraceable
<1>1. Inv => HalfMadeTraceable
  BY DEF Inv
<1> QED BY <1>1, Invariance, PTL

(* A registration known to be paid disappears only into an account: the     *)
(* cleanup takes pending rows only, and the worker deletes the row only     *)
(* after it made the user.                                                  *)
THEOREM PaidKept == Spec => PaidNeverDropped
<1>1. ASSUME Inv, [Next]_vars
      PROVE  [\A r \in Regs : reg[r] \in {"paid", "provisioning", "failed"} /\ reg'[r] = "gone"
                => users[r] > 0]_vars
  <2> SUFFICES ASSUME Next, NEW r \in Regs, reg[r] \in {"paid", "provisioning", "failed"}, reg'[r] = "gone"
               PROVE  users[r] > 0
    BY <1>1
  <2>1. ASSUME NEW s \in Signups, Insert(s)
        PROVE  FALSE
    BY <1>1, <2>1 DEF Insert, Inv, TypeOK
  <2>2. CASE Cleanup
    BY <2>2 DEF Cleanup
  <2>3. ASSUME NEW q \in Regs, NEW s \in Row, Update(q, s) \/ UpdateFails(q)
        PROVE  FALSE
    BY <1>1, <2>3, UpdateType DEF Inv, Row
  <2>4. ASSUME NEW h \in Hooks, MarkPaid(h)
        PROVE  FALSE
    <3>1. hook[h].reg \in Regs
      BY <1>1, <2>4 DEF MarkPaid, Inv, Placed, Well, Idle
    <3> QED BY <2>3, <2>4, <3>1 DEF MarkPaid, Row
  <2>5. ASSUME NEW w \in Workers, MarkProvisioning(w) \/ MarkFailed(w)
        PROVE  FALSE
    <3>1. MyReg(w) \in Regs
      BY <1>1, <2>5 DEF MarkProvisioning, MarkFailed, Inv, Placed, Well, Idle, MyReg
    <3> QED BY <2>3, <2>5, <3>1 DEF MarkProvisioning, MarkFailed, Row
  <2>6. ASSUME NEW w \in Workers, DeleteRow(w)
        PROVE  users[r] > 0
    <3>1. r = MyReg(w)
      BY <1>1, <2>6 DEF DeleteRow, Inv, TypeOK
    <3> QED BY <1>1, <2>6, <3>1 DEF DeleteRow, Inv, Progress
  <2>7. reg' # reg
    OBVIOUS
  <2> QED
    BY <2>1, <2>2, <2>4, <2>5, <2>6, <2>7
       DEF Next, SignupStep, HookStep, WorkerStep, CheckIdentity, CheckPending, Pay, Expire,
           Reconcile, DeliverEvent, Enqueue, HookCrash, StartTask, CreateIdentity, CreateTenant,
           CreateCompany, CreateUser, WorkerCrash
<1> QED BY <1>1, Invariance, PTL DEF Spec, PaidNeverDropped
=============================================================================
