------------------------- MODULE CoursePagesProofs --------------------------
(***************************************************************************)
(* The pages a course is made on, for any number of handlers under way, of *)
(* people and audiences chosen, and for an outline of any size: the course *)
(* builder, the generation wizard and the editor of the outline.           *)
(***************************************************************************)
EXTENDS CourseBuilder, GenerationWizard, OutlineReview,
        FiniteSetTheorems, SequenceTheorems, WellFoundedInduction, TLAPS

-----------------------------------------------------------------------------
(***************************************************************************)
(* The course builder. That no step finds the page without a course once   *)
(* generation has started follows from the machine's guard alone. That a   *)
(* course, once there, stays needs the ref isCreatingCourse too: at most   *)
(* one creation is under way, and none when there is a course, so that an  *)
(* answer never meets a course it could replace.                           *)
(***************************************************************************)
Creations == {"nextCreate", "startCreate"}

Counted == calls \in [CallKinds -> Nat] /\ created \in Nat /\ creating \in BOOLEAN

(* The ref is set while a creation is under way, and there is one at most. *)
OneCreation ==
  calls["nextCreate"] + calls["startCreate"] = IF creating THEN 1 ELSE 0

CreatesTheFirst == creating => course = 0

BuilderInv == Counted /\ OneCreation /\ CreatesTheFirst /\ AfterStartHasCourse

LEMMA BuilderInitInv == BuilderInit => BuilderInv
<1> SUFFICES ASSUME BuilderInit
             PROVE  BuilderInv
  OBVIOUS
<1>1. course \in {0, 1} /\ created = course /\ creating = FALSE
  BY DEF BuilderInit
<1>2. calls = [k \in CallKinds |-> 0]
  BY DEF BuilderInit
<1>3. calls["nextCreate"] = 0 /\ calls["startCreate"] = 0
  BY <1>2 DEF CallKinds
<1>4. Counted
  <2>1. calls \in [CallKinds -> Nat]
    BY <1>2
  <2>2. created \in Nat
    BY <1>1
  <2>3. creating \in BOOLEAN
    BY <1>1
  <2> QED BY <2>1, <2>2, <2>3 DEF Counted
<1>5. AfterStartHasCourse
  BY DEF BuilderInit, AfterStartHasCourse, AfterStart
<1> QED BY <1>1, <1>3, <1>4, <1>5 DEF BuilderInv, OneCreation, CreatesTheFirst

-----------------------------------------------------------------------------
(* What a step does to the handlers under way.                             *)

(* Handlers that create a course are neither begun nor ended.              *)
OtherCalls ==
  /\ calls' \in [CallKinds -> Nat]
  /\ \A k \in Creations : calls'[k] = calls[k]

LEMMA OtherCallCounts ==
  ASSUME Counted, NEW kind \in CallKinds \ Creations
  PROVE  /\ Call(kind) => OtherCalls
         /\ calls[kind] > 0 /\ Ends(kind) => OtherCalls
BY DEF Counted, Call, Ends, OtherCalls, Creations, CallKinds

LEMMA OtherCallContinues ==
  ASSUME Counted, NEW kind \in CallKinds \ Creations, NEW next \in CallKinds \ Creations,
         kind # next, calls[kind] > 0, Continues(kind, next)
  PROVE  OtherCalls
BY DEF Counted, Continues, OtherCalls, Creations, CallKinds

LEMMA CreationCounts ==
  ASSUME Counted, NEW kind \in Creations, Call(kind)
  PROVE  /\ calls' \in [CallKinds -> Nat]
         /\ calls'["nextCreate"] + calls'["startCreate"]
              = calls["nextCreate"] + calls["startCreate"] + 1
BY DEF Counted, Call, Creations, CallKinds

LEMMA CreationEnds ==
  ASSUME Counted, NEW kind \in Creations, calls[kind] > 0,
         Ends(kind) \/ Continues(kind, "update")
  PROVE  /\ calls' \in [CallKinds -> Nat]
         /\ calls'["nextCreate"] + calls'["startCreate"]
              = calls["nextCreate"] + calls["startCreate"] - 1
<1>1. CASE Ends(kind)
  BY <1>1 DEF Counted, Ends, Creations, CallKinds
<1>2. CASE Continues(kind, "update")
  BY <1>2 DEF Counted, Continues, Creations, CallKinds
<1> QED BY <1>1, <1>2

-----------------------------------------------------------------------------
(* The steps that neither begin nor end the creation of a course.          *)
NoCreation == UNCHANGED <<course, creating, created>> /\ OtherCalls

(* The steps after the start are reached from one of them, or by a machine *)
(* that has a course.                                                      *)
StartsWithCourse == reached' \in AfterStart => reached \in AfterStart \/ course # 0

LEMMA KeepsInv ==
  ASSUME BuilderInv, NoCreation, StartsWithCourse
  PROVE  BuilderInv'
<1>1. Counted' /\ CreatesTheFirst'
  BY DEF BuilderInv, Counted, CreatesTheFirst, NoCreation, OtherCalls
<1>2. OneCreation'
  BY DEF BuilderInv, OneCreation, NoCreation, OtherCalls, Creations
<1>3. AfterStartHasCourse'
  BY DEF BuilderInv, AfterStartHasCourse, StartsWithCourse, NoCreation
<1> QED BY <1>1, <1>2, <1>3 DEF BuilderInv

LEMMA BeginsCreation ==
  ASSUME BuilderInv, NEW kind \in Creations, CreateCourseIfNeeded(kind),
         UNCHANGED <<reached, course, created>>
  PROVE  BuilderInv'
<1>1. Counted /\ Call(kind) /\ creating = FALSE /\ creating' = TRUE /\ course = 0
  BY DEF BuilderInv, Counted, CreateCourseIfNeeded
<1>2. /\ calls' \in [CallKinds -> Nat]
      /\ calls'["nextCreate"] + calls'["startCreate"]
           = calls["nextCreate"] + calls["startCreate"] + 1
  BY <1>1, CreationCounts
<1>3. Counted' /\ OneCreation'
  BY <1>1, <1>2 DEF BuilderInv, Counted, OneCreation
<1> QED BY <1>1, <1>3 DEF BuilderInv, CreatesTheFirst, AfterStartHasCourse

(* An answer, or the failure, of the creation under way: there is no       *)
(* course yet, and no other creation.                                      *)
LEMMA EndsCreation ==
  ASSUME BuilderInv, NEW kind \in Creations, calls[kind] > 0,
         Ends(kind) \/ Continues(kind, "update"), creating' = FALSE,
         created' \in Nat, course' \in {course, created + 1}, StartsWithCourse
  PROVE  BuilderInv' /\ course = 0
<1>1. /\ calls' \in [CallKinds -> Nat]
      /\ calls'["nextCreate"] + calls'["startCreate"]
           = calls["nextCreate"] + calls["startCreate"] - 1
  BY CreationEnds DEF BuilderInv
<1>2. calls["nextCreate"] \in Nat /\ calls["startCreate"] \in Nat
  BY DEF BuilderInv, Counted, CallKinds
<1>3. creating = TRUE
  BY <1>2 DEF BuilderInv, Counted, OneCreation, Creations
<1>4. Counted' /\ OneCreation'
  <2>1. calls["nextCreate"] + calls["startCreate"] = 1
    BY <1>3 DEF BuilderInv, OneCreation
  <2>2. calls'["nextCreate"] + calls'["startCreate"] = 0
    BY <1>1, <1>2, <2>1
  <2>3. OneCreation'
    BY <2>2 DEF OneCreation
  <2>4. creating' \in BOOLEAN
    OBVIOUS
  <2> QED BY <1>1, <2>3, <2>4 DEF Counted
<1>5. course = 0
  BY <1>3 DEF BuilderInv, CreatesTheFirst
<1>6. AfterStartHasCourse'
  BY DEF BuilderInv, Counted, AfterStartHasCourse, StartsWithCourse
<1> QED BY <1>4, <1>5, <1>6 DEF BuilderInv, CreatesTheFirst

-----------------------------------------------------------------------------
(* Every step keeps the invariant, and the course if there is one.         *)
Keeps == BuilderInv' /\ (course # 0 => course' = course)

LEMMA KeepsAll ==
  ASSUME BuilderInv, NoCreation, StartsWithCourse
  PROVE  Keeps
BY KeepsInv DEF Keeps, NoCreation

LEMMA QuietKeeps ==
  ASSUME BuilderInv, UNCHANGED <<course, calls, creating, created>>, StartsWithCourse
  PROVE  Keeps
<1>1. OtherCalls
  BY DEF BuilderInv, Counted, OtherCalls
<1> QED BY <1>1, KeepsAll DEF NoCreation

LEMMA SendNextStarts == SendNext => StartsWithCourse
BY DEF SendNext, NextPlace, StartsWithCourse, AfterStart

LEMMA SendErrorStarts == SendError => StartsWithCourse
BY DEF SendError, StartsWithCourse, AfterStart

LEMMA DialogsKeep ==
  ASSUME BuilderInv, EditBasics \/ RemoveExpert \/ PickExperts \/ ConfirmExperts
                     \/ PickAudiences \/ JobRead
  PROVE  Keeps
<1>1. UNCHANGED <<reached, course, calls, creating, created>>
  BY DEF EditBasics, RemoveExpert, PickExperts, ConfirmExperts, PickAudiences, JobRead
<1> QED BY <1>1, QuietKeeps DEF StartsWithCourse

LEMMA HandleNextKeeps ==
  ASSUME BuilderInv, HandleNext
  PROVE  Keeps
<1>1. CASE CreateCourseIfNeeded("nextCreate") /\ UNCHANGED reached
  BY <1>1, BeginsCreation DEF HandleNext, Keeps, Creations
<1>2. CASE SendNext /\ UNCHANGED <<calls, creating>>
  BY <1>2, SendNextStarts, QuietKeeps DEF HandleNext
<1> QED BY <1>1, <1>2 DEF HandleNext

LEMMA BackKeeps ==
  ASSUME BuilderInv, HandlePrevious \/ HandleGoToStep
  PROVE  Keeps
<1>1. CASE HandlePrevious
  <2>1. StartsWithCourse
    BY <1>1 DEF HandlePrevious, StartsWithCourse, AfterStart
  <2> QED BY <1>1, <2>1, QuietKeeps DEF HandlePrevious
<1>2. CASE HandleGoToStep
  <2>1. PICK s \in 1..7, here \in 1..7 :
          /\ reached \in Choosing /\ StepPlaces[here] = reached /\ s < here
          /\ reached' = StepPlaces[s]
    BY <1>2 DEF HandleGoToStep, StepPlaces
  <2>2. here \in 1..4
    BY <2>1 DEF Choosing, StepPlaces
  <2>3. reached' \in Choosing
    BY <2>1, <2>2 DEF Choosing, StepPlaces
  <2>4. StartsWithCourse
    BY <2>3 DEF StartsWithCourse, AfterStart, Choosing
  <2> QED BY <1>2, <2>4, QuietKeeps DEF HandleGoToStep
<1> QED BY <1>1, <1>2

LEMMA CreatedKeeps ==
  ASSUME BuilderInv, NEW k, CourseCreatedBy(k)
  PROVE  Keeps
<1>1. k \in Creations /\ calls[k] > 0 /\ creating' = FALSE /\ created' = created + 1
  BY DEF CourseCreatedBy, Creations
<1>2. Ends(k) \/ Continues(k, "update")
  BY DEF CourseCreatedBy
<1>3. created' \in Nat /\ course' \in {course, created + 1}
  BY <1>1 DEF BuilderInv, Counted, CourseCreatedBy, TakesCourse
<1>4. StartsWithCourse
  <2>1. CASE SendNext
    BY <2>1, SendNextStarts
  <2>2. CASE UNCHANGED reached
    BY <2>2 DEF StartsWithCourse
  <2> QED BY <2>1, <2>2 DEF CourseCreatedBy
<1> QED BY <1>1, <1>2, <1>3, <1>4, EndsCreation DEF Keeps

LEMMA CreationFailsKeeps ==
  ASSUME BuilderInv, NEW k, CreationFails(k)
  PROVE  Keeps
<1>1. k \in Creations /\ calls[k] > 0 /\ creating' = FALSE /\ Ends(k)
  BY DEF CreationFails, Creations
<1>2. created' \in Nat /\ course' = course /\ StartsWithCourse
  BY DEF BuilderInv, Counted, CreationFails, StartsWithCourse
<1> QED BY <1>1, <1>2, EndsCreation DEF Keeps

LEMMA StartKeeps ==
  ASSUME BuilderInv, HandleStartGeneration
  PROVE  Keeps
<1>1. UNCHANGED <<reached, course, created>>
  BY DEF HandleStartGeneration
<1>2. CASE Call("update") /\ UNCHANGED creating
  <2>1. OtherCalls
    BY <1>2, OtherCallCounts DEF BuilderInv, CallKinds, Creations
  <2> QED BY <1>1, <1>2, <2>1, KeepsAll DEF NoCreation, StartsWithCourse
<1>3. CASE CreateCourseIfNeeded("startCreate")
  BY <1>1, <1>3, BeginsCreation DEF Keeps, Creations
<1> QED BY <1>2, <1>3 DEF HandleStartGeneration

(* The machine's guard: an outline is not asked for without a course.      *)
LEMMA UpdateAnsweredKeeps ==
  ASSUME BuilderInv, UpdateAnswered
  PROVE  Keeps
<1>1. OtherCalls
  BY OtherCallCounts, OtherCallContinues
     DEF BuilderInv, UpdateAnswered, CallKinds, Creations
<1>2. StartsWithCourse
  BY DEF UpdateAnswered, SendStart, CanStart, StartsWithCourse, AfterStart
<1> QED BY <1>1, <1>2, KeepsAll DEF UpdateAnswered, NoCreation

LEMMA OutlineCallsKeep ==
  ASSUME BuilderInv, HandleRegenerateOutline \/ HandleApproveOutline
                     \/ HandleRejectOutline
  PROVE  Keeps
<1>1. \E kind \in {"request", "approve", "reject"} : Call(kind)
  BY DEF HandleRegenerateOutline, HandleApproveOutline, HandleRejectOutline
<1>2. OtherCalls
  BY <1>1, OtherCallCounts DEF BuilderInv, CallKinds, Creations
<1>3. UNCHANGED <<reached, course, creating, created>>
  BY DEF HandleRegenerateOutline, HandleApproveOutline, HandleRejectOutline
<1> QED BY <1>2, <1>3, KeepsAll DEF NoCreation, StartsWithCourse

(* The answers about the outline and the lessons: the machine takes them   *)
(* in steps after the start only.                                          *)
LEMMA AnswersKeep ==
  ASSUME BuilderInv, RequestAnswered \/ ApproveAnsweredTo \/ OrderAnswered
                     \/ RejectAnswered \/ StoreAnswered
  PROVE  Keeps
<1>1. \E kind \in {"request", "approve", "order", "reject", "store"} :
        /\ calls[kind] > 0
        /\ Ends(kind) \/ (kind = "approve" /\ Continues(kind, "order"))
  BY DEF RequestAnswered, ApproveAnsweredTo, OrderAnswered, RejectAnswered, StoreAnswered
<1>2. OtherCalls
  BY <1>1, OtherCallCounts, OtherCallContinues DEF BuilderInv, CallKinds, Creations
<1>3. UNCHANGED <<course, creating, created>>
  BY DEF RequestAnswered, ApproveAnsweredTo, OrderAnswered, RejectAnswered, StoreAnswered
<1>4. \/ UNCHANGED reached
      \/ SendError
      \/ \E from \in SUBSET AfterStart : \E to : Moves(from, to)
  BY DEF RequestAnswered, ApproveAnsweredTo, OrderAnswered, RejectAnswered,
         StoreAnswered, SendOutlineJob, AfterStart
<1>5. StartsWithCourse
  BY <1>4, SendErrorStarts DEF StartsWithCourse, Moves
<1> QED BY <1>2, <1>3, <1>5, KeepsAll DEF NoCreation

LEMMA EffectsKeep ==
  ASSUME BuilderInv, WatchOutlineJob \/ OutlineRefetched \/ WatchLessonJob
                     \/ LessonsRefetched
  PROVE  Keeps
<1>1. UNCHANGED <<course, creating, created>>
  BY DEF WatchOutlineJob, OutlineRefetched, WatchLessonJob, LessonsRefetched
<1>2. UNCHANGED calls \/ Call("store")
  BY DEF WatchOutlineJob, OutlineRefetched, WatchLessonJob, LessonsRefetched
<1>3. OtherCalls
  <2>1. CASE UNCHANGED calls
    BY <2>1 DEF BuilderInv, Counted, OtherCalls
  <2>2. CASE Call("store")
    BY <2>2, OtherCallCounts DEF BuilderInv, CallKinds, Creations
  <2> QED BY <1>2, <2>1, <2>2
<1>4. \/ UNCHANGED reached
      \/ SendError
      \/ \E from \in SUBSET AfterStart : \E to : Moves(from, to)
  BY DEF WatchOutlineJob, OutlineRefetched, WatchLessonJob, LessonsRefetched, AfterStart
<1>5. StartsWithCourse
  BY <1>4, SendErrorStarts DEF StartsWithCourse, Moves
<1> QED BY <1>1, <1>3, <1>5, KeepsAll DEF NoCreation

LEMMA BuilderStep ==
  ASSUME BuilderInv, [BuilderNext]_builderVars
  PROVE  Keeps
<1>1. CASE UNCHANGED builderVars
  BY <1>1, QuietKeeps DEF builderVars, StartsWithCourse
<1>2. CASE BuilderNext
  BY <1>2, DialogsKeep, HandleNextKeeps, BackKeeps, CreatedKeeps,
     CreationFailsKeeps, StartKeeps, UpdateAnsweredKeeps, OutlineCallsKeep,
     AnswersKeep, EffectsKeep
     DEF BuilderNext
<1> QED BY <1>1, <1>2

LEMMA BuilderInvariant == BuilderSpec => []BuilderInv
<1>1. BuilderInv /\ [BuilderNext]_builderVars => BuilderInv'
  BY BuilderStep DEF Keeps
<1> QED BY <1>1, BuilderInitInv, PTL DEF BuilderSpec

-----------------------------------------------------------------------------
(* The page has a course in every step from the generation on, whichever   *)
(* of two clicks' creations the machine has taken or dropped.              *)
THEOREM StartedHasCourse == BuilderSpec => []AfterStartHasCourse
<1>1. BuilderInv => AfterStartHasCourse
  BY DEF BuilderInv
<1> QED BY <1>1, BuilderInvariant, PTL

(* The page's course is never replaced by another.                         *)
THEOREM CourseNeverReplaced == BuilderSpec => CourseStays
<1>1. BuilderInv /\ [BuilderNext]_builderVars
        => [course # 0 => course' = course]_builderVars
  BY BuilderStep DEF Keeps
<1> QED BY <1>1, BuilderInvariant, PTL DEF BuilderSpec, CourseStays
-----------------------------------------------------------------------------
(***************************************************************************)
(* The types, and the number of handlers under way.                        *)
(***************************************************************************)
(* The handlers under way are within their bound, each kind and together.  *)
CallsWithin == calls \in [CallKinds -> Nat] /\ UnderWay <= MaxCalls

LEMMA CallsWithinEach ==
  CallsWithin <=> calls \in [CallKinds -> 0..MaxCalls] /\ UnderWay <= MaxCalls
<1>1. ASSUME CallsWithin, NEW k \in CallKinds PROVE calls[k] \in 0..MaxCalls
  <2>1. \A j \in CallKinds : calls[j] \in Nat
    BY <1>1 DEF CallsWithin
  <2> QED BY <1>1, <2>1, BuilderAssumption DEF CallsWithin, UnderWay, CallKinds
<1> QED BY <1>1 DEF CallsWithin

TotalOf(f) ==
  f["nextCreate"] + f["startCreate"] + f["update"] + f["request"]
    + f["approve"] + f["order"] + f["reject"] + f["store"]

LEMMA TotalType ==
  ASSUME NEW f, f \in [CallKinds -> Nat]
  PROVE  TotalOf(f) \in Nat
<1>1. \A j \in CallKinds : f[j] \in Nat
  OBVIOUS
<1> QED BY <1>1 DEF TotalOf, CallKinds

TotalMoves(f, g, kind, n) == TotalOf(g) + f[kind] = TotalOf(f) + n

LEMMA TotalChanges ==
  ASSUME NEW f, f \in [CallKinds -> Nat], NEW kind \in CallKinds, NEW n \in Nat,
         NEW g, g = [f EXCEPT ![kind] = n]
  PROVE  TotalMoves(f, g, kind, n)
<1>1. \A j \in CallKinds : f[j] \in Nat
  OBVIOUS
<1>2. \A j \in CallKinds : g[j] = IF j = kind THEN n ELSE f[j]
  OBVIOUS
<1> QED BY <1>1, <1>2 DEF TotalMoves, TotalOf, CallKinds

LEMMA CallWithin ==
  ASSUME CallsWithin, NEW kind \in CallKinds, Call(kind)
  PROVE  CallsWithin'
<1> DEFINE n == calls[kind] + 1
<1>1. calls[kind] \in Nat /\ n \in Nat /\ calls \in [CallKinds -> Nat] /\ n = calls[kind] + 1
  BY DEF CallsWithin
<1>2. calls' = [calls EXCEPT ![kind] = n] /\ TotalOf(calls) < MaxCalls
  BY DEF Call, UnderWay, TotalOf
<1> HIDE DEF n
<1>3. calls' \in [CallKinds -> Nat] /\ TotalOf(calls) \in Nat /\ TotalOf(calls') \in Nat
  BY <1>1, <1>2, TotalType
<1>5. TotalMoves(calls, calls', kind, n)
  BY <1>1, <1>2, TotalChanges
<1>4. TotalOf(calls') <= MaxCalls
  BY <1>1, <1>2, <1>3, <1>5, BuilderAssumption DEF TotalMoves
<1> QED BY <1>3, <1>4 DEF CallsWithin, UnderWay, TotalOf

LEMMA EndsWithin ==
  ASSUME CallsWithin, NEW kind \in CallKinds, calls[kind] > 0,
         \/ Ends(kind)
         \/ \E next \in CallKinds \ {kind} : Continues(kind, next)
  PROVE  CallsWithin'
<1> DEFINE n    == calls[kind] - 1
           left == [calls EXCEPT ![kind] = n]
<1>1. calls[kind] \in Nat /\ n \in Nat /\ n = calls[kind] - 1 /\ calls \in [CallKinds -> Nat]
  BY DEF CallsWithin
<1>3. TotalOf(calls) <= MaxCalls /\ MaxCalls \in Nat
  BY BuilderAssumption DEF CallsWithin, UnderWay, TotalOf
<1>4. \/ calls' = left
      \/ \E next \in CallKinds : left[next] = calls[next] /\ calls' = [left EXCEPT ![next] = calls[next] + 1]
  <2>1. ASSUME NEW next \in CallKinds \ {kind}, Continues(kind, next)
        PROVE  calls' = [left EXCEPT ![next] = calls[next] + 1] /\ left[next] = calls[next]
    BY <2>1, <1>1 DEF Continues
  <2> QED BY <2>1 DEF Ends
<1> HIDE DEF n
<1>2. left \in [CallKinds -> Nat] /\ TotalOf(calls) \in Nat /\ TotalOf(left) \in Nat
  BY <1>1, TotalType
<1>7. TotalMoves(calls, left, kind, n)
  BY <1>1, TotalChanges
<1> HIDE DEF left
<1>5. CASE calls' = left
  <2>1. TotalOf(calls') <= MaxCalls
    BY <1>1, <1>2, <1>3, <1>5, <1>7 DEF TotalMoves
  <2> QED BY <1>2, <1>5, <2>1 DEF CallsWithin, UnderWay, TotalOf
<1>6. ASSUME NEW next \in CallKinds, left[next] = calls[next],
             calls' = [left EXCEPT ![next] = calls[next] + 1]
      PROVE  CallsWithin'
  <2> DEFINE m == calls[next] + 1
  <2>1. calls[next] \in Nat /\ m \in Nat /\ m = calls[next] + 1 /\ calls' = [left EXCEPT ![next] = m]
    BY <1>1, <1>6
  <2> HIDE DEF m
  <2>2. calls' \in [CallKinds -> Nat] /\ TotalOf(calls') \in Nat
    BY <1>2, <2>1, TotalType
  <2>4. TotalMoves(left, calls', next, m)
    BY <1>2, <2>1, TotalChanges
  <2>3. TotalOf(calls') <= MaxCalls
    BY <1>1, <1>2, <1>3, <1>6, <1>7, <2>1, <2>2, <2>4 DEF TotalMoves
  <2> QED BY <2>2, <2>3 DEF CallsWithin, UnderWay, TotalOf
<1> QED BY <1>4, <1>5, <1>6

(* The rest of the types.                                                  *)
BuilderSteps == Choosing \cup AfterStart
BuilderPageTyped ==
  /\ reached \in BuilderSteps /\ course \in 0..MaxCreated /\ created \in 0..MaxCreated
  /\ draft \in Draft /\ picker \in [open : BOOLEAN, some : BOOLEAN]
  /\ creating \in BOOLEAN /\ listed \in BOOLEAN
  /\ followed \in [outline : FollowedStatus, lessons : FollowedStatus]
  /\ refetching \in [outline : BOOLEAN, lessons : {"none", "some", "empty"}]

LEMMA BuilderParts == BuilderTypeOK <=> CallsWithin /\ BuilderPageTyped
BY CallsWithinEach DEF BuilderTypeOK, BuilderPageTyped, BuilderSteps

LEMMA BuilderInitTyped == BuilderInit => BuilderTypeOK
<1> SUFFICES ASSUME BuilderInit
             PROVE  CallsWithin /\ BuilderPageTyped
  BY BuilderParts
<1>1. CallsWithin
  <2>1. \A k \in CallKinds : calls[k] = 0
    BY DEF BuilderInit
  <2>2. UnderWay = 0 /\ MaxCalls \in Nat
    BY <2>1, BuilderAssumption DEF UnderWay, CallKinds
  <2> QED BY <2>2 DEF BuilderInit, CallsWithin
<1>2. reached \in BuilderSteps /\ course \in {0, 1} /\ created = course
  <2>1. \A s \in DOMAIN StepPlaces : StepPlaces[s] \in BuilderSteps
    BY DEF StepPlaces, BuilderSteps, Choosing, AfterStart
  <2> QED BY <2>1 DEF BuilderInit, BuilderSteps, Choosing
<1>3. 0..1 \subseteq 0..MaxCreated
  BY BuilderAssumption
<1>4. listed \in BOOLEAN
  BY Zenon DEF BuilderInit
<1>5. BuilderPageTyped
  <2>1. draft \in Draft /\ picker \in [open : BOOLEAN, some : BOOLEAN] /\ creating \in BOOLEAN
    BY DEF BuilderInit, Draft
  <2>2. /\ followed \in [outline : FollowedStatus, lessons : FollowedStatus]
        /\ refetching \in [outline : BOOLEAN, lessons : {"none", "some", "empty"}]
    BY DEF BuilderInit, FollowedStatus
  <2> QED BY <1>2, <1>3, <1>4, <2>1, <2>2 DEF BuilderPageTyped
<1> QED BY <1>1, <1>5

(* The events keep the machine in its steps and the dialog in its states.  *)
LEMMA EventsStay ==
  ASSUME BuilderPageTyped
  PROVE  /\ SendNext \/ SendStart \/ SendError => reached' \in BuilderSteps
         /\ \A from, to : to \in BuilderSteps /\ Moves(from, to) => reached' \in BuilderSteps
         /\ ExpertsMounted => picker' \in [open : BOOLEAN, some : BOOLEAN]
<1>1. SendNext => reached' \in BuilderSteps
  BY DEF BuilderPageTyped, SendNext, NextPlace, BuilderSteps, Choosing, AfterStart
<1>2. SendStart \/ SendError => reached' \in BuilderSteps
  BY DEF BuilderPageTyped, SendStart, SendError, BuilderSteps, Choosing, AfterStart
<1>3. \A from, to : to \in BuilderSteps /\ Moves(from, to) => reached' \in BuilderSteps
  BY DEF BuilderPageTyped, Moves
<1>4. ExpertsMounted => picker' \in [open : BOOLEAN, some : BOOLEAN]
  <2>1. [open |-> FALSE, some |-> draft.smes] \in [open : BOOLEAN, some : BOOLEAN]
    BY DEF BuilderPageTyped, Draft
  <2> QED BY <2>1 DEF BuilderPageTyped, ExpertsMounted
<1> QED BY <1>1, <1>2, <1>3, <1>4

LEMMA DialogTypes ==
  ASSUME BuilderPageTyped, EditBasics \/ RemoveExpert \/ PickExperts \/ ConfirmExperts
                     \/ PickAudiences \/ JobRead
  PROVE  BuilderPageTyped' /\ UNCHANGED calls
<1>1. CASE EditBasics \/ RemoveExpert \/ PickAudiences
  BY ZenonT(40), <1>1 DEF EditBasics, RemoveExpert, PickAudiences, BuilderPageTyped, Draft
<1>2. CASE PickExperts
  BY <1>2 DEF PickExperts, BuilderPageTyped
<1>3. CASE ConfirmExperts
  BY <1>3 DEF ConfirmExperts, BuilderPageTyped, Draft
<1>4. CASE JobRead
  BY <1>4 DEF JobRead, BuilderPageTyped
<1> QED BY <1>1, <1>2, <1>3, <1>4

LEMMA BuilderTypeStep == BuilderTypeOK /\ [BuilderNext]_builderVars => BuilderTypeOK'
<1> SUFFICES ASSUME BuilderTypeOK, [BuilderNext]_builderVars
             PROVE  BuilderTypeOK'
  OBVIOUS
<1>T. CallsWithin /\ BuilderPageTyped
  BY BuilderParts
<1>G. CallsWithin' /\ BuilderPageTyped' => BuilderTypeOK'
  <2>1. BuilderTypeOK' <=> CallsWithin' /\ BuilderPageTyped'
    BY BuilderParts, PTL
  <2> QED BY <2>1
<1>U. UNCHANGED calls => CallsWithin'
  BY <1>T DEF CallsWithin, UnderWay
<1>K. Creations \subseteq CallKinds /\ {"update", "request", "approve", "order", "reject", "store"} \subseteq CallKinds
  BY DEF Creations, CallKinds
<1>P. {"generatingOutline", "outlineReview", "generatingLessons", "editor", "reviewGenerate"} \subseteq BuilderSteps
  BY DEF BuilderSteps, AfterStart, Choosing
<1>1. CASE EditBasics \/ RemoveExpert \/ PickExperts \/ ConfirmExperts \/ PickAudiences \/ JobRead
  BY <1>1, <1>T, <1>G, <1>U, DialogTypes
<1>2. CASE HandleNext
  <2>1. CallsWithin' /\ creating' \in BOOLEAN /\ reached' \in BuilderSteps
    <3>1. CASE CreateCourseIfNeeded("nextCreate") /\ UNCHANGED reached
      BY <3>1, <1>T, <1>K, CallWithin DEF CreateCourseIfNeeded, BuilderPageTyped, Creations
    <3>2. CASE SendNext /\ UNCHANGED <<calls, creating>>
      BY <3>2, <1>T, <1>U, EventsStay DEF BuilderPageTyped
    <3> QED BY <1>2, <3>1, <3>2 DEF HandleNext
  <2>2. picker' \in [open : BOOLEAN, some : BOOLEAN]
    BY <1>2, <1>T, EventsStay DEF HandleNext
  <2> QED BY <1>2, <2>1, <2>2, <1>T, <1>G DEF HandleNext, BuilderPageTyped
<1>3. CASE HandlePrevious
  <2>1. reached' \in BuilderSteps
    BY <1>3 DEF HandlePrevious, BuilderSteps, Choosing, AfterStart
  <2>2. picker' \in [open : BOOLEAN, some : BOOLEAN]
    BY <1>3, <1>T, EventsStay DEF HandlePrevious
  <2> QED BY <1>3, <2>1, <2>2, <1>T, <1>G, <1>U DEF HandlePrevious, BuilderPageTyped
<1>4. CASE HandleGoToStep
  <2>1. reached' \in BuilderSteps
    <3>1. \A s \in DOMAIN StepPlaces : StepPlaces[s] \in BuilderSteps
      BY DEF StepPlaces, BuilderSteps, Choosing, AfterStart
    <3>2. \E s \in DOMAIN StepPlaces : reached' = StepPlaces[s]
      BY <1>4 DEF HandleGoToStep
    <3> QED BY <3>1, <3>2
  <2>2. picker' \in [open : BOOLEAN, some : BOOLEAN]
    BY <1>4, <1>T, EventsStay DEF HandleGoToStep
  <2> QED BY <1>4, <2>1, <2>2, <1>T, <1>G, <1>U DEF HandleGoToStep, BuilderPageTyped
<1>5. ASSUME NEW k \in CallKinds, CourseCreatedBy(k)
      PROVE  BuilderTypeOK'
  <2>1. /\ k \in CallKinds /\ calls[k] > 0 /\ creating' = FALSE /\ created' = created + 1
        /\ k \in {"nextCreate", "startCreate"} /\ created < MaxCreated
    BY <1>5 DEF CourseCreatedBy
  <2>2. created' \in 0..MaxCreated /\ course' \in 0..MaxCreated
    BY <1>5, <2>1, <1>T, BuilderAssumption DEF CourseCreatedBy, TakesCourse, BuilderPageTyped
  <2>3. Ends(k) \/ Continues(k, "update")
    BY <1>5 DEF CourseCreatedBy
  <2>4. "update" \in CallKinds \ {k}
    BY <2>1, <1>K
  <2>5. CallsWithin'
    BY <2>1, <2>3, <2>4, <1>T, EndsWithin
  <2>6. reached' \in BuilderSteps
    BY <1>5, <1>T, EventsStay DEF CourseCreatedBy, BuilderPageTyped
  <2>7. picker' \in [open : BOOLEAN, some : BOOLEAN]
    BY <1>5, <1>T, EventsStay DEF CourseCreatedBy
  <2>8. UNCHANGED <<draft, followed, refetching, listed>>
    BY <1>5 DEF CourseCreatedBy
  <2>9. BuilderPageTyped'
    BY <2>1, <2>2, <2>6, <2>7, <2>8, <1>T DEF BuilderPageTyped
  <2> QED BY <2>5, <2>9, <1>G
<1>6. ASSUME NEW k \in CallKinds, CreationFails(k)
      PROVE  BuilderTypeOK'
  <2>1. CallsWithin'
    BY <1>6, <1>T, EndsWithin DEF CreationFails
  <2> QED BY <1>6, <2>1, <1>T, <1>G DEF CreationFails, BuilderPageTyped
<1>7. CASE HandleStartGeneration
  <2>1. CallsWithin' /\ creating' \in BOOLEAN
    <3>1. CASE Call("update") /\ UNCHANGED creating
      BY <3>1, <1>T, <1>K, CallWithin DEF BuilderPageTyped
    <3>2. CASE CreateCourseIfNeeded("startCreate")
      BY <3>2, <1>T, <1>K, CallWithin DEF CreateCourseIfNeeded, Creations
    <3> QED BY <1>7, <3>1, <3>2 DEF HandleStartGeneration
  <2> QED BY <1>7, <2>1, <1>T, <1>G DEF HandleStartGeneration, BuilderPageTyped
<1>8. CASE HandleRegenerateOutline \/ HandleApproveOutline \/ HandleRejectOutline
  <2>1. \E kind \in {"request", "approve", "reject"} : Call(kind)
    BY <1>8 DEF HandleRegenerateOutline, HandleApproveOutline, HandleRejectOutline
  <2>2. CallsWithin'
    BY <2>1, <1>T, <1>K, CallWithin
  <2>3. UNCHANGED <<reached, course, draft, picker, creating, followed, refetching, listed, created>>
    BY <1>8 DEF HandleRegenerateOutline, HandleApproveOutline, HandleRejectOutline
  <2> QED BY <2>2, <2>3, <1>T, <1>G DEF BuilderPageTyped
<1>9. CASE UpdateAnswered \/ RequestAnswered \/ ApproveAnsweredTo \/ OrderAnswered
           \/ RejectAnswered \/ StoreAnswered
  <2>1. \E kind \in {"update", "request", "approve", "order", "reject", "store"} :
          /\ calls[kind] > 0
          /\ \/ Ends(kind)
             \/ \E next \in {"request", "order"} \ {kind} : Continues(kind, next)
    BY <1>9 DEF UpdateAnswered, RequestAnswered, ApproveAnsweredTo, OrderAnswered,
                RejectAnswered, StoreAnswered
  <2>2. CallsWithin'
    BY <2>1, <1>T, <1>K, EndsWithin
  <2>3. \/ UNCHANGED reached \/ SendStart \/ SendError
        \/ \E from : \E to \in BuilderSteps : Moves(from, to)
    BY <1>9, <1>P DEF UpdateAnswered, RequestAnswered, ApproveAnsweredTo, OrderAnswered,
                RejectAnswered, StoreAnswered, SendOutlineJob
  <2>4. reached' \in BuilderSteps
    BY <2>3, <1>T, EventsStay DEF BuilderPageTyped
  <2>5. picker' \in [open : BOOLEAN, some : BOOLEAN]
    BY <1>9, <1>T, EventsStay DEF UpdateAnswered, RequestAnswered, ApproveAnsweredTo,
                OrderAnswered, RejectAnswered, StoreAnswered
  <2>6. followed' \in [outline : FollowedStatus, lessons : FollowedStatus]
    BY <1>9, <1>T DEF UpdateAnswered, RequestAnswered, ApproveAnsweredTo, OrderAnswered,
                RejectAnswered, StoreAnswered, SendOutlineJob, SendLessonJob, BuilderPageTyped,
                FollowedStatus
  <2>7. UNCHANGED <<course, draft, creating, refetching, listed, created>>
    BY <1>9 DEF UpdateAnswered, RequestAnswered, ApproveAnsweredTo, OrderAnswered,
                RejectAnswered, StoreAnswered
  <2> QED BY <2>2, <2>4, <2>5, <2>6, <2>7, <1>T, <1>G DEF BuilderPageTyped
<1>10. CASE WatchOutlineJob \/ OutlineRefetched \/ WatchLessonJob \/ LessonsRefetched
  <2>1. UNCHANGED calls \/ Call("store")
    BY <1>10 DEF WatchOutlineJob, OutlineRefetched, WatchLessonJob, LessonsRefetched
  <2>2. CallsWithin'
    BY <2>1, <1>T, <1>K, <1>U, CallWithin
  <2>3. \/ UNCHANGED reached \/ SendError
        \/ \E from : \E to \in BuilderSteps : Moves(from, to)
    BY <1>10, <1>P DEF WatchOutlineJob, OutlineRefetched, WatchLessonJob, LessonsRefetched
  <2>4. reached' \in BuilderSteps
    BY <2>3, <1>T, EventsStay DEF BuilderPageTyped
  <2>5. picker' \in [open : BOOLEAN, some : BOOLEAN]
    BY <1>10, <1>T, EventsStay DEF WatchOutlineJob, OutlineRefetched, WatchLessonJob,
                LessonsRefetched
  <2>6. /\ refetching' \in [outline : BOOLEAN, lessons : {"none", "some", "empty"}]
        /\ listed' \in BOOLEAN
    BY <1>10, <1>T DEF WatchOutlineJob, OutlineRefetched, WatchLessonJob, LessonsRefetched,
                BuilderPageTyped
  <2>7. UNCHANGED <<course, draft, creating, followed, created>>
    BY <1>10 DEF WatchOutlineJob, OutlineRefetched, WatchLessonJob, LessonsRefetched
  <2> QED BY <2>2, <2>4, <2>5, <2>6, <2>7, <1>T, <1>G DEF BuilderPageTyped
<1>11. CASE UNCHANGED builderVars
  BY <1>11, <1>T, <1>G, <1>U DEF builderVars, BuilderPageTyped
<1> QED BY <1>1, <1>2, <1>3, <1>4, <1>5, <1>6, <1>7, <1>8, <1>9, <1>10, <1>11 DEF BuilderNext

(* The page's state keeps its types, and the handlers under way their      *)
(* bound.                                                                  *)
THEOREM BuilderTypeCorrect == BuilderSpec => []BuilderTypeOK
BY BuilderInitTyped, BuilderTypeStep, PTL DEF BuilderSpec
-----------------------------------------------------------------------------
(***************************************************************************)
(* The generation wizard.                                                  *)
(***************************************************************************)
(* Pages behind the first three are reached only with what those ask for,  *)
(* and what they ask for is changed only on them.                          *)
PagesFilled ==
  /\ wizard.page > 1 => wizard.smes # {}
  /\ wizard.page > 2 => wizard.audiences # {}
  /\ wizard.page > 3 => wizard.outcome = "fine"

WizardInv == WizardTypeOK /\ PagesFilled /\ HandedIsComplete

LEMMA FivePages ==
  /\ Len(Pages) = 5 /\ DOMAIN Pages = 1..5
  /\ Pages[1] = "sme-selection" /\ Pages[2] = "audience-selection"
  /\ Pages[3] = "configuration" /\ Pages[4] = "organization" /\ Pages[5] = "review"
BY DEF Pages

(* What canProceed asks for, page by page.                                 *)
LEMMA ProceedsFilled ==
  ASSUME wizard.page \in 1..5, canProceed
  PROVE  /\ wizard.page = 1 => wizard.smes # {}
         /\ wizard.page = 2 => wizard.audiences # {}
         /\ wizard.page = 3 => wizard.outcome = "fine"
<1>1. wizard.page = 1 => wizard.smes # {}
  BY FivePages DEF canProceed
<1>2. wizard.page = 2 => wizard.audiences # {}
  BY FivePages DEF canProceed
<1>3. wizard.page = 3 => wizard.outcome = "fine"
  BY FivePages DEF canProceed
<1> QED BY <1>1, <1>2, <1>3

LEMMA WizardInitInv == WizardInit => WizardInv
BY FivePages
   DEF WizardInit, WizardInv, WizardTypeOK, PagesFilled, HandedIsComplete, Outcomes

LEMMA WizardInvStep == WizardInv /\ [WizardNext]_wizardVars => WizardInv'
<1> SUFFICES ASSUME WizardInv, [WizardNext]_wizardVars
             PROVE  WizardInv'
  OBVIOUS
<1> USE DEF WizardInv
<1>1. CASE ToggleSme
  BY FivePages, ProceedsFilled, <1>1 DEF ToggleSme, On, Becomes, Toggled,
         WizardTypeOK, Outcomes, PagesFilled, HandedIsComplete, startGuard
<1>2. CASE ToggleAudience
  BY FivePages, ProceedsFilled, <1>2 DEF ToggleAudience, On, Becomes, Toggled,
         WizardTypeOK, Outcomes, PagesFilled, HandedIsComplete, startGuard
<1>3. CASE DescribeGoals
  BY FivePages, ProceedsFilled, <1>3 DEF DescribeGoals, On, Outcomes, Becomes,
         WizardTypeOK, PagesFilled, HandedIsComplete, startGuard
<1>4. CASE OpenDialog
  BY FivePages, ProceedsFilled, <1>4 DEF OpenDialog, On, Becomes, WizardTypeOK,
         Outcomes, PagesFilled, HandedIsComplete, startGuard
<1>5. CASE AddTag
  BY FivePages, ProceedsFilled, <1>5 DEF AddTag, Becomes, WizardTypeOK,
         Outcomes, PagesFilled, HandedIsComplete, startGuard
<1>6. CASE RemoveTag
  BY FivePages, ProceedsFilled, <1>6 DEF RemoveTag, Becomes, WizardTypeOK,
         Outcomes, PagesFilled, HandedIsComplete, startGuard
<1>7. CASE ClearTags
  BY FivePages, ProceedsFilled, <1>7 DEF ClearTags, Becomes, WizardTypeOK,
         Outcomes, PagesFilled, HandedIsComplete, startGuard
<1>8. CASE FolderSelect
  BY FivePages, ProceedsFilled, <1>8 DEF FolderSelect, Becomes, WizardTypeOK,
         Outcomes, PagesFilled, HandedIsComplete, startGuard
<1>9. CASE ClearFolder
  BY FivePages, ProceedsFilled, <1>9 DEF ClearFolder, On, Becomes,
         WizardTypeOK, Outcomes, PagesFilled, HandedIsComplete, startGuard
<1>10. CASE CloseDialog
  BY FivePages, ProceedsFilled, <1>10 DEF CloseDialog, Becomes, WizardTypeOK,
         Outcomes, PagesFilled, HandedIsComplete, startGuard
<1>11. CASE GoToNextStep
  BY FivePages, ProceedsFilled, <1>11 DEF GoToNextStep, Becomes, WizardTypeOK,
         Outcomes, PagesFilled, HandedIsComplete, startGuard
<1>12. CASE GoToPreviousStep
  BY FivePages, ProceedsFilled, <1>12 DEF GoToPreviousStep, Becomes,
         WizardTypeOK, Outcomes, PagesFilled, HandedIsComplete, startGuard
<1>13. CASE handleStartGeneration
  BY FivePages, ProceedsFilled, <1>13 DEF handleStartGeneration, On,
         WizardTypeOK, Outcomes, PagesFilled, HandedIsComplete, startGuard
<1>14. CASE UNCHANGED wizardVars
  BY FivePages, ProceedsFilled, <1>14 DEF wizardVars, WizardTypeOK, Outcomes,
         PagesFilled, HandedIsComplete, startGuard
<1> QED
  BY <1>1, <1>2, <1>3, <1>4, <1>5, <1>6, <1>7, <1>8, <1>9, <1>10, <1>11, <1>12,
     <1>13, <1>14 DEF WizardNext

LEMMA WizardInvariant == WizardSpec => []WizardInv
BY WizardInitInv, WizardInvStep, PTL DEF WizardSpec

(* The wizard's selections, page and dialog keep their types.              *)
THEOREM WizardTypeCorrect == WizardSpec => []WizardTypeOK
<1>1. WizardInv => WizardTypeOK
  BY DEF WizardInv
<1> QED BY <1>1, WizardInvariant, PTL

(* Every input that the wizard hands over starts a generation.             *)
THEOREM HandsOverComplete == WizardSpec => []HandedIsComplete
<1>1. WizardInv => HandedIsComplete
  BY DEF WizardInv
<1> QED BY <1>1, WizardInvariant, PTL
-----------------------------------------------------------------------------
(***************************************************************************)
(* The outline and its editor. Sections and lessons are found by their     *)
(* ids, so the proof is about which ids there are: those of the server,    *)
(* and those the clock has given so far. What filter and arrayMove do to a *)
(* sequence is proved first; it needs induction, which is had from the     *)
(* well-foundedness of the numbers.                                        *)
(***************************************************************************)
-----------------------------------------------------------------------------
(* Sequences.                                                              *)

LessOnNat == {ss \in Nat \X Nat : ss[1] < ss[2]}

(* Every set of numbers has a least one: induction, without an operator.   *)
LEMMA LeastNatural ==
  ASSUME NEW T \in SUBSET Nat, T # {}
  PROVE  \E x \in T : \A y \in T : ~ (y < x)
<1>1. IsWellFoundedOn(LessOnNat, Nat)
  BY NatLessThanWellFounded DEF OpToRel, LessOnNat
<1>2. PICK x \in T : \A y \in T : <<y, x>> \notin LessOnNat
  BY <1>1, WFMin
<1>3. \A y \in T : ~ (y < x)
  <2> SUFFICES ASSUME NEW y \in T, y < x PROVE FALSE
    OBVIOUS
  <2>1. <<y, x>> \in Nat \X Nat
    OBVIOUS
  <2>2. <<y, x>>[1] = y /\ <<y, x>>[2] = x
    OBVIOUS
  <2> QED BY <1>2, <2>1, <2>2 DEF LessOnNat
<1> QED BY <1>3

(* Every number up to the size of a set of places is the rank of one.      *)
PlacesUpTo(I, i) == {j \in I : j <= i}

LEMMA Ranked ==
  ASSUME NEW m \in Nat, NEW I \in SUBSET (1..m), NEW n \in 1..Cardinality(I)
  PROVE  \E i \in I : Cardinality(PlacesUpTo(I, i)) = n
<1>0. \A i \in I : i \in Nat /\ 1 <= i /\ i <= m
  OBVIOUS
<1>U. \A i \in Nat : /\ \A j \in PlacesUpTo(I, i) : j \in I /\ j <= i
                     /\ \A j \in I : j <= i => j \in PlacesUpTo(I, i)
  BY DEF PlacesUpTo
<1>1. IsFiniteSet(I) /\ Cardinality(I) \in Nat
  <2>1. IsFiniteSet(1..m)
    BY FS_Interval
  <2> QED BY <2>1, FS_Subset, FS_CardinalityType
<1>2. \A i \in Nat : IsFiniteSet(PlacesUpTo(I, i)) /\ Cardinality(PlacesUpTo(I, i)) \in Nat
  BY <1>1, FS_Subset, FS_CardinalityType DEF PlacesUpTo
<1> DEFINE T == {i \in 0..m : Cardinality(PlacesUpTo(I, i)) >= n}
<1>3. m \in T
  <2>1. PlacesUpTo(I, m) = I
    <3>1. \A j : j \in PlacesUpTo(I, m) <=> j \in I
      BY <1>0, <1>U
    <3> QED BY <3>1
  <2> QED BY <1>1, <2>1
<1>4. PICK i \in T : \A k \in T : ~ (k < i)
  <2>1. T \in SUBSET Nat /\ T # {}
    BY <1>3
  <2> HIDE DEF T
  <2> QED BY <2>1, LeastNatural
<1>5. i # 0
  <2>1. ASSUME NEW j \in PlacesUpTo(I, 0) PROVE FALSE
    <3>1. j \in I /\ j <= 0
      BY <1>U
    <3>2. j \in Nat /\ 1 <= j
      BY <1>0, <3>1
    <3> QED BY <3>1, <3>2
  <2>2. PlacesUpTo(I, 0) = {}
    BY <2>1
  <2>3. Cardinality(PlacesUpTo(I, 0)) = 0
    BY <2>2, FS_EmptySet
  <2> QED BY <1>1, <1>4, <2>3
<1>6. PICK k \in Nat : i = k + 1
  BY <1>4, <1>5
<1>7. k \in 0..m /\ Cardinality(PlacesUpTo(I, k)) < n
  BY <1>2, <1>4, <1>6
<1>8. /\ \A j \in PlacesUpTo(I, k) : j \in I /\ j <= k
      /\ \A j \in I : j <= k => j \in PlacesUpTo(I, k)
      /\ \A j \in PlacesUpTo(I, i) : j \in I /\ j <= k + 1
      /\ \A j \in I : j <= k + 1 => j \in PlacesUpTo(I, i)
  BY <1>6, <1>U
<1>9. \A j \in I : j <= k + 1 <=> j <= k \/ j = i
  BY <1>0, <1>6
<1>10. i \in I
  <2> SUFFICES ASSUME i \notin I
               PROVE  FALSE
    OBVIOUS
  <2>1. \A j : j \in PlacesUpTo(I, i) <=> j \in PlacesUpTo(I, k)
    BY <1>8, <1>9
  <2>2. PlacesUpTo(I, i) = PlacesUpTo(I, k)
    BY <2>1
  <2> QED BY <1>1, <1>2, <1>4, <1>7, <2>2
<1>11. PlacesUpTo(I, i) = PlacesUpTo(I, k) \cup {i} /\ i \notin PlacesUpTo(I, k)
  <2>1. \A j : j \in PlacesUpTo(I, i) <=> j \in PlacesUpTo(I, k) \/ j = i
    BY <1>6, <1>8, <1>9, <1>10
  <2>2. i \notin PlacesUpTo(I, k)
    BY <1>6, <1>8
  <2> QED BY <2>1, <2>2
<1>12. Cardinality(PlacesUpTo(I, i)) = Cardinality(PlacesUpTo(I, k)) + 1
  BY <1>2, <1>11, FS_AddElement
<1>13. Cardinality(PlacesUpTo(I, i)) = n
  BY <1>1, <1>2, <1>4, <1>7, <1>12
<1> QED BY <1>10, <1>13

(* t has only elements of s, and none that stands twice where s has it     *)
(* once.                                                                   *)
Embedding(p, t, s) ==
  /\ p \in [DOMAIN t -> DOMAIN s]
  /\ \A k, l \in DOMAIN t : p[k] = p[l] => k = l
  /\ \A k \in DOMAIN t : t[k] = s[p[k]]
Embeds(t, s) == \E p : Embedding(p, t, s)

LEMMA KeptEmbeds ==
  ASSUME NEW S, NEW s \in Seq(S), NEW I \in SUBSET DOMAIN s
  PROVE  /\ Remaining(s, I) \in Seq(S) /\ Len(Remaining(s, I)) = Cardinality(I)
         /\ Embeds(Remaining(s, I), s)
<1>1. DOMAIN s = 1..Len(s) /\ Len(s) \in Nat
  OBVIOUS
<1>2. Cardinality(I) \in Nat
  <2>1. IsFiniteSet(1..Len(s))
    BY <1>1, FS_Interval
  <2> QED BY <1>1, <2>1, FS_Subset, FS_CardinalityType
<1> DEFINE at(n) == CHOOSE i \in I : Cardinality({j \in I : j <= i}) = n
           p == [n \in 1..Cardinality(I) |-> at(n)]
<1>3. \A n \in 1..Cardinality(I) : at(n) \in I /\ Cardinality({j \in I : j <= at(n)}) = n
  <2>1. \A n \in 1..Cardinality(I) : \E i \in I : Cardinality({j \in I : j <= i}) = n
    BY <1>1, Ranked DEF PlacesUpTo
  <2> QED BY <2>1
<1>4. Remaining(s, I) = [n \in 1..Cardinality(I) |-> s[at(n)]]
  BY DEF Remaining
<1> HIDE DEF at
<1>5. \A n \in 1..Cardinality(I) : at(n) \in DOMAIN s /\ s[at(n)] \in S
  <2> SUFFICES ASSUME NEW n \in 1..Cardinality(I)
               PROVE  at(n) \in DOMAIN s /\ s[at(n)] \in S
    OBVIOUS
  <2>1. at(n) \in DOMAIN s
    BY <1>3
  <2> QED BY <2>1
<1>6. Remaining(s, I) \in Seq(S) /\ Len(Remaining(s, I)) = Cardinality(I)
        /\ DOMAIN Remaining(s, I) = 1..Cardinality(I)
  BY <1>2, <1>4, <1>5
<1>7. \A n \in 1..Cardinality(I) : p[n] = at(n)
  OBVIOUS
<1>8. p \in [1..Cardinality(I) -> DOMAIN s]
  BY <1>5
<1> HIDE DEF p
<1>9. Embedding(p, Remaining(s, I), s)
  <2>1. \A k, l \in 1..Cardinality(I) : p[k] = p[l] => k = l
    <3> SUFFICES ASSUME NEW k \in 1..Cardinality(I), NEW l \in 1..Cardinality(I), at(k) = at(l)
                 PROVE  k = l
      BY <1>7
    <3>1. Cardinality({j \in I : j <= at(k)}) = k /\ Cardinality({j \in I : j <= at(l)}) = l
      BY <1>3
    <3> QED BY <3>1
  <2>2. \A k \in 1..Cardinality(I) : Remaining(s, I)[k] = s[p[k]]
    BY <1>4, <1>7
  <2> QED BY <1>6, <1>8, <2>1, <2>2 DEF Embedding
<1> QED BY <1>6, <1>9 DEF Embeds

(* arrayMove by the places it fills.                                       *)
MovedFrom(from, to, i) ==
  IF i = to THEN from
  ELSE IF from <= i /\ i < to THEN i + 1
  ELSE IF to < i /\ i <= from THEN i - 1
  ELSE i

LEMMA RemoveAtPlaces ==
  ASSUME NEW S, NEW s \in Seq(S), NEW from \in DOMAIN s
  PROVE  /\ SE!RemoveAt(s, from) \in Seq(S)
         /\ Len(SE!RemoveAt(s, from)) = Len(s) - 1
         /\ \A i \in 1..Len(s) - 1 :
              SE!RemoveAt(s, from)[i] = IF i < from THEN s[i] ELSE s[i + 1]
<1>1. from \in 1..Len(s) /\ Len(s) \in Nat /\ \A i \in 1..Len(s) : s[i] \in S
  OBVIOUS
<1> DEFINE a == SubSeq(s, 1, from - 1)
           b == SubSeq(s, from + 1, Len(s))
<1>2. a \in Seq(S) /\ Len(a) = from - 1 /\ \A i \in 1..from - 1 : a[i] = s[i]
  BY <1>1, SubSeqProperties
<1>3. b \in Seq(S) /\ Len(b) = Len(s) - from /\ \A i \in 1..Len(s) - from : b[i] = s[from + i]
  BY <1>1, SubSeqProperties
<1>4. SE!RemoveAt(s, from) = a \o b
  BY DEF SE!RemoveAt
<1> HIDE DEF a, b
<1>5. /\ a \o b \in Seq(S) /\ Len(a \o b) = Len(s) - 1
      /\ \A i \in 1..Len(s) - 1 : (a \o b)[i] = IF i <= from - 1 THEN a[i] ELSE b[i - (from - 1)]
  <2>1. Len(a) + Len(b) = Len(s) - 1
    BY <1>1, <1>2, <1>3
  <2>2. /\ a \o b \in Seq(S) /\ Len(a \o b) = Len(a) + Len(b)
        /\ \A i \in 1..Len(a) + Len(b) :
             (a \o b)[i] = IF i <= Len(a) THEN a[i] ELSE b[i - Len(a)]
    BY <1>2, <1>3, ConcatProperties
  <2>3. Len(a) = from - 1
    BY <1>2
  <2> QED BY <2>1, <2>2, <2>3
<1>6. ASSUME NEW i \in 1..Len(s) - 1
      PROVE  (a \o b)[i] = IF i < from THEN s[i] ELSE s[i + 1]
  <2>1. CASE i < from
    BY <1>1, <1>2, <1>5, <2>1
  <2>2. CASE ~ (i < from)
    <3>1. i - (from - 1) \in 1..Len(s) - from /\ from + (i - (from - 1)) = i + 1
      BY <1>1, <2>2
    <3>2. b[i - (from - 1)] = s[i + 1]
      BY <1>3, <3>1
    <3>3. ~ (i <= from - 1)
      BY <1>1, <2>2
    <3> QED BY <1>5, <2>2, <3>2, <3>3
  <2> QED BY <2>1, <2>2
<1> QED BY <1>4, <1>5, <1>6

Inserted(t, s, to, e) ==
  /\ Len(t) = Len(s) + 1 /\ t[to] = e
  /\ \A i \in 1..Len(s) + 1 : /\ i < to => t[i] = s[i]
                              /\ i > to => t[i] = s[i - 1]

LEMMA InsertAtPlaces ==
  ASSUME NEW S, NEW s \in Seq(S), NEW to \in 1..Len(s) + 1, NEW e \in S
  PROVE  SE!InsertAt(s, to, e) \in Seq(S) /\ Inserted(SE!InsertAt(s, to, e), s, to, e)
<1>1. Len(s) \in Nat /\ \A i \in 1..Len(s) : s[i] \in S
  OBVIOUS
<1> DEFINE a == SubSeq(s, 1, to - 1)
           b == SubSeq(s, to, Len(s))
<1>2. a \in Seq(S) /\ Len(a) = to - 1 /\ \A i \in 1..to - 1 : a[i] = s[i]
  BY <1>1, SubSeqProperties
<1>3. b \in Seq(S) /\ Len(b) = Len(s) + 1 - to /\ \A i \in 1..Len(s) + 1 - to : b[i] = s[to + i - 1]
  BY <1>1, SubSeqProperties
<1>4. SE!InsertAt(s, to, e) = (a \o <<e>>) \o b
  BY DEF SE!InsertAt
<1> HIDE DEF a, b
<1>5. <<e>> \in Seq(S) /\ Len(<<e>>) = 1 /\ <<e>>[1] = e
  OBVIOUS
<1>6. /\ a \o <<e>> \in Seq(S) /\ Len(a \o <<e>>) = to
      /\ \A i \in 1..to : (a \o <<e>>)[i] = IF i < to THEN a[i] ELSE e
  <2>1. /\ a \o <<e>> \in Seq(S) /\ Len(a \o <<e>>) = Len(a) + 1
        /\ \A i \in 1..Len(a) + 1 : (a \o <<e>>)[i] = IF i <= Len(a) THEN a[i] ELSE <<e>>[i - Len(a)]
    BY <1>2, <1>5, ConcatProperties
  <2> QED BY <1>1, <1>2, <1>5, <2>1
<1> DEFINE c == a \o <<e>>
<1>7. c \in Seq(S) /\ Len(c) = to /\ \A i \in 1..to : c[i] = IF i < to THEN a[i] ELSE e
  BY <1>6
<1> HIDE DEF c
<1>8. /\ c \o b \in Seq(S) /\ Len(c \o b) = Len(s) + 1
      /\ \A i \in 1..Len(s) + 1 : (c \o b)[i] = IF i <= to THEN c[i] ELSE b[i - to]
  <2>1. Len(c) = to /\ Len(c) + Len(b) = Len(s) + 1
    BY <1>1, <1>3, <1>7
  <2>2. /\ c \o b \in Seq(S) /\ Len(c \o b) = Len(c) + Len(b)
        /\ \A i \in 1..Len(c) + Len(b) : (c \o b)[i] = IF i <= Len(c) THEN c[i] ELSE b[i - Len(c)]
    BY <1>3, <1>7, ConcatProperties
  <2> QED BY <2>1, <2>2
<1>9. ASSUME NEW i \in 1..Len(s) + 1
      PROVE  /\ i < to => (c \o b)[i] = s[i]
             /\ i = to => (c \o b)[i] = e
             /\ i > to => (c \o b)[i] = s[i - 1]
  <2>1. CASE i <= to
    <3>1. i \in 1..to /\ (c \o b)[i] = c[i] /\ (i < to => i \in 1..to - 1)
      BY <1>1, <1>8, <2>1
    <3>2. i < to => (c \o b)[i] = s[i]
      BY <1>2, <1>7, <3>1
    <3>3. i = to => (c \o b)[i] = e
      BY <1>7, <3>1
    <3>4. ~ (i > to)
      BY <1>1, <2>1
    <3> QED BY <3>2, <3>3, <3>4
  <2>2. CASE i > to
    <3>1. i - to \in 1..Len(s) + 1 - to /\ to + (i - to) - 1 = i - 1
      BY <1>1, <2>2
    <3>2. b[i - to] = s[i - 1]
      BY <1>3, <3>1
    <3>3. ~ (i <= to) /\ ~ (i < to) /\ i # to
      BY <1>1, <2>2
    <3>4. (c \o b)[i] = b[i - to]
      BY <1>8, <3>3
    <3> QED BY <3>2, <3>3, <3>4
  <2>3. i <= to \/ i > to
    BY <1>1
  <2> QED BY <2>1, <2>2, <2>3
<1>10. SE!InsertAt(s, to, e) = c \o b
  BY <1>4 DEF c
<1>11. to \in 1..Len(s) + 1 /\ to = to
  OBVIOUS
<1> QED BY <1>8, <1>9, <1>10, <1>11 DEF Inserted

LEMMA arrayMovePlaces ==
  ASSUME NEW S, NEW s \in Seq(S), NEW from \in DOMAIN s, NEW to \in DOMAIN s
  PROVE  /\ arrayMove(s, from, to) \in Seq(S)
         /\ Len(arrayMove(s, from, to)) = Len(s)
         /\ \A i \in 1..Len(s) : /\ MovedFrom(from, to, i) \in 1..Len(s)
                                 /\ arrayMove(s, from, to)[i] = s[MovedFrom(from, to, i)]
<1>1. from \in 1..Len(s) /\ to \in 1..Len(s) /\ Len(s) \in Nat /\ s[from] \in S
  OBVIOUS
<1> DEFINE r == SE!RemoveAt(s, from)
<1>2. /\ r \in Seq(S) /\ Len(r) = Len(s) - 1
      /\ \A i \in 1..Len(s) - 1 : r[i] = IF i < from THEN s[i] ELSE s[i + 1]
  BY RemoveAtPlaces
<1>3. arrayMove(s, from, to) = SE!InsertAt(r, to, s[from])
  BY DEF arrayMove
<1> HIDE DEF r
<1>4. Len(r) + 1 = Len(s)
  BY <1>1, <1>2
<1>5. /\ SE!InsertAt(r, to, s[from]) \in Seq(S)
      /\ Len(SE!InsertAt(r, to, s[from])) = Len(s)
      /\ SE!InsertAt(r, to, s[from])[to] = s[from]
      /\ \A i \in 1..Len(s) : /\ i < to => SE!InsertAt(r, to, s[from])[i] = r[i]
                              /\ i > to => SE!InsertAt(r, to, s[from])[i] = r[i - 1]
  <2>1. to \in 1..Len(r) + 1
    BY <1>1, <1>4
  <2>2. /\ SE!InsertAt(r, to, s[from]) \in Seq(S)
        /\ Inserted(SE!InsertAt(r, to, s[from]), r, to, s[from])
    BY <1>1, <1>2, <2>1, InsertAtPlaces
  <2> QED BY <1>4, <2>2 DEF Inserted
<1>6. ASSUME NEW i \in 1..Len(s)
      PROVE  /\ MovedFrom(from, to, i) \in 1..Len(s)
             /\ SE!InsertAt(r, to, s[from])[i] = s[MovedFrom(from, to, i)]
  <2>1. MovedFrom(from, to, i) \in 1..Len(s)
    BY <1>1 DEF MovedFrom
  <2>2. CASE i < to
    <3>1. i \in 1..Len(s) - 1 /\ SE!InsertAt(r, to, s[from])[i] = r[i]
      BY <1>1, <1>5, <2>2
    <3> QED BY <1>1, <1>2, <2>1, <2>2, <3>1 DEF MovedFrom
  <2>3. CASE i = to
    BY <1>1, <1>5, <2>1, <2>3 DEF MovedFrom
  <2>4. CASE i > to
    <3>1. i - 1 \in 1..Len(s) - 1 /\ SE!InsertAt(r, to, s[from])[i] = r[i - 1]
      BY <1>1, <1>5, <2>4
    <3>2. r[i - 1] = IF i - 1 < from THEN s[i - 1] ELSE s[i]
      BY <1>1, <1>2, <3>1
    <3> QED BY <1>1, <2>1, <2>4, <3>1, <3>2 DEF MovedFrom
  <2> QED BY <1>1, <2>1, <2>2, <2>3, <2>4
<1> QED BY <1>3, <1>5, <1>6

(* Moving back undoes the move: nothing is lost.                           *)
LEMMA MovedFromUndone ==
  ASSUME NEW n \in Nat, NEW from \in 1..n, NEW to \in 1..n, NEW i \in 1..n
  PROVE  MovedFrom(from, to, i) \in 1..n /\ MovedFrom(from, to, MovedFrom(to, from, i)) = i
<1>1. MovedFrom(from, to, i) \in 1..n
  BY DEF MovedFrom
<1>2. MovedFrom(from, to, MovedFrom(to, from, i)) = i
  BY DEF MovedFrom
<1> QED BY <1>1, <1>2

LEMMA arrayMoveEmbeds ==
  ASSUME NEW S, NEW s \in Seq(S), NEW from \in DOMAIN s, NEW to \in DOMAIN s
  PROVE  /\ arrayMove(s, from, to) \in Seq(S) /\ Len(arrayMove(s, from, to)) = Len(s)
         /\ Embeds(arrayMove(s, from, to), s)
         /\ \A i \in DOMAIN s : \E k \in DOMAIN s : arrayMove(s, from, to)[k] = s[i]
<1> DEFINE t == arrayMove(s, from, to)
           p == [i \in 1..Len(s) |-> MovedFrom(from, to, i)]
<1>1. DOMAIN s = 1..Len(s) /\ Len(s) \in Nat
  OBVIOUS
<1>2. /\ t \in Seq(S) /\ Len(t) = Len(s) /\ DOMAIN t = DOMAIN s
      /\ \A i \in 1..Len(s) : /\ MovedFrom(from, to, i) \in 1..Len(s)
                              /\ t[i] = s[MovedFrom(from, to, i)]
  <2>1. /\ t \in Seq(S) /\ Len(t) = Len(s)
        /\ \A i \in 1..Len(s) : /\ MovedFrom(from, to, i) \in 1..Len(s)
                                /\ t[i] = s[MovedFrom(from, to, i)]
    BY arrayMovePlaces
  <2> HIDE DEF t
  <2>2. DOMAIN t = 1..Len(t)
    BY <2>1
  <2> QED BY <1>1, <2>1, <2>2
<1>3. \A i \in 1..Len(s) : /\ MovedFrom(to, from, i) \in 1..Len(s)
                           /\ MovedFrom(from, to, MovedFrom(to, from, i)) = i
                           /\ MovedFrom(to, from, MovedFrom(from, to, i)) = i
  BY <1>1, MovedFromUndone
<1> HIDE DEF t
<1>4. Embedding(p, t, s)
  <2>1. p \in [DOMAIN t -> DOMAIN s] /\ \A i \in DOMAIN t : p[i] = MovedFrom(from, to, i)
    BY <1>1, <1>2
  <2>2. \A k, l \in DOMAIN t : p[k] = p[l] => k = l
    <3> SUFFICES ASSUME NEW k \in DOMAIN t, NEW l \in DOMAIN t,
                        MovedFrom(from, to, k) = MovedFrom(from, to, l)
                 PROVE  k = l
      BY <2>1
    <3>1. /\ MovedFrom(to, from, MovedFrom(from, to, k)) = k
          /\ MovedFrom(to, from, MovedFrom(from, to, l)) = l
      BY <1>1, <1>2, <1>3
    <3> QED BY <3>1
  <2> QED BY <1>1, <1>2, <2>1, <2>2 DEF Embedding
<1>5. \A i \in DOMAIN s : \E k \in DOMAIN s : t[k] = s[i]
  BY <1>1, <1>2, <1>3
<1> QED BY <1>2, <1>4, <1>5 DEF Embeds, t
-----------------------------------------------------------------------------
(* Outlines.                                                               *)

IdsApart(s) ==
  /\ \A i, j \in DOMAIN s : s[i].id = s[j].id => i = j
  /\ \A i \in DOMAIN s : \A k, l \in DOMAIN s[i].lessons :
       s[i].lessons[k] = s[i].lessons[l] => k = l
  /\ \A i, j \in DOMAIN s : \A k \in DOMAIN s[i].lessons, l \in DOMAIN s[j].lessons :
       s[i].lessons[k] = s[j].lessons[l] => i = j

LEMMA SectionAt ==
  ASSUME NEW s \in Seq(Section), NEW i \in DOMAIN s
  PROVE  s[i] \in Section /\ s[i].id \in Nat /\ s[i].lessons \in Seq(Nat)
<1>1. s[i] \in Section
  OBVIOUS
<1> QED BY <1>1 DEF Section

LEMMA ToldApartIsApart ==
  ASSUME NEW s \in Seq(Section)
  PROVE  ToldApart(s) <=> IdsApart(s)
<1>1. DOMAIN s \subseteq Nat
  OBVIOUS
<1>2. SE!IsInjective(SectionIds(s)) <=> \A i, j \in DOMAIN s : s[i].id = s[j].id => i = j
  BY DEF SectionIds, SE!IsInjective
<1>3. \A i, j \in DOMAIN s : SE!ToSet(s[i].lessons) \cap SE!ToSet(s[j].lessons) = {}
        <=> \A k \in DOMAIN s[i].lessons, l \in DOMAIN s[j].lessons : s[i].lessons[k] # s[j].lessons[l]
  <2> SUFFICES ASSUME NEW i \in DOMAIN s, NEW j \in DOMAIN s
               PROVE  SE!ToSet(s[i].lessons) \cap SE!ToSet(s[j].lessons) = {}
                        <=> \A k \in DOMAIN s[i].lessons, l \in DOMAIN s[j].lessons :
                              s[i].lessons[k] # s[j].lessons[l]
    OBVIOUS
  <2> DEFINE a == s[i].lessons
             b == s[j].lessons
  <2>1. SE!ToSet(a) = {a[k] : k \in DOMAIN a} /\ SE!ToSet(b) = {b[k] : k \in DOMAIN b}
    BY DEF SE!ToSet
  <2> HIDE DEF a, b
  <2>2. SE!ToSet(a) \cap SE!ToSet(b) = {} <=> \A k \in DOMAIN a, l \in DOMAIN b : a[k] # b[l]
    BY <2>1
  <2> QED BY <2>2 DEF a, b
<1>4. \A i, j \in DOMAIN s : i < j \/ j < i \/ i = j
  BY <1>1
<1>5. (\A i \in DOMAIN s : SE!IsInjective(s[i].lessons))
        <=> \A i \in DOMAIN s : \A k, l \in DOMAIN s[i].lessons :
              s[i].lessons[k] = s[i].lessons[l] => k = l
  BY DEF SE!IsInjective
<1>6. (\A i, j \in DOMAIN s : i < j => SE!ToSet(s[i].lessons) \cap SE!ToSet(s[j].lessons) = {})
        <=> \A i, j \in DOMAIN s : \A k \in DOMAIN s[i].lessons, l \in DOMAIN s[j].lessons :
              s[i].lessons[k] = s[j].lessons[l] => i = j
  <2>1. ASSUME \A i, j \in DOMAIN s : i < j =>
                 SE!ToSet(s[i].lessons) \cap SE!ToSet(s[j].lessons) = {},
               NEW i \in DOMAIN s, NEW j \in DOMAIN s,
               NEW k \in DOMAIN s[i].lessons, NEW l \in DOMAIN s[j].lessons,
               s[i].lessons[k] = s[j].lessons[l]
        PROVE  i = j
    <3>1. CASE i < j
      BY <2>1, <3>1, <1>3
    <3>2. CASE j < i
      BY <2>1, <3>2, <1>3
    <3> QED BY <3>1, <3>2, <1>4
  <2>2. ASSUME \A i, j \in DOMAIN s : \A k \in DOMAIN s[i].lessons, l \in DOMAIN s[j].lessons :
                 s[i].lessons[k] = s[j].lessons[l] => i = j,
               NEW i \in DOMAIN s, NEW j \in DOMAIN s, i < j
        PROVE  SE!ToSet(s[i].lessons) \cap SE!ToSet(s[j].lessons) = {}
    <3>1. i # j
      BY <1>1, <2>2
    <3> QED BY <3>1, <2>2, <1>3
  <2> QED BY <2>1, <2>2
<1> QED BY <1>2, <1>5, <1>6 DEF ToldApart, IdsApart

(* The ids in use: of the server, or of the clock until now.               *)
IdGiven(x, c)  == x <= c \/ x > MaxAdded
IdsGiven(s, c) ==
  \A i \in DOMAIN s : /\ IdGiven(s[i].id, c)
                      /\ \A k \in DOMAIN s[i].lessons : IdGiven(s[i].lessons[k], c)

LEMMA EmbedsApart ==
  ASSUME NEW s \in Seq(Section), NEW t \in Seq(Section), Embeds(t, s), NEW c,
         IdsApart(s), IdsGiven(s, c)
  PROVE  IdsApart(t) /\ IdsGiven(t, c)
<1>1. PICK p : Embedding(p, t, s)
  BY DEF Embeds
<1>2. /\ \A k \in DOMAIN t : p[k] \in DOMAIN s /\ t[k] = s[p[k]]
      /\ \A k, l \in DOMAIN t : p[k] = p[l] => k = l
  BY <1>1 DEF Embedding
<1>3. IdsGiven(t, c)
  BY <1>2 DEF IdsGiven
<1>4. IdsApart(t)
  BY SMTT(30), <1>2 DEF IdsApart
<1> QED BY <1>3, <1>4

(* The lessons of one section are rearranged, or a new one is added.       *)
LessonsFit(s, i, ls, c, d) ==
  /\ \A x \in Nat : IdGiven(x, c) => IdGiven(x, d)
  /\ \A k, l \in DOMAIN ls : ls[k] = ls[l] => k = l
  /\ \A k \in DOMAIN ls : \/ \E l \in DOMAIN s[i].lessons : ls[k] = s[i].lessons[l]
                          \/ ~ IdGiven(ls[k], c) /\ IdGiven(ls[k], d)

WithLessonsAt(s, i, ls) == [j \in DOMAIN s |-> IF j = i THEN [s[j] EXCEPT !.lessons = ls] ELSE s[j]]

LEMMA LessonsApart ==
  ASSUME NEW s \in Seq(Section), NEW i \in DOMAIN s, NEW ls \in Seq(Nat), NEW c, NEW d,
         IdsApart(s), IdsGiven(s, c), LessonsFit(s, i, ls, c, d), NEW t, t = WithLessonsAt(s, i, ls)
  PROVE  t \in Seq(Section) /\ Len(t) = Len(s) /\ IdsApart(t) /\ IdsGiven(t, d)
<1>1. s[i] \in Section /\ DOMAIN s = 1..Len(s) /\ Len(s) \in Nat
  OBVIOUS
<1>F. /\ \A x \in Nat : IdGiven(x, c) => IdGiven(x, d)
      /\ \A k, l \in DOMAIN ls : ls[k] = ls[l] => k = l
      /\ \A k \in DOMAIN ls : \/ \E l \in DOMAIN s[i].lessons : ls[k] = s[i].lessons[l]
                              \/ ~ IdGiven(ls[k], c) /\ IdGiven(ls[k], d)
      /\ t = [j \in DOMAIN s |-> IF j = i THEN [s[j] EXCEPT !.lessons = ls] ELSE s[j]]
  BY DEF LessonsFit, WithLessonsAt
<1>2. [s[i] EXCEPT !.lessons = ls] \in Section
  BY <1>1 DEF Section
<1>3. t \in Seq(Section) /\ Len(t) = Len(s) /\ DOMAIN t = DOMAIN s
  <2>1. ASSUME NEW j \in 1..Len(s) PROVE t[j] \in Section
    <3>1. CASE j = i
      BY <3>1, <1>1, <1>2, <1>F
    <3>2. CASE j # i
      <4>1. t[j] = s[j]
        BY <3>2, <1>1, <1>F
      <4> QED BY <4>1, <1>1
    <3> QED BY <3>1, <3>2
  <2> QED BY <1>1, <1>F, <2>1
<1>4. /\ t[i].lessons = ls /\ t[i].id = s[i].id
      /\ \A j \in DOMAIN s : j # i => t[j] = s[j]
  <2>1. t[i] = [s[i] EXCEPT !.lessons = ls]
    BY <1>F
  <2> QED BY <1>1, <1>F, <2>1 DEF Section
<1>5. \A j \in DOMAIN s : t[j].id = s[j].id
  BY <1>4
<1>6. \A j \in DOMAIN s : \A k \in DOMAIN s[j].lessons : IdGiven(s[j].lessons[k], c)
  BY DEF IdsGiven
<1>7. IdsGiven(t, d)
  <2>1. \A k \in DOMAIN ls : IdGiven(ls[k], d)
    <3>1. \A k \in DOMAIN ls : ls[k] \in Nat
      OBVIOUS
    <3> QED BY <3>1, <1>6, <1>F
  <2>2. \A j \in DOMAIN s : IdGiven(s[j].id, d)
    BY SectionAt, <1>F DEF IdsGiven
  <2>3. \A j \in DOMAIN s : \A k \in DOMAIN t[j].lessons : IdGiven(t[j].lessons[k], d)
    <3> SUFFICES ASSUME NEW j \in DOMAIN s, NEW k \in DOMAIN t[j].lessons
                 PROVE  IdGiven(t[j].lessons[k], d)
      OBVIOUS
    <3>1. CASE j = i
      BY <3>1, <1>4, <2>1
    <3>2. CASE j # i
      <4>1. k \in DOMAIN s[j].lessons /\ t[j].lessons[k] = s[j].lessons[k]
        BY <3>2, <1>4
      <4>2. s[j].lessons[k] \in Nat
        BY <4>1, SectionAt
      <4> QED BY <4>1, <4>2, <1>6, <1>F
    <3> QED BY <3>1, <3>2
  <2> QED BY <1>3, <1>5, <2>2, <2>3 DEF IdsGiven
<1>8. \A j \in DOMAIN s : j # i => \A k \in DOMAIN ls, l \in DOMAIN s[j].lessons :
        ls[k] # s[j].lessons[l]
  BY <1>6, <1>F DEF IdsApart
<1>9. \A j \in DOMAIN s : \A k, l \in DOMAIN t[j].lessons :
        t[j].lessons[k] = t[j].lessons[l] => k = l
  <2> SUFFICES ASSUME NEW j \in DOMAIN s
               PROVE  \A k, l \in DOMAIN t[j].lessons :
                        t[j].lessons[k] = t[j].lessons[l] => k = l
    OBVIOUS
  <2>1. CASE j = i
    BY <2>1, <1>4, <1>F
  <2>2. CASE j # i
    BY <2>2, <1>4 DEF IdsApart
  <2> QED BY <2>1, <2>2
<1>10. \A j, m \in DOMAIN s : \A k \in DOMAIN t[j].lessons, l \in DOMAIN t[m].lessons :
         t[j].lessons[k] = t[m].lessons[l] => j = m
  <2> SUFFICES ASSUME NEW j \in DOMAIN s, NEW m \in DOMAIN s, j # m
               PROVE  \A k \in DOMAIN t[j].lessons, l \in DOMAIN t[m].lessons :
                        t[j].lessons[k] # t[m].lessons[l]
    OBVIOUS
  <2>1. CASE j = i
    BY <2>1, <1>4, <1>8
  <2>2. CASE m = i
    BY <2>2, <1>4, <1>8
  <2>3. CASE j # i /\ m # i
    BY <2>3, <1>4 DEF IdsApart
  <2> QED BY <2>1, <2>2, <2>3
<1>11. \A j, m \in DOMAIN s : t[j].id = t[m].id => j = m
  BY <1>5 DEF IdsApart
<1>12. IdsApart(t)
  BY <1>3, <1>9, <1>10, <1>11 DEF IdsApart
<1> QED BY <1>3, <1>7, <1>12

LEMMA WithLessonsOfOne ==
  ASSUME edited \in Seq(Section), IdsApart(edited), NEW i \in DOMAIN edited, NEW ls
  PROVE  WithLessons(edited[i].id, ls) =
           WithLessonsAt(edited, i, ls)
<1>1. \A j \in DOMAIN edited : edited[j].id = edited[i].id <=> j = i
  BY DEF IdsApart
<1> QED BY <1>1 DEF WithLessons, WithLessonsAt

-----------------------------------------------------------------------------
PanelState  == [mode : {"viewing", "editing", "rejecting"}, reason : {"empty", "blank", "given"}]
PanelEvents == {"none", "UPDATE_OUTLINE", "REJECT_OUTLINE", "APPROVE_OUTLINE", "REGENERATE_OUTLINE"}

EditsApart ==
  edited \in Seq(Section) /\ Len(edited) > 0 /\ IdsApart(edited) /\ IdsGiven(edited, clock)

(* The copy that is edited is in order whatever the panel shows, and the   *)
(* clock is ahead of every id it gave.                                     *)
ReviewInv ==
  /\ shown = Generated /\ panel \in PanelState /\ sent \in PanelEvents
  /\ clock \in 0..MaxAdded
  /\ EditsApart

LEMMA GeneratedApart ==
  ASSUME NEW c
  PROVE  Generated \in Seq(Section) /\ Len(Generated) > 0 /\ IdsApart(Generated) /\ IdsGiven(Generated, c)
<1>1. Generated \in Seq(Section) /\ Len(Generated) > 0 /\ IdsApart(Generated)
  BY OutlineAssumption, ToldApartIsApart
<1>2. \A i \in DOMAIN Generated : /\ Generated[i].id > MaxAdded
                                  /\ \A k \in DOMAIN Generated[i].lessons : Generated[i].lessons[k] > MaxAdded
  BY OutlineAssumption DEF SE!ToSet
<1> QED BY <1>1, <1>2 DEF IdsGiven, IdGiven

LEMMA ReviewInitInv == ReviewInit => ReviewInv
BY GeneratedApart, OutlineAssumption DEF ReviewInit, ReviewInv, EditsApart, PanelState, PanelEvents

LEMMA DraggedLesson ==
  ASSUME ReviewInv, NEW i \in DOMAIN edited, NEW a \in DOMAIN edited[i].lessons,
         NEW b \in DOMAIN edited[i].lessons, NEW t,
         t = WithLessons(edited[i].id, arrayMove(edited[i].lessons, a, b))
  PROVE  /\ t \in Seq(Section) /\ Len(t) = Len(edited) /\ IdsApart(t) /\ IdsGiven(t, clock)
         /\ IdsOf(t) = IdsOf(edited) /\ LessonsOf(t) = LessonsOf(edited)
<1> DEFINE ls == arrayMove(edited[i].lessons, a, b)
<1>1. edited \in Seq(Section) /\ IdsApart(edited) /\ IdsGiven(edited, clock) /\ edited[i].lessons \in Seq(Nat)
        /\ edited[i] \in Section
  BY SectionAt DEF ReviewInv, EditsApart
<1>2. /\ ls \in Seq(Nat) /\ Embeds(ls, edited[i].lessons)
      /\ Len(ls) = Len(edited[i].lessons)
      /\ \A k \in DOMAIN edited[i].lessons : \E l \in DOMAIN edited[i].lessons :
           ls[l] = edited[i].lessons[k]
  <2> DEFINE os == edited[i].lessons
  <2>1. os \in Seq(Nat) /\ a \in DOMAIN os /\ b \in DOMAIN os
    BY <1>1
  <2> HIDE DEF os
  <2>2. /\ arrayMove(os, a, b) \in Seq(Nat) /\ Embeds(arrayMove(os, a, b), os)
        /\ Len(arrayMove(os, a, b)) = Len(os)
        /\ \A k \in DOMAIN os : \E l \in DOMAIN os : arrayMove(os, a, b)[l] = os[k]
    BY <2>1, arrayMoveEmbeds
  <2> QED BY <2>2 DEF os
<1>3. t = WithLessonsAt(edited, i, ls)
  BY <1>1, WithLessonsOfOne
<1> HIDE DEF ls
<1>4. /\ \A k, l \in DOMAIN ls : ls[k] = ls[l] => k = l
      /\ \A k \in DOMAIN ls : \E l \in DOMAIN edited[i].lessons : ls[k] = edited[i].lessons[l]
  <2>1. PICK p : Embedding(p, ls, edited[i].lessons)
    BY <1>2 DEF Embeds
  <2> QED BY <1>1, <2>1 DEF Embedding, IdsApart
<1>5. t \in Seq(Section) /\ Len(t) = Len(edited) /\ IdsApart(t) /\ IdsGiven(t, clock)
  <2>1. LessonsFit(edited, i, ls, clock, clock)
    BY <1>4 DEF LessonsFit
  <2> QED BY <1>1, <1>2, <1>3, <2>1, LessonsApart
<1>6. /\ DOMAIN t = DOMAIN edited /\ \A j \in DOMAIN edited : t[j].id = edited[j].id
      /\ \A j \in DOMAIN edited : j # i => t[j].lessons = edited[j].lessons
      /\ t[i].lessons = ls
  BY <1>1, <1>3 DEF Section, WithLessonsAt
<1>7. SE!ToSet(ls) = SE!ToSet(edited[i].lessons)
  <2>1. DOMAIN ls = DOMAIN edited[i].lessons
    BY <1>1, <1>2
  <2> DEFINE os == edited[i].lessons
  <2>2. SE!ToSet(ls) = {ls[k] : k \in DOMAIN ls} /\ SE!ToSet(os) = {os[k] : k \in DOMAIN os}
    BY DEF SE!ToSet
  <2>3. \A x : x \in SE!ToSet(ls) <=> x \in SE!ToSet(os)
    <3>1. \A x : x \in SE!ToSet(ls) => x \in SE!ToSet(os)
      BY <1>4, <2>2
    <3>2. \A k \in DOMAIN os : os[k] \in SE!ToSet(ls)
      BY <1>2, <2>1, <2>2
    <3> QED BY <3>1, <3>2, <2>2
  <2> QED BY <2>3
<1>8. \A j \in DOMAIN edited : SE!ToSet(t[j].lessons) = SE!ToSet(edited[j].lessons)
  BY <1>6, <1>7
<1>9. IdsOf(t) = IdsOf(edited)
  BY <1>6 DEF IdsOf
<1>10. LessonsOf(t) = LessonsOf(edited)
  BY <1>6, <1>8 DEF LessonsOf
<1> QED BY <1>5, <1>9, <1>10

LEMMA DraggedSection ==
  ASSUME ReviewInv, NEW a \in DOMAIN edited, NEW b \in DOMAIN edited, NEW t,
         t = arrayMove(edited, a, b)
  PROVE  /\ t \in Seq(Section) /\ Len(t) = Len(edited) /\ IdsApart(t) /\ IdsGiven(t, clock)
         /\ IdsOf(t) = IdsOf(edited) /\ LessonsOf(t) = LessonsOf(edited)
<1>1. edited \in Seq(Section) /\ IdsApart(edited) /\ IdsGiven(edited, clock)
  BY DEF ReviewInv, EditsApart
<1>2. /\ t \in Seq(Section) /\ Embeds(t, edited) /\ Len(t) = Len(edited)
      /\ \A i \in DOMAIN edited : \E k \in DOMAIN edited : t[k] = edited[i]
  BY <1>1, arrayMoveEmbeds
<1>3. IdsApart(t) /\ IdsGiven(t, clock)
  BY <1>1, <1>2, EmbedsApart
<1>4. DOMAIN t = DOMAIN edited /\ \A k \in DOMAIN t : \E i \in DOMAIN edited : t[k] = edited[i]
  <2>1. PICK p : Embedding(p, t, edited)
    BY <1>2 DEF Embeds
  <2> QED BY <1>1, <1>2, <2>1 DEF Embedding
<1>5. IdsOf(t) = IdsOf(edited)
  <2>1. ASSUME NEW k \in DOMAIN t
        PROVE  \E i \in DOMAIN edited : t[k].id = edited[i].id
    BY <1>4
  <2>2. ASSUME NEW i \in DOMAIN edited
        PROVE  \E k \in DOMAIN t : t[k].id = edited[i].id
    BY <1>2, <1>4
  <2> QED BY <2>1, <2>2 DEF IdsOf
<1>6. LessonsOf(t) = LessonsOf(edited)
  BY ZenonT(40), <1>2, <1>4 DEF LessonsOf
<1> QED BY <1>2, <1>3, <1>5, <1>6

LEMMA IndexFound ==
  ASSUME NEW ids, NEW x, NEW i \in DOMAIN ids, ids[i] = x
  PROVE  IndexById(ids, x) \in DOMAIN ids
BY DEF IndexById

(* What the drags do to the copy.                                          *)
LEMMA Dragged ==
  ASSUME ReviewInv, handleDragEnd \/ handleLessonDragEnd
  PROVE  /\ edited' \in Seq(Section) /\ Len(edited') = Len(edited) /\ IdsApart(edited')
         /\ IdsGiven(edited', clock) /\ UNCHANGED <<shown, panel, sent, clock>>
         /\ IdsOf(edited') = IdsOf(edited) /\ LessonsOf(edited') = LessonsOf(edited)
<1>1. CASE handleDragEnd
  <2>1. PICK active \in IdsOf(edited), over \in IdsOf(edited) :
             /\ edited' = arrayMove(edited, IndexById(SectionIds(edited), active),
                                            IndexById(SectionIds(edited), over))
             /\ UNCHANGED <<shown, panel, sent, clock>>
    BY <1>1 DEF handleDragEnd, Change
  <2>2. DOMAIN SectionIds(edited) = DOMAIN edited
          /\ \A j \in DOMAIN edited : SectionIds(edited)[j] = edited[j].id
    BY DEF SectionIds
  <2>3. IndexById(SectionIds(edited), active) \in DOMAIN edited
          /\ IndexById(SectionIds(edited), over) \in DOMAIN edited
    BY <2>2, IndexFound DEF IdsOf
  <2> QED BY <2>1, <2>3, DraggedSection
<1>2. CASE handleLessonDragEnd
  <2>1. PICK i \in DOMAIN edited : \E active, over \in SE!ToSet(edited[i].lessons) :
             /\ edited' = WithLessons(edited[i].id,
                            arrayMove(edited[i].lessons, IndexById(edited[i].lessons, active),
                                                         IndexById(edited[i].lessons, over)))
             /\ UNCHANGED <<shown, panel, sent, clock>>
    BY <1>2 DEF handleLessonDragEnd, Change
  <2>3. PICK active, over \in SE!ToSet(edited[i].lessons) :
             /\ edited' = WithLessons(edited[i].id,
                            arrayMove(edited[i].lessons, IndexById(edited[i].lessons, active),
                                                         IndexById(edited[i].lessons, over)))
             /\ UNCHANGED <<shown, panel, sent, clock>>
    BY <2>1
  <2>2. IndexById(edited[i].lessons, active) \in DOMAIN edited[i].lessons
          /\ IndexById(edited[i].lessons, over) \in DOMAIN edited[i].lessons
    BY IndexFound DEF SE!ToSet
  <2> QED BY <2>2, <2>3, DraggedLesson
<1> QED BY <1>1, <1>2

LEMMA ReviewInvStep == ReviewInv /\ [ReviewNext]_reviewVars => ReviewInv'
<1> SUFFICES ASSUME ReviewInv, [ReviewNext]_reviewVars
             PROVE  ReviewInv'
  OBVIOUS
<1>T. /\ edited \in Seq(Section) /\ Len(edited) > 0 /\ IdsApart(edited) /\ IdsGiven(edited, clock)
      /\ shown = Generated /\ panel \in PanelState /\ sent \in PanelEvents /\ clock \in 0..MaxAdded
      /\ MaxAdded \in Nat
  BY OutlineAssumption DEF ReviewInv, EditsApart
<1>1. CASE EditOutline \/ OpenReject \/ TypeReason \/ CloseReject \/ handleSaveEdits
  <2>1. UNCHANGED <<shown, edited, clock>> /\ panel' \in PanelState /\ sent' \in PanelEvents
    BY <1>1, <1>T DEF EditOutline, OpenReject, TypeReason, CloseReject, handleSaveEdits, PanelState, PanelEvents
  <2> QED BY <2>1, <1>T DEF ReviewInv, EditsApart
<1>2. CASE handleCancelEdits
  <2>1. UNCHANGED <<shown, sent, clock>> /\ panel' \in PanelState /\ edited' = Generated
    BY <1>2, <1>T DEF handleCancelEdits, PanelState
  <2> QED BY <2>1, <1>T, GeneratedApart DEF ReviewInv, EditsApart
<1>3. CASE handleReject \/ onApprove \/ onRegenerate
  <2>1. shown' = Generated /\ edited' = Generated /\ clock' = 0 /\ panel' \in PanelState /\ sent' \in PanelEvents
    BY <1>3 DEF handleReject, onApprove, onRegenerate, Leave, PanelState, PanelEvents
  <2>2. clock' \in 0..MaxAdded
    BY <2>1, <1>T
  <2> QED BY <2>1, <2>2, GeneratedApart DEF ReviewInv, EditsApart
<1>4. CASE handleDragEnd \/ handleLessonDragEnd
  <2>1. /\ edited' \in Seq(Section) /\ Len(edited') = Len(edited) /\ IdsApart(edited')
        /\ IdsGiven(edited', clock) /\ UNCHANGED <<shown, panel, sent, clock>>
    BY <1>4, Dragged
  <2> QED BY <2>1, <1>T DEF ReviewInv, EditsApart
<1>5. CASE deleteSection
  <2>1. PICK x \in IdsOf(edited) :
             /\ edited' = Remaining(edited, {i \in DOMAIN edited : edited[i].id # x})
             /\ Len(edited) > 1 /\ UNCHANGED <<shown, panel, sent, clock>>
    BY <1>5 DEF deleteSection, Change
  <2> DEFINE I == {i \in DOMAIN edited : edited[i].id # x}
  <2>2. I \in SUBSET DOMAIN edited /\ edited' = Remaining(edited, I)
    BY <2>1
  <2>3. 1 \in I \/ 2 \in I
    <3>1. 1 \in DOMAIN edited /\ 2 \in DOMAIN edited
      BY <2>1, <1>T
    <3> QED BY <3>1, <1>T DEF IdsApart
  <2> HIDE DEF I
  <2>4. edited' \in Seq(Section) /\ Len(edited') = Cardinality(I) /\ Embeds(edited', edited)
    BY <2>2, <1>T, KeptEmbeds
  <2>5. Cardinality(I) # 0 /\ Cardinality(I) \in Nat
    <3>1. IsFiniteSet(DOMAIN edited)
      BY <1>T, FS_Interval
    <3>2. IsFiniteSet(I)
      BY <2>2, <3>1, FS_Subset
    <3> QED BY <2>3, <3>2, FS_EmptySet, FS_CardinalityType
  <2>6. IdsApart(edited') /\ IdsGiven(edited', clock)
    BY <2>4, <1>T, EmbedsApart
  <2> QED BY <2>1, <2>4, <2>5, <2>6, <1>T DEF ReviewInv, EditsApart
<1>6. CASE addSection
  <2> DEFINE s == [id |-> clock + 1, lessons |-> <<>>]
  <2>1. /\ clock < MaxAdded /\ clock' = clock + 1 /\ edited' = Append(edited, s)
        /\ UNCHANGED <<shown, panel, sent>>
    BY <1>6 DEF addSection, Change
  <2>2. clock + 1 \in Nat /\ clock + 1 \in 0..MaxAdded
    BY <2>1, <1>T
  <2>3. s \in Section /\ s.id = clock + 1 /\ s.lessons = <<>>
    BY <2>2 DEF Section
  <2> HIDE DEF s
  <2>4. /\ edited' \in Seq(Section) /\ Len(edited') = Len(edited) + 1
        /\ DOMAIN edited = 1..Len(edited) /\ DOMAIN edited' = 1..Len(edited) + 1
        /\ \A i \in DOMAIN edited : edited'[i] = edited[i] /\ i # Len(edited) + 1
        /\ edited'[Len(edited) + 1] = s
    BY <2>1, <2>3, <1>T
  <2>5. \A i \in DOMAIN edited : edited[i].id # clock + 1
    <3>1. \A i \in DOMAIN edited : edited[i].id \in Nat
      BY <1>T, SectionAt
    <3> QED BY <2>1, <3>1, <1>T DEF IdsGiven, IdGiven
  <2>6. \A i \in DOMAIN edited' : i \in DOMAIN edited \/ i = Len(edited) + 1
    BY <2>4, <1>T
  <2>7. IdsApart(edited')
    BY <2>3, <2>4, <2>5, <2>6, <1>T DEF IdsApart
  <2>8. \A x \in Nat : IdGiven(x, clock) => IdGiven(x, clock + 1)
    BY <1>T DEF IdGiven
  <2>9. IdsGiven(edited', clock')
    <3>1. \A i \in DOMAIN edited : edited[i].id \in Nat /\ edited[i].lessons \in Seq(Nat)
      BY <1>T, SectionAt
    <3>2. \A i \in DOMAIN edited : IdGiven(edited[i].id, clock + 1)
            /\ \A k \in DOMAIN edited[i].lessons : IdGiven(edited[i].lessons[k], clock + 1)
      BY <3>1, <2>8, <1>T DEF IdsGiven
    <3>3. IdGiven(clock + 1, clock + 1)
      BY <1>T DEF IdGiven
    <3> QED BY <2>1, <2>3, <2>4, <2>6, <3>2, <3>3 DEF IdsGiven
  <2> QED BY <2>1, <2>2, <2>4, <2>7, <2>9, <1>T DEF ReviewInv, EditsApart
<1>7. CASE addLesson
  <2>1. PICK i \in DOMAIN edited :
             /\ clock < MaxAdded /\ clock' = clock + 1
             /\ edited' = WithLessons(edited[i].id, Append(edited[i].lessons, clock'))
             /\ UNCHANGED <<shown, panel, sent>>
    BY <1>7 DEF addLesson, Change
  <2> DEFINE old == edited[i].lessons
             ls == Append(old, clock')
  <2>2. clock' \in Nat /\ clock' \in 0..MaxAdded /\ old \in Seq(Nat)
    BY <2>1, <1>T, SectionAt
  <2>3. edited' = WithLessonsAt(edited, i, ls)
    BY <2>1, <1>T, WithLessonsOfOne
  <2>4. \A k \in DOMAIN old : IdGiven(old[k], clock)
    BY <1>T DEF IdsGiven
  <2> HIDE DEF old
  <2>5. /\ ls \in Seq(Nat) /\ \A k \in DOMAIN ls : k \in DOMAIN old \/ k = Len(old) + 1
        /\ \A k \in DOMAIN old : ls[k] = old[k]
        /\ ls[Len(old) + 1] = clock'
    BY <2>2
  <2>6. ~ IdGiven(clock', clock) /\ IdGiven(clock', clock')
    BY <2>1, <1>T DEF IdGiven
  <2>7. \A k, l \in DOMAIN old : old[k] = old[l] => k = l
    BY <1>T DEF IdsApart, old
  <2> HIDE DEF ls
  <2>8. /\ \A k, l \in DOMAIN ls : ls[k] = ls[l] => k = l
        /\ \A k \in DOMAIN ls : \/ \E l \in DOMAIN edited[i].lessons : ls[k] = edited[i].lessons[l]
                                \/ ~ IdGiven(ls[k], clock) /\ IdGiven(ls[k], clock')
    BY <2>4, <2>5, <2>6, <2>7 DEF old
  <2>9. edited' \in Seq(Section) /\ Len(edited') = Len(edited) /\ IdsApart(edited') /\ IdsGiven(edited', clock')
    <3>1. \A x \in Nat : IdGiven(x, clock) => IdGiven(x, clock')
      BY <2>1, <1>T DEF IdGiven
    <3>2. LessonsFit(edited, i, ls, clock, clock')
      BY <2>8, <3>1 DEF LessonsFit
    <3> QED BY <2>3, <2>5, <3>2, <1>T, LessonsApart
  <2> QED BY <2>1, <2>2, <2>9, <1>T DEF ReviewInv, EditsApart
<1>8. CASE deleteLesson
  <2>0. PICK i \in DOMAIN edited : \E gone :
             /\ edited' = WithLessons(edited[i].id, Remaining(edited[i].lessons,
                            {k \in DOMAIN edited[i].lessons : edited[i].lessons[k] # gone}))
             /\ UNCHANGED <<shown, panel, sent, clock>>
    BY <1>8 DEF deleteLesson, Change
  <2>1. PICK gone :
             /\ edited' = WithLessons(edited[i].id, Remaining(edited[i].lessons,
                            {k \in DOMAIN edited[i].lessons : edited[i].lessons[k] # gone}))
             /\ UNCHANGED <<shown, panel, sent, clock>>
    BY <2>0
  <2> DEFINE old == edited[i].lessons
             I   == {k \in DOMAIN old : old[k] # gone}
             ls  == Remaining(old, I)
  <2>2. old \in Seq(Nat) /\ I \in SUBSET DOMAIN old
    BY <1>T, SectionAt
  <2>3. edited' = WithLessonsAt(edited, i, ls)
    BY <2>1, <1>T, WithLessonsOfOne
  <2> HIDE DEF I
  <2>4. ls \in Seq(Nat) /\ Embeds(ls, old)
    BY <2>2, KeptEmbeds
  <2> HIDE DEF ls
  <2>5. /\ \A k, l \in DOMAIN ls : ls[k] = ls[l] => k = l
        /\ \A k \in DOMAIN ls : \E l \in DOMAIN old : ls[k] = old[l]
    <3>1. PICK p : Embedding(p, ls, old)
      BY <2>4 DEF Embeds
    <3> QED BY <3>1, <1>T DEF Embedding, IdsApart
  <2>6. edited' \in Seq(Section) /\ Len(edited') = Len(edited) /\ IdsApart(edited') /\ IdsGiven(edited', clock)
    <3>1. /\ \A x \in Nat : IdGiven(x, clock) => IdGiven(x, clock')
          /\ clock' = clock
      BY <2>1
    <3>2. \A k \in DOMAIN ls : \/ \E l \in DOMAIN edited[i].lessons : ls[k] = edited[i].lessons[l]
                               \/ ~ IdGiven(ls[k], clock) /\ IdGiven(ls[k], clock')
      BY <2>5
    <3>3. LessonsFit(edited, i, ls, clock, clock')
      BY <2>5, <3>1, <3>2 DEF LessonsFit
    <3> QED BY <2>3, <2>4, <3>1, <3>3, <1>T, LessonsApart
  <2> QED BY <2>1, <2>6, <1>T DEF ReviewInv, EditsApart
<1>9. CASE UNCHANGED reviewVars
  BY <1>9, <1>T DEF reviewVars, ReviewInv, EditsApart
<1> QED BY <1>1, <1>2, <1>3, <1>4, <1>5, <1>6, <1>7, <1>8, <1>9 DEF ReviewNext, EditorNext

-----------------------------------------------------------------------------
LEMMA ReviewInvariant == ReviewSpec => []ReviewInv
BY ReviewInitInv, ReviewInvStep, PTL DEF ReviewSpec

(* The copy that is edited stays an outline, and the panel in its modes.   *)
THEOREM ReviewTypeCorrect == ReviewSpec => []ReviewTypeOK
<1>1. ReviewInv => ReviewTypeOK
  BY OutlineAssumption DEF ReviewInv, EditsApart, ReviewTypeOK, PanelState, PanelEvents
<1> QED BY <1>1, ReviewInvariant, PTL

(* Sections and lessons can be told apart after any sequence of edits, of  *)
(* an outline of any size.                                                 *)
THEOREM EditsKeepTheirIds == ReviewSpec => []EditsKeepIdentity
<1>1. ReviewInv => EditsKeepIdentity
  BY ToldApartIsApart DEF ReviewInv, EditsApart, EditsKeepIdentity
<1> QED BY <1>1, ReviewInvariant, PTL

(* A drag rearranges sections, or lessons, and neither loses nor makes one.*)
THEOREM DragsRearrange == ReviewSpec => DragRearranges
<1>1. ReviewInv /\ [ReviewNext]_reviewVars =>
        [edited' # edited /\ (handleDragEnd \/ handleLessonDragEnd) =>
           /\ IdsOf(edited') = IdsOf(edited) /\ Len(edited') = Len(edited)
           /\ LessonsOf(edited') = LessonsOf(edited)]_reviewVars
  BY Dragged
<1> QED BY <1>1, ReviewInvariant, PTL DEF ReviewSpec, DragRearranges
=============================================================================
