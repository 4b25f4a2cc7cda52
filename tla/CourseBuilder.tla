---------------------------- MODULE CourseBuilder ----------------------------
(***************************************************************************)
(* The course builder page: courseBuilderMachine, the handlers that call   *)
(* the server and send it events when the answers come, and the effects    *)
(* that watch the two generation jobs.  A button of the page starts a      *)
(* handler whether or not one is under way, and the machine drops an event *)
(* that the state it has reached does not take.                            *)
(***************************************************************************)
EXTENDS Naturals, FiniteSets

CONSTANTS
  MaxCalls,     \* bound: handlers under way at once
  MaxCreated    \* bound: courses created

ASSUME BuilderAssumption == MaxCalls \in Nat \ {0} /\ MaxCreated \in Nat \ {0}

VARIABLES
  reached,     \* where courseBuilderMachine is
  course,      \* context.courseId, 0 for none
  draft,       \* what the machine's context has: basics, experts, audiences
  picker,      \* the dialog that selects experts, with its own selection
  calls,       \* how many handlers are under way, by what they wait for
  creating,    \* isCreatingCourse
  followed,    \* the two jobs of the context as the page has read them
  refetching,  \* effects that wait for a refetch: of the outline, and of the
               \* lessons with what the page knew of those when it started
  listed,      \* whether the page's list of generated lessons has any
  created      \* courses created so far, an existing one opened included

builderVars == <<reached, course, draft, picker, calls, creating, followed,
                 refetching, listed, created>>

Choosing == {"courseBasics", "smeSelection", "audienceSelection", "reviewGenerate"}
AfterStart == {"generatingOutline", "outlineReview", "generatingLessons",
               "editor", "preview"}

(* GO_TO_STEP out of courseBasics.                                         *)
StepPlaces == <<"courseBasics", "smeSelection", "audienceSelection",
                "reviewGenerate", "outlineReview", "editor", "preview">>

CallKinds == {"nextCreate", "startCreate", "update", "request", "approve",
              "order", "reject", "store"}

(* What is asked for before a course is created, and then kept with it.    *)
Draft == [basics : BOOLEAN, smes : BOOLEAN, audiences : BOOLEAN]

(* No effect tests for a cancelled job: to the page it is like none.       *)
FollowedStatus == {"none", "open", "completed", "failed"}

(* A course in the URL is opened at its step and starts without the choices *)
(* made for it; its lessons, if it has any, are read when the page opens.   *)
BuilderInit ==
  /\ \/ course = 0 /\ reached = "courseBasics" /\ listed = FALSE
     \/ /\ course = 1 /\ listed \in BOOLEAN
        /\ \E s \in DOMAIN StepPlaces : reached = StepPlaces[s]
  /\ created = course
  /\ draft = [basics |-> FALSE, smes |-> FALSE, audiences |-> FALSE]
  /\ picker = [open |-> FALSE, some |-> FALSE]
  /\ calls = [k \in CallKinds |-> 0]
  /\ creating = FALSE
  /\ followed = [outline |-> "none", lessons |-> "none"]
  /\ refetching = [outline |-> FALSE, lessons |-> "none"]

-----------------------------------------------------------------------------
(* Events of the machine.  Every event leaves the steps it does not name   *)
(* where they are; leaving or reaching smeSelection mounts its dialog anew. *)

Moves(from, to) == reached' = IF reached \in from THEN to ELSE reached

ExpertsMounted ==
  picker' = IF reached' = reached THEN picker
            ELSE [open |-> FALSE, some |-> draft.smes]

NextPlace == [courseBasics      |-> IF draft.basics THEN "smeSelection" ELSE "courseBasics",
         smeSelection      |-> IF draft.smes THEN "audienceSelection" ELSE "smeSelection",
         audienceSelection |-> IF draft.audiences THEN "reviewGenerate"
                               ELSE "audienceSelection",
         editor            |-> "preview"]
SendNext == reached' = IF reached \in DOMAIN NextPlace THEN NextPlace[reached] ELSE reached

TakesCourse(c) == course' = IF reached = "courseBasics" THEN c ELSE course

(* The machine's guard with its first conjunct dropped.                    *)
CanStartAnyhow ==
  reached = "reviewGenerate" /\ draft.basics /\ draft.smes /\ draft.audiences

CanStart ==
  reached = "reviewGenerate" /\ course # 0 /\ draft.basics /\ draft.smes /\ draft.audiences

SendStart == reached' = IF CanStart THEN "generatingOutline" ELSE reached

SendOutlineJob ==
  /\ Moves({"outlineReview"}, "generatingOutline")
  /\ followed' = IF reached \in {"generatingOutline", "outlineReview"}
                 THEN [followed EXCEPT !.outline = "open"] ELSE followed

SendLessonJob ==
  followed' = IF reached = "generatingLessons"
              THEN [followed EXCEPT !.lessons = "open"] ELSE followed

SendError ==
  reached' = CASE reached = "generatingOutline" -> "reviewGenerate"
             [] reached = "generatingLessons" -> "outlineReview"
             [] OTHER -> reached

-----------------------------------------------------------------------------
(* Handlers.                                                               *)

UnderWay ==
  calls["nextCreate"] + calls["startCreate"] + calls["update"] + calls["request"]
    + calls["approve"] + calls["order"] + calls["reject"] + calls["store"]

Call(kind) ==
  /\ UnderWay < MaxCalls
  /\ calls' = [calls EXCEPT ![kind] = @ + 1]
Continues(kind, next) == calls' = [calls EXCEPT ![kind] = @ - 1, ![next] = @ + 1]
Ends(kind)            == calls' = [calls EXCEPT ![kind] = @ - 1]

(* The same without the ref.                                               *)
CreateCourseAgain(kind) == course = 0 /\ Call(kind) /\ creating' = TRUE

(* createCourseIfNeeded, up to the call of the server.                     *)
CreateCourseIfNeeded(kind) ==
  /\ course = 0 /\ ~creating
  /\ Call(kind) /\ creating' = TRUE

EditBasics ==
  /\ reached = "courseBasics"
  /\ draft' = [draft EXCEPT !.basics = ~@]
  /\ UNCHANGED <<reached, course, picker, calls, creating, followed, refetching,
                 listed, created>>

RemoveExpert ==
  /\ reached = "smeSelection" /\ ~picker.open /\ draft.smes
  /\ draft' = [draft EXCEPT !.smes = FALSE]
  /\ UNCHANGED <<reached, course, picker, calls, creating, followed, refetching,
                 listed, created>>

(* The dialog keeps its selection while it is closed.                      *)
PickExperts ==
  /\ reached = "smeSelection"
  /\ \/ ~picker.open /\ picker' = [picker EXCEPT !.open = TRUE]
     \/ picker.open /\ picker' = [picker EXCEPT !.some = ~@]
     \/ picker.open /\ picker' = [picker EXCEPT !.open = FALSE]
  /\ UNCHANGED <<reached, course, draft, calls, creating, followed, refetching,
                 listed, created>>

ConfirmExperts ==
  /\ reached = "smeSelection" /\ picker.open
  /\ draft' = [draft EXCEPT !.smes = picker.some]
  /\ picker' = [picker EXCEPT !.open = FALSE]
  /\ UNCHANGED <<reached, course, calls, creating, followed, refetching, listed,
                 created>>

PickAudiences ==
  /\ reached = "audienceSelection"
  /\ draft' = [draft EXCEPT !.audiences = ~@]
  /\ UNCHANGED <<reached, course, picker, calls, creating, followed, refetching,
                 listed, created>>

(* handleNext.  The first step creates the course first; a second click    *)
(* finds a creation under way, creates nothing and goes on at once.        *)
HandleNext ==
  /\ reached \in DOMAIN NextPlace /\ NextPlace[reached] # reached /\ ~picker.open
  /\ IF reached = "courseBasics" /\ course = 0 /\ ~creating
       THEN CreateCourseIfNeeded("nextCreate") /\ UNCHANGED reached
       ELSE SendNext /\ UNCHANGED <<calls, creating>>
  /\ ExpertsMounted
  /\ UNCHANGED <<course, draft, followed, refetching, listed, created>>

HandlePrevious ==
  /\ reached \in {"smeSelection", "audienceSelection", "reviewGenerate", "preview"}
  /\ ~picker.open
  /\ reached' = CASE reached = "smeSelection"      -> "courseBasics"
                [] reached = "audienceSelection" -> "smeSelection"
                [] reached = "reviewGenerate"    -> "audienceSelection"
                [] reached = "preview"           -> "editor"
  /\ ExpertsMounted
  /\ UNCHANGED <<course, draft, calls, creating, followed, refetching, listed,
                 created>>

(* The steps above the page, and the summary's Edit buttons: back only.    *)
HandleGoToStep ==
  /\ reached \in Choosing /\ ~picker.open
  /\ \E here \in DOMAIN StepPlaces :
       /\ StepPlaces[here] = reached
       /\ \E s \in DOMAIN StepPlaces : s < here /\ reached' = StepPlaces[s]
  /\ ExpertsMounted
  /\ UNCHANGED <<course, draft, calls, creating, followed, refetching, listed,
                 created>>

CourseCreatedBy(k) ==
  /\ k \in {"nextCreate", "startCreate"} /\ calls[k] > 0 /\ created < MaxCreated
  /\ created' = created + 1 /\ creating' = FALSE
  /\ TakesCourse(created')
  /\ IF k = "nextCreate"
       THEN SendNext /\ Ends(k)
       ELSE UNCHANGED reached /\ Continues(k, "update")
  /\ ExpertsMounted
  /\ UNCHANGED <<draft, followed, refetching, listed>>

CreationFails(k) ==
  /\ k \in {"nextCreate", "startCreate"} /\ calls[k] > 0
  /\ creating' = FALSE /\ Ends(k)
  /\ UNCHANGED <<reached, course, draft, picker, followed, refetching, listed, created>>

(* The Generate button of the summary is enabled.                          *)
CanGenerate == draft.basics /\ draft.smes /\ draft.audiences

(* handleStartGeneration: create the course if there is none yet, bring it *)
(* up to date, tell the machine, ask for the outline.                      *)
HandleStartGeneration ==
  /\ reached = "reviewGenerate" /\ CanGenerate
  /\ \/ course # 0 /\ Call("update") /\ UNCHANGED creating
     \/ CreateCourseIfNeeded("startCreate")
  /\ UNCHANGED <<reached, course, draft, picker, followed, refetching, listed, created>>

UpdateAnswered ==
  /\ calls["update"] > 0
  /\ \/ SendStart /\ Continues("update", "request")
     \/ UNCHANGED reached /\ Ends("update")
  /\ ExpertsMounted
  /\ UNCHANGED <<course, draft, creating, followed, refetching, listed, created>>

HandleRegenerateOutline ==
  /\ reached = "outlineReview" /\ Call("request")
  /\ UNCHANGED <<reached, course, draft, picker, creating, followed, refetching,
                 listed, created>>

RequestAnswered ==
  /\ calls["request"] > 0
  /\ SendOutlineJob \/ (SendError /\ UNCHANGED followed)
  /\ Ends("request") /\ ExpertsMounted
  /\ UNCHANGED <<course, draft, creating, refetching, listed, created>>

(* The approve button waits for the approval's own answer; Reject does not. *)
HandleApproveOutline ==
  /\ reached = "outlineReview" /\ calls["approve"] = 0
  /\ Call("approve")
  /\ UNCHANGED <<reached, course, draft, picker, creating, followed, refetching,
                 listed, created>>

ApproveAnsweredTo ==
  /\ calls["approve"] > 0
  /\ \/ Moves({"outlineReview"}, "generatingLessons") /\ Continues("approve", "order")
     \/ SendError /\ Ends("approve")
  /\ ExpertsMounted
  /\ UNCHANGED <<course, draft, creating, followed, refetching, listed, created>>

OrderAnswered ==
  /\ calls["order"] > 0
  /\ (SendLessonJob /\ UNCHANGED reached) \/ (SendError /\ UNCHANGED followed)
  /\ Ends("order") /\ ExpertsMounted
  /\ UNCHANGED <<course, draft, creating, refetching, listed, created>>

HandleRejectOutline ==
  /\ reached = "outlineReview" /\ Call("reject")
  /\ UNCHANGED <<reached, course, draft, picker, creating, followed, refetching,
                 listed, created>>

RejectAnswered ==
  /\ calls["reject"] > 0
  /\ Moves({"outlineReview"}, "reviewGenerate") \/ SendError
  /\ Ends("reject") /\ ExpertsMounted
  /\ UNCHANGED <<course, draft, creating, followed, refetching, listed, created>>

-----------------------------------------------------------------------------
(* Effects.                                                                *)

JobRead ==
  /\ \E kind \in {"outline", "lessons"} :
       /\ followed[kind] = "open"
       /\ \E s \in FollowedStatus \ {"open"} :
            followed' = [followed EXCEPT ![kind] = s]
  /\ UNCHANGED <<reached, course, draft, picker, calls, creating, refetching,
                 listed, created>>

(* What the query last read counts, be it of a job of an earlier round.    *)
WatchOutlineJob ==
  /\ reached = "generatingOutline"
  /\ \/ /\ followed.outline = "completed" /\ UNCHANGED reached
        /\ refetching' = [refetching EXCEPT !.outline = TRUE]
     \/ followed.outline = "failed" /\ SendError /\ UNCHANGED refetching
  /\ ExpertsMounted
  /\ UNCHANGED <<course, draft, calls, creating, followed, listed, created>>

OutlineRefetched ==
  /\ refetching.outline
  /\ refetching' = [refetching EXCEPT !.outline = FALSE]
  /\ Moves({"generatingOutline"}, "outlineReview") /\ ExpertsMounted
  /\ UNCHANGED <<course, draft, calls, creating, followed, listed, created>>

WatchLessonJob ==
  /\ reached = "generatingLessons"
  /\ \/ /\ followed.lessons = "completed" /\ refetching.lessons = "none"
        /\ refetching' = [refetching EXCEPT !.lessons = IF listed THEN "some" ELSE "empty"]
        /\ UNCHANGED reached
     \/ followed.lessons = "failed" /\ SendError /\ UNCHANGED refetching
  /\ ExpertsMounted
  /\ UNCHANGED <<course, draft, calls, creating, followed, listed, created>>

(* The lessons that are stored are those the page knew before the refetch. *)
LessonsRefetched ==
  /\ refetching.lessons # "none"
  /\ refetching' = [refetching EXCEPT !.lessons = "none"]
  /\ listed' \in {listed, TRUE}
  /\ IF refetching.lessons = "some"
       THEN Call("store") /\ UNCHANGED reached
       ELSE Moves({"generatingLessons"}, "editor") /\ UNCHANGED calls
  /\ ExpertsMounted
  /\ UNCHANGED <<course, draft, creating, followed, created>>

(* A content that cannot be stored leaves the page where it is.            *)
StoreAnswered ==
  /\ calls["store"] > 0
  /\ Moves({"generatingLessons"}, "editor") \/ UNCHANGED reached
  /\ Ends("store") /\ ExpertsMounted
  /\ UNCHANGED <<course, draft, creating, followed, refetching, listed, created>>

BuilderNext ==
  \/ EditBasics \/ RemoveExpert \/ PickExperts \/ ConfirmExperts \/ PickAudiences
  \/ HandleNext \/ HandlePrevious \/ HandleGoToStep
  \/ HandleStartGeneration \/ HandleRegenerateOutline
  \/ HandleApproveOutline \/ HandleRejectOutline
  \/ \E k \in CallKinds : CourseCreatedBy(k) \/ CreationFails(k)
  \/ UpdateAnswered \/ RequestAnswered \/ ApproveAnsweredTo
  \/ OrderAnswered \/ RejectAnswered \/ StoreAnswered
  \/ JobRead \/ WatchOutlineJob \/ OutlineRefetched
  \/ WatchLessonJob \/ LessonsRefetched

BuilderSpec == BuilderInit /\ [][BuilderNext]_builderVars

-----------------------------------------------------------------------------
(* Type invariant.                                                         *)
BuilderTypeOK ==
  /\ reached \in Choosing \cup AfterStart
  /\ course \in 0..MaxCreated /\ created \in 0..MaxCreated
  /\ draft \in Draft
  /\ picker \in [open : BOOLEAN, some : BOOLEAN]
  /\ calls \in [CallKinds -> 0..MaxCalls] /\ UnderWay <= MaxCalls
  /\ creating \in BOOLEAN /\ listed \in BOOLEAN
  /\ followed \in [outline : FollowedStatus, lessons : FollowedStatus]
  /\ refetching \in [outline : BOOLEAN, lessons : {"none", "some", "empty"}]

(* The steps from the generation on have a course: the page passes         *)
(* context.courseId! to the editor and to the preview.  It is at stake     *)
(* when the course's creation is answered after a second click on Next:    *)
(* the machine has left the step that takes the course, a later click on   *)
(* Generate creates another and asks for its outline all the same.         *)
AfterStartHasCourse == reached \in AfterStart => course # 0

(* Once the page has a course it keeps it, whichever clicks and answers    *)
(* cross: jobs, outline and lessons are all looked up by it, and what is   *)
(* stored at the end goes to it.                                           *)
CourseStays == [][course # 0 => course' = course]_builderVars

=============================================================================
