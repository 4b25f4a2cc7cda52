--------------------------- MODULE OutlineReview ---------------------------
(***************************************************************************)
(* OutlineReviewPanel and the OutlineEditor inside it: the user looks at a *)
(* generated outline, edits a copy of it, and approves, rejects, updates   *)
(* or regenerates.  Sections and lessons are found by id, everywhere: in   *)
(* the editor's handlers, in React's keys and in the drag-and-drop code.   *)
(***************************************************************************)
EXTENDS Naturals, Sequences, FiniteSets
SE == INSTANCE SequencesExt

CONSTANTS
  Generated,    \* the sections of the outline as generated, in order
  MaxSections,  \* bound: sections of an outline
  MaxAdded      \* bound: sections and lessons the user adds in one sitting

Section == [id : Nat, lessons : Seq(Nat)]

SectionIds(sections) == [i \in DOMAIN sections |-> sections[i].id]

(* Sections and lessons can be told apart, and each lesson is in one place.*)
ToldApart(sections) ==
  /\ SE!IsInjective(SectionIds(sections))
  /\ \A i \in DOMAIN sections : SE!IsInjective(sections[i].lessons)
  /\ \A i, j \in DOMAIN sections :
       i < j => SE!ToSet(sections[i].lessons) \cap SE!ToSet(sections[j].lessons) = {}

(* The ids of the server are new UUIDs, which are not ids of the clock.    *)
ASSUME OutlineAssumption ==
  /\ MaxAdded \in Nat /\ MaxSections \in Nat
  /\ Generated \in Seq(Section) /\ Generated # <<>> /\ ToldApart(Generated)
  /\ \A i \in DOMAIN Generated :
       Generated[i].id > MaxAdded /\ \A l \in SE!ToSet(Generated[i].lessons) : l > MaxAdded

VARIABLES
  shown,     \* outline.sections, from the machine
  edited,    \* editedSections
  panel,     \* "viewing", "editing" or "rejecting", and the reason typed
  clock,     \* Date.now(), as far as ids are made from it
  sent       \* the event sent last to the machine

reviewVars == <<shown, edited, panel, clock, sent>>

ReviewInit ==
  /\ shown = Generated /\ edited = Generated
  /\ panel = [mode |-> "viewing", reason |-> "empty"]
  /\ clock = 0
  /\ sent = "none"

IdsOf(sections)       == {sections[i].id : i \in DOMAIN sections}
LessonsOf(sections)   == UNION {SE!ToSet(sections[i].lessons) : i \in DOMAIN sections}
IndexById(ids, x)     == CHOOSE i \in DOMAIN ids : ids[i] = x

(* Mutant: what is dragged is taken out and not put back.                  *)
arrayMoveDrops(s, from, to) == SE!RemoveAt(s, from)

(* arrayMove of dnd-kit.                                                   *)
arrayMove(s, from, to) == SE!InsertAt(SE!RemoveAt(s, from), to, s[from])

(* s.filter(...): the elements of s at these places, in their order.       *)
Remaining(s, places) ==
  [n \in 1..Cardinality(places) |->
     s[CHOOSE i \in places : Cardinality({j \in places : j <= i}) = n]]

(* sections.map(s => s.id === id ? change(s) : s)                          *)
WithLessons(id, lessons) ==
  [i \in DOMAIN edited |->
     IF edited[i].id = id THEN [edited[i] EXCEPT !.lessons = lessons] ELSE edited[i]]

-----------------------------------------------------------------------------
(* The panel.                                                              *)

EditOutline ==
  /\ panel.mode = "viewing"
  /\ panel' = [panel EXCEPT !.mode = "editing"]
  /\ UNCHANGED <<shown, edited, clock, sent>>

(* The panel stays mounted: the copy is reset by Cancel only, and the      *)
(* machine's updating state answers with the outline it had.               *)
handleSaveEdits ==
  /\ panel.mode = "editing"
  /\ sent' = "UPDATE_OUTLINE"
  /\ panel' = [panel EXCEPT !.mode = "viewing"]
  /\ UNCHANGED <<shown, edited, clock>>

handleCancelEdits ==
  /\ panel.mode = "editing"
  /\ edited' = shown
  /\ panel' = [panel EXCEPT !.mode = "viewing"]
  /\ UNCHANGED <<shown, clock, sent>>

OpenReject ==
  /\ panel.mode = "viewing"
  /\ panel' = [panel EXCEPT !.mode = "rejecting"]
  /\ UNCHANGED <<shown, edited, clock, sent>>

TypeReason ==
  /\ panel.mode = "rejecting"
  /\ \E r \in {"empty", "blank", "given"} : panel' = [panel EXCEPT !.reason = r]
  /\ UNCHANGED <<shown, edited, clock, sent>>

CloseReject ==
  /\ panel.mode = "rejecting"
  /\ panel' = [panel EXCEPT !.mode = "viewing"]
  /\ UNCHANGED <<shown, edited, clock, sent>>

(* Rejecting, approving and regenerating leave the panel: the machine goes *)
(* on, and the panel that comes back is a new one for a new outline.       *)
Leave(event) ==
  /\ sent' = event
  /\ shown' = Generated /\ edited' = Generated
  /\ panel' = [mode |-> "viewing", reason |-> "empty"]
  /\ clock' = 0

handleReject == panel.mode = "rejecting" /\ panel.reason = "given"
                  /\ Leave("REJECT_OUTLINE")
onApprove    == panel.mode = "viewing" /\ Leave("APPROVE_OUTLINE")
onRegenerate == panel.mode = "viewing" /\ Leave("REGENERATE_OUTLINE")

-----------------------------------------------------------------------------
(* The editor.                                                             *)

Change(sections) ==
  /\ panel.mode = "editing"
  /\ edited' = sections
  /\ UNCHANGED <<shown, panel, sent>>

(* Dragging a section onto another.                                        *)
handleDragEnd ==
  /\ \E active, over \in IdsOf(edited) :
       /\ active # over
       /\ Change(arrayMove(edited, IndexById(SectionIds(edited), active),
                                   IndexById(SectionIds(edited), over)))
  /\ UNCHANGED clock

(* Dragging a lesson onto another of its section.                          *)
handleLessonDragEnd ==
  /\ \E i \in DOMAIN edited :
       LET lessons == edited[i].lessons
       IN  \E active, over \in SE!ToSet(lessons) :
             /\ active # over
             /\ Change(WithLessons(edited[i].id,
                  arrayMove(lessons, IndexById(lessons, active), IndexById(lessons, over))))
  /\ UNCHANGED clock

deleteSection ==
  /\ Len(edited) > 1
  /\ \E x \in IdsOf(edited) :
       Change(Remaining(edited, {i \in DOMAIN edited : edited[i].id # x}))
  /\ UNCHANGED clock

(* The id is the clock's, `section-${Date.now()}`. ASSUMED of the user and *)
(* the clock, not given by the code: between two additions Date.now() has  *)
(* gone forward, as each is a click of its own. Two additions within one   *)
(* millisecond, or a clock set back to a millisecond already used, would   *)
(* give one id to two sections; no property here speaks of those.          *)
addSection ==
  /\ clock < MaxAdded /\ Len(edited) < MaxSections
  /\ clock' = clock + 1
  /\ Change(Append(edited, [id |-> clock', lessons |-> <<>>]))

(* Mutant: the new lesson is numbered by its place.                        *)
addLessonByPlace ==
  /\ clock < MaxAdded
  /\ clock' = clock + 1
  /\ \E i \in DOMAIN edited :
       Change(WithLessons(edited[i].id,
                          Append(edited[i].lessons, Len(edited[i].lessons) + 1)))

(* `lesson-${Date.now()}`, under the assumption of addSection. A section    *)
(* and a lesson of one millisecond would not collide: the prefixes differ. *)
addLesson ==
  /\ clock < MaxAdded
  /\ clock' = clock + 1
  /\ \E i \in DOMAIN edited :
       Change(WithLessons(edited[i].id, Append(edited[i].lessons, clock')))

deleteLesson ==
  /\ \E i \in DOMAIN edited : \E l \in SE!ToSet(edited[i].lessons) :
       LET lessons == edited[i].lessons
       IN  Change(WithLessons(edited[i].id,
                              Remaining(lessons, {k \in DOMAIN lessons : lessons[k] # l})))
  /\ UNCHANGED clock

-----------------------------------------------------------------------------
EditorNext == \/ handleDragEnd \/ handleLessonDragEnd
              \/ deleteSection \/ addSection \/ addLesson \/ deleteLesson
ReviewNext ==
  \/ EditOutline \/ handleSaveEdits \/ handleCancelEdits
  \/ OpenReject \/ TypeReason \/ CloseReject
  \/ handleReject \/ onApprove \/ onRegenerate
  \/ EditorNext

ReviewSpec == ReviewInit /\ [][ReviewNext]_reviewVars

-----------------------------------------------------------------------------
ReviewTypeOK ==
  /\ shown \in Seq(Section) /\ edited \in Seq(Section)
  /\ panel \in [mode : {"viewing", "editing", "rejecting"}, reason : {"empty", "blank", "given"}]
  /\ clock \in 0..MaxAdded
  /\ sent \in {"none", "UPDATE_OUTLINE", "REJECT_OUTLINE", "APPROVE_OUTLINE",
               "REGENERATE_OUTLINE"}

(* After any sequence of edits every section and every lesson that the     *)
(* editor shows can still be told apart by its id, each lesson is in one   *)
(* place, and there is a section left to show.                             *)
EditsKeepIdentity ==
  panel.mode = "editing" => Len(edited) > 0 /\ ToldApart(edited)

(* Dragging rearranges: it neither loses nor makes a section or a lesson.  *)
DragRearranges ==
  [][edited' # edited /\ (handleDragEnd \/ handleLessonDragEnd) =>
       /\ IdsOf(edited') = IdsOf(edited) /\ Len(edited') = Len(edited)
       /\ LessonsOf(edited') = LessonsOf(edited)]_reviewVars
=============================================================================
