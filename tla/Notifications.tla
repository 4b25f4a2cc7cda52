---------------------------- MODULE Notifications ----------------------------
(***************************************************************************)
(* The bell in the page's header: the notifications of a user on the       *)
(* server, the stream that tells the page of changes, and the list that    *)
(* the page shows.  The stream says that something changed and the page    *)
(* asks again; what happens while it is not connected is not made up for.  *)
(* The count of unread ones is a query like the list, asked for with it.   *)
(***************************************************************************)
EXTENDS Naturals, FiniteSets

CONSTANTS
  Notes,         \* notifications the user may ever get
  MaxOnTheWay    \* bound: events in the stream, and calls of the panel

ASSUME NotesAssumption == IsFiniteSet(Notes) /\ MaxOnTheWay \in Nat \ {0}

VARIABLES
  inbox,     \* the notifications on the server
  stream,    \* the subscription: "opening", "open", "waiting" or "stopped"
  attempts,  \* reconnectAttemptRef
  events,    \* events in the stream
  list,      \* the list query: what it shows, whether that was ever read,
             \* its fetch under way, the answer to that, and whether an
             \* event has come after an answer that is kept nevertheless
  readHere,  \* locallyReadIds
  asked,     \* calls of the panel the server has not handled
  answers,   \* answers to them on their way back
  missed     \* whether a change was lost on its way to the page

notesVars == <<inbox, stream, attempts, events, list, readHere, asked,
               answers, missed>>

Shown(box) == [n \in Notes |-> IF box[n] = "deleted" THEN "absent" ELSE box[n]]

(* The header is mounted: the list is asked for and the stream opens.      *)
NotesInit ==
  /\ inbox \in [Notes -> {"absent", "unread"}]
  /\ stream = "opening" /\ attempts = 0 /\ events = 0
  /\ list = [shows |-> [n \in Notes |-> "absent"], loaded |-> FALSE,
             fetch |-> "asked", data |-> [n \in Notes |-> "absent"],
             overtaken |-> FALSE]
  /\ readHere = {} /\ asked = {} /\ answers = 0
  /\ missed = FALSE

-----------------------------------------------------------------------------
(* The queries.                                                            *)

Asked     == [list EXCEPT !.fetch = "asked", !.data = list.shows, !.overtaken = FALSE]
FirstKept == [list EXCEPT !.overtaken = (list.fetch = "answered")]

(* Mutant: a fetch under way is never dropped.                             *)
InvalidateIdle ==
  list' = IF list.fetch = "none" THEN Asked ELSE IF list.loaded THEN list ELSE FirstKept

(* invalidateQueries drops the fetch under way and starts another, unless  *)
(* the query has nothing to show yet: then it waits for the one there is,  *)
(* although that may have been answered already.                           *)
Invalidate == list' = IF list.fetch = "none" \/ list.loaded THEN Asked ELSE FirstKept

ListRead ==
  /\ list.fetch = "asked"
  /\ list' = [list EXCEPT !.fetch = "answered", !.data = Shown(inbox)]
  /\ missed' = FALSE
  /\ UNCHANGED <<inbox, stream, attempts, events, readHere, asked, answers>>

ListShown ==
  /\ list.fetch = "answered"
  /\ list' = [list EXCEPT !.fetch = "none", !.shows = list.data, !.loaded = TRUE]
  /\ UNCHANGED <<inbox, stream, attempts, events, readHere, asked, answers, missed>>

(* The retries are over; what was shown stays.                             *)
ListFails ==
  /\ list.fetch = "asked"
  /\ list' = [list EXCEPT !.fetch = "none"]
  /\ missed' = TRUE
  /\ UNCHANGED <<inbox, stream, attempts, events, readHere, asked, answers>>

-----------------------------------------------------------------------------
(* The server.                                                             *)

(* A change is committed and then published, to whoever is subscribed; a   *)
(* publication that fails is logged.                                       *)
Publish ==
  \/ stream = "open" /\ events < MaxOnTheWay /\ events' = events + 1 /\ UNCHANGED missed
  \/ missed' = TRUE /\ UNCHANGED events

CreateNotification ==
  /\ \E n \in Notes : inbox[n] = "absent" /\ inbox' = [inbox EXCEPT ![n] = "unread"]
  /\ Publish
  /\ UNCHANGED <<stream, attempts, list, readHere, asked, answers>>

(* The same panel in another tab.                                          *)
ChangedElsewhere ==
  /\ \E n \in Notes, s \in {"read", "deleted"} :
       inbox[n] \in {"unread", "read"} \ {s} /\ inbox' = [inbox EXCEPT ![n] = s]
  /\ Publish
  /\ UNCHANGED <<stream, attempts, list, readHere, asked, answers>>

(* Only unread notifications are marked, and only a mark is published.     *)
MarkedAs(ns) ==
  LET marked == {n \in ns : inbox[n] = "unread"}
  IN  /\ inbox' = [n \in Notes |-> IF n \in marked THEN "read" ELSE inbox[n]]
      /\ IF marked = {} THEN UNCHANGED <<events, missed>> ELSE Publish

Deleted(n) ==
  IF inbox[n] \in {"unread", "read"}
    THEN inbox' = [inbox EXCEPT ![n] = "deleted"] /\ Publish
    ELSE UNCHANGED <<inbox, events, missed>>

(* A call is handled and answered, or handled and not heard of, or not     *)
(* handled.                                                                *)
CallHandled ==
  /\ \E c \in asked :
       /\ asked' = asked \ {c}
       /\ \/ /\ \/ c.do = "read" /\ MarkedAs(c.notes)
                \/ c.do = "readAll" /\ MarkedAs(Notes)
                \/ c.do = "delete" /\ \E n \in c.notes : Deleted(n)
             /\ answers' \in {answers, answers + 1}
          \/ UNCHANGED <<inbox, events, missed, answers>>
  /\ UNCHANGED <<stream, attempts, list, readHere>>

-----------------------------------------------------------------------------
(* The panel.  What it marks counts as read in this tab from the click on, *)
(* whatever becomes of the call.                                           *)

Ask(do, ns) ==
  /\ Cardinality(asked) + answers < MaxOnTheWay
  /\ asked' = asked \cup {[do |-> do, notes |-> ns]}
  /\ UNCHANGED <<inbox, stream, attempts, events, list, answers, missed>>

UnreadShown == {n \in Notes : list.shows[n] = "unread"} \ readHere

MarkLocallyRead(ns) == readHere' = readHere \cup ns

HandleMarkAsRead ==
  \E n \in UnreadShown : MarkLocallyRead({n}) /\ Ask("read", {n})

(* The server marks all there are, this tab those it shows.                *)
HandleMarkAllAsRead ==
  /\ UnreadShown # {}
  /\ MarkLocallyRead(UnreadShown) /\ Ask("readAll", Notes)

HandleDelete ==
  /\ \E n \in Notes : list.shows[n] # "absent" /\ Ask("delete", {n})
  /\ UNCHANGED readHere

AnswerHeard ==
  /\ answers > 0
  /\ answers' = answers - 1
  /\ Invalidate
  /\ UNCHANGED <<inbox, stream, attempts, events, readHere, asked, missed>>

-----------------------------------------------------------------------------
(* useNotificationStream.                                                  *)

StreamOpened ==
  /\ stream = "opening" /\ stream' = "open"
  /\ UNCHANGED <<inbox, attempts, events, list, readHere, asked, answers,
                 missed>>

HandleEvent ==
  /\ events > 0
  /\ events' = events - 1
  /\ Invalidate
  /\ UNCHANGED <<inbox, stream, attempts, readHere, asked, answers, missed>>

(* The stream ends or fails and another try is scheduled, unless the user  *)
(* is told to be signed out; the events in it are gone.                    *)
StreamEnds ==
  /\ stream \in {"opening", "open"}
  /\ \/ stream' = "waiting" /\ attempts' = attempts + 1
     \/ stream' = "stopped" /\ UNCHANGED attempts
  /\ events' = 0
  /\ IF events = 0 THEN UNCHANGED missed ELSE missed' = TRUE
  /\ UNCHANGED <<inbox, list, readHere, asked, answers>>

(* The timer is up.  The count of attempts starts over before the answer,  *)
(* and nothing is asked again.                                             *)
Subscribe ==
  /\ stream = "waiting" /\ stream' = "opening"
  /\ attempts' = 0
  /\ UNCHANGED <<inbox, events, list, readHere, asked, answers, missed>>

NotesNext ==
  \/ ListRead \/ ListShown \/ ListFails
  \/ CreateNotification \/ ChangedElsewhere \/ CallHandled
  \/ HandleMarkAsRead \/ HandleMarkAllAsRead \/ HandleDelete \/ AnswerHeard
  \/ StreamOpened \/ HandleEvent \/ StreamEnds \/ Subscribe

NotesSpec == NotesInit /\ [][NotesNext]_notesVars

-----------------------------------------------------------------------------
Boxes == [Notes -> {"absent", "unread", "read"}]
FetchStages == {"none", "asked", "answered"}

(* Type invariant.                                                         *)
NotesTypeOK ==
  /\ inbox \in [Notes -> {"absent", "unread", "read", "deleted"}]
  /\ stream \in {"opening", "open", "waiting", "stopped"} /\ attempts \in 0..1
  /\ events \in 0..MaxOnTheWay /\ answers \in 0..MaxOnTheWay
  /\ list \in [shows : Boxes, loaded : BOOLEAN, fetch : FetchStages,
               data : Boxes, overtaken : BOOLEAN]
  /\ readHere \subseteq Notes
  /\ asked \subseteq [do : {"read", "readAll", "delete"}, notes : SUBSET Notes]
  /\ missed \in BOOLEAN

(* What the page shows is what the server has once nothing is on its way   *)
(* and no change was lost: an answer that was read before a change never   *)
(* settles on the page after the event that told of the change, except the *)
(* very first one.                                                         *)
ShowsTheInbox ==
  events = 0 /\ list.fetch = "none" /\ ~ missed /\ ~ list.overtaken =>
    list.shows = Shown(inbox)

=============================================================================
