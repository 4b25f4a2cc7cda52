-------------------------- MODULE TargetAudiences --------------------------
(***************************************************************************)
(* The target audiences of a company: the page with their list, the        *)
(* dialogs that create and edit one, and TargetAudienceService, which      *)
(* reads a row, changes it and writes the whole of it back, in two         *)
(* transactions.  The list is cached twice, with the archived audiences    *)
(* and without.  Of what an audience says the model keeps the form it      *)
(* comes from and the parts it must have; the optional parts, the search   *)
(* and the order of the list are left out, and so are answers that are     *)
(* lost and the calls of other users, of which nothing tells the tab, and  *)
(* the panel, which shows a copy of a card and offers what the card does.  *)
(***************************************************************************)
EXTENDS Naturals, FiniteSets

CONSTANTS
  MaxAudiences,     \* bound: audiences ever created
  MaxAudienceCalls  \* bound: calls of the tab under way

ASSUME AudienceAssumption ==
  MaxAudiences \in Nat \ {0} /\ MaxAudienceCalls \in Nat \ {0}

Needed == {"named", "goals"}  \* a name and a role; a learning goal

(* A row, or a copy of one: whether it is archived, the audience whose     *)
(* form it was written with (0 for the form of a new one), what it has.    *)
Template == [id : 0..MaxAudiences, archived : BOOLEAN, text : 0..MaxAudiences,
             has : SUBSET Needed]

NoTemplate == [id |-> 0, archived |-> FALSE, text |-> 0, has |-> {}]

(* A call: what it says of which audience, the row that the server has     *)
(* read for it, and whether the dialog that made it is still there.        *)
TemplateCall == [do : {"create", "update", "archive", "restore"},
                 of : Template, saw : Template, here : BOOLEAN,
                 stage : {"asked", "read", "written", "refetching", "done"}]

VARIABLES
  templates,        \* target_audience_templates
  templateCalls,    \* calls of the tab under way
  showArchived,     \* the box above the list
  templateLists,    \* the cache, by what showArchived asks for
  templateRead,     \* the read of the list shown, if one is under way; old
                    \* if a call was answered after it, and it was kept
  listFailed,       \* whether the last one failed
  templateDialog,   \* the dialog to show: "none", "create" or "edit"
  editingTemplate,  \* NoTemplate for none
  formText          \* the audience the dialog's fields were filled from

audienceVars == <<templates, templateCalls, showArchived, templateLists,
                  templateRead, listFailed, templateDialog,
                  editingTemplate, formText>>

audienceCache == <<showArchived, templateLists, templateRead, listFailed>>
audienceDialogs == <<templateDialog, editingTemplate, formText>>

NoRead    == [stage |-> "none", rows |-> {}, old |-> FALSE]
ReadAsked == [stage |-> "asked", rows |-> {}, old |-> FALSE]

AudienceInit ==
  /\ templates = {} /\ templateCalls = {}
  /\ showArchived = FALSE
  /\ templateLists = [archived \in BOOLEAN |-> [is |-> "absent", rows |-> {}]]
  /\ templateRead = ReadAsked /\ listFailed = FALSE
  /\ templateDialog = "none" /\ editingTemplate = NoTemplate /\ formText = 0

-----------------------------------------------------------------------------
(* The list.                                                               *)

(* ListTargetAudiences.                                                    *)
TemplatesListed(archived) == {t \in templates : archived \/ ~ t.archived}

TemplatesShown == templateLists[showArchived]

(* Until the list is there the page shows a spinner, after a read that     *)
(* failed a message, and then no dialog either.                            *)
PageShown == TemplatesShown.is # "absent" /\ ~ listFailed

CardsFree == PageShown /\ templateDialog = "none"

(* Calls that wait for the read of the list go on when it ends.            *)
ReadEnds(waiting) ==
  {IF c.stage = "refetching" THEN [c EXCEPT !.stage = "done"] ELSE c : c \in waiting}

(* A dialog that goes forgets its fields and that it has asked.            *)
DialogGone(asked) == {[c EXCEPT !.here = FALSE] : c \in asked}

(* What the cache takes for fresh; "overtaken" is known to the model only.  *)
CountsAsFresh(list) == list.is \in {"fresh", "overtaken"}

(* The box cancels the read of the list that was shown, and reads the      *)
(* other one unless that is fresh.                                         *)
ToggleArchived ==
  /\ CardsFree /\ showArchived' = ~ showArchived
  /\ templateRead' = IF CountsAsFresh(templateLists[~ showArchived]) THEN NoRead ELSE ReadAsked
  /\ templateCalls' = ReadEnds(templateCalls)
  /\ UNCHANGED <<templates, templateLists, listFailed, audienceDialogs>>

(* The connection comes back.  A list that has been read without an error  *)
(* and not been invalidated stays fresh here, not for a minute only.       *)
ReadAgain ==
  /\ templateRead = NoRead /\ ~ CountsAsFresh(TemplatesShown) /\ templateRead' = ReadAsked
  /\ UNCHANGED <<templates, templateCalls, showArchived, templateLists, listFailed,
                 audienceDialogs>>

ListTemplates ==
  /\ templateRead.stage = "asked"
  /\ templateRead' = [stage |-> "read", rows |-> TemplatesListed(showArchived),
                      old |-> FALSE]
  /\ UNCHANGED <<templates, templateCalls, showArchived, templateLists, listFailed,
                 audienceDialogs>>

(* A dialog that the message had replaced appears with its first fields.   *)
TemplatesArrive ==
  /\ templateRead.stage = "read" /\ templateRead' = NoRead
  /\ templateLists' = [templateLists EXCEPT ![showArchived] =
                         [is |-> IF templateRead.old THEN "overtaken" ELSE "fresh",
                          rows |-> templateRead.rows]]
  /\ listFailed' = FALSE
  /\ templateCalls' = ReadEnds(templateCalls)
  /\ formText' = IF listFailed THEN editingTemplate.text ELSE formText
  /\ UNCHANGED <<templates, showArchived, templateDialog, editingTemplate>>

TemplatesFail ==
  /\ templateRead # NoRead /\ templateRead' = NoRead
  /\ listFailed' = TRUE
  /\ templateLists' = [templateLists EXCEPT ![showArchived].is =
                         IF @ = "absent" THEN @ ELSE "stale"]
  /\ templateCalls' = DialogGone(ReadEnds(templateCalls))
  /\ formText' = 0
  /\ UNCHANGED <<templates, showArchived, templateDialog, editingTemplate>>

-----------------------------------------------------------------------------
(* The cards and the dialogs.                                              *)

OpenTemplateDialog(dialog, t) ==
  /\ CardsFree
  /\ templateDialog' = dialog /\ editingTemplate' = t /\ formText' = t.text
  /\ UNCHANGED <<templates, templateCalls, audienceCache>>

HandleEdit == \E t \in TemplatesShown.rows : ~ t.archived /\ OpenTemplateDialog("edit", t)

ShowCreateModal ==
  Cardinality(templates) < MaxAudiences /\ OpenTemplateDialog("create", NoTemplate)

NoDialog == templateDialog' = "none" /\ editingTemplate' = NoTemplate /\ formText' = 0

(* The dialog can be closed while its call is under way.                   *)
CloseModal ==
  /\ PageShown /\ templateDialog # "none" /\ NoDialog
  /\ templateCalls' = DialogGone(templateCalls)
  /\ UNCHANGED <<templates, audienceCache>>

AskTemplate(do, of, here) ==
  /\ Cardinality(templateCalls) < MaxAudienceCalls
  /\ templateCalls' = templateCalls \cup
       {[do |-> do, of |-> of, saw |-> NoTemplate, here |-> here,
         stage |-> "asked"]}
  /\ UNCHANGED <<templates, audienceCache, audienceDialogs>>

(* Mutant: the button looks at the fields of the first step only.          *)
NamedIsEnough(has) == "named" \in has

(* The button of the last step, which is reached whatever the others lack. *)
Complete(has) == has = Needed

(* The fields say whatever has been filled in by now.                      *)
SubmitForm(do, of) ==
  /\ PageShown /\ \A c \in templateCalls : ~ c.here
  /\ \E has \in {h \in SUBSET Needed : Complete(h)} :
       AskTemplate(do, [of EXCEPT !.text = formText, !.has = has], TRUE)

SubmitCreate == templateDialog = "create" /\ SubmitForm("create", NoTemplate)
SubmitEdit   == templateDialog = "edit" /\ SubmitForm("update", editingTemplate)

(* Delete, on every card, does what archive does.                          *)
HandleArchive ==
  /\ CardsFree
  /\ \E t \in TemplatesShown.rows : AskTemplate("archive", [NoTemplate EXCEPT !.id = t.id], FALSE)

HandleRestore ==
  /\ CardsFree
  /\ \E t \in TemplatesShown.rows :
       t.archived /\ AskTemplate("restore", [NoTemplate EXCEPT !.id = t.id], FALSE)

-----------------------------------------------------------------------------
(* TargetAudienceService.                                                  *)

TemplateCallTo(c, d) == templateCalls' = (templateCalls \ {c}) \cup {d}

(* What a call has said is no longer needed when it has written.           *)
TemplateWritten(c) == [c EXCEPT !.stage = "written", !.of = NoTemplate, !.saw = NoTemplate]

CreateTemplate ==
  /\ Cardinality(templates) < MaxAudiences
  /\ \E c \in templateCalls :
       /\ c.do = "create" /\ c.stage = "asked"
       /\ LET id == Cardinality(templates) + 1
          IN  templates' = templates \cup
                {[c.of EXCEPT !.id = id, !.text = IF @ = 0 THEN id ELSE @]}
       /\ TemplateCallTo(c, TemplateWritten(c))
  /\ UNCHANGED <<audienceCache, audienceDialogs>>

GetTemplate ==
  /\ \E c \in templateCalls, t \in templates :
       /\ c.do # "create" /\ c.stage = "asked" /\ t.id = c.of.id
       /\ c.do = "restore" => t.archived
       /\ TemplateCallTo(c, [c EXCEPT !.stage = "read", !.saw = t])
  /\ UNCHANGED <<templates, audienceCache, audienceDialogs>>

(* The row written: without goals in the request, those that were read.    *)
TemplateChanged(c) ==
  IF c.do = "update"
    THEN [c.saw EXCEPT !.text = c.of.text,
            !.has = (c.of.has \cap {"named"}) \cup ((c.of.has \cup @) \cap {"goals"})]
    ELSE [c.saw EXCEPT !.archived = (c.do = "archive")]

UpdateTemplate ==
  /\ \E c \in templateCalls :
       /\ c.stage = "read"
       /\ templates' = {t \in templates : t.id # c.of.id} \cup {TemplateChanged(c)}
       /\ TemplateCallTo(c, TemplateWritten(c))
  /\ UNCHANGED <<audienceCache, audienceDialogs>>

-----------------------------------------------------------------------------
(* The answers.                                                            *)

StaleList(list) == IF CountsAsFresh(list) THEN [list EXCEPT !.is = "stale"] ELSE list

(* Mutant: only the list that is shown is to be read again.                *)
InvalidatedShown == [templateLists EXCEPT ![showArchived] = StaleList(@)]

(* invalidateQueries: both lists, whatever they ask for.                   *)
Invalidated == [archived \in BOOLEAN |-> StaleList(templateLists[archived])]

(* The list shown is read from the start: a read under way is given up,    *)
(* and those who waited for that go on.  But a list that was never there   *)
(* has its read waited for, although that may have been answered already.  *)
ListReadAnew(asking) ==
  IF TemplatesShown.is # "absent" \/ templateRead = NoRead
    THEN /\ templateRead' = ReadAsked
         /\ templateCalls' = ReadEnds(templateCalls \ {asking}) \cup
                               {[asking EXCEPT !.stage = "refetching"]}
    ELSE /\ templateRead' = [templateRead EXCEPT !.old = (templateRead.stage = "read")]
         /\ TemplateCallTo(asking, [asking EXCEPT !.stage = "refetching"])

TemplateAnswered ==
  /\ \E c \in templateCalls : c.stage = "written" /\ ListReadAnew(c)
  /\ templateLists' = Invalidated
  /\ UNCHANGED <<templates, showArchived, listFailed, audienceDialogs>>

(* The handler's end: the dialog of its kind that is open by now closes.   *)
HandlerEnds ==
  /\ \E c \in templateCalls :
       /\ c.stage = "done"
       /\ IF <<c.do, templateDialog>> \in {<<"create", "create">>, <<"update", "edit">>}
            THEN NoDialog /\ templateCalls' = DialogGone(templateCalls \ {c})
            ELSE templateCalls' = templateCalls \ {c} /\ UNCHANGED audienceDialogs
  /\ UNCHANGED <<templates, audienceCache>>

(* Refused or unreachable: nothing is written.                             *)
TemplateCallFails ==
  /\ \E c \in templateCalls :
       c.stage \in {"asked", "read"} /\ templateCalls' = templateCalls \ {c}
  /\ UNCHANGED <<templates, audienceCache, audienceDialogs>>

AudienceNext ==
  \/ ToggleArchived \/ ReadAgain \/ ListTemplates \/ TemplatesArrive \/ TemplatesFail
  \/ HandleEdit \/ ShowCreateModal \/ CloseModal
  \/ SubmitCreate \/ SubmitEdit \/ HandleArchive \/ HandleRestore
  \/ CreateTemplate \/ GetTemplate \/ UpdateTemplate
  \/ TemplateAnswered \/ HandlerEnds \/ TemplateCallFails

AudienceSpec == AudienceInit /\ [][AudienceNext]_audienceVars

-----------------------------------------------------------------------------
(* Type invariant.                                                         *)
AudienceTypeOK ==
  /\ templates \subseteq Template /\ templateCalls \subseteq TemplateCall
  /\ showArchived \in BOOLEAN /\ listFailed \in BOOLEAN
  /\ templateLists \in [BOOLEAN -> [is : {"absent", "stale", "fresh", "overtaken"},
                                    rows : SUBSET Template]]
  /\ templateRead \in [stage : {"none", "asked", "read"}, rows : SUBSET Template,
                       old : BOOLEAN]
  /\ editingTemplate \in Template
  /\ templateDialog \in {"none", "create", "edit"} /\ formText \in 0..MaxAudiences

(* Every stored audience has a name, a role and a goal, and says what was  *)
(* filled in for it: although the server checks none of this, a form is    *)
(* filled once, when its dialog appears, dialogs are closed by the answers *)
(* to others, and what is written may be a copy that was read before.      *)
AudiencesWhole == \A t \in templates : t.text = t.id /\ t.has = Needed

(* A list that counts as fresh, which the box shows without another        *)
(* request, is the table's, whichever list was shown when an audience      *)
(* changed and whichever reads and calls have crossed; unless an answer is *)
(* still on its way, or the list was under its very first read, and that   *)
(* already answered, when the answer to a call came.                       *)
FreshListIsTrue ==
  (\A c \in templateCalls : c.stage # "written") =>
    \A archived \in BOOLEAN : templateLists[archived].is = "fresh" =>
      templateLists[archived].rows = TemplatesListed(archived)

=============================================================================
