-------------------------- MODULE GenerationWizard --------------------------
(***************************************************************************)
(* AIGenerationWizard: five pages, a condition to leave each, and at the   *)
(* end the input that the modal creates a course with and hands to         *)
(* courseGenerationMachine.  The machine drops START_GENERATION silently   *)
(* when the input is incomplete, with the course already created.          *)
(***************************************************************************)
EXTENDS Naturals, Sequences

CONSTANTS
  Smes, Audiences,  \* what the lists of the tenant offer
  Tags, Folders,
  NoFolder

ASSUME WizardAssumption == NoFolder \notin Folders

VARIABLES
  wizard,   \* page shown, selections, and which of the two dialogs is open
  handed    \* the input given last to onStartGeneration, if any

wizardVars == <<wizard, handed>>

(* STEPS *)
Pages == <<"sme-selection", "audience-selection", "configuration",
           "organization", "review">>
(* A desired outcome: nothing, blanks, ten characters at most, or more.    *)
Outcomes == {"empty", "blank", "short", "fine"}

WizardInit ==
  /\ wizard = [page |-> 1, smes |-> {}, audiences |-> {}, outcome |-> "empty",
               tags |-> {}, folder |-> NoFolder, dialog |-> "none"]
  /\ handed = {}

(* Mutant: the audience page may be left without an audience.              *)
canProceedWithoutAudience ==
  CASE Pages[wizard.page] = "sme-selection" -> wizard.smes # {}
    [] Pages[wizard.page] = "configuration" -> wizard.outcome = "fine"
    [] OTHER                                -> TRUE

canProceed ==
  CASE Pages[wizard.page] = "sme-selection"      -> wizard.smes # {}
    [] Pages[wizard.page] = "audience-selection" -> wizard.audiences # {}
    [] Pages[wizard.page] = "configuration"      -> wizard.outcome = "fine"
    [] OTHER                                     -> TRUE

Toggled(S, x) == IF x \in S THEN S \ {x} ELSE S \cup {x}

On(name)  == wizard.dialog = "none" /\ Pages[wizard.page] = name
Becomes(w) == wizard' = w /\ UNCHANGED handed

(* One check box per available SME.                                        *)
ToggleSme == On("sme-selection") /\ \E s \in Smes :
  Becomes([wizard EXCEPT !.smes = Toggled(@, s)])

(* One check box per available audience.                                   *)
ToggleAudience == On("audience-selection") /\ \E a \in Audiences :
  Becomes([wizard EXCEPT !.audiences = Toggled(@, a)])

(* The two text areas; the additional context is optional and left out.    *)
DescribeGoals == On("configuration") /\ \E o \in Outcomes :
  Becomes([wizard EXCEPT !.outcome = o])

(* Tags and folder are chosen in dialogs over the organization page.       *)
OpenDialog   == On("organization") /\ \E d \in {"tags", "folder"} :
  Becomes([wizard EXCEPT !.dialog = d])
(* TagsSelectionModal: add one tag, remove one, Clear All.                 *)
AddTag    == wizard.dialog = "tags" /\ \E t \in Tags \ wizard.tags :
  Becomes([wizard EXCEPT !.tags = @ \cup {t}])
ClearTags == wizard.dialog = "tags" /\ Becomes([wizard EXCEPT !.tags = {}])
RemoveTag == wizard.dialog # "folder" /\ Pages[wizard.page] = "organization"
                /\ \E t \in wizard.tags :
  Becomes([wizard EXCEPT !.tags = @ \ {t}])
FolderSelect == wizard.dialog = "folder" /\ \E f \in Folders :
  Becomes([wizard EXCEPT !.folder = f, !.dialog = "none"])
ClearFolder == On("organization") /\ wizard.folder # NoFolder
                 /\ Becomes([wizard EXCEPT !.folder = NoFolder])
CloseDialog == wizard.dialog # "none" /\ Becomes([wizard EXCEPT !.dialog = "none"])

(* Mutant: Continue on the last page, too.                                 *)
GoToNextStepPastEnd ==
  /\ wizard.dialog = "none" /\ canProceed
  /\ Becomes([wizard EXCEPT !.page = @ + 1])

(* Continue is disabled unless canProceed, and replaced on the last page.  *)
GoToNextStep ==
  /\ wizard.dialog = "none" /\ wizard.page < Len(Pages) /\ canProceed
  /\ Becomes([wizard EXCEPT !.page = @ + 1])

GoToPreviousStep ==
  /\ wizard.dialog = "none" /\ wizard.page > 1
  /\ Becomes([wizard EXCEPT !.page = @ - 1])

(* Generate Course *)
handleStartGeneration ==
  /\ On("review") /\ canProceed
  /\ handed' =
       {[smes |-> wizard.smes, audiences |-> wizard.audiences,
         outcome |-> wizard.outcome, tags |-> wizard.tags, folder |-> wizard.folder]}
  /\ UNCHANGED wizard

WizardNext ==
  \/ ToggleSme \/ ToggleAudience \/ DescribeGoals
  \/ OpenDialog \/ AddTag \/ RemoveTag \/ ClearTags \/ FolderSelect \/ ClearFolder
  \/ CloseDialog
  \/ GoToNextStep \/ GoToPreviousStep \/ handleStartGeneration

WizardSpec == WizardInit /\ [][WizardNext]_wizardVars

(* The guard of START_GENERATION in courseGenerationMachine.               *)
startGuard(input) == input.smes # {} /\ input.outcome # "empty"

-----------------------------------------------------------------------------
WizardTypeOK ==
  /\ wizard \in [page : DOMAIN Pages, smes : SUBSET Smes, audiences : SUBSET Audiences,
                 outcome : Outcomes, tags : SUBSET Tags,
                 folder : Folders \cup {NoFolder}, dialog : {"none", "tags", "folder"}]
  /\ \A i \in handed : i.smes \subseteq Smes /\ i.audiences \subseteq Audiences

(* However the user goes back and forth and changes the selections, an     *)
(* input that the wizard hands over starts a generation: it passes the     *)
(* guard of the machine and names an audience and a real outcome.          *)
HandedIsComplete ==
  \A i \in handed : startGuard(i) /\ i.audiences # {} /\ i.outcome = "fine"
=============================================================================
