--------------------------- MODULE FrontendProofs ---------------------------
(***************************************************************************)
(* The browser's parts side by side.  A tab shows one page, the others     *)
(* rest, so that a behaviour of the whole is a behaviour of each part: what*)
(* is proved of a part holds of it whatever page is shown, which is more   *)
(* than FrontendTypeOK asks for.  Fairness is given only to the page that  *)
(* is shown, so of the two parts that have fairness, the flow and the      *)
(* sessions, the whole is their steps without it.                          *)
(***************************************************************************)
EXTENDS MCFrontend, GenerationFlowProofs, AccountProofs, TenantProofs,
        CoursePagesProofs, KnowledgeProofs

LEMMA PagesStart ==
  FrontendInit =>
    /\ FlowInit
    /\ WizardInit
    /\ ReviewInit
    /\ SignUpInit
    /\ InviteInit
    /\ SessionsInit
    /\ SmeInit
    /\ LibraryInit
    /\ NotesInit
    /\ TeamsInit
    /\ AiInit
    /\ AudienceInit
    /\ BuilderInit
BY DEF FrontendInit

(* Every part makes a step of its own or rests.                            *)
PagesStep ==
  /\ [FlowNext]_flowVars
  /\ [WizardNext]_wizardVars
  /\ [ReviewNext]_reviewVars
  /\ [SignUpNext]_signUpVars
  /\ [InviteNext]_inviteVars
  /\ [SessionsNext]_sessionVars
  /\ [SmeNext]_smeVars
  /\ [LibraryNext]_libraryVars
  /\ [NotesNext]_notesVars
  /\ [TeamsNext]_teamVars
  /\ [AiNext]_aiVars
  /\ [AudienceNext]_audienceVars
  /\ [BuilderNext]_builderVars

LEMMA PagesSteps == [FrontendNext]_frontendVars => PagesStep
<1>1. OnFlow => PagesStep
  BY DEF OnFlow, PagesStep
<1>2. OnWizard => PagesStep
  BY DEF OnWizard, PagesStep
<1>3. OnReview => PagesStep
  BY DEF OnReview, PagesStep
<1>4. OnSignUp => PagesStep
  BY DEF OnSignUp, PagesStep
<1>5. OnInvitePage => PagesStep
  BY DEF OnInvitePage, PagesStep
<1>6. OnSessions => PagesStep
  BY DEF OnSessions, PagesStep
<1>7. OnSme => PagesStep
  BY DEF OnSme, PagesStep
<1>8. OnLibrary => PagesStep
  BY DEF OnLibrary, PagesStep
<1>9. OnNotes => PagesStep
  BY DEF OnNotes, PagesStep
<1>10. OnTeams => PagesStep
  BY DEF OnTeams, PagesStep
<1>11. OnAi => PagesStep
  BY DEF OnAi, PagesStep
<1>12. OnAudience => PagesStep
  BY DEF OnAudience, PagesStep
<1>13. OnBuilder => PagesStep
  BY DEF OnBuilder, PagesStep
<1>14. UNCHANGED frontendVars => PagesStep
  BY DEF frontendVars, PagesStep
<1> QED
  BY <1>1, <1>2, <1>3, <1>4, <1>5, <1>6, <1>7, <1>8, <1>9, <1>10, <1>11, <1>12, <1>13, <1>14
     DEF FrontendNext
(* A behaviour of the whole is one of each part.                           *)
THEOREM PagesAreTheirParts ==
  FrontendSpec =>
    /\ FlowInit /\ [][FlowNext]_flowVars
    /\ SessionsInit /\ [][SessionsNext]_sessionVars
    /\ WizardSpec /\ ReviewSpec /\ SignUpSpec /\ InviteSpec /\ SmeSpec
    /\ LibrarySpec /\ NotesSpec /\ TeamsSpec /\ AiSpec /\ AudienceSpec
    /\ BuilderSpec
BY PagesStart, PagesSteps, PTL
   DEF FrontendSpec, PagesStep, WizardSpec, ReviewSpec, SignUpSpec, InviteSpec,
       SmeSpec, LibrarySpec, NotesSpec, TeamsSpec, AiSpec, AudienceSpec, BuilderSpec

(* The parts' invariants where their fairness is not given.                *)
LEMMA UnfairInvariants == FrontendSpec => []FlowInv /\ []SessionsInv
<1>1. FrontendSpec => SessionsInit /\ [][SessionsNext]_sessionVars
  BY PagesAreTheirParts, PTL
<1>2. FrontendSpec => FlowInit /\ [][FlowNext]_flowVars
  BY PagesAreTheirParts, PTL
<1> QED BY <1>1, <1>2, FlowSafety, SessionsInitInv, SessionsInvStep, PTL

(* Type correctness of every page, those that are not shown included.      *)
THEOREM FrontendTypeCorrect == FrontendSpec => []FrontendTypeOK
<1>1. FlowInv => FlowTypeOK
  BY DEF FlowInv
<1>2. SessionsInv => SessionsTypeOK
  BY DEF SessionsInv
<1>3. /\ FlowTypeOK /\ SessionsTypeOK /\ WizardTypeOK /\ ReviewTypeOK /\ SignUpTypeOK
      /\ InviteTypeOK /\ SmeTypeOK /\ LibraryTypeOK /\ NotesTypeOK /\ TeamsTypeOK
      /\ AiTypeOK /\ AudienceTypeOK /\ BuilderTypeOK
      => FrontendTypeOK
  BY DEF FrontendTypeOK
<1> QED
  BY <1>1, <1>2, <1>3, PagesAreTheirParts, UnfairInvariants, WizardTypeCorrect,
     ReviewTypeCorrect, SignUpTypeCorrect, InviteTypeCorrect, SmeTypeCorrect,
     LibraryTypeCorrect, NotesTypeCorrect, TeamsTypeCorrect, AiTypeCorrect,
     AudienceTypeCorrect, BuilderTypeCorrect, PTL

(* The safety the pages promise, together.                                 *)
PagesSafe ==
  /\ PollsOwnJob /\ LessonsOfApproved /\ HandedIsComplete /\ EditsKeepIdentity
  /\ ReceivedComplete /\ CheckoutAsShown /\ OnlyInviteeJoins /\ WelcomeIsTrue
  /\ SignedOutStaysOut /\ ResetSignsOut /\ KnowledgeOfItsSubmission
  /\ CompletedIsLearnt /\ CoursesKeepFolders /\ ShowsTheInbox /\ TeamKeepsItsOwn
  /\ UsageAddsUp /\ AudiencesWhole /\ FreshListIsTrue /\ AfterStartHasCourse

(* What each page promises holds on every page at once, and so do the      *)
(* promise of the generation, a drag that only rearranges and a course     *)
(* that is never replaced.                                                 *)
THEOREM PagesKeepTheirPromises ==
  FrontendSpec => []PagesSafe /\ KeepsPromise /\ DragRearranges /\ CourseStays
<1>1. FrontendSpec => [](PollsOwnJob /\ LessonsOfApproved /\ SignedOutStaysOut /\ ResetSignsOut)
  <2>1. FlowInv => PollsOwnJob /\ LessonsOfApproved
    BY FlowInvSafe
  <2>2. SessionsInv => SignedOutStaysOut /\ ResetSignsOut
    BY DEF SessionsInv
  <2> QED BY <2>1, <2>2, UnfairInvariants, PTL
<1>2. FrontendSpec => [](HandedIsComplete /\ EditsKeepIdentity /\ AfterStartHasCourse)
  BY PagesAreTheirParts, HandsOverComplete, EditsKeepTheirIds, StartedHasCourse, PTL
<1>3. FrontendSpec => [](ReceivedComplete /\ CheckoutAsShown /\ OnlyInviteeJoins /\ WelcomeIsTrue)
  BY PagesAreTheirParts, RegistrationsWhole, CheckoutIsAsShown, InvitationForInvitee,
     WelcomesMembers, PTL
<1>4. FrontendSpec => [](/\ KnowledgeOfItsSubmission /\ CompletedIsLearnt
                         /\ AudiencesWhole /\ FreshListIsTrue)
  BY PagesAreTheirParts, KnowledgeIsOfItsSubmission, CompletedWasLearnt,
     AudiencesStayWhole, FreshListsAreTrue, PTL
<1>5. FrontendSpec => [](/\ CoursesKeepFolders /\ ShowsTheInbox
                         /\ TeamKeepsItsOwn /\ UsageAddsUp)
  BY PagesAreTheirParts, CoursesHaveTheirFolders, PageShowsTheInbox,
     TeamsOwnTheirs, UsageAlwaysAddsUp, PTL
<1>6. FrontendSpec => KeepsPromise /\ DragRearranges /\ CourseStays
  BY PagesAreTheirParts, PromiseKept, DragsRearrange, CourseNeverReplaced, PTL
<1> QED BY <1>1, <1>2, <1>3, <1>4, <1>5, <1>6, PTL DEF PagesSafe
=============================================================================
