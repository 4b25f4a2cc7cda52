----------------------------- MODULE MCFrontend -----------------------------
(***************************************************************************)
(* Small instances of the browser's parts.  A tab shows one of them, page, *)
(* and they share no state: a behaviour of MCFrontend is a behaviour of    *)
(* one part, and one run checks them all side by side.                     *)
(***************************************************************************)
EXTENDS GenerationFlow, GenerationWizard, OutlineReview, SignUp, InviteAccept,
        Sessions, SmeKnowledge, ContentLibrary, Notifications, Teams,
        AiSettings, TargetAudiences, CourseBuilder

VARIABLE page

MCGenerated == << [id |-> 11, lessons |-> <<21, 22>>], [id |-> 12, lessons |-> <<23>>] >>

FrontendPages == {"flow", "wizard", "review", "signup", "invite", "sessions",
                  "smes", "library", "notes", "teams", "ai", "audiences",
                  "builder"}

frontendVars == <<page, flowVars, wizardVars, reviewVars, signUpVars,
                  inviteVars, sessionVars, smeVars, libraryVars, notesVars,
                  teamVars, aiVars, audienceVars, builderVars>>

FrontendInit ==
  /\ page \in FrontendPages
  /\ FlowInit /\ WizardInit /\ ReviewInit /\ SignUpInit /\ InviteInit
  /\ SessionsInit /\ SmeInit /\ LibraryInit /\ NotesInit /\ TeamsInit /\ AiInit
  /\ AudienceInit /\ BuilderInit
  /\ page = "invite" \/ (person = "nobody" /\ session = "none")
  /\ page = "library" \/ (view = "library")
  /\ page = "notes" \/ (inbox = [n \in Notes |-> "absent"])
  /\ page = "teams" \/ (manages = "admin")
  /\ page = "builder" \/ (course = 0)

OnFlow ==
  /\ page = "flow" /\ FlowNext
  /\ UNCHANGED <<page, wizardVars, reviewVars, signUpVars, inviteVars,
                 sessionVars, smeVars, libraryVars, notesVars, teamVars,
                 aiVars, audienceVars, builderVars>>

OnWizard ==
  /\ page = "wizard" /\ WizardNext
  /\ UNCHANGED <<page, flowVars, reviewVars, signUpVars, inviteVars,
                 sessionVars, smeVars, libraryVars, notesVars, teamVars,
                 aiVars, audienceVars, builderVars>>

OnReview ==
  /\ page = "review" /\ ReviewNext
  /\ UNCHANGED <<page, flowVars, wizardVars, signUpVars, inviteVars,
                 sessionVars, smeVars, libraryVars, notesVars, teamVars,
                 aiVars, audienceVars, builderVars>>

OnSignUp ==
  /\ page = "signup" /\ SignUpNext
  /\ UNCHANGED <<page, flowVars, wizardVars, reviewVars, inviteVars,
                 sessionVars, smeVars, libraryVars, notesVars, teamVars,
                 aiVars, audienceVars, builderVars>>

OnInvitePage ==
  /\ page = "invite" /\ InviteNext
  /\ UNCHANGED <<page, flowVars, wizardVars, reviewVars, signUpVars,
                 sessionVars, smeVars, libraryVars, notesVars, teamVars,
                 aiVars, audienceVars, builderVars>>

OnSessions ==
  /\ page = "sessions" /\ SessionsNext
  /\ UNCHANGED <<page, flowVars, wizardVars, reviewVars, signUpVars,
                 inviteVars, smeVars, libraryVars, notesVars, teamVars, aiVars,
                 audienceVars, builderVars>>

OnSme ==
  /\ page = "smes" /\ SmeNext
  /\ UNCHANGED <<page, flowVars, wizardVars, reviewVars, signUpVars,
                 inviteVars, sessionVars, libraryVars, notesVars, teamVars,
                 aiVars, audienceVars, builderVars>>

OnLibrary ==
  /\ page = "library" /\ LibraryNext
  /\ UNCHANGED <<page, flowVars, wizardVars, reviewVars, signUpVars,
                 inviteVars, sessionVars, smeVars, notesVars, teamVars, aiVars,
                 audienceVars, builderVars>>

OnNotes ==
  /\ page = "notes" /\ NotesNext
  /\ UNCHANGED <<page, flowVars, wizardVars, reviewVars, signUpVars,
                 inviteVars, sessionVars, smeVars, libraryVars, teamVars,
                 aiVars, audienceVars, builderVars>>

OnTeams ==
  /\ page = "teams" /\ TeamsNext
  /\ UNCHANGED <<page, flowVars, wizardVars, reviewVars, signUpVars,
                 inviteVars, sessionVars, smeVars, libraryVars, notesVars,
                 aiVars, audienceVars, builderVars>>

OnAi ==
  /\ page = "ai" /\ AiNext
  /\ UNCHANGED <<page, flowVars, wizardVars, reviewVars, signUpVars,
                 inviteVars, sessionVars, smeVars, libraryVars, notesVars,
                 teamVars, audienceVars, builderVars>>

OnAudience ==
  /\ page = "audiences" /\ AudienceNext
  /\ UNCHANGED <<page, flowVars, wizardVars, reviewVars, signUpVars,
                 inviteVars, sessionVars, smeVars, libraryVars, notesVars,
                 teamVars, aiVars, builderVars>>

OnBuilder ==
  /\ page = "builder" /\ BuilderNext
  /\ UNCHANGED <<page, flowVars, wizardVars, reviewVars, signUpVars,
                 inviteVars, sessionVars, smeVars, libraryVars, notesVars,
                 teamVars, aiVars, audienceVars>>

FrontendNext == OnFlow \/ OnWizard \/ OnReview \/ OnSignUp \/ OnInvitePage
  \/ OnSessions \/ OnSme \/ OnLibrary \/ OnNotes \/ OnTeams \/ OnAi
  \/ OnAudience \/ OnBuilder

(* The fairness of each part, asked for where the part is shown.           *)
FrontendFairness ==
  /\ WF_flowVars(page = "flow" /\ MachineNext)
  /\ WF_flowVars(page = "flow" /\ HandlerNext)
  /\ WF_sessionVars(page = "sessions" /\ SessionsAnswer)

FrontendSpec == FrontendInit /\ [][FrontendNext]_frontendVars /\ FrontendFairness

FrontendTypeOK ==
  /\ page = "flow" => FlowTypeOK
  /\ page = "wizard" => WizardTypeOK
  /\ page = "review" => ReviewTypeOK
  /\ page = "signup" => SignUpTypeOK
  /\ page = "invite" => InviteTypeOK
  /\ page = "sessions" => SessionsTypeOK
  /\ page = "smes" => SmeTypeOK
  /\ page = "library" => LibraryTypeOK
  /\ page = "notes" => NotesTypeOK
  /\ page = "teams" => TeamsTypeOK
  /\ page = "ai" => AiTypeOK
  /\ page = "audiences" => AudienceTypeOK
  /\ page = "builder" => BuilderTypeOK

(* Nobody waits for ever: what the server has made of a job is seen by the *)
(* generation flow, and the login page and a sign-out come to an end       *)
(* whichever calls fail.  The pages share no state, so one formula is as   *)
(* good as one for each.                                                   *)
Waiting ==
  \/ page = "flow" /\ OutcomeUnseen
  \/ page = "sessions" /\ SessionWaits
NobodyWaitsForever == []<>(~ Waiting)
=============================================================================
