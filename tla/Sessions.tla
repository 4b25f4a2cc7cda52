------------------------------ MODULE Sessions ------------------------------
(***************************************************************************)
(* Who is signed in.  Two cookies can carry a session: ory_kratos_session, *)
(* which Kratos sets in its browser flows, and ory_session_token, which    *)
(* the frontend sets after registering an invited person.  The middleware, *)
(* getSession and the backend ask for the token first.  Around them: the   *)
(* login page with loginMachine, signing out with logoutMachine from the   *)
(* header of the app, and the pages that recover a password.  Any session  *)
(* may end at any moment, any login flow may expire, any call may fail.    *)
(***************************************************************************)
EXTENDS Naturals

CONSTANTS
  MaxLoginRetries,    \* MAX_RETRY_COUNT of the shared guards
  MaxMishaps          \* bound: failed calls, sessions and flows that end

ASSUME SessionsAssumption == MaxLoginRetries \in Nat /\ MaxMishaps \in Nat

VARIABLES
  tab,             \* the page shown, and the state its components keep
  browserSession,  \* the session of ory_kratos_session
  tokenSession,    \* the session of ory_session_token
  recovering,      \* the mark recovery_flow in sessionStorage
  settingsFlow,    \* what the message of the settings flow says
  mishaps

sessionVars == <<tab, browserSession, tokenSession, recovering, settingsFlow, mishaps>>
cookies     == <<browserSession, tokenSession>>
recoveryVars == <<recovering, settingsFlow>>

(* A cookie may outlive its session.                                       *)
Cookie == {"none", "live", "dead"}
LoginFlows  == {"none", "fresh", "expired"}
LoginPages  == {"idle", "fetchingFlow", "needsKratosRedirect", "flowExpired", "ready",
                "error"}
LogoutPages == {"idle", "creatingLogoutFlow", "performingLogout", "clearingSession",
                "redirecting"}
ProtectedRoutes == {"app"}
SessionPages == ProtectedRoutes \cup {"landing", "login", "recovery", "settings", "reset",
                               "resetDone", "resetError"}

(* A page as it is after a full load: what JavaScript kept is gone.  user  *)
(* is the session that AuthContext has found, clean is whether nothing     *)
(* went wrong in the sign-out that led here.                               *)
Loaded(p) == [at |-> p, flow |-> "none", login |-> "idle", retries |-> 0,
              logout |-> "idle", user |-> FALSE, signedOut |-> "no"]

SessionsInit ==
  /\ tab = Loaded("landing")
  /\ browserSession = "none" /\ tokenSession = "none"
  /\ recovering = FALSE /\ settingsFlow = "none" /\ mishaps = 0

Mishap   == mishaps < MaxMishaps /\ mishaps' = mishaps + 1
NoMishap == UNCHANGED mishaps
Show(t)  == tab' = t /\ UNCHANGED <<cookies, recoveryVars>>

(* The token is asked for whenever its cookie is there; that the other     *)
(* session lives does not count then.                                      *)
Known(browser, token) == IF token # "none" THEN token = "live" ELSE browser = "live"
KnownSession == Known(browserSession, tokenSession)

(* The page that the middleware lets a request for p end at.               *)
Admitted(p, known) ==
  CASE p \in ProtectedRoutes /\ ~ known -> "login"
    [] p = "login" /\ known             -> "app"
    [] OTHER                            -> p

-----------------------------------------------------------------------------
(* Around the app.                                                         *)

(* A link, or an address typed in by a user who waits for the spinner of   *)
(* the login page.  A session check that fails says no.                    *)
Visit == \E p \in {"app", "login", "recovery", "settings"} \ {tab.at} :
  /\ \/ tab.at \in {"landing", "resetDone", "resetError"}
     \/ tab.at = "login" /\ tab.login \in {"ready", "error"}
  /\ settingsFlow' = "none" /\ UNCHANGED <<cookies, recovering>>
  /\ \/ tab' = Loaded(Admitted(p, KnownSession)) /\ NoMishap
     \/ KnownSession /\ tab' = Loaded(Admitted(p, FALSE)) /\ Mishap

(* AuthContext looks for the session once, when the page is loaded.        *)
CheckSessionOnMount ==
  /\ tab.at = "app" /\ ~ tab.user /\ KnownSession
  /\ Show([tab EXCEPT !.user = TRUE]) /\ NoMishap

(* Registering through an invitation ends with a token and the dashboard.  *)
JoinByInvitation ==
  /\ tab.at = "landing" /\ ~ KnownSession
  /\ tokenSession' = "live" /\ tab' = Loaded("app")
  /\ UNCHANGED <<browserSession, recoveryVars, mishaps>>

(* Also while a sign-out is under way, which ends with its header.         *)
OpenSettings ==
  /\ tab.at = "app"
  /\ tab' = Loaded("settings") /\ settingsFlow' = "none"
  /\ UNCHANGED <<cookies, recovering, mishaps>>

(* Kratos ends sessions after a day.                                       *)
SessionEnds ==
  /\ \/ browserSession = "live" /\ browserSession' = "dead" /\ UNCHANGED tokenSession
     \/ tokenSession = "live" /\ tokenSession' = "dead" /\ UNCHANGED browserSession
  /\ UNCHANGED <<tab, recoveryVars>> /\ Mishap

-----------------------------------------------------------------------------
(* Signing in.                                                             *)

LoginAt(s) == tab.at = "login" /\ tab.login = s
Login(t)   == Show(t) /\ NoMishap

StartLogin == LoginAt("idle")
  /\ Login([tab EXCEPT !.login = IF tab.flow = "none" THEN "needsKratosRedirect"
                                                      ELSE "fetchingFlow"])

GetLoginFlow ==
  /\ LoginAt("fetchingFlow")
  /\ \/ Login([tab EXCEPT !.login = IF tab.flow = "fresh" THEN "ready" ELSE "flowExpired"])
     \/ Show([tab EXCEPT !.login = "error"]) /\ Mishap

(* Kratos makes a new flow, or sends home whoever it knows; it only knows  *)
(* its own cookie.                                                         *)
RedirectToKratos ==
  /\ LoginAt("needsKratosRedirect") \/ LoginAt("flowExpired")
  /\ Login(IF browserSession = "live" THEN Loaded(Admitted("app", KnownSession))
           ELSE [Loaded("login") EXCEPT !.flow = "fresh"])

RetryLogin ==
  /\ LoginAt("error") /\ tab.retries < MaxLoginRetries
  /\ Login([tab EXCEPT !.login = "fetchingFlow", !.retries = @ + 1])

(* The form goes to Kratos itself.  A wrong password shows the flow again. *)
SubmitLogin ==
  /\ LoginAt("ready")
  /\ UNCHANGED <<tokenSession, recoveryVars, mishaps>>
  /\ \/ /\ browserSession' = "live"
        /\ tab' = Loaded(Admitted("app", Known("live", tokenSession)))
     \/ /\ UNCHANGED browserSession
        /\ tab' = [Loaded("login") EXCEPT !.flow = "fresh"]

LoginFlowExpires ==
  /\ tab.at = "login" /\ tab.flow = "fresh"
  /\ Show([tab EXCEPT !.flow = "expired"]) /\ Mishap

-----------------------------------------------------------------------------
(* Signing out.  The button is there once AuthContext knows the user.      *)

LogoutAt(s) == tab.at = "app" /\ tab.logout = s
Failed(t)   == [t EXCEPT !.signedOut = "failed"]

StartLogout ==
  /\ LogoutAt("idle") /\ tab.user
  /\ Show([tab EXCEPT !.logout = "creatingLogoutFlow", !.signedOut = "clean"]) /\ NoMishap

(* Kratos has nothing to log out when its own session is not alive.        *)
CreateLogoutFlow ==
  /\ LogoutAt("creatingLogoutFlow")
  /\ IF browserSession = "live"
       THEN \/ Show([tab EXCEPT !.logout = "performingLogout"]) /\ NoMishap
            \/ Show(Failed([tab EXCEPT !.logout = "clearingSession"])) /\ Mishap
       ELSE Show([tab EXCEPT !.logout = "clearingSession"]) /\ NoMishap

(* A failed call may have ended the session all the same.                  *)
PerformLogout ==
  /\ LogoutAt("performingLogout")
  /\ UNCHANGED <<tokenSession, recoveryVars>>
  /\ \/ /\ browserSession' = "none" /\ NoMishap
        /\ tab' = [tab EXCEPT !.logout = "clearingSession"]
     \/ /\ browserSession' \in {browserSession, "none"} /\ Mishap
        /\ tab' = Failed([tab EXCEPT !.logout = "clearingSession"])

(* Mutant: as clearAuth does it, without the domain of the cookie.         *)
ClearLocalSessionHostOnly ==
  /\ LogoutAt("clearingSession")
  /\ tab' = [tab EXCEPT !.logout = "redirecting"]
  /\ UNCHANGED <<cookies, recoveryVars, mishaps>>

ClearLocalSession ==
  /\ LogoutAt("clearingSession")
  /\ tokenSession' = "none"
  /\ tab' = [tab EXCEPT !.logout = "redirecting"]
  /\ UNCHANGED <<browserSession, recoveryVars, mishaps>>

(* The hook clears AuthContext and the query cache, and leaves the app.    *)
LogoutRedirect ==
  /\ LogoutAt("redirecting")
  /\ Show([Loaded("landing") EXCEPT !.signedOut = tab.signedOut]) /\ NoMishap

-----------------------------------------------------------------------------
(* Recovering a password.                                                  *)

(* The code from the mail signs in, and Kratos opens the settings.         *)
SubmitRecoveryCode ==
  /\ tab.at = "recovery"
  /\ browserSession' = "live" /\ settingsFlow' = "recovered" /\ tab' = Loaded("settings")
  /\ UNCHANGED <<tokenSession, recovering, mishaps>>

(* The settings page when it is loaded.  Without a flow it asks Kratos for *)
(* one, who sends whoever has no session of its own to the login page.     *)
InitSettings ==
  /\ tab.at = "settings" /\ tab.login = "idle" /\ UNCHANGED cookies
  /\ \/ /\ KnownSession /\ settingsFlow = "recovered" /\ NoMishap
        /\ recovering' = TRUE /\ tab' = Loaded("reset") /\ UNCHANGED settingsFlow
     \/ /\ KnownSession /\ settingsFlow = "saved" /\ recovering /\ NoMishap
        /\ recovering' = FALSE /\ tab' = Loaded("reset") /\ UNCHANGED settingsFlow
     \/ /\ KnownSession /\ NoMishap
        /\ settingsFlow = "none" \/ (settingsFlow = "saved" /\ ~ recovering)
        /\ IF browserSession = "live"
             THEN tab' = [tab EXCEPT !.login = "ready"]
             ELSE tab' = Loaded(Admitted("login", KnownSession))
        /\ UNCHANGED recoveryVars
     \/ /\ tab' = Loaded(Admitted("login", KnownSession)) /\ UNCHANGED recoveryVars
        /\ IF KnownSession THEN Mishap ELSE NoMishap

(* The profile or the password; Kratos shows the same message for both.    *)
SaveSettings ==
  /\ tab.at = "settings" /\ tab.login = "ready" /\ browserSession = "live"
  /\ settingsFlow' = "saved" /\ tab' = Loaded("settings")
  /\ UNCHANGED <<cookies, recovering, mishaps>>

BackToDashboard ==
  /\ tab.at = "settings" /\ tab.login = "ready"
  /\ settingsFlow' = "none" /\ tab' = Loaded(Admitted("app", KnownSession))
  /\ UNCHANGED <<cookies, recovering, mishaps>>

SubmitNewPassword ==
  /\ tab.at = "reset" /\ tab.login = "ready" /\ browserSession = "live"
  /\ settingsFlow' = "saved" /\ tab' = Loaded("settings")
  /\ UNCHANGED <<cookies, recovering, mishaps>>

LeaveReset ==
  /\ tab.at = "reset" /\ tab.login = "ready"
  /\ \E p \in {"login", "settings"} : tab' = Loaded(Admitted(p, KnownSession))
  /\ settingsFlow' = "none"
  /\ UNCHANGED <<cookies, recovering, mishaps>>

(* Mutant: the page says so without signing out.                           *)
InitResetKeeping ==
  /\ tab.at = "reset" /\ tab.login = "idle" /\ UNCHANGED tokenSession
  /\ \/ /\ settingsFlow = "saved" /\ recovering' = FALSE /\ settingsFlow' = "none"
        /\ tab' = Loaded("resetDone") /\ UNCHANGED <<mishaps, browserSession>>
     \/ /\ settingsFlow # "saved"
        /\ tab' = IF settingsFlow = "recovered" THEN [tab EXCEPT !.login = "ready"]
                                                ELSE Loaded(Admitted("login", KnownSession))
        /\ UNCHANGED <<browserSession, recoveryVars, mishaps>>

(* The page behind the recovery: the form, or, when the password is saved, *)
(* the end, with the session ended if Kratos does so.                      *)
InitReset ==
  /\ tab.at = "reset" /\ tab.login = "idle" /\ UNCHANGED tokenSession
  /\ \/ /\ settingsFlow = "saved" /\ recovering' = FALSE /\ settingsFlow' = "none"
        /\ tab' = Loaded("resetDone")
        /\ \/ browserSession' = (IF browserSession = "live" THEN "none" ELSE browserSession)
              /\ NoMishap
           \/ UNCHANGED browserSession /\ Mishap
     \/ /\ settingsFlow # "saved"
        /\ tab' = IF settingsFlow = "recovered" THEN [tab EXCEPT !.login = "ready"]
                                                ELSE Loaded(Admitted("login", KnownSession))
        /\ UNCHANGED <<browserSession, recoveryVars, mishaps>>
     \/ /\ tab' = Loaded("resetError") /\ Mishap
        /\ UNCHANGED <<browserSession, recovering>> /\ settingsFlow' = "none"

SessionsNext ==
  \/ Visit \/ CheckSessionOnMount \/ JoinByInvitation \/ OpenSettings \/ SessionEnds
  \/ StartLogin \/ GetLoginFlow \/ RedirectToKratos \/ RetryLogin \/ SubmitLogin
  \/ LoginFlowExpires
  \/ StartLogout \/ CreateLogoutFlow \/ PerformLogout \/ ClearLocalSession
  \/ LogoutRedirect
  \/ SubmitRecoveryCode \/ InitSettings \/ SaveSettings \/ BackToDashboard
  \/ SubmitNewPassword \/ LeaveReset \/ InitReset

(* Effects run, and a request to Kratos is aborted after five seconds: the *)
(* steps that wait for nobody are taken, with their failures if need be.   *)
SessionsAnswer ==
  \/ StartLogin \/ GetLoginFlow \/ RedirectToKratos
  \/ CreateLogoutFlow \/ PerformLogout \/ ClearLocalSession \/ LogoutRedirect

SessionsFairness == WF_sessionVars(SessionsAnswer)

SessionsSpec == SessionsInit /\ [][SessionsNext]_sessionVars /\ SessionsFairness

-----------------------------------------------------------------------------
SessionsTypeOK ==
  /\ tab \in [at : SessionPages, flow : LoginFlows, login : LoginPages,
              retries : 0..MaxLoginRetries, logout : LogoutPages, user : BOOLEAN,
              signedOut : {"no", "clean", "failed"}]
  /\ browserSession \in Cookie /\ tokenSession \in Cookie
  /\ recovering \in BOOLEAN /\ settingsFlow \in {"none", "recovered", "saved"}
  /\ mishaps \in 0..MaxMishaps

(* Where a sign-out ends, the frontend's own cookie is gone whatever       *)
(* failed, and when nothing failed the middleware knows no session at all. *)
SignedOutStaysOut ==
  tab.at = "landing" /\ tab.signedOut # "no" =>
    /\ tokenSession = "none"
    /\ tab.signedOut = "clean" => ~ KnownSession

(* Where a recovery ends with nothing going wrong, the session that the    *)
(* recovery code opened is over.                                           *)
ResetSignsOut == tab.at = "resetDone" /\ mishaps = 0 => browserSession # "live"

(* The page waits for an answer or a redirect: the login page shows its    *)
(* spinner, or the app is signing out.  A token whose session has ended,   *)
(* next to a live session of Kratos, is left out of the first: the         *)
(* middleware asks for the one and sends to the login page, Kratos knows   *)
(* the other and sends back, for ever.                                     *)
SessionWaits ==
  \/ /\ tab.at = "login" /\ tab.login \notin {"ready", "error"}
     /\ tokenSession # "dead"
  \/ tab.at = "app" /\ tab.logout # "idle"
=============================================================================
