---------------------------- MODULE InviteAccept ----------------------------
(***************************************************************************)
(* The page behind an invitation link.  It runs two machines at once:      *)
(* invitationAcceptMachine asks whose session the browser holds, and when  *)
(* nobody is signed in invitedUserMachine registers the invited person on  *)
(* the spot.  Each fetches the invitation for itself, while an admin may   *)
(* revoke it, its time may run out, and the person may sign in or out in   *)
(* another tab.  RegisterWithInvitation creates an identity, a user and    *)
(* the acceptance one after the other, and nothing undoes the first when a *)
(* later one fails.  AcceptInvitation and RevokeInvitation check the row   *)
(* they read and write it later, whatever it holds by then.                *)
(***************************************************************************)
EXTENDS Naturals

CONSTANTS
  MaxRetryCount,  \* MAX_RETRY_COUNT of the shared guards
  MaxTrouble      \* bound: failures of calls, and changes made elsewhere

ASSUME RetryAssumption == MaxRetryCount \in Nat /\ MaxTrouble \in Nat

VARIABLES
  invitation,  \* the invitation's row; "expired" is pending past its time
  person,      \* what the server knows of the invited address
  strangerIn,  \* whether another account joined through this invitation
  session,     \* who the cookies of the browser belong to
  accept,      \* invitationAcceptMachine
  invited,     \* invitedUserMachine, and the form the page mirrors into it
  joining,     \* RegisterWithInvitation under way on the server
  admitting,   \* AcceptInvitation under way on the server
  revoking,    \* whether RevokeInvitation has passed its check
  place,       \* where the tab is
  roster,      \* status of the invitation as the admin's list last showed it
  trouble

inviteServer == <<invitation, person, strangerIn, joining, admitting, revoking>>
inviteVars   == <<inviteServer, session, accept, invited, place, roster, trouble>>

InvitationStatus == {"pending", "accepted", "revoked", "expired"}
(* "identity" is a Kratos identity without a user.                         *)
Persons  == {"nobody", "identity", "free", "member", "elsewhere"}
Sessions == {"none", "invitee", "other"}

AcceptStates == {"idle", "fetchingInvitation", "checkingSession", "emailMismatch",
                 "needsAuth", "redirectingToLogin", "authenticated", "accepting",
                 "accepted", "error"}
InvitedStates == {"idle", "fetchingInvitation", "collectingInfo", "submitting",
                  "success", "error"}
JoinStages == {"none", "validated", "identified", "created", "refused", "granted"}
AdmitStages == {"none", "asked", "checked", "saved", "expired", "refused", "granted"}

IdleAccept  == [at |-> "idle", retries |-> 0, retryable |-> FALSE]
IdleInvited == [at |-> "idle", retries |-> 0, retryable |-> FALSE, filled |-> FALSE]
(* by is the session that the request came with.                           *)
NoAdmission == [stage |-> "none", by |-> "none"]

InviteInit ==
  /\ invitation = "pending"
  /\ person \in {"nobody", "free", "elsewhere"}
  /\ strangerIn = FALSE
  /\ session \in IF person = "nobody" THEN {"none", "other"} ELSE Sessions
  /\ accept = IdleAccept /\ invited = IdleInvited
  /\ joining = "none" /\ admitting = NoAdmission /\ revoking = FALSE
  /\ place = "invite" /\ roster = "pending" /\ trouble = 0

Trouble   == trouble < MaxTrouble /\ trouble' = trouble + 1
NoTrouble == UNCHANGED trouble
(* A call that fails, when the server has not refused it anyway.           *)
UnlessRefused(refused) == IF refused THEN NoTrouble ELSE Trouble

Accept(a)  == accept' = a
                /\ UNCHANGED <<inviteServer, session, invited, place, roster>>
Invited(i) == invited' = i
                /\ UNCHANGED <<inviteServer, session, accept, place, roster>>
OnInvite   == place = "invite"

-----------------------------------------------------------------------------
(* invitationAcceptMachine.                                                *)

(* The effect on mount starts it with the token of the link.               *)
StartAccept ==
  /\ OnInvite /\ accept.at = "idle" /\ NoTrouble
  /\ Accept([IdleAccept EXCEPT !.at = "fetchingInvitation"])

(* The server answers an invitation only while it is pending.  Its other   *)
(* answers do not say "not found", and the actor takes them for trouble    *)
(* with the network, which may be tried again.                             *)
FetchInvitation ==
  /\ OnInvite /\ accept.at = "fetchingInvitation"
  /\ \/ /\ invitation = "pending" /\ NoTrouble
        /\ Accept([accept EXCEPT !.at = "checkingSession"])
     \/ /\ UnlessRefused(invitation # "pending")
        /\ Accept([accept EXCEPT !.at = "error", !.retryable = TRUE])

(* getSession answers null on any failure.                                 *)
CheckSession ==
  /\ OnInvite /\ accept.at = "checkingSession"
  /\ \/ /\ NoTrouble
        /\ Accept([accept EXCEPT !.at =
                     CASE session = "invitee" -> "authenticated"
                       [] session = "other"   -> "emailMismatch"
                       [] session = "none"    -> "needsAuth"])
     \/ Trouble /\ Accept([accept EXCEPT !.at = "needsAuth"])

GoToLogin ==
  /\ OnInvite /\ accept.at = "emailMismatch"
  /\ accept' = [accept EXCEPT !.at = "redirectingToLogin"] /\ place' = "login"
  /\ UNCHANGED <<inviteServer, session, invited, roster, trouble>>

(* A request that was sent before and is still under way on the server is  *)
(* waited for: one at a time.                                              *)
AcceptClicked ==
  /\ OnInvite /\ accept.at = "authenticated" /\ admitting = NoAdmission
  /\ accept' = [accept EXCEPT !.at = "accepting"]
  /\ admitting' = [stage |-> "asked", by |-> session]
  /\ UNCHANGED <<invitation, person, strangerIn, joining, revoking, session,
                 invited, place, roster, trouble>>

Admitting(stage) ==
  /\ admitting' = [admitting EXCEPT !.stage = stage]
  /\ UNCHANGED <<joining, revoking, session, accept, invited, place, roster>>

(* Mutant: whoever is signed in joins.                                     *)
MayJoinUnchecked ==
  /\ invitation = "pending"
  /\ admitting.by = "other" \/ (admitting.by = "invitee" /\ person = "free")

(* AcceptInvitation looks at the invitation and at the session it came     *)
(* with, once more ...                                                     *)
MayJoin == /\ invitation = "pending"
           /\ admitting.by = "invitee" /\ person = "free"

CheckAdmission ==
  /\ admitting.stage = "asked"
  /\ \/ MayJoin /\ NoTrouble /\ Admitting("checked")
     \/ /\ UnlessRefused(~ MayJoin)
        /\ Admitting(IF invitation = "expired" /\ ~ MayJoin THEN "expired" ELSE "refused")
  /\ UNCHANGED <<invitation, person, strangerIn>>

(* ... saves the user with the company ...                                 *)
AdmitUser ==
  /\ admitting.stage = "checked"
  /\ \/ /\ person' = IF admitting.by = "invitee" THEN "member" ELSE person
        /\ strangerIn' = (strangerIn \/ admitting.by = "other")
        /\ NoTrouble /\ Admitting("saved")
     \/ UNCHANGED <<person, strangerIn>> /\ Trouble /\ Admitting("refused")
  /\ UNCHANGED invitation

(* ... and then the invitation as it was read; this may fail, and the      *)
(* answer may fail after it.                                               *)
MarkAccepted ==
  /\ admitting.stage = "saved"
  /\ \/ invitation' = "accepted" /\ NoTrouble /\ Admitting("granted")
     \/ invitation' \in {invitation, "accepted"} /\ Trouble /\ Admitting("refused")
  /\ UNCHANGED <<person, strangerIn>>

Answered(a) == a.stage \in {"granted", "refused", "expired"}

(* Only an expired invitation is recognised in a refusal.                  *)
AcceptAnswered ==
  /\ OnInvite /\ accept.at = "accepting" /\ Answered(admitting)
  /\ accept' = IF admitting.stage = "granted"
                  THEN [accept EXCEPT !.at = "accepted"]
                  ELSE [accept EXCEPT !.at = "error",
                                      !.retryable = admitting.stage = "refused"]
  /\ admitting' = NoAdmission
  /\ UNCHANGED <<invitation, person, strangerIn, joining, revoking, session,
                 invited, place, roster, trouble>>

(* The answer is lost, and the request goes on without the browser.        *)
AcceptLost ==
  /\ OnInvite /\ accept.at = "accepting" /\ Trouble
  /\ Accept([accept EXCEPT !.at = "error", !.retryable = TRUE])

AcceptUnread ==
  /\ Answered(admitting) /\ ~ (OnInvite /\ accept.at = "accepting")
  /\ admitting' = NoAdmission
  /\ UNCHANGED <<invitation, person, strangerIn, joining, revoking, session,
                 accept, invited, place, roster, trouble>>

RetryAccept ==
  /\ OnInvite /\ accept.at = "error" /\ NoTrouble
  /\ accept.retries < MaxRetryCount /\ accept.retryable
  /\ Accept([accept EXCEPT !.at = "fetchingInvitation", !.retries = @ + 1,
                           !.retryable = FALSE])

-----------------------------------------------------------------------------
(* invitedUserMachine.                                                     *)

StartInvited ==
  /\ OnInvite /\ accept.at = "needsAuth" /\ invited.at = "idle" /\ NoTrouble
  /\ Invited([IdleInvited EXCEPT !.at = "fetchingInvitation"])

FetchForInvited ==
  /\ OnInvite /\ invited.at = "fetchingInvitation"
  /\ \/ /\ invitation = "pending" /\ NoTrouble
        /\ Invited([invited EXCEPT !.at = "collectingInfo"])
     \/ /\ UnlessRefused(invitation # "pending")
        /\ Invited([invited EXCEPT !.at = "error", !.retryable = TRUE])

(* Names, a password of eight characters, and the password again.          *)
FillForm ==
  /\ OnInvite /\ invited.at = "collectingInfo" /\ NoTrouble
  /\ Invited([invited EXCEPT !.filled = ~ @])

(* The server looks at the invitation when the request comes in.           *)
SubmitInvited ==
  /\ OnInvite /\ invited.at = "collectingInfo" /\ invited.filled
  /\ joining = "none"
  /\ invited' = [invited EXCEPT !.at = "submitting"]
  /\ joining' = IF invitation = "pending" THEN "validated" ELSE "refused"
  /\ UNCHANGED <<invitation, person, strangerIn, admitting, revoking, session,
                 accept, place, roster, trouble>>

Joining(stage) ==
  /\ joining' = stage
  /\ UNCHANGED <<strangerIn, admitting, revoking, session, accept, invited, place,
                 roster>>

(* Mutant: the invitation is used up before there is a user.               *)
CreateIdentityAccepting ==
  /\ joining = "validated"
  /\ \/ /\ person = "nobody" /\ person' = "identity" /\ invitation' = "accepted"
        /\ Joining("identified") /\ NoTrouble
     \/ /\ UNCHANGED <<person, invitation>> /\ Joining("refused")
        /\ UnlessRefused(person # "nobody")

(* Kratos refuses an address that it knows.                                *)
CreateIdentity ==
  /\ joining = "validated" /\ UNCHANGED invitation
  /\ \/ /\ person = "nobody" /\ person' = "identity"
        /\ Joining("identified") /\ NoTrouble
     \/ /\ UNCHANGED person /\ Joining("refused")
        /\ UnlessRefused(person # "nobody")

CreateUser ==
  /\ joining = "identified" /\ UNCHANGED invitation
  /\ \/ person' = "member" /\ Joining("created") /\ NoTrouble
     \/ UNCHANGED person /\ Joining("refused") /\ Trouble

(* The invitation it read before is stored as accepted; that it may fail   *)
(* to is only logged.  Then the login, without which there is no session.  *)
FinishJoining ==
  /\ joining = "created" /\ UNCHANGED person
  /\ \/ invitation' = "accepted" /\ Joining("granted") /\ NoTrouble
     \/ UNCHANGED invitation /\ Joining("granted") /\ Trouble
     \/ invitation' = "accepted" /\ Joining("refused") /\ Trouble

(* Mutant: the machine goes on without a session token.                    *)
RegisteredAnyway ==
  /\ OnInvite /\ invited.at = "submitting"
  /\ joining \in {"granted", "refused"}
  /\ joining' = "none"
  /\ invited' = [invited EXCEPT !.at = "success"]
  /\ session' = IF joining = "granted" THEN "invitee" ELSE session
  /\ UNCHANGED <<invitation, person, strangerIn, admitting, revoking, accept, place,
                 roster, trouble>>

(* settingSession writes the cookie.  A refusal shows the form again, and  *)
(* the effect that mirrors the form clears the error at once.              *)
RegisterAnswered ==
  /\ OnInvite /\ invited.at = "submitting"
  /\ joining \in {"granted", "refused"}
  /\ joining' = "none"
  /\ IF joining = "granted"
       THEN invited' = [invited EXCEPT !.at = "success"] /\ session' = "invitee"
       ELSE invited' = [invited EXCEPT !.at = "collectingInfo"] /\ UNCHANGED session
  /\ UNCHANGED <<invitation, person, strangerIn, admitting, revoking, accept, place,
                 roster, trouble>>

(* The answer is lost, and the registration goes on without the browser.   *)
RegisterLost ==
  /\ OnInvite /\ invited.at = "submitting" /\ Trouble
  /\ Invited([invited EXCEPT !.at = "collectingInfo"])

(* An answer that nobody waits for.                                        *)
AnswerUnread ==
  /\ joining \in {"granted", "refused"}
  /\ ~ (OnInvite /\ invited.at = "submitting")
  /\ joining' = "none"
  /\ UNCHANGED <<invitation, person, strangerIn, admitting, revoking, session, accept,
                 invited, place, roster, trouble>>

RetryInvited ==
  /\ OnInvite /\ invited.at = "error" /\ NoTrouble
  /\ accept.at = "needsAuth"
  /\ invited.retries < MaxRetryCount /\ invited.retryable
  /\ Invited([invited EXCEPT !.at = "fetchingInvitation", !.retries = @ + 1,
                             !.retryable = FALSE])

-----------------------------------------------------------------------------
(* Around the page.                                                        *)

(* Both machines' hooks lead to the dashboard.                             *)
LeaveForDashboard ==
  /\ OnInvite
  /\ accept.at = "accepted" \/ invited.at = "success"
  /\ place' = "dashboard"
  /\ UNCHANGED <<inviteServer, session, accept, invited, roster, trouble>>

(* middleware sends whoever has a session from the login page to the       *)
(* dashboard, whoever it is; the others sign in and return to the link.    *)
LoginPage ==
  /\ place = "login"
  /\ accept' = IdleAccept /\ invited' = IdleInvited
  /\ IF session # "none"
       THEN place' = "dashboard" /\ UNCHANGED session
       ELSE place' = "invite"
              /\ session' \in IF person \in {"nobody", "identity"}
                                THEN {"other"} ELSE {"invitee", "other"}
  /\ UNCHANGED <<inviteServer, roster, trouble>>

(* The link again, from the mail.                                          *)
OpenLink ==
  /\ place # "login" /\ accept.at \notin {"idle"} /\ Trouble
  /\ place' = "invite" /\ accept' = IdleAccept /\ invited' = IdleInvited
  /\ UNCHANGED <<inviteServer, session, roster>>

(* Another tab signs in or out.                                            *)
SessionChanges ==
  /\ Trouble
  /\ session' \in (IF person \in {"nobody", "identity"} THEN {"none", "other"}
                                                         ELSE Sessions) \ {session}
  /\ UNCHANGED <<inviteServer, accept, invited, place, roster>>

(* What the admin's list shows of the row: that the time has run out is    *)
(* not stored in it.                                                       *)
Listed(status) == IF status = "expired" THEN "pending" ELSE status

RosterSteps == UNCHANGED <<person, strangerIn, joining, admitting, session, accept,
                           invited, place>>

(* TeamSettings revokes what its list still shows as pending.              *)
RevokeInvitation ==
  /\ roster = "pending" /\ ~ revoking /\ Trouble
  /\ revoking' = (Listed(invitation) = "pending")
  /\ UNCHANGED <<invitation, roster>> /\ RosterSteps

MarkRevoked ==
  /\ revoking /\ revoking' = FALSE
  /\ invitation' = "revoked" /\ roster' = "revoked"
  /\ UNCHANGED trouble /\ RosterSteps

ListInvitations ==
  /\ roster # Listed(invitation)
  /\ roster' = Listed(invitation)
  /\ UNCHANGED <<inviteServer, session, accept, invited, place, trouble>>

Expire ==
  /\ invitation = "pending" /\ Trouble /\ invitation' = "expired"
  /\ UNCHANGED <<revoking, roster>> /\ RosterSteps

InviteNext ==
  \/ StartAccept \/ FetchInvitation \/ CheckSession \/ GoToLogin
  \/ AcceptClicked \/ CheckAdmission \/ AdmitUser \/ MarkAccepted
  \/ AcceptAnswered \/ AcceptLost \/ AcceptUnread \/ RetryAccept
  \/ StartInvited \/ FetchForInvited \/ FillForm \/ SubmitInvited
  \/ CreateIdentity \/ CreateUser \/ FinishJoining
  \/ RegisterAnswered \/ RegisterLost \/ AnswerUnread \/ RetryInvited
  \/ LeaveForDashboard \/ LoginPage \/ OpenLink \/ SessionChanges
  \/ RevokeInvitation \/ MarkRevoked \/ ListInvitations \/ Expire

InviteSpec == InviteInit /\ [][InviteNext]_inviteVars

-----------------------------------------------------------------------------
InviteTypeOK ==
  /\ invitation \in InvitationStatus /\ roster \in InvitationStatus
  /\ person \in Persons /\ strangerIn \in BOOLEAN /\ session \in Sessions
  /\ accept \in [at : AcceptStates, retries : 0..MaxRetryCount, retryable : BOOLEAN]
  /\ invited \in [at : InvitedStates, retries : 0..MaxRetryCount,
                  retryable : BOOLEAN, filled : BOOLEAN]
  /\ joining \in JoinStages
  /\ admitting \in [stage : AdmitStages, by : Sessions] /\ revoking \in BOOLEAN
  /\ place \in {"invite", "login", "dashboard"}
  /\ trouble \in 0..MaxTrouble

(* An invitation is used up only by the person it names: whoever's session *)
(* the browser holds by the time of the click, and whichever part of a     *)
(* registration fails, nobody else joins, and it never counts as accepted  *)
(* by somebody who is not a member.                                        *)
OnlyInviteeJoins ==
  /\ ~ strangerIn
  /\ invitation = "accepted" => person = "member"

(* When the page says that the person has joined and goes to the dashboard *)
(* the server has a member for the address, whichever answers were lost.   *)
WelcomeIsTrue ==
  accept.at = "accepted" \/ invited.at = "success" => person = "member"
=============================================================================
