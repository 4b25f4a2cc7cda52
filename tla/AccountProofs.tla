--------------------------- MODULE AccountProofs ----------------------------
(***************************************************************************)
(* How people come in and go: sign-up, invitations and sessions, for any   *)
(* number of addresses and seats, and whichever calls fail.                *)
(***************************************************************************)
EXTENDS SignUp, InviteAccept, Sessions, TLAPS

-----------------------------------------------------------------------------
(***************************************************************************)
(* Sign-up. A step that is shown after others keeps what those have        *)
(* established (StepsFilled), and what is sent is what was shown           *)
(* (SentAsShown, CheckoutHeld), so that going back, changing and reloading *)
(* cannot make the server hold less than the page asked for.               *)
(***************************************************************************)
(* A step shown after others keeps what those have established: from the   *)
(* company on the address was found free, from the account on the company  *)
(* is named, from the plan on the person is, too.                          *)
FromPlanOn == SignUpStates \ {"email", "checkingEmail", "org", "account"}
StepsFilled ==
  /\ At("checkingEmail") => signup.email \in Emails
  /\ signup.at \in FromPlanOn \cup {"org", "account"} => signup.email \in freeSeen
  /\ signup.at \in FromPlanOn \cup {"account"} => signup.org = "text"
  /\ signup.at \in FromPlanOn => signup.account = "text"

(* The server answers the call under way.                                  *)
AnswersCall ==
  /\ reply # "none" => At("checkingEmail") \/ At("submitting") \/ At("submittingEnterprise")
  /\ At("submitting")           => reply \in {"none", "checkout", "refused"}
  /\ At("submittingEnterprise") => reply \in {"none", "received"}
FreeIsSeen == At("checkingEmail") /\ reply = "free" => signup.email \in freeSeen

(* What is sent is what the plan step showed, and is kept.                 *)
SentAsShown ==
  At("submitting") => signup.plan = signup.form.plan /\ signup.seats = signup.form.seats
CheckoutHeld ==
  At("redirectingToCheckout") \/ (At("submitting") /\ reply = "checkout") =>
    \E r \in pending : /\ r.email = signup.email
                       /\ r.plan = signup.form.plan /\ r.seats = signup.form.seats

WholeRequest(r) == r.org = "text" /\ r.account = "text" /\ r.email \in freeSeen
RequestsWhole   == \A r \in late \cup pending \cup contacts : WholeRequest(r)

SignUpInv ==
  /\ SignUpTypeOK /\ StepsFilled /\ AnswersCall /\ FreeIsSeen
  /\ SentAsShown /\ CheckoutHeld /\ RequestsWhole

LEMMA FormTypes ==
  /\ FirstForm \in [plan : Plans, seats : Seats] /\ 1 \in Seats /\ "STARTER" \in Plans
  /\ {"", "text"} \subseteq Texts
BY SignUpAssumption DEF FirstForm, Plans, Seats, Texts

WizardState == [at : SignUpStates, email : Emails \cup {NoEmail}, org : Texts,
                account : Texts, plan : Plans, seats : Seats,
                form : [plan : Plans, seats : Seats]]

LEMMA PlanShownType ==
  ASSUME signup \in WizardState, NEW w \in WizardState
  PROVE  PlanShown(w) \in WizardState
<1>1. [plan |-> signup.plan, seats |-> signup.seats] \in [plan : Plans, seats : Seats]
  BY DEF WizardState
<1> QED BY <1>1 DEF PlanShown, WizardState, SignUpStates

LEMMA SignUpInitInv == SignUpInit => SignUpInv
<1> SUFFICES ASSUME SignUpInit
             PROVE  SignUpInv
  OBVIOUS
<1>1. SignUpTypeOK
  BY SignUpAssumption, FormTypes
     DEF SignUpInit, SignUpTypeOK, EmptySignUp, SignUpStates, Replies
<1>2. StepsFilled /\ AnswersCall /\ FreeIsSeen /\ SentAsShown /\ CheckoutHeld
  BY DEF SignUpInit, EmptySignUp, StepsFilled, FromPlanOn, SignUpStates, AnswersCall,
         FreeIsSeen, SentAsShown, CheckoutHeld, At
<1>3. RequestsWhole
  BY DEF SignUpInit, RequestsWhole
<1> QED BY <1>1, <1>2, <1>3 DEF SignUpInv

-----------------------------------------------------------------------------
(* The user moves the wizard, or the wizard takes an answer.               *)
LEMMA EnterTyped ==
  ASSUME SignUpTypeOK, NEW w \in WizardState, Enter(w)
  PROVE  SignUpTypeOK'
BY DEF SignUpTypeOK, WizardState, Enter, backend

LEMMA TakesTyped ==
  ASSUME SignUpTypeOK, NEW w \in WizardState, Takes(w), late' \subseteq Registration
  PROVE  SignUpTypeOK'
BY DEF SignUpTypeOK, WizardState, Takes, backend, Replies

LEMMA SignUpTypeStep == SignUpInv /\ [SignUpNext]_signUpVars => SignUpTypeOK'
<1> SUFFICES ASSUME SignUpInv, [SignUpNext]_signUpVars
             PROVE  SignUpTypeOK'
  OBVIOUS
<1>t. SignUpTypeOK /\ signup \in WizardState
  BY DEF SignUpInv, SignUpTypeOK, WizardState
<1>c. At("submitting") \/ At("submittingEnterprise") => Collected \in Registration
  BY <1>t DEF SignUpInv, SignUpTypeOK, StepsFilled, FromPlanOn, SignUpStates, At, Collected,
     Registration
<1>s. \A s \in SignUpStates : [signup EXCEPT !.at = s] \in WizardState
  BY <1>t DEF WizardState
<1>l. GivenUp => late' \subseteq Registration
  BY <1>c, <1>t DEF GivenUp, SignUpTypeOK
<1>1. CASE SubmitEmail
  <2>1. PICK e \in Emails : Enter([signup EXCEPT !.at = "checkingEmail", !.email = e])
    BY <1>1 DEF SubmitEmail, EmailForm
  <2>2. [signup EXCEPT !.at = "checkingEmail", !.email = e] \in WizardState
    BY <1>t DEF WizardState, SignUpStates
  <2> QED BY <1>t, <2>1, <2>2, EnterTyped
<1>2. CASE SubmitOrg
  <2>1. PICK x \in Texts :
          Enter([signup EXCEPT !.org = x, !.at = IF x = "text" THEN "account" ELSE @])
    BY <1>2 DEF SubmitOrg, OrgForm
  <2>2. [signup EXCEPT !.org = x, !.at = IF x = "text" THEN "account" ELSE @] \in WizardState
    BY <1>t DEF WizardState, SignUpStates
  <2> QED BY <1>t, <2>1, <2>2, EnterTyped
<1>3. CASE SubmitAccount
  <2>1. PICK x \in Texts :
          LET filled == [signup EXCEPT !.account = x]
          IN  Enter(IF x = "text" THEN PlanShown(filled) ELSE filled)
    BY <1>3 DEF SubmitAccount, AccountForm
  <2> DEFINE filled == [signup EXCEPT !.account = x]
  <2>2. filled \in WizardState
    BY <1>t DEF WizardState
  <2>3. PlanShown(filled) \in WizardState
    BY <1>t, <2>2, PlanShownType
  <2> QED BY <1>t, <2>1, <2>2, <2>3, EnterTyped
<1>4. CASE Back
  <2>1. \/ \E s \in SignUpStates : Enter([signup EXCEPT !.at = s])
        \/ Enter([signup EXCEPT !.at = "account", !.form = FirstForm])
    BY <1>4 DEF Back, SignUpStates
  <2>2. [signup EXCEPT !.at = "account", !.form = FirstForm] \in WizardState
    BY <1>t, FormTypes DEF WizardState, SignUpStates
  <2> QED BY <1>t, <1>s, <2>1, <2>2, EnterTyped
<1>5. CASE SelectPlan
  <2>1. PICK p \in Plans : Enter([signup EXCEPT !.form.plan = p])
    BY <1>5 DEF SelectPlan
  <2>2. [signup EXCEPT !.form.plan = p] \in WizardState
    BY <1>t DEF WizardState
  <2> QED BY <1>t, <2>1, <2>2, EnterTyped
<1>6. CASE ChangeSeats
  <2>1. PICK n \in Seats : Enter([signup EXCEPT !.form.seats = n])
    BY <1>6 DEF ChangeSeats
  <2>2. [signup EXCEPT !.form.seats = n] \in WizardState
    BY <1>t DEF WizardState
  <2> QED BY <1>t, <2>1, <2>2, EnterTyped
<1>7. CASE SubmitPlan
  <2> DEFINE w == [signup EXCEPT !.plan = signup.form.plan, !.seats = signup.form.seats,
                                 !.at = "submitting"]
  <2>1. w \in WizardState
    BY <1>t DEF WizardState, SignUpStates
  <2> QED BY <1>t, <1>7, <2>1, EnterTyped DEF SubmitPlan
<1>8. CASE SelectEnterprise
  <2>1. [signup EXCEPT !.at = "enterpriseContact", !.form = FirstForm] \in WizardState
    BY <1>t, FormTypes DEF WizardState, SignUpStates
  <2> QED BY <1>t, <1>8, <2>1, EnterTyped DEF SelectEnterprise
<1>9. CASE CancelEnterprise
  BY <1>t, <1>9, PlanShownType, EnterTyped DEF CancelEnterprise
<1>10. CASE SubmitEnterprise
  BY <1>t, <1>s, <1>10, EnterTyped DEF SubmitEnterprise, SignUpStates
<1>11. CASE CheckEmailExists
  <2>1. signup.email \in Emails
    BY <1>11 DEF CheckEmailExists, SignUpInv, StepsFilled
  <2> QED BY <1>t, <1>11, <2>1 DEF CheckEmailExists, backend, Replies, SignUpTypeOK
<1>12. CASE Register
  BY <1>t, <1>c, <1>12 DEF Register, RegisterOnServer, Replies, SignUpTypeOK
<1>13. CASE LateRegister
  BY <1>t, <1>13 DEF LateRegister, RegisterOnServer, SignUpTypeOK
<1>14. CASE EnterpriseContact
  <2>1. [email |-> signup.email, org |-> signup.org, account |-> signup.account] \in Contact
    BY <1>c, <1>14 DEF EnterpriseContact, Collected, Registration, Contact
  <2> QED BY <1>t, <1>14, <2>1 DEF EnterpriseContact, Replies, SignUpTypeOK
<1>15. CASE TakenElsewhere
  BY <1>t, <1>15 DEF TakenElsewhere, SignUpTypeOK
<1>16. CASE EmailChecked
  <2>1. PICK s \in SignUpStates : Takes([signup EXCEPT !.at = s]) /\ UNCHANGED late
    BY <1>16 DEF EmailChecked, SignUpStates
  <2> QED BY <1>t, <1>s, <2>1, TakesTyped DEF SignUpTypeOK
<1>17. CASE Registered
  <2>1. PICK w \in {[signup EXCEPT !.at = "redirectingToCheckout"], PlanShown(signup)} :
          Takes(w) /\ UNCHANGED late
    BY <1>17 DEF Registered
  <2>2. w \in WizardState
    BY <1>t, <1>s, PlanShownType DEF SignUpStates
  <2> QED BY <1>t, <2>1, <2>2, TakesTyped DEF SignUpTypeOK
<1>18. CASE EnterpriseSubmitted
  <2>1. [signup EXCEPT !.at = "enterpriseSuccess"] \in WizardState
    BY <1>s DEF SignUpStates
  <2> QED BY <1>t, <1>18, <2>1, TakesTyped DEF EnterpriseSubmitted, SignUpTypeOK
<1>19. CASE CallFails
  <2>1. PICK w \in {[signup EXCEPT !.at = "email"], [signup EXCEPT !.at = "enterpriseContact"],
                    PlanShown(signup)} : Takes(w) /\ GivenUp
    BY <1>19 DEF CallFails
  <2>2. w \in WizardState
    BY <1>t, <1>s, PlanShownType DEF SignUpStates
  <2> QED BY <1>t, <1>l, <2>1, <2>2, TakesTyped
<1>20. CASE Reload
  <2>1. EmptySignUp \in WizardState
    BY FormTypes DEF EmptySignUp, WizardState, SignUpStates
  <2> QED BY <1>t, <1>l, <1>20, <2>1, TakesTyped DEF Reload
<1>21. CASE UNCHANGED signUpVars
  BY <1>t, <1>21 DEF signUpVars, SignUpTypeOK
<1> QED
  BY <1>1, <1>2, <1>3, <1>4, <1>5, <1>6, <1>7, <1>8, <1>9, <1>10, <1>11, <1>12,
     <1>13, <1>14, <1>15, <1>16, <1>17, <1>18, <1>19, <1>20, <1>21 DEF SignUpNext

(* What is sent is as it was while the user only moves the wizard, ...     *)
LEMMA EnterHolds ==
  ASSUME SignUpInv, NEW w, Enter(w), reply = "none", w.at # "redirectingToCheckout",
         w.at = "submitting" => w.plan = w.form.plan /\ w.seats = w.form.seats
  PROVE  AnswersCall' /\ FreeIsSeen' /\ SentAsShown' /\ CheckoutHeld' /\ RequestsWhole'
BY DEF SignUpInv, Enter, backend, At, AnswersCall, FreeIsSeen, SentAsShown, CheckoutHeld,
   RequestsWhole, WholeRequest

(* ... and when an answer is taken, or is no longer waited for.            *)
LEMMA TakesHolds ==
  ASSUME SignUpInv, NEW w, Takes(w), w.at \notin {"submitting", "redirectingToCheckout"},
         UNCHANGED late \/ GivenUp
  PROVE  AnswersCall' /\ FreeIsSeen' /\ SentAsShown' /\ CheckoutHeld' /\ RequestsWhole'
<1>1. At("submitting") => WholeRequest(Collected)
  BY DEF SignUpInv, At, StepsFilled, FromPlanOn, SignUpStates, Collected, WholeRequest
<1>2. UNCHANGED <<pending, contacts, freeSeen>> /\ signup' = w /\ reply' = "none"
  BY DEF Takes, backend
<1>3. RequestsWhole'
  BY <1>1, <1>2 DEF SignUpInv, GivenUp, RequestsWhole, WholeRequest
<1>4. AnswersCall' /\ FreeIsSeen' /\ SentAsShown' /\ CheckoutHeld'
  BY <1>2 DEF At, AnswersCall, FreeIsSeen, SentAsShown, CheckoutHeld
<1> QED BY <1>3, <1>4

LEMMA SignUpInvStep == SignUpInv /\ [SignUpNext]_signUpVars => SignUpInv'
<1> SUFFICES ASSUME SignUpInv, [SignUpNext]_signUpVars
             PROVE  SignUpInv'
  OBVIOUS
<1>t. SignUpTypeOK'
  BY SignUpTypeStep
<1>w. signup \in WizardState
  BY DEF SignUpInv, SignUpTypeOK, WizardState
<1>r. signup.at \notin {"checkingEmail", "submitting", "submittingEnterprise"} => reply = "none"
  BY DEF SignUpInv, AnswersCall, At
<1>c. At("submitting") \/ At("submittingEnterprise") => WholeRequest(Collected)
  BY DEF SignUpInv, At, StepsFilled, FromPlanOn, SignUpStates, Collected, WholeRequest
<1> USE DEF At
<1>1. CASE SubmitEmail
  <2>1. PICK e \in Emails : Enter([signup EXCEPT !.at = "checkingEmail", !.email = e])
    BY <1>1 DEF SubmitEmail, EmailForm
  <2>2. StepsFilled'
    BY <1>w, <2>1 DEF Enter, WizardState, StepsFilled, FromPlanOn
  <2> QED BY <1>t, <1>w, <1>r, <1>1, <2>1, <2>2, EnterHolds DEF SubmitEmail, WizardState, SignUpInv
<1>2. CASE SubmitOrg
  <2>1. PICK x \in Texts :
          Enter([signup EXCEPT !.org = x, !.at = IF x = "text" THEN "account" ELSE @])
    BY <1>2 DEF SubmitOrg, OrgForm
  <2>2. StepsFilled'
    BY <1>w, <1>2, <2>1
       DEF SubmitOrg, Enter, backend, WizardState, SignUpInv, StepsFilled, FromPlanOn
  <2> QED BY <1>t, <1>w, <1>r, <1>2, <2>1, <2>2, EnterHolds DEF SubmitOrg, WizardState, SignUpInv
<1>3. CASE SubmitAccount
  <2>1. PICK x \in Texts :
          LET filled == [signup EXCEPT !.account = x]
          IN  Enter(IF x = "text" THEN PlanShown(filled) ELSE filled)
    BY <1>3 DEF SubmitAccount, AccountForm
  <2> DEFINE filled == [signup EXCEPT !.account = x]
             w      == IF x = "text" THEN PlanShown(filled) ELSE filled
  <2>2. /\ w.at = (IF x = "text" THEN "plan" ELSE "account") /\ w.account = x
        /\ w.email = signup.email /\ w.org = signup.org
    BY <1>w, <1>3 DEF SubmitAccount, PlanShown, WizardState
  <2>3. Enter(w)
    BY <2>1
  <2> HIDE DEF w
  <2>4. StepsFilled'
    BY <1>3, <2>2, <2>3
       DEF SubmitAccount, Enter, backend, SignUpInv, StepsFilled, FromPlanOn
  <2> QED BY <1>t, <1>r, <1>3, <2>2, <2>3, <2>4, EnterHolds DEF SubmitAccount, SignUpInv
<1>4. CASE Back
  <2>1. PICK w \in {[signup EXCEPT !.at = "email"], [signup EXCEPT !.at = "org"],
                    [signup EXCEPT !.at = "account", !.form = FirstForm]} :
          /\ Enter(w)
          /\ \/ w.at = "email"
             \/ signup.at = "account" /\ w.at = "org"
             \/ signup.at = "plan" /\ w.at = "account"
    BY <1>w, <1>4 DEF Back, WizardState
  <2>2. StepsFilled'
    BY <1>w, <2>1 DEF Enter, backend, WizardState, SignUpInv, StepsFilled, FromPlanOn, SignUpStates
  <2> QED BY <1>t, <1>r, <1>4, <2>1, <2>2, EnterHolds DEF Back, SignUpInv
<1>5. CASE SelectPlan
  <2>1. PICK p \in Plans : Enter([signup EXCEPT !.form.plan = p])
    BY <1>5 DEF SelectPlan
  <2>2. StepsFilled'
    BY <1>w, <2>1 DEF Enter, backend, WizardState, SignUpInv, StepsFilled
  <2> QED BY <1>t, <1>w, <1>r, <1>5, <2>1, <2>2, EnterHolds DEF SelectPlan, WizardState, SignUpInv
<1>6. CASE ChangeSeats
  <2>1. PICK n \in Seats : Enter([signup EXCEPT !.form.seats = n])
    BY <1>6 DEF ChangeSeats
  <2>2. StepsFilled'
    BY <1>w, <2>1 DEF Enter, backend, WizardState, SignUpInv, StepsFilled
  <2> QED BY <1>t, <1>w, <1>r, <1>6, <2>1, <2>2, EnterHolds DEF ChangeSeats, WizardState, SignUpInv
<1>7. CASE SubmitPlan
  <2>1. StepsFilled'
    BY <1>w, <1>7
       DEF SubmitPlan, Enter, backend, WizardState, SignUpInv, StepsFilled, FromPlanOn, SignUpStates
  <2> QED BY <1>t, <1>w, <1>r, <1>7, <2>1, EnterHolds DEF SubmitPlan, WizardState, SignUpInv
<1>8. CASE SelectEnterprise
  <2>1. StepsFilled'
    BY <1>w, <1>8 DEF SelectEnterprise, Enter, backend, WizardState, SignUpInv, StepsFilled,
       FromPlanOn, SignUpStates
  <2> QED BY <1>t, <1>w, <1>r, <1>8, <2>1, EnterHolds DEF SelectEnterprise, WizardState, SignUpInv
<1>9. CASE CancelEnterprise
  <2>1. StepsFilled'
    BY <1>w, <1>9 DEF CancelEnterprise, PlanShown, Enter, backend, WizardState, SignUpInv,
       StepsFilled, FromPlanOn, SignUpStates
  <2> QED BY <1>t, <1>w, <1>r, <1>9, <2>1, EnterHolds
          DEF CancelEnterprise, PlanShown, WizardState, SignUpInv
<1>10. CASE SubmitEnterprise
  <2>1. StepsFilled'
    BY <1>w, <1>10 DEF SubmitEnterprise, Enter, backend, WizardState, SignUpInv, StepsFilled,
       FromPlanOn, SignUpStates
  <2> QED BY <1>t, <1>w, <1>r, <1>10, <2>1, EnterHolds DEF SubmitEnterprise, WizardState, SignUpInv
<1>11. CASE CheckEmailExists
  <2>1. UNCHANGED signup /\ signup.at = "checkingEmail" /\ freeSeen \subseteq freeSeen'
    BY <1>11 DEF CheckEmailExists
  <2>2. StepsFilled' /\ AnswersCall' /\ SentAsShown' /\ CheckoutHeld'
    BY <2>1 DEF SignUpInv, StepsFilled, FromPlanOn, AnswersCall, SentAsShown, CheckoutHeld
  <2>3. FreeIsSeen' /\ RequestsWhole'
    BY <1>11 DEF CheckEmailExists, backend, SignUpInv, FreeIsSeen, RequestsWhole, WholeRequest
  <2> QED BY <1>t, <2>2, <2>3 DEF SignUpInv
<1>12. CASE Register
  <2>1. /\ UNCHANGED <<signup, late, taken, contacts, freeSeen>> /\ signup.at = "submitting"
        /\ reply' = IF Held(signup.email) THEN "refused" ELSE "checkout"
        /\ pending' = IF Held(signup.email) THEN pending ELSE pending \cup {Collected}
    BY <1>12 DEF Register, RegisterOnServer, Collected
  <2>2. StepsFilled' /\ AnswersCall' /\ FreeIsSeen' /\ SentAsShown'
    BY <2>1 DEF SignUpInv, StepsFilled, AnswersCall, FreeIsSeen, SentAsShown
  <2>3. CheckoutHeld'
    <3>1. CASE Held(signup.email)
      BY <2>1, <3>1 DEF CheckoutHeld
    <3>2. CASE ~ Held(signup.email)
      <4>1. /\ Collected \in pending' /\ Collected.email = signup.email
            /\ Collected.plan = signup.form.plan /\ Collected.seats = signup.form.seats
        BY <2>1, <3>2 DEF Collected, SignUpInv, SentAsShown
      <4> QED BY <2>1, <4>1 DEF CheckoutHeld
    <3> QED BY <3>1, <3>2
  <2>4. RequestsWhole'
    BY <1>c, <2>1 DEF SignUpInv, RequestsWhole, WholeRequest
  <2> QED BY <1>t, <2>2, <2>3, <2>4 DEF SignUpInv
<1>13. CASE LateRegister
  <2>1. PICK r \in late : /\ pending \subseteq pending' /\ pending' \subseteq pending \cup {r}
                          /\ late' \subseteq late /\ UNCHANGED <<signup, reply, contacts, freeSeen>>
    BY <1>13 DEF LateRegister, RegisterOnServer
  <2>2. StepsFilled' /\ AnswersCall' /\ FreeIsSeen' /\ SentAsShown' /\ CheckoutHeld'
    BY <2>1 DEF SignUpInv, StepsFilled, AnswersCall, FreeIsSeen, SentAsShown, CheckoutHeld
  <2>3. RequestsWhole'
    BY <2>1 DEF SignUpInv, RequestsWhole, WholeRequest
  <2> QED BY <1>t, <2>2, <2>3 DEF SignUpInv
<1>14. CASE EnterpriseContact
  <2>1. /\ UNCHANGED <<signup, late, pending, freeSeen>> /\ signup.at = "submittingEnterprise"
        /\ reply' = "received"
        /\ contacts' = contacts \cup
             {[email |-> signup.email, org |-> signup.org, account |-> signup.account]}
    BY <1>14 DEF EnterpriseContact
  <2>2. StepsFilled' /\ AnswersCall' /\ FreeIsSeen' /\ SentAsShown' /\ CheckoutHeld'
    BY <2>1 DEF SignUpInv, StepsFilled, AnswersCall, FreeIsSeen, SentAsShown, CheckoutHeld
  <2>3. RequestsWhole'
    BY <1>c, <2>1 DEF Collected, SignUpInv, RequestsWhole, WholeRequest
  <2> QED BY <1>t, <2>2, <2>3 DEF SignUpInv
<1>15. CASE TakenElsewhere
  BY <1>t, <1>15 DEF TakenElsewhere, SignUpInv, StepsFilled, AnswersCall, FreeIsSeen, SentAsShown,
     CheckoutHeld, RequestsWhole, WholeRequest
<1>16. CASE EmailChecked
  <2>1. StepsFilled'
    BY <1>w, <1>16 DEF EmailChecked, Takes, WizardState, SignUpInv, StepsFilled, FromPlanOn,
       AnswersCall, Replies, SignUpTypeOK, FreeIsSeen
  <2> QED BY <1>t, <1>w, <1>16, <2>1, TakesHolds DEF EmailChecked, WizardState, SignUpInv
<1>17. CASE Registered
  <2>1. signup.at = "submitting" /\ UNCHANGED late
    BY <1>17 DEF Registered
  <2>2. CASE reply = "checkout"
    <3>1. /\ signup' = [signup EXCEPT !.at = "redirectingToCheckout"] /\ reply' = "none"
          /\ UNCHANGED <<taken, pending, contacts, freeSeen>>
      BY <1>17, <2>2 DEF Registered, Takes, backend
    <3>2. StepsFilled' /\ AnswersCall' /\ FreeIsSeen' /\ SentAsShown'
      BY <1>w, <2>1, <3>1 DEF WizardState, SignUpInv, StepsFilled, FromPlanOn, SignUpStates,
         AnswersCall, FreeIsSeen, SentAsShown
    <3>3. CheckoutHeld' /\ RequestsWhole'
      BY <1>w, <2>1, <2>2, <3>1
         DEF WizardState, SignUpInv, CheckoutHeld, RequestsWhole, WholeRequest
    <3> QED BY <1>t, <3>2, <3>3 DEF SignUpInv
  <2>3. CASE reply # "checkout"
    <3>1. Takes(PlanShown(signup))
      BY <1>17, <2>3 DEF Registered
    <3>2. PlanShown(signup).at = "plan" /\ StepsFilled'
      BY <1>w, <2>1, <3>1 DEF Takes, PlanShown, WizardState, SignUpInv, StepsFilled, FromPlanOn,
         SignUpStates
    <3> QED BY <1>t, <2>1, <3>1, <3>2, TakesHolds DEF SignUpInv
  <2> QED BY <2>2, <2>3
<1>18. CASE EnterpriseSubmitted
  <2>1. StepsFilled'
    BY <1>w, <1>18 DEF EnterpriseSubmitted, Takes, WizardState, SignUpInv, StepsFilled, FromPlanOn,
       SignUpStates
  <2> QED BY <1>t, <1>w, <1>18, <2>1, TakesHolds DEF EnterpriseSubmitted, WizardState, SignUpInv
<1>19. CASE CallFails
  <2>1. PICK w \in {[signup EXCEPT !.at = "email"], [signup EXCEPT !.at = "enterpriseContact"],
                    PlanShown(signup)} :
          /\ Takes(w) /\ GivenUp
          /\ \/ w.at = "email"
             \/ /\ signup.at \in {"submitting", "submittingEnterprise"}
                /\ w.at \in {"enterpriseContact", "plan"}
    BY <1>w, <1>19 DEF CallFails, PlanShown, WizardState
  <2>2. w.email = signup.email /\ w.org = signup.org /\ w.account = signup.account
    BY <1>w DEF PlanShown, WizardState
  <2>3. StepsFilled'
    BY <2>1, <2>2 DEF Takes, SignUpInv, StepsFilled, FromPlanOn, SignUpStates
  <2> QED BY <1>t, <2>1, <2>3, TakesHolds DEF SignUpInv
<1>20. CASE Reload
  <2>1. EmptySignUp.at = "email" /\ StepsFilled'
    BY <1>20 DEF Reload, EmptySignUp, Takes, StepsFilled, FromPlanOn
  <2> QED BY <1>t, <1>20, <2>1, TakesHolds DEF Reload, SignUpInv
<1>21. CASE UNCHANGED signUpVars
  BY <1>t, <1>21 DEF signUpVars, SignUpInv, StepsFilled, AnswersCall, FreeIsSeen, SentAsShown,
     CheckoutHeld, RequestsWhole, WholeRequest
<1> QED
  BY <1>1, <1>2, <1>3, <1>4, <1>5, <1>6, <1>7, <1>8, <1>9, <1>10, <1>11, <1>12,
     <1>13, <1>14, <1>15, <1>16, <1>17, <1>18, <1>19, <1>20, <1>21 DEF SignUpNext

LEMMA SignUpInvariant == SignUpSpec => []SignUpInv
BY SignUpInitInv, SignUpInvStep, PTL DEF SignUpSpec

(* The machine of the sign-up and the server's tables keep their types.    *)
THEOREM SignUpTypeCorrect == SignUpSpec => []SignUpTypeOK
<1>1. SignUpInv => SignUpTypeOK
  BY DEF SignUpInv
<1> QED BY <1>1, SignUpInvariant, PTL

(* The server receives a registration or an enterprise contact only with a *)
(* company and a name that are not blank, and for an address that some     *)
(* check has found free.                                                   *)
THEOREM RegistrationsWhole == SignUpSpec => []ReceivedComplete
<1>1. SignUpInv => ReceivedComplete
  BY DEF SignUpInv, RequestsWhole, WholeRequest, ReceivedComplete
<1> QED BY <1>1, SignUpInvariant, PTL

(* The browser leaves for the checkout only when the server holds the      *)
(* registration with the plan and the seats that were shown.               *)
THEOREM CheckoutIsAsShown == SignUpSpec => []CheckoutAsShown
<1>1. SignUpInv => CheckoutAsShown
  BY DEF SignUpInv, CheckoutHeld, CheckoutAsShown
<1> QED BY <1>1, SignUpInvariant, PTL
-----------------------------------------------------------------------------
(***************************************************************************)
(* Invitations. The two machines, of a user that accepts and of one that   *)
(* registers, may both be loaded; what they have in common is the server,  *)
(* and there a registration has a member (JoinedIsMember).                 *)
(***************************************************************************)
(* Once the server has made a user of the registration, or has saved the   *)
(* one that accepts, there is a member; and only the invited person's      *)
(* request is let through.                                                 *)
JoinedIsMember ==
  /\ joining \in {"created", "granted"} => person = "member"
  /\ admitting.stage = "checked" => admitting.by = "invitee"
  /\ admitting.stage \in {"saved", "granted"} => person = "member"

InviteInv == InviteTypeOK /\ OnlyInviteeJoins /\ WelcomeIsTrue /\ JoinedIsMember

(* The two machines, and what their steps make of them.                    *)
AcceptMachine  == [at : AcceptStates, retries : 0..MaxRetryCount, retryable : BOOLEAN]
InvitedMachine == [at : InvitedStates, retries : 0..MaxRetryCount,
                   retryable : BOOLEAN, filled : BOOLEAN]

InviteRestTyped ==
  /\ invitation \in InvitationStatus /\ roster \in InvitationStatus
  /\ person \in Persons /\ strangerIn \in BOOLEAN /\ session \in Sessions
  /\ joining \in JoinStages
  /\ admitting \in [stage : AdmitStages, by : Sessions] /\ revoking \in BOOLEAN
  /\ place \in {"invite", "login", "dashboard"}
  /\ trouble \in 0..MaxTrouble

LEMMA IdleMachines == IdleAccept \in AcceptMachine /\ IdleInvited \in InvitedMachine
BY RetryAssumption
   DEF IdleAccept, IdleInvited, AcceptMachine, InvitedMachine, AcceptStates, InvitedStates

LEMMA AcceptMoves ==
  ASSUME NEW a \in AcceptMachine, NEW s \in AcceptStates, NEW b \in BOOLEAN
  PROVE  /\ [a EXCEPT !.at = s] \in AcceptMachine
         /\ [a EXCEPT !.at = s, !.retryable = b] \in AcceptMachine
         /\ a.retries < MaxRetryCount =>
              [a EXCEPT !.at = s, !.retries = @ + 1, !.retryable = b] \in AcceptMachine
<1>1. a.retries < MaxRetryCount => a.retries + 1 \in 0..MaxRetryCount
  BY RetryAssumption DEF AcceptMachine
<1> QED BY <1>1 DEF AcceptMachine

LEMMA InvitedMoves ==
  ASSUME NEW i \in InvitedMachine, NEW s \in InvitedStates, NEW b \in BOOLEAN
  PROVE  /\ [i EXCEPT !.at = s] \in InvitedMachine
         /\ [i EXCEPT !.at = s, !.retryable = b] \in InvitedMachine
         /\ [i EXCEPT !.filled = b] \in InvitedMachine
         /\ i.retries < MaxRetryCount =>
              [i EXCEPT !.at = s, !.retries = @ + 1, !.retryable = b] \in InvitedMachine
<1>1. i.retries < MaxRetryCount => i.retries + 1 \in 0..MaxRetryCount
  BY RetryAssumption DEF InvitedMachine
<1> QED BY <1>1 DEF InvitedMachine

LEMMA InviteInitInv == InviteInit => InviteInv
<1> SUFFICES ASSUME InviteInit
             PROVE  InviteInv
  OBVIOUS
<1>1. InviteTypeOK
  <2>1. accept \in AcceptMachine /\ invited \in InvitedMachine
    BY IdleMachines DEF InviteInit
  <2>2. InviteRestTyped
    <3>1. strangerIn \in BOOLEAN /\ session \in Sessions /\ person \in Persons
      BY Zenon DEF InviteInit, Sessions, Persons
    <3>2. trouble \in 0..MaxTrouble
      BY RetryAssumption DEF InviteInit
    <3>3. admitting \in [stage : AdmitStages, by : Sessions]
      BY DEF InviteInit, NoAdmission, AdmitStages, Sessions
    <3> QED BY <3>1, <3>2, <3>3 DEF InviteInit, InviteRestTyped, InvitationStatus, JoinStages
  <2> QED BY <2>1, <2>2 DEF InviteTypeOK, InviteRestTyped, AcceptMachine, InvitedMachine
<1>2. OnlyInviteeJoins /\ WelcomeIsTrue /\ JoinedIsMember
  BY DEF InviteInit, OnlyInviteeJoins, WelcomeIsTrue, JoinedIsMember, IdleAccept, IdleInvited,
     NoAdmission
<1> QED BY <1>1, <1>2 DEF InviteInv

(* The parts of the state that are typed apart from the two machines.      *)
LEMMA InviteTyped ==
  ASSUME InviteTypeOK
  PROVE  accept \in AcceptMachine /\ invited \in InvitedMachine /\ InviteRestTyped
BY DEF InviteTypeOK, AcceptMachine, InvitedMachine, InviteRestTyped

LEMMA InviteParts ==
  ASSUME accept' \in AcceptMachine, invited' \in InvitedMachine, InviteRestTyped'
  PROVE  InviteTypeOK'
BY DEF InviteTypeOK, AcceptMachine, InvitedMachine, InviteRestTyped

(* One machine moves, alone.                                               *)
LEMMA MachineMoves ==
  ASSUME InviteTypeOK, NoTrouble \/ Trouble,
         \/ \E a \in AcceptMachine : Accept(a)
         \/ \E i \in InvitedMachine : Invited(i)
  PROVE  InviteTypeOK'
<1>1. InviteRestTyped'
  BY InviteTyped, RetryAssumption
     DEF Accept, Invited, inviteServer, NoTrouble, Trouble, InviteRestTyped
<1> QED BY <1>1, InviteTyped, InviteParts DEF Accept, Invited

(* The machines stay, the rest changes.                                    *)
LEMMA RestMoves ==
  ASSUME InviteTypeOK, UNCHANGED <<accept, invited>>, InviteRestTyped'
  PROVE  InviteTypeOK'
BY InviteTyped, InviteParts

LEMMA InviteTypeStep == InviteTypeOK /\ [InviteNext]_inviteVars => InviteTypeOK'
<1> SUFFICES ASSUME InviteTypeOK, [InviteNext]_inviteVars
             PROVE  InviteTypeOK'
  OBVIOUS
<1>m. accept \in AcceptMachine /\ invited \in InvitedMachine /\ InviteRestTyped
  BY InviteTyped
<1> USE RetryAssumption
<1>a. \A s \in AcceptStates, b \in BOOLEAN :
        /\ [accept EXCEPT !.at = s] \in AcceptMachine
        /\ [accept EXCEPT !.at = s, !.retryable = b] \in AcceptMachine
  BY <1>m, AcceptMoves
<1>i. \A s \in InvitedStates, b \in BOOLEAN :
        /\ [invited EXCEPT !.at = s] \in InvitedMachine
        /\ [invited EXCEPT !.at = s, !.retryable = b] \in InvitedMachine
  BY <1>m, InvitedMoves
<1>1. CASE StartAccept
  <2>1. [IdleAccept EXCEPT !.at = "fetchingInvitation"] \in AcceptMachine
    BY IdleMachines, AcceptMoves DEF AcceptStates
  <2> QED BY <1>1, <2>1, MachineMoves DEF StartAccept
<1>2. CASE FetchInvitation
  <2>1. /\ [accept EXCEPT !.at = "checkingSession"] \in AcceptMachine
        /\ [accept EXCEPT !.at = "error", !.retryable = TRUE] \in AcceptMachine
    BY <1>a DEF AcceptStates
  <2> QED BY <1>2, <2>1, MachineMoves DEF FetchInvitation, UnlessRefused
<1>3. CASE CheckSession
  <2>1. PICK s \in {"authenticated", "emailMismatch", "needsAuth"} :
          Accept([accept EXCEPT !.at = s]) /\ (NoTrouble \/ Trouble)
    BY <1>3, <1>m DEF CheckSession, InviteRestTyped, Sessions
  <2> QED BY <1>a, <1>3, <2>1, MachineMoves DEF CheckSession, AcceptStates
<1>4. CASE GoToLogin
  <2>1. accept' \in AcceptMachine /\ UNCHANGED invited
    BY <1>a, <1>4 DEF GoToLogin, AcceptStates
  <2>2. InviteRestTyped'
    BY <1>m, <1>4 DEF GoToLogin, inviteServer, InviteRestTyped
  <2> QED BY <1>m, <2>1, <2>2, InviteParts
<1>g. \A st \in AdmitStages : Admitting(st) =>
        /\ admitting' \in [stage : AdmitStages, by : Sessions]
        /\ UNCHANGED <<joining, revoking, session, accept, invited, place, roster>>
  BY <1>m DEF Admitting, InviteRestTyped
<1>5. CASE AcceptClicked
  <2>1. accept' \in AcceptMachine /\ UNCHANGED invited
    BY <1>a, <1>5 DEF AcceptClicked, AcceptStates
  <2>2. admitting' \in [stage : AdmitStages, by : Sessions]
    BY <1>m, <1>5 DEF AcceptClicked, AdmitStages, InviteRestTyped
  <2>3. InviteRestTyped'
    BY <1>m, <1>5, <2>2 DEF AcceptClicked, InviteRestTyped
  <2> QED BY <1>m, <2>1, <2>3, InviteParts
<1>6. CASE CheckAdmission
  <2>1. \E st \in AdmitStages : Admitting(st)
    BY <1>6 DEF CheckAdmission, AdmitStages
  <2>2. trouble' \in 0..MaxTrouble
    BY <1>m, <1>6 DEF CheckAdmission, UnlessRefused, NoTrouble, Trouble, InviteRestTyped
  <2>3. InviteRestTyped'
    BY <1>m, <1>g, <1>6, <2>1, <2>2 DEF CheckAdmission, InviteRestTyped
  <2> QED BY <1>m, <1>g, <2>1, <2>3, RestMoves
<1>27. CASE AdmitUser
  <2>1. \E st \in AdmitStages : Admitting(st)
    BY <1>27 DEF AdmitUser, AdmitStages
  <2>2. trouble' \in 0..MaxTrouble /\ person' \in Persons
    BY <1>m, <1>27 DEF AdmitUser, NoTrouble, Trouble, InviteRestTyped, Persons
  <2>3. strangerIn' \in BOOLEAN
    BY <1>m, <1>27, Zenon DEF AdmitUser, InviteRestTyped
  <2>4. InviteRestTyped'
    BY <1>m, <1>g, <1>27, <2>1, <2>2, <2>3 DEF AdmitUser, InviteRestTyped
  <2> QED BY <1>m, <1>g, <2>1, <2>4, RestMoves
<1>28. CASE MarkAccepted
  <2>1. \E st \in AdmitStages : Admitting(st)
    BY <1>28 DEF MarkAccepted, AdmitStages
  <2>2. trouble' \in 0..MaxTrouble /\ invitation' \in InvitationStatus
    BY <1>m, <1>28 DEF MarkAccepted, NoTrouble, Trouble, InviteRestTyped, InvitationStatus
  <2>3. InviteRestTyped'
    BY <1>m, <1>g, <1>28, <2>1, <2>2 DEF MarkAccepted, InviteRestTyped
  <2> QED BY <1>m, <1>g, <2>1, <2>3, RestMoves
<1>n. NoAdmission \in [stage : AdmitStages, by : Sessions]
  BY DEF NoAdmission, AdmitStages, Sessions
<1>29. CASE AcceptAnswered
  <2>1. accept' \in {[accept EXCEPT !.at = "accepted"],
                     [accept EXCEPT !.at = "error", !.retryable = TRUE],
                     [accept EXCEPT !.at = "error", !.retryable = FALSE]}
    BY <1>29 DEF AcceptAnswered
  <2>2. accept' \in AcceptMachine /\ UNCHANGED invited
    BY <1>a, <1>29, <2>1 DEF AcceptStates, AcceptAnswered
  <2>3. InviteRestTyped'
    BY <1>m, <1>n, <1>29 DEF AcceptAnswered, InviteRestTyped
  <2> QED BY <1>m, <2>2, <2>3, InviteParts
<1>30. CASE AcceptLost
  BY <1>a, <1>30, MachineMoves DEF AcceptLost, AcceptStates
<1>31. CASE AcceptUnread
  BY <1>m, <1>n, <1>31, RestMoves DEF AcceptUnread, InviteRestTyped
<1>7. CASE RetryAccept
  <2>1. [accept EXCEPT !.at = "fetchingInvitation", !.retries = @ + 1, !.retryable = FALSE]
           \in AcceptMachine
    BY <1>m, <1>7, AcceptMoves DEF RetryAccept, AcceptStates
  <2> QED BY <1>7, <2>1, MachineMoves DEF RetryAccept
<1>8. CASE StartInvited
  <2>1. [IdleInvited EXCEPT !.at = "fetchingInvitation"] \in InvitedMachine
    BY IdleMachines, InvitedMoves DEF InvitedStates
  <2> QED BY <1>8, <2>1, MachineMoves DEF StartInvited
<1>9. CASE FetchForInvited
  <2>1. /\ [invited EXCEPT !.at = "collectingInfo"] \in InvitedMachine
        /\ [invited EXCEPT !.at = "error", !.retryable = TRUE] \in InvitedMachine
    BY <1>i DEF InvitedStates
  <2> QED BY <1>9, <2>1, MachineMoves DEF FetchForInvited, UnlessRefused
<1>10. CASE FillForm
  <2>1. [invited EXCEPT !.filled = ~ @] \in InvitedMachine
    BY <1>m, InvitedMoves DEF InvitedMachine
  <2> QED BY <1>10, <2>1, MachineMoves DEF FillForm
<1>11. CASE SubmitInvited
  <2>1. invited' \in InvitedMachine /\ UNCHANGED accept
    BY <1>i, <1>11 DEF SubmitInvited, InvitedStates
  <2>2. InviteRestTyped'
    BY <1>m, <1>11 DEF SubmitInvited, InviteRestTyped, JoinStages
  <2> QED BY <1>m, <2>1, <2>2, InviteParts
<1>12. CASE CreateIdentity
  BY <1>m, <1>12, RestMoves DEF CreateIdentity, Joining, UnlessRefused, NoTrouble, Trouble,
     InviteRestTyped, Persons, JoinStages
<1>13. CASE CreateUser
  BY <1>m, <1>13, RestMoves
     DEF CreateUser, Joining, NoTrouble, Trouble, InviteRestTyped, Persons, JoinStages
<1>14. CASE FinishJoining
  BY <1>m, <1>14, RestMoves
     DEF FinishJoining, Joining, NoTrouble, Trouble, InviteRestTyped, InvitationStatus, JoinStages
<1>15. CASE RegisterAnswered
  <2>1. invited' \in InvitedMachine /\ UNCHANGED accept
    BY <1>i, <1>15 DEF RegisterAnswered, InvitedStates
  <2>2. InviteRestTyped'
    BY <1>m, <1>15 DEF RegisterAnswered, InviteRestTyped, Sessions, JoinStages
  <2> QED BY <1>m, <2>1, <2>2, InviteParts
<1>16. CASE RegisterLost
  BY <1>i, <1>16, MachineMoves DEF RegisterLost, InvitedStates
<1>17. CASE AnswerUnread
  BY <1>m, <1>17, RestMoves DEF AnswerUnread, InviteRestTyped, JoinStages
<1>18. CASE RetryInvited
  <2>1. [invited EXCEPT !.at = "fetchingInvitation", !.retries = @ + 1, !.retryable = FALSE]
           \in InvitedMachine
    BY <1>m, <1>18, InvitedMoves DEF RetryInvited, InvitedStates
  <2> QED BY <1>18, <2>1, MachineMoves DEF RetryInvited
<1>19. CASE LeaveForDashboard
  BY <1>m, <1>19, RestMoves DEF LeaveForDashboard, inviteServer, InviteRestTyped
<1>20. CASE LoginPage
  <2>1. accept' \in AcceptMachine /\ invited' \in InvitedMachine
    BY <1>20, IdleMachines DEF LoginPage
  <2>2. InviteRestTyped'
    BY <1>m, <1>20 DEF LoginPage, inviteServer, InviteRestTyped, Sessions
  <2> QED BY <2>1, <2>2, InviteParts
<1>21. CASE OpenLink
  <2>1. accept' \in AcceptMachine /\ invited' \in InvitedMachine
    BY <1>21, IdleMachines DEF OpenLink
  <2>2. InviteRestTyped'
    BY <1>m, <1>21 DEF OpenLink, Trouble, inviteServer, InviteRestTyped
  <2> QED BY <2>1, <2>2, InviteParts
<1>22. CASE SessionChanges
  BY <1>m, <1>22, RestMoves DEF SessionChanges, Trouble, inviteServer, InviteRestTyped, Sessions
<1>23. CASE RevokeInvitation
  <2>1. revoking' \in BOOLEAN
    BY <1>23, Zenon DEF RevokeInvitation
  <2> QED
    BY <1>m, <1>23, <2>1, RestMoves DEF RevokeInvitation, RosterSteps, Trouble, InviteRestTyped
<1>32. CASE MarkRevoked
  BY <1>m, <1>32, RestMoves DEF MarkRevoked, RosterSteps, InviteRestTyped, InvitationStatus
<1>24. CASE ListInvitations
  BY <1>m, <1>24, RestMoves
     DEF ListInvitations, Listed, inviteServer, InviteRestTyped, InvitationStatus
<1>25. CASE Expire
  BY <1>m, <1>25, RestMoves DEF Expire, RosterSteps, Trouble, InviteRestTyped, InvitationStatus
<1>26. CASE UNCHANGED inviteVars
  BY <1>m, <1>26, RestMoves DEF inviteVars, inviteServer, InviteRestTyped
<1> QED
  BY <1>1, <1>2, <1>3, <1>4, <1>5, <1>6, <1>7, <1>8, <1>9, <1>10, <1>11, <1>12,
     <1>13, <1>14, <1>15, <1>16, <1>17, <1>18, <1>19, <1>20, <1>21, <1>22,
     <1>23, <1>24, <1>25, <1>26, <1>27, <1>28, <1>29, <1>30, <1>31, <1>32 DEF InviteNext

(* Nothing is promised that was not promised before, and who is a member   *)
(* stays one.                                                              *)
LEMMA NoNewPromise ==
  ASSUME InviteInv, UNCHANGED strangerIn, person = "member" => UNCHANGED person,
         invitation' = "accepted" => UNCHANGED invitation,
         accept'.at = "accepted" => UNCHANGED accept,
         invited'.at = "success" => UNCHANGED invited,
         joining' \in {"created", "granted"} => joining \in {"created", "granted"},
         admitting'.stage \in {"checked", "saved", "granted"} => UNCHANGED admitting
  PROVE  OnlyInviteeJoins' /\ WelcomeIsTrue' /\ JoinedIsMember'
BY DEF InviteInv, OnlyInviteeJoins, WelcomeIsTrue, JoinedIsMember

(* A machine that moves alone to a step that promises nothing.             *)
LEMMA MachinePromisesNothing ==
  ASSUME InviteInv,
         \/ \E a : a.at # "accepted" /\ Accept(a)
         \/ \E i : i.at # "success" /\ Invited(i)
  PROVE  OnlyInviteeJoins' /\ WelcomeIsTrue' /\ JoinedIsMember'
BY NoNewPromise DEF Accept, Invited, inviteServer

LEMMA InviteInvStep == InviteInv /\ [InviteNext]_inviteVars => InviteInv'
<1> SUFFICES ASSUME InviteInv, [InviteNext]_inviteVars
             PROVE  InviteInv'
  OBVIOUS
<1>t. InviteTypeOK'
  BY InviteTypeStep DEF InviteInv
<1>m. accept \in AcceptMachine /\ invited \in InvitedMachine
  BY InviteTyped DEF InviteInv
<1>q. SUFFICES OnlyInviteeJoins' /\ WelcomeIsTrue' /\ JoinedIsMember'
  BY <1>t DEF InviteInv
<1>1. CASE StartAccept
  <2>1. [IdleAccept EXCEPT !.at = "fetchingInvitation"].at # "accepted"
    BY DEF IdleAccept
  <2> QED BY <1>1, <2>1, MachinePromisesNothing DEF StartAccept
<1>2. CASE FetchInvitation
  <2>1. /\ [accept EXCEPT !.at = "checkingSession"].at # "accepted"
        /\ [accept EXCEPT !.at = "error", !.retryable = TRUE].at # "accepted"
    BY <1>m DEF AcceptMachine
  <2> QED BY <1>2, <2>1, MachinePromisesNothing DEF FetchInvitation
<1>3. CASE CheckSession
  <2>1. PICK s \in {"authenticated", "emailMismatch", "needsAuth"} :
          Accept([accept EXCEPT !.at = s])
    BY <1>3 DEF CheckSession, InviteInv, InviteTypeOK, Sessions
  <2>2. [accept EXCEPT !.at = s].at # "accepted"
    BY <1>m DEF AcceptMachine
  <2> QED BY <2>1, <2>2, MachinePromisesNothing
<1>4. CASE GoToLogin
  BY <1>m, <1>4, NoNewPromise DEF GoToLogin, inviteServer, AcceptMachine
<1>g. admitting \in [stage : AdmitStages, by : Sessions]
  BY DEF InviteInv, InviteTypeOK
<1>a. \A st : Admitting(st) =>
        /\ admitting'.stage = st /\ admitting'.by = admitting.by
        /\ UNCHANGED <<joining, accept, invited>>
  BY <1>g DEF Admitting
<1>5. CASE AcceptClicked
  BY <1>m, <1>5, NoNewPromise DEF AcceptClicked, AcceptMachine
<1>6. CASE CheckAdmission
  <2>1. CASE MayJoin /\ Admitting("checked")
    BY <1>a, <1>6, <2>1 DEF CheckAdmission, MayJoin, InviteInv, OnlyInviteeJoins,
       WelcomeIsTrue, JoinedIsMember
  <2>2. CASE Admitting("expired") \/ Admitting("refused")
    BY <1>a, <1>6, <2>2, NoNewPromise DEF CheckAdmission
  <2> QED BY <1>6, <2>1, <2>2 DEF CheckAdmission
<1>27. CASE AdmitUser
  <2>1. CASE Admitting("saved") /\ person' = "member"
    <3>1. UNCHANGED <<strangerIn, invitation>>
      BY <1>27, <2>1 DEF AdmitUser, InviteInv, InviteTypeOK, JoinedIsMember
    <3> QED
      BY <1>a, <2>1, <3>1 DEF InviteInv, OnlyInviteeJoins, WelcomeIsTrue, JoinedIsMember
  <2>2. CASE Admitting("refused") /\ UNCHANGED <<person, strangerIn>>
    BY <1>a, <1>27, <2>2, NoNewPromise DEF AdmitUser
  <2>3. admitting.by = "invitee"
    BY <1>27 DEF AdmitUser, InviteInv, JoinedIsMember
  <2> QED BY <1>27, <2>1, <2>2, <2>3 DEF AdmitUser
<1>28. CASE MarkAccepted
  <2>1. person = "member"
    BY <1>28 DEF MarkAccepted, InviteInv, JoinedIsMember
  <2> QED
    BY <1>a, <1>28, <2>1
       DEF MarkAccepted, InviteInv, OnlyInviteeJoins, WelcomeIsTrue, JoinedIsMember
<1>29. CASE AcceptAnswered
  <2>1. admitting.stage = "granted" => person = "member"
    BY DEF InviteInv, JoinedIsMember
  <2>2. accept'.at = "accepted" => admitting.stage = "granted"
    BY <1>m, <1>29 DEF AcceptAnswered, AcceptMachine
  <2> QED
    BY <1>29, <2>1, <2>2 DEF AcceptAnswered, NoAdmission, InviteInv, OnlyInviteeJoins,
       WelcomeIsTrue, JoinedIsMember
<1>30. CASE AcceptLost
  <2>1. [accept EXCEPT !.at = "error", !.retryable = TRUE].at # "accepted"
    BY <1>m DEF AcceptMachine
  <2> QED BY <1>30, <2>1, MachinePromisesNothing DEF AcceptLost
<1>31. CASE AcceptUnread
  BY <1>31, NoNewPromise DEF AcceptUnread, NoAdmission
<1>7. CASE RetryAccept
  <2>1. [accept EXCEPT !.at = "fetchingInvitation", !.retries = @ + 1,
                       !.retryable = FALSE].at # "accepted"
    BY <1>m DEF AcceptMachine
  <2> QED BY <1>7, <2>1, MachinePromisesNothing DEF RetryAccept
<1>8. CASE StartInvited
  <2>1. [IdleInvited EXCEPT !.at = "fetchingInvitation"].at # "success"
    BY DEF IdleInvited
  <2> QED BY <1>8, <2>1, MachinePromisesNothing DEF StartInvited
<1>9. CASE FetchForInvited
  <2>1. /\ [invited EXCEPT !.at = "collectingInfo"].at # "success"
        /\ [invited EXCEPT !.at = "error", !.retryable = TRUE].at # "success"
    BY <1>m DEF InvitedMachine
  <2> QED BY <1>9, <2>1, MachinePromisesNothing DEF FetchForInvited
<1>10. CASE FillForm
  <2>1. [invited EXCEPT !.filled = ~ @].at # "success"
    BY <1>m, <1>10 DEF FillForm, InvitedMachine
  <2> QED BY <1>10, <2>1, MachinePromisesNothing DEF FillForm
<1>11. CASE SubmitInvited
  BY <1>m, <1>11, NoNewPromise DEF SubmitInvited, InvitedMachine
<1>12. CASE CreateIdentity
  BY <1>12, NoNewPromise DEF CreateIdentity, Joining
<1>13. CASE CreateUser
  <2>1. CASE person' = "member"
    BY <1>13, <2>1
       DEF CreateUser, Joining, InviteInv, OnlyInviteeJoins, WelcomeIsTrue, JoinedIsMember
  <2>2. CASE UNCHANGED person /\ joining' = "refused"
    BY <1>13, <2>2, NoNewPromise DEF CreateUser, Joining
  <2> QED BY <1>13, <2>1, <2>2 DEF CreateUser, Joining
<1>14. CASE FinishJoining
  BY <1>14
     DEF FinishJoining, Joining, InviteInv, OnlyInviteeJoins, WelcomeIsTrue, JoinedIsMember
<1>15. CASE RegisterAnswered
  BY <1>m, <1>15 DEF RegisterAnswered, InviteInv, OnlyInviteeJoins, WelcomeIsTrue, JoinedIsMember,
     InvitedMachine
<1>16. CASE RegisterLost
  <2>1. [invited EXCEPT !.at = "collectingInfo"].at # "success"
    BY <1>m DEF InvitedMachine
  <2> QED BY <1>16, <2>1, MachinePromisesNothing DEF RegisterLost
<1>17. CASE AnswerUnread
  BY <1>17, NoNewPromise DEF AnswerUnread
<1>18. CASE RetryInvited
  <2>1. [invited EXCEPT !.at = "fetchingInvitation", !.retries = @ + 1,
                        !.retryable = FALSE].at # "success"
    BY <1>m DEF InvitedMachine
  <2> QED BY <1>18, <2>1, MachinePromisesNothing DEF RetryInvited
<1>19. CASE LeaveForDashboard
  BY <1>19, NoNewPromise DEF LeaveForDashboard, inviteServer
<1>20. CASE LoginPage
  BY <1>20, NoNewPromise DEF LoginPage, inviteServer, IdleAccept, IdleInvited
<1>21. CASE OpenLink
  BY <1>21, NoNewPromise DEF OpenLink, inviteServer, IdleAccept, IdleInvited
<1>22. CASE SessionChanges
  BY <1>22, NoNewPromise DEF SessionChanges, inviteServer
<1>23. CASE RevokeInvitation
  BY <1>23, NoNewPromise DEF RevokeInvitation, RosterSteps
<1>32. CASE MarkRevoked
  BY <1>32, NoNewPromise DEF MarkRevoked, RosterSteps
<1>24. CASE ListInvitations
  BY <1>24, NoNewPromise DEF ListInvitations, inviteServer
<1>25. CASE Expire
  BY <1>25, NoNewPromise DEF Expire, RosterSteps
<1>26. CASE UNCHANGED inviteVars
  BY <1>26, NoNewPromise DEF inviteVars, inviteServer
<1> QED
  BY <1>1, <1>2, <1>3, <1>4, <1>5, <1>6, <1>7, <1>8, <1>9, <1>10, <1>11, <1>12,
     <1>13, <1>14, <1>15, <1>16, <1>17, <1>18, <1>19, <1>20, <1>21, <1>22,
     <1>23, <1>24, <1>25, <1>26, <1>27, <1>28, <1>29, <1>30, <1>31, <1>32 DEF InviteNext

(* Type correctness of the page behind an invitation.                      *)
THEOREM InviteTypeCorrect == InviteSpec => []InviteTypeOK
<1>1. InviteInv => InviteTypeOK
  BY DEF InviteInv
<1> QED BY <1>1, InviteInitInv, InviteInvStep, PTL DEF InviteSpec

(* Nobody else joins through an invitation, and it counts as accepted only *)
(* when the person it names is a member, whichever calls fail.             *)
THEOREM InvitationForInvitee == InviteSpec => []OnlyInviteeJoins
<1>1. InviteInv => OnlyInviteeJoins
  BY DEF InviteInv
<1> QED BY <1>1, InviteInitInv, InviteInvStep, PTL DEF InviteSpec

(* The page welcomes nobody whom the server has not made a member.         *)
THEOREM WelcomesMembers == InviteSpec => []WelcomeIsTrue
<1>1. InviteInv => WelcomeIsTrue
  BY DEF InviteInv
<1> QED BY <1>1, InviteInitInv, InviteInvStep, PTL DEF InviteSpec
-----------------------------------------------------------------------------
(***************************************************************************)
(* Sessions. SignOutProgress says what a sign-out in which nothing failed  *)
(* has done by the time it goes on.                                        *)
(***************************************************************************)
(* A sign-out in which nothing failed has ended the session of Kratos by   *)
(* the time it clears the frontend's own cookie, and has cleared that when *)
(* it leaves the app.                                                      *)
SignOutProgress ==
  /\ LogoutAt("clearingSession") \/ LogoutAt("redirecting") =>
       (tab.signedOut = "clean" => browserSession # "live")
  /\ LogoutAt("redirecting") => tokenSession = "none"

SessionsInv == SessionsTypeOK /\ SignOutProgress /\ SignedOutStaysOut /\ ResetSignsOut

(* A page as it is when loaded.                                            *)
TabType == [at : SessionPages, flow : LoginFlows, login : LoginPages,
            retries : 0..MaxLoginRetries, logout : LogoutPages, user : BOOLEAN,
            signedOut : {"no", "clean", "failed"}]

LEMMA LoadedType ==
  ASSUME NEW p \in SessionPages
  PROVE  /\ Loaded(p) \in TabType
         /\ Loaded(p).at = p /\ Loaded(p).logout = "idle" /\ Loaded(p).signedOut = "no"
<1>1. 0 \in 0..MaxLoginRetries
  BY SessionsAssumption
<1>2. Loaded(p).at = p /\ Loaded(p).logout = "idle" /\ Loaded(p).signedOut = "no"
  BY DEF Loaded
<1> QED BY <1>1, <1>2 DEF Loaded, TabType, LoginFlows, LoginPages, LogoutPages

LEMMA TabMoves ==
  ASSUME NEW t \in TabType
  PROVE  /\ Failed(t) \in TabType
         /\ \A l \in LogoutPages : [t EXCEPT !.logout = l] \in TabType
         /\ t.retries < MaxLoginRetries =>
              [t EXCEPT !.login = "fetchingFlow", !.retries = @ + 1] \in TabType
<1>1. t.retries < MaxLoginRetries => t.retries + 1 \in 0..MaxLoginRetries
  BY SessionsAssumption DEF TabType
<1> QED BY <1>1 DEF Failed, TabType, LoginPages

(* Wherever the middleware sends a request.                                *)
LEMMA AdmittedTo ==
  ASSUME NEW p \in SessionPages, NEW known
  PROVE  Admitted(p, known) \in SessionPages /\ Admitted(p, known) \in {p, "login", "app"}
BY DEF Admitted, SessionPages, ProtectedRoutes

LEMMA SessionsInitInv == SessionsInit => SessionsInv
<1> SUFFICES ASSUME SessionsInit
             PROVE  SessionsInv
  OBVIOUS
<1>1. "landing" \in SessionPages
  BY DEF SessionPages
<1>2. tab \in TabType
  BY <1>1, LoadedType DEF SessionsInit
<1>3. SessionsTypeOK
  <2>1. mishaps \in 0..MaxMishaps
    BY SessionsAssumption DEF SessionsInit
  <2>2. recovering \in BOOLEAN
    BY Zenon DEF SessionsInit
  <2> QED BY <1>2, <2>1, <2>2 DEF SessionsInit, SessionsTypeOK, TabType, Cookie
<1>4. SignOutProgress /\ SignedOutStaysOut /\ ResetSignsOut
  BY <1>1, LoadedType DEF SessionsInit, SignOutProgress, SignedOutStaysOut, ResetSignsOut, LogoutAt
<1> QED BY <1>3, <1>4 DEF SessionsInv

(* The type invariant in parts, and what keeps each.                       *)
CookiesTyped  == browserSession \in Cookie /\ tokenSession \in Cookie
RecoveryTyped == recovering \in BOOLEAN /\ settingsFlow \in {"none", "recovered", "saved"}
MishapsTyped  == mishaps \in 0..MaxMishaps

LEMMA SessionsParts ==
  ASSUME tab' \in TabType, CookiesTyped', RecoveryTyped', MishapsTyped'
  PROVE  SessionsTypeOK'
BY DEF SessionsTypeOK, TabType, CookiesTyped, RecoveryTyped, MishapsTyped

LEMMA SessionsFrame ==
  ASSUME SessionsTypeOK
  PROVE  /\ UNCHANGED cookies => CookiesTyped'
         /\ UNCHANGED recoveryVars => RecoveryTyped'
         /\ NoMishap \/ Mishap \/ UNCHANGED mishaps => MishapsTyped'
<1>1. UNCHANGED cookies => CookiesTyped'
  BY DEF SessionsTypeOK, cookies, CookiesTyped
<1>2. UNCHANGED recoveryVars => RecoveryTyped'
  BY Zenon DEF SessionsTypeOK, recoveryVars, RecoveryTyped
<1>3. NoMishap \/ Mishap \/ UNCHANGED mishaps => MishapsTyped'
  BY SessionsAssumption DEF SessionsTypeOK, NoMishap, Mishap, MishapsTyped
<1> QED BY <1>1, <1>2, <1>3

(* The page shown changes, alone.                                          *)
LEMMA ShowTyped ==
  ASSUME SessionsTypeOK, NEW t \in TabType, Show(t), NoMishap \/ Mishap
  PROVE  SessionsTypeOK'
BY SessionsParts, SessionsFrame DEF Show

LEMMA SessionsTypeStep == SessionsTypeOK /\ [SessionsNext]_sessionVars => SessionsTypeOK'
<1> SUFFICES ASSUME SessionsTypeOK, [SessionsNext]_sessionVars
             PROVE  SessionsTypeOK'
  OBVIOUS
<1>p. SessionPages = {"app", "landing", "login", "recovery", "settings", "reset", "resetDone",
                      "resetError"}
  BY DEF SessionPages, ProtectedRoutes
<1>m. tab \in TabType
  BY DEF SessionsTypeOK, TabType
<1>l. /\ \A p \in SessionPages : Loaded(p) \in TabType
      /\ \A p \in SessionPages, known \in BOOLEAN : Loaded(Admitted(p, known)) \in TabType
  BY LoadedType, AdmittedTo
<1>k. KnownSession \in BOOLEAN /\ \A b, t : Known(b, t) \in BOOLEAN
  BY DEF KnownSession, Known
<1>f. [Loaded("login") EXCEPT !.flow = "fresh"] \in TabType
  BY <1>l, <1>p DEF TabType, LoginFlows
<1>t. /\ \A l \in LoginPages : [tab EXCEPT !.login = l] \in TabType
      /\ \A l \in LogoutPages : [tab EXCEPT !.logout = l] \in TabType
  BY <1>m DEF TabType
<1>c. \A b \in Cookie : browserSession' = b /\ UNCHANGED tokenSession => CookiesTyped'
  BY DEF SessionsTypeOK, CookiesTyped
<1>1. CASE Visit
  <2>1. tab' \in TabType
    BY <1>1, <1>p, <1>l, <1>k DEF Visit
  <2>2. RecoveryTyped'
    BY <1>1, Zenon DEF Visit, SessionsTypeOK, RecoveryTyped
  <2> QED BY <1>1, <2>1, <2>2, SessionsParts, SessionsFrame DEF Visit
<1>2. CASE CheckSessionOnMount
  <2>1. [tab EXCEPT !.user = TRUE] \in TabType
    BY <1>m DEF TabType
  <2> QED BY <1>2, <2>1, ShowTyped DEF CheckSessionOnMount
<1>3. CASE JoinByInvitation
  <2>1. tab' \in TabType /\ CookiesTyped'
    BY <1>3, <1>l, <1>p DEF JoinByInvitation, SessionsTypeOK, CookiesTyped, Cookie
  <2> QED BY <1>3, <2>1, SessionsParts, SessionsFrame DEF JoinByInvitation, recoveryVars
<1>4. CASE OpenSettings
  <2>1. tab' \in TabType
    BY <1>4, <1>l, <1>p DEF OpenSettings
  <2>2. RecoveryTyped'
    BY <1>4, Zenon DEF OpenSettings, SessionsTypeOK, RecoveryTyped
  <2> QED BY <1>4, <2>1, <2>2, SessionsParts, SessionsFrame DEF OpenSettings
<1>5. CASE SessionEnds
  <2>1. CookiesTyped'
    BY <1>5 DEF SessionEnds, SessionsTypeOK, CookiesTyped, Cookie
  <2> QED BY <1>5, <1>m, <2>1, SessionsParts, SessionsFrame DEF SessionEnds
<1>6. CASE StartLogin
  BY <1>6, <1>t, ShowTyped DEF StartLogin, Login, LoginPages
<1>7. CASE GetLoginFlow
  BY <1>7, <1>t, ShowTyped DEF GetLoginFlow, Login, LoginPages
<1>8. CASE RedirectToKratos
  BY <1>8, <1>l, <1>k, <1>f, <1>p, ShowTyped DEF RedirectToKratos, Login
<1>9. CASE RetryLogin
  BY <1>9, <1>m, TabMoves, ShowTyped DEF RetryLogin, Login
<1>10. CASE SubmitLogin
  <2>1. tab' \in TabType
    BY <1>10, <1>l, <1>k, <1>f, <1>p DEF SubmitLogin
  <2>2. CookiesTyped'
    BY <1>10 DEF SubmitLogin, SessionsTypeOK, CookiesTyped, Cookie
  <2> QED BY <1>10, <2>1, <2>2, SessionsParts, SessionsFrame DEF SubmitLogin
<1>11. CASE LoginFlowExpires
  <2>1. [tab EXCEPT !.flow = "expired"] \in TabType
    BY <1>m DEF TabType, LoginFlows
  <2> QED BY <1>11, <2>1, ShowTyped DEF LoginFlowExpires
<1>12. CASE StartLogout
  <2>1. [tab EXCEPT !.logout = "creatingLogoutFlow", !.signedOut = "clean"] \in TabType
    BY <1>m DEF TabType, LogoutPages
  <2> QED BY <1>12, <2>1, ShowTyped DEF StartLogout
<1>13. CASE CreateLogoutFlow
  BY <1>13, <1>t, TabMoves, ShowTyped DEF CreateLogoutFlow, LogoutPages
<1>14. CASE PerformLogout
  <2>1. tab' \in TabType
    BY <1>14, <1>t, TabMoves DEF PerformLogout, LogoutPages
  <2>2. CookiesTyped'
    BY <1>14, <1>c DEF PerformLogout, SessionsTypeOK, Cookie
  <2> QED BY <1>14, <2>1, <2>2, SessionsParts, SessionsFrame DEF PerformLogout
<1>15. CASE ClearLocalSession
  <2>1. tab' \in TabType /\ CookiesTyped'
    BY <1>15, <1>t DEF ClearLocalSession, LogoutPages, SessionsTypeOK, CookiesTyped, Cookie
  <2> QED BY <1>15, <2>1, SessionsParts, SessionsFrame DEF ClearLocalSession
<1>16. CASE LogoutRedirect
  <2>1. [Loaded("landing") EXCEPT !.signedOut = tab.signedOut] \in TabType
    BY <1>l, <1>p, <1>m DEF TabType
  <2> QED BY <1>16, <2>1, ShowTyped DEF LogoutRedirect
<1>17. CASE SubmitRecoveryCode
  <2>1. tab' \in TabType /\ CookiesTyped'
    BY <1>17, <1>l, <1>p, <1>c DEF SubmitRecoveryCode, Cookie
  <2>2. RecoveryTyped'
    BY <1>17, Zenon DEF SubmitRecoveryCode, SessionsTypeOK, RecoveryTyped
  <2> QED BY <1>17, <2>1, <2>2, SessionsParts, SessionsFrame DEF SubmitRecoveryCode
<1>18. CASE InitSettings
  <2>1. tab' \in TabType
    BY <1>18, <1>l, <1>k, <1>t, <1>p DEF InitSettings, LoginPages
  <2>2. RecoveryTyped'
    BY <1>18, Zenon DEF InitSettings, recoveryVars, SessionsTypeOK, RecoveryTyped
  <2> QED BY <1>18, <2>1, <2>2, SessionsParts, SessionsFrame DEF InitSettings
<1>19. CASE SaveSettings
  <2>1. tab' \in TabType
    BY <1>19, <1>l, <1>p DEF SaveSettings
  <2>2. RecoveryTyped'
    BY <1>19, Zenon DEF SaveSettings, SessionsTypeOK, RecoveryTyped
  <2> QED BY <1>19, <2>1, <2>2, SessionsParts, SessionsFrame DEF SaveSettings
<1>20. CASE BackToDashboard
  <2>1. tab' \in TabType
    BY <1>20, <1>l, <1>k, <1>p DEF BackToDashboard
  <2>2. RecoveryTyped'
    BY <1>20, Zenon DEF BackToDashboard, SessionsTypeOK, RecoveryTyped
  <2> QED BY <1>20, <2>1, <2>2, SessionsParts, SessionsFrame DEF BackToDashboard
<1>21. CASE SubmitNewPassword
  <2>1. tab' \in TabType
    BY <1>21, <1>l, <1>p DEF SubmitNewPassword
  <2>2. RecoveryTyped'
    BY <1>21, Zenon DEF SubmitNewPassword, SessionsTypeOK, RecoveryTyped
  <2> QED BY <1>21, <2>1, <2>2, SessionsParts, SessionsFrame DEF SubmitNewPassword
<1>22. CASE LeaveReset
  <2>1. tab' \in TabType
    BY <1>22, <1>l, <1>k, <1>p DEF LeaveReset
  <2>2. RecoveryTyped'
    BY <1>22, Zenon DEF LeaveReset, SessionsTypeOK, RecoveryTyped
  <2> QED BY <1>22, <2>1, <2>2, SessionsParts, SessionsFrame DEF LeaveReset
<1>23. CASE InitReset
  <2>1. tab' \in TabType
    BY <1>23, <1>l, <1>k, <1>t, <1>p DEF InitReset, LoginPages
  <2>2. CookiesTyped'
    BY <1>23, <1>c DEF InitReset, SessionsTypeOK, Cookie
  <2>3. RecoveryTyped'
    BY <1>23, Zenon DEF InitReset, recoveryVars, SessionsTypeOK, RecoveryTyped
  <2> QED BY <1>23, <2>1, <2>2, <2>3, SessionsParts, SessionsFrame DEF InitReset
<1>24. CASE UNCHANGED sessionVars
  BY <1>24, <1>m, SessionsParts, SessionsFrame DEF sessionVars, cookies, recoveryVars
<1> QED
  BY <1>1, <1>2, <1>3, <1>4, <1>5, <1>6, <1>7, <1>8, <1>9, <1>10, <1>11, <1>12,
     <1>13, <1>14, <1>15, <1>16, <1>17, <1>18, <1>19, <1>20, <1>21, <1>22,
     <1>23, <1>24 DEF SessionsNext

(* A page where no sign-out and no recovery ends, and none is near its     *)
(* end, promises nothing.                                                  *)
LEMMA PageElsewhere ==
  ASSUME tab'.at \notin {"landing", "resetDone"},
         tab'.at = "app" => tab'.logout \notin {"clearingSession", "redirecting"}
  PROVE  SignOutProgress' /\ SignedOutStaysOut' /\ ResetSignsOut'
BY DEF SignOutProgress, LogoutAt, SignedOutStaysOut, ResetSignsOut

(* Most steps lead to a page that is loaded anew.                          *)
LEMMA LoadedElsewhere ==
  ASSUME NEW p \in {"app", "login", "recovery", "settings", "reset", "resetError"},
         \/ tab' = Loaded(p) \/ tab' = [Loaded(p) EXCEPT !.flow = "fresh"]
         \/ \E known : tab' = Loaded(Admitted(p, known))
  PROVE  SignOutProgress' /\ SignedOutStaysOut' /\ ResetSignsOut'
<1>1. p \in SessionPages
  BY DEF SessionPages, ProtectedRoutes
<1>2. PICK q \in {"app", "login", "recovery", "settings", "reset", "resetError"} :
        tab' = Loaded(q) \/ tab' = [Loaded(q) EXCEPT !.flow = "fresh"]
  BY <1>1, AdmittedTo
<1>3. tab'.at = q /\ tab'.logout = "idle"
  BY <1>2 DEF Loaded
<1> QED BY <1>3, PageElsewhere

LEMMA SessionsInvStep == SessionsInv /\ [SessionsNext]_sessionVars => SessionsInv'
<1> SUFFICES ASSUME SessionsInv, [SessionsNext]_sessionVars
             PROVE  SessionsInv'
  OBVIOUS
<1>t. SessionsTypeOK'
  BY SessionsTypeStep DEF SessionsInv
<1>m. tab \in TabType
  BY DEF SessionsInv, SessionsTypeOK, TabType
<1>q. SUFFICES SignOutProgress' /\ SignedOutStaysOut' /\ ResetSignsOut'
  BY <1>t DEF SessionsInv
<1>1. CASE Visit
  BY <1>1, LoadedElsewhere DEF Visit
<1>2. CASE CheckSessionOnMount
  <2>1. /\ tab'.at = tab.at /\ tab'.logout = tab.logout /\ tab'.signedOut = tab.signedOut
        /\ UNCHANGED <<browserSession, tokenSession, mishaps>>
    BY <1>2, <1>m DEF CheckSessionOnMount, Show, NoMishap, cookies, TabType
  <2> QED BY <2>1 DEF SessionsInv, SignOutProgress, LogoutAt, SignedOutStaysOut, KnownSession, Known,
             ResetSignsOut
<1>3. CASE JoinByInvitation
  BY <1>3, LoadedElsewhere DEF JoinByInvitation
<1>4. CASE OpenSettings
  BY <1>4, LoadedElsewhere DEF OpenSettings
<1>5. CASE SessionEnds
  <2>1. /\ UNCHANGED tab /\ mishaps' = mishaps + 1 /\ mishaps \in Nat
        /\ browserSession' = browserSession \/ browserSession' = "dead"
    BY <1>5, SessionsAssumption DEF SessionEnds, Mishap, SessionsInv, SessionsTypeOK
  <2>2. mishaps' # 0
    BY <2>1
  <2>3. /\ KnownSession' => KnownSession
        /\ tokenSession = "none" => tokenSession' = "none"
    BY <1>5 DEF SessionEnds, KnownSession, Known
  <2> QED BY <2>1, <2>2, <2>3 DEF SessionsInv, SignOutProgress, LogoutAt, SignedOutStaysOut,
             ResetSignsOut
<1>6. CASE StartLogin
  <2>1. tab'.at = "login"
    BY <1>6, <1>m DEF StartLogin, LoginAt, Login, Show, TabType
  <2> QED BY <2>1, PageElsewhere
<1>7. CASE GetLoginFlow
  <2>1. tab'.at = "login"
    BY <1>7, <1>m DEF GetLoginFlow, LoginAt, Login, Show, TabType
  <2> QED BY <2>1, PageElsewhere
<1>8. CASE RedirectToKratos
  BY <1>8, LoadedElsewhere DEF RedirectToKratos, Login, Show
<1>9. CASE RetryLogin
  <2>1. tab'.at = "login"
    BY <1>9, <1>m DEF RetryLogin, LoginAt, Login, Show, TabType
  <2> QED BY <2>1, PageElsewhere
<1>10. CASE SubmitLogin
  BY <1>10, LoadedElsewhere DEF SubmitLogin
<1>11. CASE LoginFlowExpires
  <2>1. tab'.at = "login"
    BY <1>11, <1>m DEF LoginFlowExpires, Show, TabType
  <2> QED BY <2>1, PageElsewhere
<1>12. CASE StartLogout
  <2>1. tab'.at = "app" /\ tab'.logout = "creatingLogoutFlow"
    BY <1>12, <1>m DEF StartLogout, LogoutAt, Show, TabType
  <2> QED BY <2>1, PageElsewhere
<1>13. CASE CreateLogoutFlow
  <2>1. tab'.at = "app" /\ tab'.logout \in {"performingLogout", "clearingSession"}
    BY <1>13, <1>m DEF CreateLogoutFlow, LogoutAt, Show, Failed, TabType
  <2>2. LogoutAt("clearingSession")' /\ tab'.signedOut = "clean" => browserSession' # "live"
    BY <1>13, <1>m DEF CreateLogoutFlow, LogoutAt, Show, Failed, cookies, TabType
  <2> QED BY <2>1, <2>2 DEF SignOutProgress, LogoutAt, SignedOutStaysOut, ResetSignsOut
<1>14. CASE PerformLogout
  <2>1. /\ tab'.at = "app" /\ tab'.logout = "clearingSession"
        /\ browserSession' = "none" \/ tab'.signedOut = "failed"
    BY <1>14, <1>m DEF PerformLogout, LogoutAt, Failed, TabType
  <2> QED BY <2>1 DEF SignOutProgress, LogoutAt, SignedOutStaysOut, ResetSignsOut
<1>15. CASE ClearLocalSession
  <2>1. /\ tab'.at = "app" /\ tab'.logout = "redirecting" /\ tab'.signedOut = tab.signedOut
        /\ tokenSession' = "none" /\ UNCHANGED browserSession
    BY <1>15, <1>m DEF ClearLocalSession, LogoutAt, TabType
  <2> QED BY <1>15, <2>1 DEF ClearLocalSession, SessionsInv, SignOutProgress, LogoutAt,
             SignedOutStaysOut, ResetSignsOut
<1>16. CASE LogoutRedirect
  <2>1. /\ tab'.at = "landing" /\ tab'.signedOut = tab.signedOut
        /\ UNCHANGED <<browserSession, tokenSession>>
    BY <1>16 DEF LogoutRedirect, Show, Loaded, cookies
  <2> QED BY <1>16, <2>1 DEF LogoutRedirect, SessionsInv, SignOutProgress, LogoutAt,
             SignedOutStaysOut, KnownSession, Known, ResetSignsOut
<1>17. CASE SubmitRecoveryCode
  BY <1>17, LoadedElsewhere DEF SubmitRecoveryCode
<1>18. CASE InitSettings
  <2>1. CASE tab' = [tab EXCEPT !.login = "ready"]
    <3>1. tab'.at = "settings"
      BY <1>18, <1>m, <2>1 DEF InitSettings, TabType
    <3> QED BY <3>1, PageElsewhere
  <2>2. CASE tab' \in {Loaded("reset"), Loaded(Admitted("login", KnownSession))}
    BY <2>2, LoadedElsewhere
  <2> QED BY <1>18, <2>1, <2>2 DEF InitSettings
<1>19. CASE SaveSettings
  BY <1>19, LoadedElsewhere DEF SaveSettings
<1>20. CASE BackToDashboard
  BY <1>20, LoadedElsewhere DEF BackToDashboard
<1>21. CASE SubmitNewPassword
  BY <1>21, LoadedElsewhere DEF SubmitNewPassword
<1>22. CASE LeaveReset
  BY <1>22, LoadedElsewhere DEF LeaveReset
<1>23. CASE InitReset
  <2>1. CASE tab' = Loaded("resetDone")
    <3>1. tab'.at = "resetDone"
      BY <2>1 DEF Loaded
    <3>2. /\ [tab EXCEPT !.login = "ready"].at = tab.at /\ Loaded("resetError").at = "resetError"
          /\ Loaded(Admitted("login", KnownSession)).at \in {"login", "app"}
      BY <1>m DEF TabType, Loaded, Admitted, ProtectedRoutes
    <3>3. browserSession' # "live" \/ Mishap
      BY <1>23, <3>1, <3>2 DEF InitReset
    <3>4. Mishap => mishaps' # 0
      BY SessionsAssumption DEF Mishap, SessionsInv, SessionsTypeOK
    <3> QED BY <2>1, <3>1, <3>3, <3>4
            DEF Loaded, SignOutProgress, LogoutAt, SignedOutStaysOut, ResetSignsOut
  <2>2. CASE tab' = [tab EXCEPT !.login = "ready"]
    <3>1. tab'.at = "reset"
      BY <1>23, <1>m, <2>2 DEF InitReset, TabType
    <3> QED BY <3>1, PageElsewhere
  <2>3. CASE tab' \in {Loaded("resetError"), Loaded(Admitted("login", KnownSession))}
    BY <2>3, LoadedElsewhere
  <2> QED BY <1>23, <2>1, <2>2, <2>3 DEF InitReset
<1>24. CASE UNCHANGED sessionVars
  BY <1>24 DEF sessionVars, SessionsInv, SignOutProgress, LogoutAt, SignedOutStaysOut, KnownSession,
     Known, ResetSignsOut
<1> QED
  BY <1>1, <1>2, <1>3, <1>4, <1>5, <1>6, <1>7, <1>8, <1>9, <1>10, <1>11, <1>12,
     <1>13, <1>14, <1>15, <1>16, <1>17, <1>18, <1>19, <1>20, <1>21, <1>22,
     <1>23, <1>24 DEF SessionsNext

(* Type correctness of the sessions.                                       *)
THEOREM SessionsTypeCorrect == SessionsSpec => []SessionsTypeOK
<1>1. SessionsInv => SessionsTypeOK
  BY DEF SessionsInv
<1> QED BY <1>1, SessionsInitInv, SessionsInvStep, PTL DEF SessionsSpec

(* Where a sign-out ends the frontend's cookie is gone, and nobody is      *)
(* signed in unless one of its calls failed.                               *)
THEOREM SignOutHolds == SessionsSpec => []SignedOutStaysOut
<1>1. SessionsInv => SignedOutStaysOut
  BY DEF SessionsInv
<1> QED BY <1>1, SessionsInitInv, SessionsInvStep, PTL DEF SessionsSpec

(* A recovery in which nothing goes wrong ends with nobody signed in.      *)
THEOREM RecoverySignsOut == SessionsSpec => []ResetSignsOut
<1>1. SessionsInv => ResetSignsOut
  BY DEF SessionsInv
<1> QED BY <1>1, SessionsInitInv, SessionsInvStep, PTL DEF SessionsSpec
=============================================================================
